------------------------------ MODULE Repository ------------------------------
(***************************************************************************)
(* The audit repository (internal/audit/storage/bunrepo): the trail and    *)
(* its counters, as they are written by the recorders, emptied by the      *)
(* pruner and by an administrator's reset, and read by the admin API, page *)
(* by page or as metrics.  A step is one statement or one transaction of   *)
(* the database; a call of List or Metrics takes two statements, and       *)
(* everything else may happen between them.                                *)
(*                                                                         *)
(* Time is counted in half seconds, so that a bucket of a fraction of a    *)
(* second can be asked for.  What an event says, but for its time, is its  *)
(* kind, and a condition of a filter is the set of kinds it admits.        *)
(***************************************************************************)
EXTENDS Integers, FiniteSets

CONSTANTS Calls,         \* calls of Record
          Resets,        \* calls of the administrator's reset
          Counted,       \* the kinds that the policy counts: public summaries and 429s
          Uncounted,     \* all other kinds: steps, denials, admin and system events
          Marker,        \* the kind of "audit.reset"
          Times,         \* the moments at which something happens
          RetentionDays, \* AUDIT_RETENTION_DAYS
          DefaultLimit,  \* 50 in normalizeFilter
          MaxLimit,      \* 200 in normalizeFilter
          Limits,        \* the page sizes that are asked for
          Filters,       \* the filters that are asked for: from, to, kinds
          Queries        \* the metrics that are asked for: from, to, bucket, kinds

VARIABLES now,      \* the clock
          rows,     \* audit_events
          nextSeq,  \* its AUTOINCREMENT
          rollups,  \* audit_metric_rollups: the count of each key
          atomic,   \* whether the recorder finds AppendAuditBatch
          event,    \* the event of each call, and what the policy decided
          step,     \* how far each call has come
          walk,     \* a client that turns the pages of the trail
          metrics,  \* a request for metrics
          cutoff,   \* history: the latest moment before which rollups were pruned
          torn      \* history: calls whose rollup a reset deleted before their row came

tables == <<rows, nextSeq, rollups>>
readers == <<walk, metrics>>
history == <<cutoff, torn>>
vars == <<now, tables, atomic, event, step, readers, history>>

Second == 2
Minute == 60 * Second
Hour == 60 * Minute
Day == 24 * Hour

Kinds == Counted \cup Uncounted \cup {Marker}

\* Zero is Go's zero time, which stands for "not given".
ASSUME RepositoryAssumption ==
  /\ Times \subseteq Nat \ {0} /\ Times # {}
  /\ RetentionDays \in Int
  /\ Counted \cap Uncounted = {} /\ Marker \notin Counted
  /\ IsFiniteSet(Counted) /\ IsFiniteSet(Calls) /\ Calls \cap Resets = {}
  /\ DefaultLimit \in Nat \ {0} /\ MaxLimit \in Nat /\ DefaultLimit <= MaxLimit
  /\ Limits \subseteq Int
  /\ Filters \subseteq [from : Nat, to : Nat, kinds : SUBSET Kinds]
  /\ Queries \subseteq [from : Nat, to : Nat, bucket : Int, kinds : SUBSET Kinds]

\* Truncate(time.Minute) of NewMetricRollup.
MinuteOf(t) == t - (t % Minute)

Keys == {MinuteOf(t) : t \in Times} \X Counted
Key(e) == <<MinuteOf(e.at), e.kind>>

Row == [seq : Nat \ {0}, id : Calls \cup Resets, at : Times, kind : Kinds]

-----------------------------------------------------------------------------
(* Reading the tables.                                                     *)

\* The order of List, latest first: r comes after the position c.
Before(r, c) == r.at < c.at \/ (r.at = c.at /\ r.seq < c.seq)

Matching(f) == {r \in rows : /\ f.from = 0 \/ r.at >= f.from
                             /\ f.to = 0 \/ r.at <= f.to
                             /\ r.kind \in f.kinds}

Limit(n) == IF n <= 0 THEN DefaultLimit ELSE IF n > MaxLimit THEN MaxLimit ELSE n

\* LIMIT n OFFSET k over S in the order of List.
Slice(S, k, n) == {r \in S : Cardinality({q \in S : Before(r, q)}) \in k .. k + n - 1}

\* Rollups of the kinds of a query whose bucket starts in its range.
Measured(q) == {k \in Keys : k[1] \in q.from .. q.to /\ k[2] \in q.kinds}

\* What the rollups in K have counted, each numbered from 1.
Tally(K) == UNION {{k} \X (1 .. rollups[k]) : k \in K}

Sum(K) == Cardinality(Tally(K))

\* chooseBucket.
ChooseBucket(window) ==
  IF window <= Hour THEN 5 * Minute ELSE IF window <= 6 * Hour THEN 15 * Minute
  ELSE IF window <= Day THEN Hour ELSE IF window <= 7 * Day THEN 6 * Hour ELSE Day

\* normalizeMetricsFilter.
Normalized(q) ==
  LET to == IF q.to = 0 THEN now ELSE q.to
      from == IF q.from = 0 THEN to - Day ELSE q.from
  IN [q EXCEPT !.to = to, !.from = from,
               !.bucket = IF @ <= 0 THEN ChooseBucket(to - from) ELSE @]

WholeSeconds(b) == b \div Second

\* variant
BucketAfter(t, b) ==
  LET s == WholeSeconds(b) IN ((t \div Second) \div s + 1) * s * Second

\* bucketStart and, of a rollup, TimeBucketExpr.
BucketStart(t, b) ==
  LET s == WholeSeconds(b) IN ((t \div Second) \div s) * s * Second

\* The points of the answer, as the sum of their counts: the loop goes on by the
\* bucket as it was asked for, the rows are grouped by whole seconds.
PointsOf(q) ==
  LET first == BucketStart(q.from, q.bucket)
      shown == {((first + i * q.bucket) \div Second) * Second : i \in 0 .. (q.to - first) \div q.bucket}
  IN Sum({k \in Measured(q) : BucketStart(k[1], q.bucket) \in shown})

-----------------------------------------------------------------------------
(* Writing the tables.  Readers and their histories look on.               *)

Undecided == [at |-> 0, kind |-> Marker, persist |-> FALSE, count |-> FALSE]

IdleWalk == [on |-> "idle", legacy |-> FALSE, limit |-> 0,
             filter |-> [from |-> 0, to |-> 0, kinds |-> {}],
             cursor |-> [at |-> 0, seq |-> 0], offset |-> 0, total |-> 0,
             page |-> {}, seen |-> {}, kept |-> {}, grown |-> FALSE, shrunk |-> FALSE]

IdleMetrics == [on |-> "idle", query |-> [from |-> 0, to |-> 0, bucket |-> 0, kinds |-> {}],
                summary |-> 0, points |-> 0, grown |-> FALSE, shrunk |-> FALSE]

Init ==
  /\ now \in Times /\ \A t \in Times : now <= t
  /\ rows = {} /\ nextSeq = 1 /\ rollups = [k \in Keys |-> 0]
  /\ atomic \in BOOLEAN
  /\ event = [c \in Calls |-> Undecided]
  /\ step = [c \in Calls \cup Resets |-> "ready"]
  /\ walk = IdleWalk /\ metrics = IdleMetrics
  /\ cutoff = 0 /\ torn = {}

\* History: which rows stay throughout a walk, and whether the tables grew
\* between the two statements of a call or shrank while they were read.
LookOn ==
  /\ walk' = IF walk.on \in {"idle", "ended"} THEN walk ELSE
       [walk EXCEPT !.kept = @ \cap rows',
                    !.grown = @ \/ (walk.on = "counted" /\ ~(rows' \subseteq rows)),
                    !.shrunk = @ \/ ~(rows \subseteq rows')]
  /\ metrics' = IF metrics.on # "summed" THEN metrics ELSE
       [metrics EXCEPT !.grown = @ \/ \E k \in Keys : rollups'[k] > rollups[k],
                       !.shrunk = @ \/ \E k \in Keys : rollups'[k] < rollups[k]]

Tick ==
  /\ now' \in {t \in Times : t > now}
  /\ UNCHANGED <<tables, atomic, event, step, readers, history>>

\* The calls in C are over, and their events forgotten.
Return(C) ==
  /\ step' = [c \in Calls \cup Resets |-> IF c \in C THEN "done" ELSE step[c]]
  /\ event' = [c \in Calls |-> IF c \in C THEN Undecided ELSE event[c]]

\* PrepareEvent and the decision of the policy; both recorders start so.
Record(c) ==
  /\ step[c] = "ready"
  /\ \E k \in Counted \cup Uncounted, persist \in BOOLEAN :
       \/ /\ persist \/ k \in Counted
          /\ event' = [event EXCEPT ![c] =
               [at |-> now, kind |-> k, persist |-> persist, count |-> k \in Counted]]
          /\ step' = [step EXCEPT ![c] = "write"]
       \/ ~(persist \/ k \in Counted) /\ Return({c})
  /\ UNCHANGED <<now, tables, atomic, readers, history>>

\* variant
RowWithoutTime(c, seq) == [seq |-> seq, id |-> c, at |-> 0, kind |-> event[c].kind]

\* toEventModel.
RowOf(c, seq) == [seq |-> seq, id |-> c, at |-> event[c].at, kind |-> event[c].kind]

\* Insert the rows of the calls in C, in some order.
InsertRows(C) ==
  /\ \E p \in [C -> nextSeq .. nextSeq + Cardinality(C) - 1] :
       /\ \A c, d \in C : c # d => p[c] # p[d]
       /\ rows' = rows \cup {RowOf(c, p[c]) : c \in C}
  /\ nextSeq' = nextSeq + Cardinality(C)

\* mergeRollups and the upsert: each key grows by the calls that have it.
UpsertRollups(C) ==
  rollups' = [k \in Keys |-> rollups[k] + Cardinality({c \in C : Key(event[c]) = k})]

\* One transaction with the rows and the rollups of the calls in C: a batch of
\* the worker, or one call of SyncRecorder; AppendBatch or AppendMetricRollups
\* when it has only one of the two.
Append(C) ==
  /\ \A c \in C : step[c] = "write" /\ (atomic \/ ~(event[c].persist /\ event[c].count))
  /\ InsertRows({c \in C : event[c].persist})
  /\ UpsertRollups({c \in C : event[c].count})
  /\ Return(C)
  /\ UNCHANGED <<now, atomic, history>>
  /\ LookOn

\* variant
AppendRowFirst(c) ==
  /\ step[c] = "write" /\ ~atomic /\ event[c].persist /\ event[c].count
  /\ InsertRows({c})
  /\ step' = [step EXCEPT ![c] = "row"]
  /\ UNCHANGED <<now, rollups, atomic, event, history>>
  /\ LookOn

\* SyncRecorder without AppendAuditBatch: first the rollup...
AppendRollupFirst(c) ==
  /\ step[c] = "write" /\ ~atomic /\ event[c].persist /\ event[c].count
  /\ UpsertRollups({c})
  /\ step' = [step EXCEPT ![c] = "row"]
  /\ UNCHANGED <<now, rows, nextSeq, atomic, event, history>>
  /\ LookOn

\* ...then the row.
AppendRowThen(c) ==
  /\ step[c] = "row"
  /\ InsertRows({c})
  /\ Return({c})
  /\ UNCHANGED <<now, rollups, atomic, history>>
  /\ LookOn

\* A write fails, and is not tried again.
WriteFails(c) ==
  /\ step[c] \in {"write", "row"}
  /\ Return({c})
  /\ UNCHANGED <<now, tables, atomic, readers, history>>

Reset(r) ==
  /\ step[r] = "ready"
  /\ rows' = {[seq |-> nextSeq, id |-> r, at |-> now, kind |-> Marker]}
  /\ nextSeq' = nextSeq + 1
  /\ rollups' = [k \in Keys |-> 0]
  /\ step' = [step EXCEPT ![r] = "done"]
  /\ torn' = torn \cup {c \in Calls : step[c] = "row"}
  /\ LookOn
  /\ UNCHANGED <<now, atomic, event, cutoff>>

PruneRetention ==
  /\ RetentionDays > 0
  /\ LET before == now - RetentionDays * Day
     IN /\ rows' = {r \in rows : r.at >= before}
        /\ rollups' = [k \in Keys |-> IF k[1] < before THEN 0 ELSE rollups[k]]
        /\ cutoff' = IF before > cutoff THEN before ELSE cutoff
  /\ LookOn
  /\ UNCHANGED <<now, nextSeq, atomic, event, step, torn>>

-----------------------------------------------------------------------------
(* A client of the admin API turns the pages, by cursor or, like older     *)
(* callers, by offset, until the answer names no next page.                *)

BeginWalk ==
  /\ walk.on = "idle"
  /\ \E legacy \in BOOLEAN, limit \in Limits, f \in Filters :
       walk' = [IdleWalk EXCEPT !.on = "asked", !.legacy = legacy, !.limit = limit,
                                !.filter = f, !.kept = Matching(f)]
  /\ UNCHANGED <<now, tables, atomic, event, step, metrics, history>>

\* The count, whose condition leaves the cursor out.
ListTotal ==
  /\ walk.on = "asked"
  /\ walk' = [walk EXCEPT !.on = "counted", !.total = Cardinality(Matching(walk.filter)),
                          !.grown = FALSE]
  /\ UNCHANGED <<now, tables, atomic, event, step, metrics, history>>

\* variant
CandidatesInTime ==
  {r \in Matching(walk.filter) : walk.cursor.at = 0 \/ r.at < walk.cursor.at}

\* variant
CandidatesOrAt ==
  {r \in Matching(walk.filter) :
     walk.cursor.at = 0 \/ Before(r, walk.cursor) \/ r.seq = walk.cursor.seq}

\* The rows that match, beyond the cursor if there is one.
Candidates == {r \in Matching(walk.filter) : walk.cursor.at = 0 \/ Before(r, walk.cursor)}

\* variant
NextOffsetPast == walk.offset + (IF walk.limit <= 0 THEN DefaultLimit ELSE walk.limit) + 1

\* nextOffset of the handler, which does not know of the limit's upper bound.
NextOffset == walk.offset + (IF walk.limit <= 0 THEN DefaultLimit ELSE walk.limit)

\* The page, and where the handler says the next one is.
ListPage ==
  /\ walk.on = "counted"
  /\ LET n == Limit(walk.limit)
         page == Slice(Candidates, IF walk.cursor.at = 0 THEN walk.offset ELSE 0, n)
         hasNext == Cardinality(Slice(Candidates, walk.offset, n + 1)) > n
         turned == [walk EXCEPT !.page = page, !.seen = @ \cup walk.page]
     IN \/ /\ walk.legacy
           /\ walk' = IF NextOffset < walk.total
                        THEN [turned EXCEPT !.on = "asked", !.offset = NextOffset]
                        ELSE [turned EXCEPT !.on = "ended"]
        \/ /\ ~walk.legacy /\ hasNext
           /\ \E last \in page :
                /\ \A r \in page : r = last \/ Before(last, r)
                /\ walk' = [turned EXCEPT !.on = "asked",
                                          !.cursor = [at |-> last.at, seq |-> last.seq]]
        \/ /\ ~walk.legacy /\ ~hasNext
           /\ walk' = [turned EXCEPT !.on = "ended"]
  /\ UNCHANGED <<now, tables, atomic, event, step, metrics, history>>

-----------------------------------------------------------------------------
(* A request for metrics.                                                  *)

MetricsSummary ==
  /\ metrics.on = "idle"
  /\ \E q \in Queries :
       metrics' = [metrics EXCEPT !.on = "summed", !.query = Normalized(q),
                                  !.summary = Sum(Measured(Normalized(q)))]
  /\ UNCHANGED <<now, tables, atomic, event, step, walk, history>>

\* Division by zero in bucketStart: the request ends with 500.
MetricsPanics ==
  /\ metrics.on = "summed" /\ WholeSeconds(metrics.query.bucket) = 0
  /\ metrics' = [metrics EXCEPT !.on = "failed"]
  /\ UNCHANGED <<now, tables, atomic, event, step, walk, history>>

MetricsPoints ==
  /\ metrics.on = "summed" /\ WholeSeconds(metrics.query.bucket) # 0
  /\ metrics' = [metrics EXCEPT !.on = "answered", !.points = PointsOf(metrics.query)]
  /\ UNCHANGED <<now, tables, atomic, event, step, walk, history>>

Next ==
  \/ Tick \/ PruneRetention
  \/ \E c \in Calls : Record(c) \/ AppendRollupFirst(c) \/ AppendRowThen(c) \/ WriteFails(c)
  \/ \E C \in SUBSET Calls \ {{}} : Append(C)
  \/ \E r \in Resets : Reset(r)
  \/ BeginWalk \/ ListTotal \/ ListPage
  \/ MetricsSummary \/ MetricsPanics \/ MetricsPoints

Spec == Init /\ [][Next]_vars

-----------------------------------------------------------------------------
(* Properties.                                                             *)

\* Every variable keeps its type, and the two tables theirs: no row or count is
\* stored that no call of Record or Reset wrote.
TypeOK ==
  /\ now \in Times /\ atomic \in BOOLEAN /\ cutoff \in Nat /\ torn \subseteq Calls
  /\ rows \subseteq Row /\ nextSeq \in Nat \ {0} /\ rollups \in [Keys -> Nat]
  /\ event \in [Calls -> [at : Times \cup {0}, kind : Kinds, persist : BOOLEAN, count : BOOLEAN]]
  /\ step \in [Calls \cup Resets -> {"ready", "write", "row", "done"}]
  /\ walk \in [on : {"idle", "asked", "counted", "ended"}, legacy : BOOLEAN, limit : Int,
               filter : [from : Nat, to : Nat, kinds : SUBSET Kinds],
               cursor : [at : Nat, seq : Nat], offset : Nat, total : Nat,
               page : SUBSET Row, seen : SUBSET Row, kept : SUBSET Row,
               grown : BOOLEAN, shrunk : BOOLEAN]
  /\ metrics \in [on : {"idle", "summed", "failed", "answered"},
                  query : [from : Int, to : Int, bucket : Int, kinds : SUBSET Kinds],
                  summary : Nat, points : Nat, grown : BOOLEAN, shrunk : BOOLEAN]

\* Turning the pages by cursor never shows a row twice, and every page comes
\* after the one before it, whatever is written, reset or pruned between them.
NoRowTwice ==
  ~walk.legacy => \A p \in walk.page, s \in walk.seen : Before(p, s)

\* A walk by cursor that has ended has shown every row that matched when it began
\* and was not deleted since, rows of the same moment included.
WalkComplete ==
  walk.on = "ended" /\ ~walk.legacy => walk.kept \subseteq walk.seen \cup walk.page

\* A walk by offset does too, unless rows were deleted meanwhile, or the last
\* count was out of date when its page was read, or the page size exceeds the
\* bound that only List knows.
LegacyWalkComplete ==
  walk.on = "ended" /\ walk.legacy /\ ~walk.grown /\ ~walk.shrunk /\ walk.limit <= MaxLimit
    => walk.kept \subseteq walk.seen \cup walk.page

\* The points of an answer add up to its total, unless the rollups changed
\* between the two statements; a bucket with a fraction of a second may leave out
\* rollups, but no rollup is shown by two points.
MetricsAddUp ==
  metrics.on = "answered" =>
    /\ ~metrics.grown => metrics.points <= metrics.summary
    /\ ~metrics.shrunk /\ metrics.query.bucket % Second = 0 => metrics.points >= metrics.summary

\* The counters never fall behind the trail: a row that counts is counted, by
\* either recorder and with or without AppendAuditBatch, until its minute is
\* pruned; only without AppendAuditBatch may a reset come between the two writes
\* and leave a row behind that is not.
RowsAreCounted ==
  /\ atomic => torn = {}
  /\ \A k \in Keys : k[1] >= cutoff =>
       Cardinality({r \in rows : r.id \notin torn /\ Key(r) = k}) <= rollups[k]
=============================================================================
