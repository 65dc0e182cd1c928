--------------------------- MODULE RepositoryProofs ---------------------------
(***************************************************************************)
(* Theorems about Repository, for every number of calls, every set of      *)
(* moments, filters and page sizes: a walk over the pages of the trail     *)
(* misses and repeats nothing, and the counters keep up with the trail.    *)
(***************************************************************************)
EXTENDS Repository, FiniteSetTheorems, TLAPS

-----------------------------------------------------------------------------
(* The order of List, and what a slice of it is.                           *)

(* A finite set of rows, each with a sequence number of its own.           *)
Listed(S) ==
  /\ IsFiniteSet(S)
  /\ \A r \in S : r.at \in Nat /\ r.seq \in Nat
  /\ \A r, q \in S : r.seq = q.seq => r = q

(* The rows that List puts ahead of r.                                     *)
Ahead(S, r) == {q \in S : Before(r, q)}

(* Rows that differ are ordered, and only in one way.                      *)
LEMMA BeforeIsTotal ==
  ASSUME NEW S, Listed(S), NEW r \in S, NEW q \in S
  PROVE  /\ r # q => Before(r, q) \/ Before(q, r)
         /\ ~(Before(r, q) /\ Before(q, r)) /\ ~Before(r, r)
<1>1. r.at \in Nat /\ r.seq \in Nat /\ q.at \in Nat /\ q.seq \in Nat
  BY DEF Listed
<1>2. r.seq = q.seq => r = q
  BY DEF Listed
<1> QED
  BY <1>1, <1>2 DEF Before

(* What is ahead of a row is ahead of every row behind it.                 *)
LEMMA AheadIsNested ==
  ASSUME NEW S, Listed(S), NEW r \in S, NEW q \in S, Before(r, q)
  PROVE  Ahead(S, q) \subseteq Ahead(S, r) /\ q \in Ahead(S, r) /\ q \notin Ahead(S, q)
<1>1. ASSUME NEW p \in S, Before(q, p) PROVE Before(r, p)
  <2>1. \A s \in {p, q, r} : s.at \in Nat /\ s.seq \in Nat
    BY DEF Listed
  <2> QED
    BY <2>1, <1>1 DEF Before
<1> QED
  BY <1>1, BeforeIsTotal DEF Ahead

(* How many are ahead of a row is a number, and grows along the list.      *)
LEMMA RankGrows ==
  ASSUME NEW S, Listed(S)
  PROVE  /\ \A r \in S : IsFiniteSet(Ahead(S, r)) /\ Cardinality(Ahead(S, r)) \in Nat
         /\ \A r, q \in S : Before(r, q) => Cardinality(Ahead(S, q)) < Cardinality(Ahead(S, r))
<1>1. ASSUME NEW r \in S
      PROVE  IsFiniteSet(Ahead(S, r)) /\ Cardinality(Ahead(S, r)) \in Nat
  <2>1. Ahead(S, r) \in SUBSET S /\ IsFiniteSet(S)
    BY DEF Ahead, Listed
  <2> QED
    BY <2>1, FS_Subset, FS_CardinalityType
<1>2. ASSUME NEW r \in S, NEW q \in S, Before(r, q)
      PROVE  Cardinality(Ahead(S, q)) < Cardinality(Ahead(S, r))
  <2>1. Ahead(S, q) \in SUBSET Ahead(S, r) /\ Ahead(S, q) # Ahead(S, r)
    BY <1>2, AheadIsNested
  <2>2. /\ Cardinality(Ahead(S, q)) <= Cardinality(Ahead(S, r))
        /\ Cardinality(Ahead(S, r)) # Cardinality(Ahead(S, q))
    BY <2>1, <1>1, FS_Subset
  <2> QED
    BY <2>2, <1>1
<1> QED
  BY <1>1, <1>2

(* A row that a page leaves out comes after every row that it shows.       *)
LEMMA LeftOutComesAfter ==
  ASSUME NEW S, Listed(S), NEW n \in Nat,
         NEW r \in S, r \notin Slice(S, 0, n), NEW q \in Slice(S, 0, n)
  PROVE  Before(r, q)
<1>1. q \in S /\ Cardinality(Ahead(S, q)) \in 0 .. n - 1
  BY DEF Slice, Ahead
<1>2. Cardinality(Ahead(S, r)) \in Nat /\ ~(Cardinality(Ahead(S, r)) < n)
  BY RankGrows DEF Slice, Ahead
<1>3. ~Before(q, r)
  BY <1>1, <1>2, RankGrows
<1> QED
  BY <1>1, <1>3, BeforeIsTotal

(* If one row more than the page is asked for and does not come, the page  *)
(* has all of them.                                                        *)
LEMMA NoNextPage ==
  ASSUME NEW S, Listed(S), NEW n \in Nat, ~(Cardinality(Slice(S, 0, n + 1)) > n)
  PROVE  S \subseteq Slice(S, 0, n)
<1> DEFINE U == S \ Slice(S, 0, n)
           T == {Ahead(S, r) : r \in U}
<1> SUFFICES ASSUME U # {} PROVE FALSE
  OBVIOUS
<1>1. IsWellFoundedOn(StrictSubsetOrdering(S), FiniteSubsetsOf(S))
  BY FS_StrictSubsetOrderingWellFounded
<1>2. T \subseteq FiniteSubsetsOf(S) /\ T # {}
  BY RankGrows DEF FiniteSubsetsOf, Ahead
<1>3. PICK A \in T : \A B \in T : <<B, A>> \notin StrictSubsetOrdering(S)
  <2> HIDE DEF T
  <2> QED
    BY <1>1, <1>2, WFMin
<1>4. PICK q \in U : A = Ahead(S, q)
  OBVIOUS
<1>5. ASSUME NEW r \in U PROVE ~Before(q, r)
  <2> SUFFICES ASSUME Before(q, r) PROVE FALSE
    OBVIOUS
  <2>1. Ahead(S, r) \subseteq Ahead(S, q) /\ r \in Ahead(S, q) /\ r \notin Ahead(S, r)
    BY AheadIsNested
  <2>2. Ahead(S, r) \in T
    OBVIOUS
  <2>3. <<Ahead(S, r), Ahead(S, q)>> \in StrictSubsetOrdering(S)
    BY <2>1 DEF StrictSubsetOrdering, Ahead
  <2> QED
    BY <2>2, <2>3, <1>3, <1>4
<1>6. Ahead(S, q) = Slice(S, 0, n)
  <2>1. \A r \in Slice(S, 0, n) : r \in S /\ Before(q, r)
    BY LeftOutComesAfter DEF Slice
  <2> QED
    BY <2>1, <1>5 DEF Ahead
<1>7. IsFiniteSet(Slice(S, 0, n + 1)) /\ Cardinality(Slice(S, 0, n + 1)) \in Nat
  <2>1. Slice(S, 0, n + 1) \in SUBSET S /\ IsFiniteSet(S)
    BY DEF Slice, Listed
  <2> QED
    BY <2>1, FS_Subset, FS_CardinalityType
<1>8. Slice(S, 0, n) \in SUBSET Slice(S, 0, n + 1)
  BY DEF Slice
<1>9. Cardinality(Ahead(S, q)) \in Nat /\ Cardinality(Ahead(S, q)) <= n
  BY <1>6, <1>7, <1>8, FS_Subset, RankGrows
<1>10. q \in Slice(S, 0, n + 1)
  BY <1>9 DEF Slice, Ahead
<1>11. Slice(S, 0, n) \cup {q} \in SUBSET Slice(S, 0, n + 1)
  BY <1>8, <1>10
<1>12. /\ IsFiniteSet(Slice(S, 0, n))
       /\ Cardinality(Slice(S, 0, n) \cup {q}) = Cardinality(Slice(S, 0, n)) + 1
  BY <1>7, <1>8, FS_Subset, FS_AddElement
<1>13. Cardinality(Slice(S, 0, n)) + 1 <= n
  BY <1>7, <1>11, <1>12, <1>9, <1>6, FS_Subset
<1>14. Cardinality(Ahead(S, q)) < n
  BY <1>13, <1>6, <1>9
<1>15. q \in Slice(S, 0, n)
  BY <1>14, <1>9 DEF Slice, Ahead
<1> QED
  BY <1>15

(* A subset of the rows is listed like all of them.                        *)
LEMMA ListedSubset ==
  ASSUME NEW S, Listed(S), NEW T \in SUBSET S PROVE Listed(T)
BY FS_Subset DEF Listed

-----------------------------------------------------------------------------
(* The tables and their writers.                                           *)

(* audit_events: what its columns hold, and its sequence numbers.          *)
Stored ==
  /\ Listed(rows) /\ rows \subseteq Row
  /\ nextSeq \in Nat \ {0} /\ \A r \in rows : r.seq < nextSeq

EventType == [at : Times \cup {0}, kind : Kinds, persist : BOOLEAN, count : BOOLEAN]

(* A call that writes has an event whose kind says whether it counts; only *)
(* without AppendAuditBatch does it write in two steps.                    *)
Writing ==
  /\ now \in Times /\ event \in [Calls -> EventType]
  /\ step \in [Calls \cup Resets -> {"ready", "write", "row", "done"}]
  /\ \A c \in Calls : step[c] \in {"write", "row"} =>
       /\ event[c].at \in Times
       /\ event[c].kind \in Counted <=> event[c].count
  /\ \A c \in Calls : step[c] = "row" => ~atomic

(* The database is empty, and no call has begun.                           *)
LEMMA InitTables == Init => Stored /\ Writing
<1> SUFFICES ASSUME Init PROVE Stored /\ Writing
  OBVIOUS
<1>1. Stored
  BY FS_EmptySet DEF Init, Stored, Listed
<1>2. Undecided \in EventType
  BY DEF Undecided, EventType, Kinds
<1>3. now \in Times /\ event \in [Calls -> EventType]
  BY <1>2 DEF Init
<1>4. /\ step \in [Calls \cup Resets -> {"ready", "write", "row", "done"}]
      /\ \A c \in Calls : step[c] = "ready"
  BY DEF Init
<1> QED
  BY <1>1, <1>3, <1>4 DEF Writing

(* A function on a finite set has no more values than arguments.           *)
LEMMA FewValues ==
  ASSUME NEW C, IsFiniteSet(C), NEW f
  PROVE  IsFiniteSet({f[c] : c \in C}) /\ Cardinality({f[c] : c \in C}) <= Cardinality(C)
<1> DEFINE T == {f[c] : c \in C}
           g == [c \in C |-> f[c]]
<1>1. g \in Surjection(C, T)
  BY DEF Surjection
<1> QED
  BY <1>1, FS_Surjection

(* Calls are finite in number, and so is each set of them.                 *)
LEMMA FewCalls ==
  ASSUME NEW C \in SUBSET Calls PROVE IsFiniteSet(C) /\ Cardinality(C) \in Nat
BY RepositoryAssumption, FS_Subset, FS_CardinalityType

(* A row has the time and the kind of its event, and hence its key.        *)
LEMMA RowOfCall ==
  ASSUME Writing, NEW c \in Calls, step[c] \in {"write", "row"}, NEW s \in Nat \ {0}
  PROVE  /\ RowOf(c, s) \in Row /\ RowOf(c, s).seq = s /\ RowOf(c, s).id = c
         /\ Key(RowOf(c, s)) = Key(event[c]) /\ RowOf(c, s).kind = event[c].kind
<1>1. event[c] \in EventType /\ event[c].at \in Times
  BY DEF Writing
<1> QED
  BY <1>1 DEF RowOf, Row, Key, EventType

(* What InsertRows adds: a row for each call, with new sequence numbers.   *)
LEMMA InsertAdds ==
  ASSUME Stored, Writing, NEW C \in SUBSET Calls,
         \A c \in C : step[c] \in {"write", "row"}, InsertRows(C)
  PROVE  /\ Stored'
         /\ \E f : /\ rows' = rows \cup {f[c] : c \in C}
                   /\ \A c \in C : f[c].id = c /\ Key(f[c]) = Key(event[c])
                                     /\ f[c].kind = event[c].kind
<1>1. PICK p \in [C -> nextSeq .. nextSeq + Cardinality(C) - 1] :
        /\ \A c, d \in C : c # d => p[c] # p[d]
        /\ rows' = rows \cup {RowOf(c, p[c]) : c \in C}
  BY DEF InsertRows
<1>2. nextSeq' = nextSeq + Cardinality(C) /\ nextSeq \in Nat \ {0} /\ Cardinality(C) \in Nat
  BY FewCalls DEF InsertRows, Stored
<1> DEFINE f == [c \in C |-> RowOf(c, p[c])]
<1>3. ASSUME NEW c \in C
      PROVE  /\ p[c] \in Nat \ {0} /\ nextSeq <= p[c] /\ p[c] < nextSeq'
             /\ f[c] \in Row /\ f[c].seq = p[c] /\ f[c].id = c
             /\ Key(f[c]) = Key(event[c]) /\ f[c].kind = event[c].kind
  <2>1. p[c] \in nextSeq .. nextSeq + Cardinality(C) - 1
    OBVIOUS
  <2>2. p[c] \in Nat \ {0} /\ nextSeq <= p[c] /\ p[c] < nextSeq'
    BY <2>1, <1>2
  <2>3. f[c] = RowOf(c, p[c])
    OBVIOUS
  <2> HIDE DEF f
  <2> QED
    BY <2>2, <2>3, RowOfCall
<1>4. {RowOf(c, p[c]) : c \in C} = {f[c] : c \in C}
  OBVIOUS
<1> HIDE DEF f
<1>5. IsFiniteSet({f[c] : c \in C})
  <2>1. IsFiniteSet(C)
    BY FewCalls
  <2> QED
    BY <2>1, FewValues
<1>6. rows' = rows \cup {f[c] : c \in C}
  BY <1>1, <1>4
<1>7. rows' \subseteq Row /\ \A r \in rows' : r.seq < nextSeq'
  <2>1. rows \subseteq Row /\ \A r \in rows : r.seq \in Nat /\ r.seq < nextSeq'
    BY <1>2 DEF Stored, Listed
  <2> QED
    BY <2>1, <1>3, <1>6
<1>8. IsFiniteSet(rows')
  BY <1>5, <1>6, FS_Union DEF Stored, Listed
<1>9. \A r \in rows' : r.at \in Nat /\ r.seq \in Nat
  BY <1>7, RepositoryAssumption DEF Row
<1>10. \A r, q \in rows' : r.seq = q.seq => r = q
  <2>1. \A r \in rows : r.seq \in Nat /\ r.seq < nextSeq
    BY DEF Stored, Listed
  <2>2. \A r \in rows, c \in C : r.seq # f[c].seq
    BY <2>1, <1>3, <1>2
  <2>3. \A c, d \in C : f[c].seq = f[d].seq => f[c] = f[d]
    BY <1>3, <1>1
  <2>4. \A r, q \in rows : r.seq = q.seq => r = q
    BY DEF Stored, Listed
  <2> QED
    BY <2>2, <2>3, <2>4, <1>6
<1>11. Listed(rows')
  BY <1>8, <1>9, <1>10 DEF Listed
<1>12. Stored'
  BY <1>2, <1>7, <1>11 DEF Stored, Listed
<1> QED
  BY <1>3, <1>6, <1>12

(* No statement repeats a sequence number, a reset included.               *)
LEMMA StoredStep ==
  ASSUME Stored, Writing, [Next]_vars PROVE Stored'
<1>1. ASSUME NEW C \in SUBSET Calls, Append(C) PROVE Stored'
  <2>1. \A c \in {c \in C : event[c].persist} : step[c] \in {"write", "row"}
    BY <1>1 DEF Append
  <2> QED
    BY <1>1, <2>1, InsertAdds DEF Append
<1>2. ASSUME NEW c \in Calls, AppendRowThen(c) PROVE Stored'
  BY <1>2, InsertAdds DEF AppendRowThen
<1>3. ASSUME NEW r \in Resets, Reset(r) PROVE Stored'
  <2> DEFINE marker == [seq |-> nextSeq, id |-> r, at |-> now, kind |-> Marker]
  <2>1. nextSeq \in Nat \ {0} /\ now \in Times
    BY DEF Stored, Writing
  <2>2. marker \in Row /\ marker.at \in Nat /\ marker.seq = nextSeq
    BY <2>1, RepositoryAssumption DEF Row, Kinds
  <2>3. rows' = {marker} /\ nextSeq' = nextSeq + 1
    BY <1>3 DEF Reset
  <2> HIDE DEF marker
  <2>4. Listed(rows')
    BY <2>1, <2>2, <2>3, FS_Singleton DEF Listed
  <2> QED
    BY <2>1, <2>2, <2>3, <2>4 DEF Stored, Listed
<1>4. ASSUME PruneRetention PROVE Stored'
  <2>1. rows' \in SUBSET rows /\ nextSeq' = nextSeq
    BY <1>4 DEF PruneRetention
  <2>2. Listed(rows')
    BY <2>1, ListedSubset DEF Stored
  <2> QED
    BY <2>1, <2>2 DEF Stored, Listed
<1>5. ASSUME UNCHANGED <<rows, nextSeq>> PROVE Stored'
  BY <1>5 DEF Stored, Listed
<1> QED
  BY <1>1, <1>2, <1>3, <1>4, <1>5
  DEF Next, vars, tables, Tick, Record, AppendRollupFirst, WriteFails, BeginWalk, ListTotal,
      ListPage, MetricsSummary, MetricsPanics, MetricsPoints

(* A call that is over has no event, and the others keep theirs.           *)
LEMMA ReturnKeepsWriting ==
  ASSUME Writing, NEW C \in SUBSET Calls, Return(C), now' = now, atomic' = atomic
  PROVE  Writing'
<1>1. Undecided \in EventType
  BY DEF Undecided, EventType, Kinds
<1>2. event' \in [Calls -> EventType]
  BY <1>1 DEF Return, Writing
<1>3. step' \in [Calls \cup Resets -> {"ready", "write", "row", "done"}]
  BY DEF Return, Writing
<1>4. \A c \in Calls : step'[c] \in {"write", "row"} => step'[c] = step[c] /\ event'[c] = event[c]
  BY DEF Return, Writing
<1> QED
  BY <1>2, <1>3, <1>4 DEF Writing

(* Every step keeps the calls as Writing says.                             *)
LEMMA WritingStep ==
  ASSUME Writing, [Next]_vars PROVE Writing'
<1>1. ASSUME NEW c \in Calls, Record(c) PROVE Writing'
  <2>1. PICK k \in Counted \cup Uncounted, persist \in BOOLEAN :
          \/ /\ event' = [event EXCEPT ![c] =
                  [at |-> now, kind |-> k, persist |-> persist, count |-> k \in Counted]]
             /\ step' = [step EXCEPT ![c] = "write"]
          \/ Return({c})
    BY <1>1 DEF Record
  <2>2. now' = now /\ atomic' = atomic
    BY <1>1 DEF Record
  <2>3. CASE Return({c})
    BY <2>2, <2>3, ReturnKeepsWriting
  <2>4. CASE /\ event' = [event EXCEPT ![c] =
                    [at |-> now, kind |-> k, persist |-> persist, count |-> k \in Counted]]
             /\ step' = [step EXCEPT ![c] = "write"]
    <3> DEFINE new == [at |-> now, kind |-> k, persist |-> persist, count |-> k \in Counted]
    <3>1. (k \in Counted) \in BOOLEAN
      OBVIOUS
    <3>2. new \in EventType
      BY <3>1, Zenon DEF EventType, Kinds, Writing
    <3>3. new.at = now /\ new.kind = k
      OBVIOUS
    <3>4. new.count = (k \in Counted)
      BY Zenon
    <3> HIDE DEF new
    <3>5. event' = [event EXCEPT ![c] = new] /\ step' = [step EXCEPT ![c] = "write"]
      BY <2>4, Zenon DEF new
    <3>6. event' \in [Calls -> EventType] /\ event'[c] = new
            /\ \A d \in Calls \ {c} : event'[d] = event[d]
      BY <3>2, <3>5 DEF Writing
    <3>7. /\ step' \in [Calls \cup Resets -> {"ready", "write", "row", "done"}]
          /\ step'[c] = "write" /\ \A d \in Calls \ {c} : step'[d] = step[d]
      BY <3>5 DEF Writing
    <3> QED
      BY <3>3, <3>4, <3>6, <3>7, <2>2 DEF Writing
  <2> QED
    BY <2>1, <2>3, <2>4
<1>2. ASSUME NEW c \in Calls, AppendRollupFirst(c) PROVE Writing'
  <2>1. /\ step' = [step EXCEPT ![c] = "row"] /\ UNCHANGED <<now, atomic, event>>
        /\ step[c] = "write" /\ ~atomic
    BY <1>2 DEF AppendRollupFirst
  <2> QED
    BY <2>1 DEF Writing
<1>3. ASSUME NEW r \in Resets, Reset(r) PROVE Writing'
  <2>1. step' = [step EXCEPT ![r] = "done"] /\ UNCHANGED <<now, atomic, event>>
    BY <1>3 DEF Reset
  <2> QED
    BY <2>1 DEF Writing
<1>4. ASSUME Tick PROVE Writing'
  BY <1>4 DEF Tick, Writing
<1>5. ASSUME NEW C \in SUBSET Calls, Return(C), UNCHANGED <<now, atomic>> PROVE Writing'
  BY <1>5, ReturnKeepsWriting
<1>6. ASSUME UNCHANGED <<now, atomic, event, step>> PROVE Writing'
  BY <1>6 DEF Writing
<1> QED
  BY <1>1, <1>2, <1>3, <1>4, <1>5, <1>6
  DEF Next, vars, Append, AppendRowThen, WriteFails, PruneRetention, BeginWalk, ListTotal,
      ListPage, MetricsSummary, MetricsPanics, MetricsPoints


-----------------------------------------------------------------------------
(* The pages of a walk.                                                    *)

Walk == [on : {"idle", "asked", "counted", "ended"}, legacy : BOOLEAN, limit : Int,
         filter : [from : Nat, to : Nat, kinds : SUBSET Kinds],
         cursor : [at : Nat, seq : Nat], offset : Nat, total : Nat,
         page : SUBSET Row, seen : SUBSET Row, kept : SUBSET Row,
         grown : BOOLEAN, shrunk : BOOLEAN]

Turning == walk.on \in {"asked", "counted"}
Shown == walk.seen \cup walk.page

(* Nothing is shown before the walk begins, and what is kept matches.      *)
Walking ==
  /\ walk \in Walk
  /\ walk.on = "idle" => Shown = {} /\ walk.legacy = FALSE
  /\ Turning => walk.kept \subseteq Matching(walk.filter)

(* All that was shown lies up to the cursor, and all that is left beyond.  *)
ByCursor ==
  /\ NoRowTwice
  /\ WalkComplete
  /\ Turning /\ ~walk.legacy =>
       /\ walk.offset = 0
       /\ walk.cursor.at = 0 => Shown = {}
       /\ walk.cursor.at # 0 =>
            /\ \A s \in Shown : (s.at = walk.cursor.at /\ s.seq = walk.cursor.seq)
                                  \/ Before(walk.cursor, s)
            /\ \A r \in walk.kept \ Shown : Before(r, walk.cursor)

(* At least as many rows as the offset are ahead of each that is left.     *)
ByOffset ==
  /\ LegacyWalkComplete
  /\ Turning /\ walk.legacy =>
       /\ walk.cursor.at = 0
       /\ ~walk.shrunk /\ walk.limit <= MaxLimit =>
            \A r \in walk.kept \ Shown :
              Cardinality(Ahead(Matching(walk.filter), r)) >= walk.offset
       /\ walk.on = "counted" /\ ~walk.grown /\ ~walk.shrunk =>
            walk.total = Cardinality(Matching(walk.filter))

(* A step turns a page, or writes while the walk looks on, or neither.     *)
LEMMA StepKinds ==
  ASSUME [Next]_vars
  PROVE  \/ UNCHANGED <<rows, walk>>
         \/ LookOn
         \/ rows' = rows /\ (BeginWalk \/ ListTotal \/ ListPage)
BY DEF Next, vars, tables, readers, Tick, Record, Append, AppendRollupFirst, AppendRowThen,
   WriteFails, Reset, PruneRetention, BeginWalk, ListTotal, ListPage, MetricsSummary,
   MetricsPanics, MetricsPoints

(* What writing does to a walk that is under way.                          *)
LEMMA WalkLooksOn ==
  ASSUME Walking, LookOn, Turning
  PROVE  /\ walk' \in Walk
         /\ walk'.on = walk.on /\ walk'.legacy = walk.legacy /\ walk'.limit = walk.limit
         /\ walk'.filter = walk.filter /\ walk'.cursor = walk.cursor
         /\ walk'.offset = walk.offset /\ walk'.total = walk.total
         /\ walk'.page = walk.page /\ walk'.seen = walk.seen
         /\ walk'.kept = walk.kept \cap rows'
         /\ ~walk'.shrunk => ~walk.shrunk /\ rows \subseteq rows'
         /\ ~walk'.grown => ~walk.grown /\ (walk.on = "counted" => rows' \subseteq rows)
<1> DEFINE g == walk.grown \/ (walk.on = "counted" /\ ~(rows' \subseteq rows))
           s == walk.shrunk \/ ~(rows \subseteq rows')
<1>1. g \in BOOLEAN /\ s \in BOOLEAN
  OBVIOUS
<1>2. /\ ~s => ~walk.shrunk /\ rows \subseteq rows'
      /\ ~g => ~walk.grown /\ (walk.on = "counted" => rows' \subseteq rows)
  OBVIOUS
<1>3. walk' = [walk EXCEPT !.kept = walk.kept \cap rows', !.grown = g, !.shrunk = s]
  BY Zenon DEF LookOn, Turning
<1>4. walk \in Walk
  BY DEF Walking
<1> HIDE DEF g, s
<1>5. walk' \in Walk /\ walk'.grown = g /\ walk'.shrunk = s
  BY <1>1, <1>3, <1>4 DEF Walk
<1> QED
  BY <1>2, <1>3, <1>4, <1>5 DEF Walk

(* A walk that is not under way is not changed by writing.                 *)
LEMMA WalkAtRest == LookOn /\ Walking /\ ~Turning => walk' = walk
BY DEF LookOn, Walking, Walk, Turning

(* The rows that match are listed, and so are those beyond the cursor.     *)
LEMMA MatchingListed ==
  ASSUME Stored, NEW f
  PROVE  Listed(Matching(f)) /\ Matching(f) \subseteq Row
BY ListedSubset DEF Stored, Matching

LEMMA CandidatesListed ==
  ASSUME Stored PROVE Listed(Candidates) /\ Candidates \subseteq Matching(walk.filter)
BY MatchingListed, ListedSubset DEF Candidates

(* The bounds of a page's size.                                            *)
LEMMA LimitType ==
  ASSUME NEW n \in Int
  PROVE  /\ Limit(n) \in Nat \ {0}
         /\ n <= MaxLimit => Limit(n) = (IF n <= 0 THEN DefaultLimit ELSE n)
BY RepositoryAssumption DEF Limit

(* The walk that begins.                                                   *)
LEMMA WalkBegins ==
  ASSUME BeginWalk, Stored
  PROVE  /\ walk' \in Walk /\ walk'.on = "asked" /\ walk'.offset = 0 /\ walk'.cursor.at = 0
         /\ walk'.page = {} /\ walk'.seen = {} /\ walk'.kept = Matching(walk'.filter)
<1>1. PICK legacy \in BOOLEAN, limit \in Limits, f \in Filters :
        walk' = [IdleWalk EXCEPT !.on = "asked", !.legacy = legacy, !.limit = limit,
                                 !.filter = f, !.kept = Matching(f)]
  BY DEF BeginWalk
<1>2. walk' = [on |-> "asked", legacy |-> legacy, limit |-> limit, filter |-> f,
               cursor |-> [at |-> 0, seq |-> 0], offset |-> 0, total |-> 0,
               page |-> {}, seen |-> {}, kept |-> Matching(f), grown |-> FALSE, shrunk |-> FALSE]
  BY <1>1, Zenon DEF IdleWalk
<1>3. Matching(f) \subseteq Row
  BY MatchingListed
<1>4. f \in [from : Nat, to : Nat, kinds : SUBSET Kinds] /\ limit \in Int
  BY RepositoryAssumption
<1>5. walk' \in Walk
  BY <1>2, <1>3, <1>4, Zenon DEF Walk
<1> QED
  BY <1>2, <1>5

(* The walk that has counted.                                              *)
LEMMA WalkCounts ==
  ASSUME ListTotal, Stored, Walking
  PROVE  /\ walk' \in Walk /\ walk'.on = "counted" /\ ~walk'.grown
         /\ walk'.total = Cardinality(Matching(walk.filter)) /\ walk'.shrunk = walk.shrunk
         /\ walk'.legacy = walk.legacy /\ walk'.limit = walk.limit
         /\ walk'.filter = walk.filter /\ walk'.cursor = walk.cursor
         /\ walk'.offset = walk.offset /\ walk'.page = walk.page
         /\ walk'.seen = walk.seen /\ walk'.kept = walk.kept
<1>1. Cardinality(Matching(walk.filter)) \in Nat
  BY MatchingListed, FS_CardinalityType DEF Listed
<1>2. walk' = [walk EXCEPT !.on = "counted", !.total = Cardinality(Matching(walk.filter)),
                           !.grown = FALSE]
  BY DEF ListTotal
<1> QED
  BY <1>1, <1>2 DEF Walking, Walk

(* The page that ListPage reads, and whether a further row was found.      *)
PageRead == Slice(Candidates, IF walk.cursor.at = 0 THEN walk.offset ELSE 0, Limit(walk.limit))
HasNext == Cardinality(Slice(Candidates, walk.offset, Limit(walk.limit) + 1)) > Limit(walk.limit)

(* The walk that has turned its page.                                      *)
LEMMA WalkTurns ==
  ASSUME ListPage, Stored, Walking
  PROVE  /\ walk.on = "counted" /\ walk' \in Walk /\ walk'.on \in {"asked", "ended"}
         /\ walk'.page = PageRead /\ walk'.seen = Shown
         /\ walk'.legacy = walk.legacy /\ walk'.limit = walk.limit
         /\ walk'.filter = walk.filter /\ walk'.kept = walk.kept
         /\ walk'.grown = walk.grown /\ walk'.shrunk = walk.shrunk
         /\ walk.legacy =>
              /\ walk'.cursor = walk.cursor
              /\ \/ walk'.on = "asked" /\ walk'.offset = NextOffset
                 \/ walk'.on = "ended" /\ ~(NextOffset < walk.total)
         /\ ~walk.legacy => walk'.offset = walk.offset
         /\ ~walk.legacy /\ walk'.on = "ended" => ~HasNext
         /\ ~walk.legacy /\ walk'.on = "asked" =>
              \E last \in PageRead :
                /\ \A r \in PageRead : r = last \/ Before(last, r)
                /\ walk'.cursor.at = last.at /\ walk'.cursor.seq = last.seq
<1> DEFINE turned == [walk EXCEPT !.page = PageRead, !.seen = Shown]
<1>1. walk.on = "counted" /\ walk \in Walk
  BY DEF ListPage, Walking
<1>2. PageRead \subseteq Row /\ Shown \subseteq Row
  BY <1>1, MatchingListed, CandidatesListed DEF PageRead, Slice, Shown, Walk
<1>3. NextOffset \in Nat
  BY <1>1, RepositoryAssumption DEF NextOffset, Walk
<1>4. /\ turned \in Walk /\ turned.page = PageRead /\ turned.seen = Shown
      /\ turned.on = "counted" /\ turned.legacy = walk.legacy /\ turned.limit = walk.limit
      /\ turned.filter = walk.filter /\ turned.kept = walk.kept
      /\ turned.grown = walk.grown /\ turned.shrunk = walk.shrunk
      /\ turned.cursor = walk.cursor /\ turned.offset = walk.offset
  BY <1>1, <1>2 DEF Walk
<1>5. \/ walk.legacy /\ walk' = (IF NextOffset < walk.total
                                   THEN [turned EXCEPT !.on = "asked", !.offset = NextOffset]
                                   ELSE [turned EXCEPT !.on = "ended"])
      \/ /\ ~walk.legacy
         /\ \E last \in PageRead :
              /\ \A r \in PageRead : r = last \/ Before(last, r)
              /\ walk' = [turned EXCEPT !.on = "asked",
                                        !.cursor = [at |-> last.at, seq |-> last.seq]]
      \/ ~walk.legacy /\ ~HasNext /\ walk' = [turned EXCEPT !.on = "ended"]
  BY Zenon DEF ListPage, PageRead, HasNext, Shown
<1> HIDE DEF turned
<1>6. CASE walk.legacy /\ walk' = (IF NextOffset < walk.total
                                     THEN [turned EXCEPT !.on = "asked", !.offset = NextOffset]
                                     ELSE [turned EXCEPT !.on = "ended"])
  BY <1>1, <1>3, <1>4, <1>6 DEF Walk
<1>7. CASE /\ ~walk.legacy
           /\ \E last \in PageRead :
                /\ \A r \in PageRead : r = last \/ Before(last, r)
                /\ walk' = [turned EXCEPT !.on = "asked",
                                          !.cursor = [at |-> last.at, seq |-> last.seq]]
  <2>1. PICK last \in PageRead :
          /\ \A r \in PageRead : r = last \/ Before(last, r)
          /\ walk' = [turned EXCEPT !.on = "asked",
                                    !.cursor = [at |-> last.at, seq |-> last.seq]]
    BY <1>7
  <2>2. last.at \in Nat /\ last.seq \in Nat
    BY <1>2, RepositoryAssumption DEF Row
  <2>3. /\ walk' \in Walk /\ walk'.on = "asked"
        /\ walk'.cursor.at = last.at /\ walk'.cursor.seq = last.seq
        /\ walk'.page = PageRead /\ walk'.seen = Shown
        /\ walk'.legacy = walk.legacy /\ walk'.limit = walk.limit
        /\ walk'.filter = walk.filter /\ walk'.kept = walk.kept
        /\ walk'.grown = walk.grown /\ walk'.shrunk = walk.shrunk /\ walk'.offset = walk.offset
    BY <1>4, <2>1, <2>2 DEF Walk
  <2> QED
    BY <1>1, <1>7, <2>1, <2>3
<1>8. CASE ~walk.legacy /\ ~HasNext /\ walk' = [turned EXCEPT !.on = "ended"]
  BY <1>1, <1>4, <1>8 DEF Walk
<1> QED
  BY <1>5, <1>6, <1>7, <1>8

(* No walk has begun.                                                      *)
LEMMA InitWalk == Init => Walking /\ ByCursor /\ ByOffset
<1> SUFFICES ASSUME Init PROVE Walking /\ ByCursor /\ ByOffset
  OBVIOUS
<1>1. walk = IdleWalk
  BY DEF Init
<1>2. walk \in Walk
  BY <1>1 DEF IdleWalk, Walk
<1> QED
  BY <1>1, <1>2 DEF IdleWalk, Walking, ByCursor, ByOffset, Shown, Turning, NoRowTwice,
     WalkComplete, LegacyWalkComplete

(* Every step keeps the walk as Walking says.                              *)
LEMMA WalkStep ==
  ASSUME Stored, Walking, [Next]_vars PROVE Walking'
<1>1. ASSUME UNCHANGED <<rows, walk>> PROVE Walking'
  BY <1>1 DEF Walking, Shown, Turning, Matching
<1>2. ASSUME LookOn, Turning PROVE Walking'
  <2>1. walk'.kept \subseteq Matching(walk.filter)'
    BY <1>2, WalkLooksOn DEF Walking, Matching
  <2> QED
    BY <1>2, <2>1, WalkLooksOn DEF Walking, Turning, Matching
<1>3. ASSUME LookOn, ~Turning PROVE Walking'
  BY <1>3, WalkAtRest DEF Walking, Shown, Turning
<1>4. ASSUME rows' = rows, BeginWalk PROVE Walking'
  BY <1>4, WalkBegins DEF Walking, Matching
<1>5. ASSUME rows' = rows, ListTotal PROVE Walking'
  <2>1. walk'.kept \subseteq Matching(walk'.filter)
    BY <1>5, WalkCounts DEF Walking, Turning, ListTotal
  <2> QED
    BY <1>5, <2>1, WalkCounts DEF Walking, Matching
<1>6. ASSUME rows' = rows, ListPage PROVE Walking'
  <2>1. walk'.kept \subseteq Matching(walk'.filter)
    BY <1>6, WalkTurns DEF Walking, Turning
  <2> QED
    BY <1>6, <2>1, WalkTurns DEF Walking, Matching
<1> QED
  BY <1>1, <1>2, <1>3, <1>4, <1>5, <1>6, StepKinds

(* What a page shows and leaves, by cursor.                                *)
LEMMA PageByCursor ==
  ASSUME ListPage, Stored, Walking, ByCursor, ~walk.legacy
  PROVE  /\ \A p \in PageRead, s \in Shown : Before(p, s)
         /\ ~HasNext => walk.kept \subseteq Shown \cup PageRead
         /\ \A last \in PageRead : (\A r \in PageRead : r = last \/ Before(last, r)) =>
              /\ last.at \in Nat \ {0}
              /\ \A s \in Shown : Before(last, s)
              /\ \A r \in walk.kept \ (Shown \cup PageRead) : Before(r, last)
<1> DEFINE n == Limit(walk.limit)
<1>1. /\ Turning /\ walk.offset = 0
      /\ walk.cursor.at = 0 => Shown = {}
      /\ walk.cursor.at # 0 =>
            /\ \A s \in Shown : (s.at = walk.cursor.at /\ s.seq = walk.cursor.seq)
                                  \/ Before(walk.cursor, s)
            /\ \A r \in walk.kept \ Shown : Before(r, walk.cursor)
  BY DEF ListPage, Turning, ByCursor
<1>2. Listed(Candidates) /\ Candidates \subseteq Matching(walk.filter) /\ Candidates \subseteq Row
  BY CandidatesListed, MatchingListed
<1>3. n \in Nat
  BY LimitType DEF Walking, Walk
<1>4. PageRead = Slice(Candidates, 0, n) /\ PageRead \subseteq Candidates
  BY <1>1 DEF PageRead, Slice
<1>5. \A r \in Row : r.at \in Nat \ {0} /\ r.seq \in Nat
  BY RepositoryAssumption DEF Row
<1>6. walk.cursor.at \in Nat /\ walk.cursor.seq \in Nat /\ Shown \subseteq Row
        /\ walk.kept \subseteq Row
  BY DEF Walking, Walk, Shown
<1>7. ASSUME NEW p \in PageRead, NEW s \in Shown PROVE Before(p, s)
  <2>1. Before(p, walk.cursor)
    BY <1>1, <1>4 DEF Candidates
  <2>2. (s.at = walk.cursor.at /\ s.seq = walk.cursor.seq) \/ Before(walk.cursor, s)
    BY <1>1
  <2>3. p.at \in Nat /\ p.seq \in Nat /\ s.at \in Nat /\ s.seq \in Nat
    BY <1>2, <1>4, <1>5, <1>6
  <2> QED
    BY <1>6, <2>1, <2>2, <2>3 DEF Before
<1>8. walk.kept \ Shown \subseteq Candidates
  BY <1>1 DEF Candidates, Walking
<1>9. ASSUME ~HasNext PROVE walk.kept \subseteq Shown \cup PageRead
  <2>1. ~(Cardinality(Slice(Candidates, 0, n + 1)) > n)
    BY <1>1, <1>9 DEF HasNext
  <2>2. Candidates \subseteq PageRead
    <3> HIDE DEF n
    <3> QED
      BY <1>2, <1>3, <1>4, <2>1, NoNextPage
  <2> QED
    BY <1>8, <2>2
<1>10. ASSUME NEW last \in PageRead, \A r \in PageRead : r = last \/ Before(last, r)
       PROVE  /\ last.at \in Nat \ {0}
              /\ \A s \in Shown : Before(last, s)
              /\ \A r \in walk.kept \ (Shown \cup PageRead) : Before(r, last)
  <2>1. last.at \in Nat \ {0}
    BY <1>2, <1>4, <1>5
  <2>2. ASSUME NEW r \in walk.kept \ (Shown \cup PageRead) PROVE Before(r, last)
    <3>1. r \in Candidates /\ r \notin Slice(Candidates, 0, n)
      BY <1>8, <1>4
    <3> HIDE DEF n
    <3> QED
      BY <3>1, <1>2, <1>3, <1>4, LeftOutComesAfter
  <2> QED
    BY <1>7, <2>1, <2>2
<1> QED
  BY <1>7, <1>9, <1>10

(* Every step keeps what is shown on this side of the cursor.              *)
LEMMA ByCursorStep ==
  ASSUME Stored, Walking, ByCursor, [Next]_vars PROVE ByCursor'
<1>1. ASSUME walk' = walk PROVE ByCursor'
  BY <1>1 DEF ByCursor, Shown, Turning, NoRowTwice, WalkComplete
<1>2. ASSUME LookOn, Turning PROVE ByCursor'
  <2>1. NoRowTwice' /\ WalkComplete'
    BY <1>2, WalkLooksOn DEF ByCursor, Turning, NoRowTwice, WalkComplete
  <2>2. Shown' = Shown /\ walk'.kept \subseteq walk.kept
    BY <1>2, WalkLooksOn DEF Shown
  <2> QED
    BY <1>2, <2>1, <2>2, WalkLooksOn DEF ByCursor, Turning
<1>3. ASSUME BeginWalk PROVE ByCursor'
  BY <1>3, WalkBegins DEF ByCursor, Shown, NoRowTwice, WalkComplete
<1>4. ASSUME ListTotal PROVE ByCursor'
  <2>1. Turning
    BY <1>4 DEF ListTotal, Turning
  <2>2. NoRowTwice' /\ WalkComplete'
    BY <1>4, WalkCounts DEF ByCursor, NoRowTwice, WalkComplete
  <2>3. Shown' = Shown /\ walk'.kept = walk.kept
    BY <1>4, WalkCounts DEF Shown
  <2> QED
    BY <1>4, <2>1, <2>2, <2>3, WalkCounts DEF ByCursor
<1>5. ASSUME ListPage, walk.legacy PROVE ByCursor'
  BY <1>5, WalkTurns DEF ByCursor, NoRowTwice, WalkComplete
<1>6. ASSUME ListPage, ~walk.legacy PROVE ByCursor'
  <2>1. NoRowTwice'
    BY <1>6, WalkTurns, PageByCursor DEF NoRowTwice
  <2>2. Shown' = Shown \cup PageRead
    BY <1>6, WalkTurns DEF Shown
  <2>3. WalkComplete'
    BY <1>6, <2>2, WalkTurns, PageByCursor DEF WalkComplete, Shown
  <2>4. ASSUME Turning'
        PROVE /\ walk'.offset = 0 /\ walk'.cursor.at # 0
              /\ \A s \in Shown' : (s.at = walk'.cursor.at /\ s.seq = walk'.cursor.seq)
                                     \/ Before(walk'.cursor, s)
              /\ \A r \in walk'.kept \ Shown' : Before(r, walk'.cursor)
    <3>1. walk'.on = "asked"
      BY <1>6, <2>4, WalkTurns DEF Turning
    <3>2. PICK last \in PageRead :
            /\ \A r \in PageRead : r = last \/ Before(last, r)
            /\ walk'.cursor.at = last.at /\ walk'.cursor.seq = last.seq
      BY <1>6, <3>1, WalkTurns
    <3>3. /\ last.at \in Nat \ {0}
          /\ \A s \in Shown : Before(last, s)
          /\ \A r \in walk.kept \ (Shown \cup PageRead) : Before(r, last)
      BY <1>6, <3>2, PageByCursor
    <3>4. walk'.offset = 0
      BY <1>6, WalkTurns DEF ByCursor, ListPage, Turning
    <3>5. walk'.kept = walk.kept
      BY <1>6, WalkTurns
    <3> QED
      BY <2>2, <3>2, <3>3, <3>4, <3>5 DEF Before
  <2> QED
    BY <2>1, <2>3, <2>4 DEF ByCursor
<1>7. ASSUME LookOn, ~Turning PROVE ByCursor'
  BY <1>7, <1>1, WalkAtRest
<1> QED
  BY <1>1, <1>2, <1>3, <1>4, <1>5, <1>6, <1>7, StepKinds

(* How many rows are ahead of one that matches.                            *)
LEMMA AheadType ==
  ASSUME Stored, NEW f, NEW r \in Matching(f)
  PROVE  /\ IsFiniteSet(Matching(f)) /\ Cardinality(Matching(f)) \in Nat
         /\ Cardinality(Ahead(Matching(f), r)) \in Nat
         /\ Cardinality(Ahead(Matching(f), r)) < Cardinality(Matching(f))
<1>1. Listed(Matching(f)) /\ IsFiniteSet(Matching(f)) /\ Cardinality(Matching(f)) \in Nat
  BY MatchingListed, FS_CardinalityType DEF Listed
<1>2. r \notin Ahead(Matching(f), r) /\ Ahead(Matching(f), r) \in SUBSET Matching(f)
  BY <1>1, BeforeIsTotal DEF Ahead
<1>3. /\ Cardinality(Ahead(Matching(f), r)) <= Cardinality(Matching(f))
      /\ Cardinality(Matching(f)) # Cardinality(Ahead(Matching(f), r))
      /\ Cardinality(Ahead(Matching(f), r)) \in Nat
  BY <1>1, <1>2, FS_Subset, FS_CardinalityType
<1> QED
  BY <1>1, <1>3

(* What a page leaves, by offset.                                          *)
LEMMA PageByOffset ==
  ASSUME ListPage, Stored, Walking, ByOffset, walk.legacy, walk.limit <= MaxLimit, ~walk.shrunk,
         NEW r \in walk.kept \ (Shown \cup PageRead)
  PROVE  /\ Cardinality(Ahead(Matching(walk.filter), r)) >= NextOffset
         /\ NextOffset < Cardinality(Matching(walk.filter))
<1> DEFINE M == Matching(walk.filter)
           a == Cardinality(Ahead(M, r))
<1>1. Turning /\ r \in M
  BY DEF ListPage, Turning, Walking
<1>2. a \in Nat /\ Cardinality(M) \in Nat /\ a < Cardinality(M)
  BY <1>1, AheadType
<1>3. walk.cursor.at = 0 /\ a >= walk.offset
  BY <1>1 DEF ByOffset
<1>4. walk.offset \in Nat /\ Limit(walk.limit) \in Nat
        /\ NextOffset = walk.offset + Limit(walk.limit)
  BY LimitType DEF Walking, Walk, NextOffset
<1>5. a \notin walk.offset .. walk.offset + Limit(walk.limit) - 1
  BY <1>1, <1>3 DEF PageRead, Slice, Candidates, Ahead
<1> HIDE DEF a, M
<1>6. a >= NextOffset /\ NextOffset < Cardinality(M)
  BY <1>2, <1>3, <1>4, <1>5
<1> QED
  BY <1>6 DEF a, M

(* Every step keeps as many rows ahead of what is left.                    *)
LEMMA ByOffsetStep ==
  ASSUME Stored, Stored', Walking, ByOffset, [Next]_vars PROVE ByOffset'
<1>1. ASSUME UNCHANGED <<rows, walk>> PROVE ByOffset'
  BY <1>1 DEF ByOffset, Shown, Turning, LegacyWalkComplete, Matching
<1>2. ASSUME LookOn, Turning PROVE ByOffset'
  <2>1. LegacyWalkComplete'
    BY <1>2, WalkLooksOn DEF Turning, LegacyWalkComplete
  <2>2. Shown' = Shown /\ walk'.kept \subseteq walk.kept
    BY <1>2, WalkLooksOn DEF Shown
  <2>3. ASSUME walk.legacy, ~walk'.shrunk, walk.limit <= MaxLimit,
               NEW r \in walk'.kept \ Shown'
        PROVE  Cardinality(Ahead(Matching(walk.filter)', r)) >= walk.offset
    <3>1. rows \subseteq rows' /\ ~walk.shrunk /\ r \in rows'
      BY <1>2, <2>3, WalkLooksOn
    <3>2. r \in Matching(walk.filter)
      BY <1>2, <2>2, <2>3 DEF Walking
    <3>3. Cardinality(Ahead(Matching(walk.filter), r)) >= walk.offset
      BY <1>2, <2>2, <2>3, <3>1 DEF ByOffset
    <3>4. Matching(walk.filter) \subseteq Matching(walk.filter)'
      BY <3>1, <1>2, WalkLooksOn DEF Matching
    <3>5. Ahead(Matching(walk.filter), r) \in SUBSET Ahead(Matching(walk.filter)', r)
      BY <3>4 DEF Ahead
    <3>6. Listed(rows') /\ Matching(walk.filter)' \in SUBSET rows'
      BY DEF Stored, Matching
    <3>7. IsFiniteSet(Ahead(Matching(walk.filter)', r))
      <4>1. Ahead(Matching(walk.filter)', r) \in SUBSET rows'
        BY <3>6 DEF Ahead
      <4> QED
        BY <4>1, <3>6, FS_Subset DEF Listed
    <3>8. /\ Cardinality(Ahead(Matching(walk.filter), r)) <= Cardinality(Ahead(Matching(walk.filter)', r))
          /\ Cardinality(Ahead(Matching(walk.filter)', r)) \in Nat
      BY <3>5, <3>7, FS_Subset, FS_CardinalityType
    <3>9. Cardinality(Ahead(Matching(walk.filter), r)) \in Nat /\ walk.offset \in Nat
      BY <3>2, AheadType DEF Walking, Walk
    <3> QED
      BY <3>3, <3>8, <3>9
  <2>4. ASSUME walk.legacy, walk.on = "counted", ~walk'.grown, ~walk'.shrunk
        PROVE  walk.total = Cardinality(Matching(walk.filter)')
    <3>1. rows' = rows /\ ~walk.grown /\ ~walk.shrunk
      BY <1>2, <2>4, WalkLooksOn
    <3>2. Matching(walk.filter)' = Matching(walk.filter)
      BY <3>1, <1>2, WalkLooksOn DEF Matching
    <3> QED
      BY <3>1, <3>2, <1>2, <2>4 DEF ByOffset
  <2>5. /\ walk'.on = walk.on /\ walk'.legacy = walk.legacy /\ walk'.limit = walk.limit
        /\ walk'.filter = walk.filter /\ walk'.cursor = walk.cursor
        /\ walk'.offset = walk.offset /\ walk'.total = walk.total
    BY <1>2, WalkLooksOn
  <2> QED
    BY <1>2, <2>1, <2>3, <2>4, <2>5 DEF ByOffset
<1>3. ASSUME rows' = rows, BeginWalk PROVE ByOffset'
  <2>1. walk'.on = "asked" /\ walk'.cursor.at = 0 /\ walk'.offset = 0
          /\ walk'.kept = Matching(walk'.filter)
    BY <1>3, WalkBegins
  <2>2. ASSUME NEW r \in walk'.kept PROVE Cardinality(Ahead(Matching(walk'.filter), r)) >= 0
    BY <2>1, <2>2, AheadType
  <2>3. Matching(walk.filter)' = Matching(walk'.filter)
    BY <1>3 DEF Matching
  <2> QED
    BY <2>1, <2>2, <2>3 DEF ByOffset, LegacyWalkComplete
<1>4. ASSUME rows' = rows, ListTotal PROVE ByOffset'
  <2>1. Turning /\ walk.on = "asked"
    BY <1>4 DEF ListTotal, Turning
  <2>2. Shown' = Shown /\ Matching(walk.filter)' = Matching(walk.filter)
    BY <1>4, WalkCounts DEF Shown, Matching
  <2> QED
    BY <1>4, <2>1, <2>2, WalkCounts DEF ByOffset, LegacyWalkComplete
<1>5. ASSUME rows' = rows, ListPage, ~walk.legacy PROVE ByOffset'
  BY <1>5, WalkTurns DEF ByOffset, LegacyWalkComplete
<1>6. ASSUME rows' = rows, ListPage, walk.legacy PROVE ByOffset'
  <2>1. Shown' = Shown \cup PageRead /\ Matching(walk.filter)' = Matching(walk.filter)
    BY <1>6, WalkTurns DEF Shown, Matching
  <2>2. Turning /\ walk.on = "counted"
    BY <1>6 DEF ListPage, Turning
  <2>3. LegacyWalkComplete'
    <3> SUFFICES ASSUME walk'.on = "ended", ~walk'.grown, ~walk'.shrunk, walk'.limit <= MaxLimit,
                        NEW r \in walk'.kept, r \notin walk'.seen \cup walk'.page
                 PROVE  FALSE
      BY DEF LegacyWalkComplete
    <3>1. /\ ~walk.grown /\ ~walk.shrunk /\ walk.limit <= MaxLimit
          /\ r \in walk.kept \ (Shown \cup PageRead)
          /\ ~(NextOffset < walk.total)
      BY <1>6, <2>1, WalkTurns DEF Shown
    <3>2. walk.total = Cardinality(Matching(walk.filter))
      BY <1>6, <2>2, <3>1 DEF ByOffset
    <3> QED
      BY <1>6, <3>1, <3>2, PageByOffset
  <2>4. ASSUME Turning', ~walk'.shrunk, walk'.limit <= MaxLimit, NEW r \in walk'.kept \ Shown'
        PROVE  Cardinality(Ahead(Matching(walk.filter)', r)) >= walk'.offset
    <3>1. /\ ~walk.shrunk /\ walk.limit <= MaxLimit
          /\ r \in walk.kept \ (Shown \cup PageRead)
          /\ walk'.offset = NextOffset /\ walk'.filter = walk.filter
      BY <1>6, <2>1, <2>4, WalkTurns DEF Turning
    <3> QED
      BY <1>6, <2>1, <3>1, PageByOffset
  <2>5. Turning' => walk'.on # "counted" /\ walk'.cursor.at = 0
    BY <1>6, <2>2, WalkTurns DEF ByOffset, Turning
  <2> QED
    BY <2>3, <2>4, <2>5 DEF ByOffset
<1>7. ASSUME LookOn, ~Turning PROVE ByOffset'
  BY <1>7, WalkAtRest DEF ByOffset, Turning, LegacyWalkComplete
<1> QED
  BY <1>1, <1>2, <1>3, <1>4, <1>5, <1>6, <1>7, StepKinds

-----------------------------------------------------------------------------
(* The counters.                                                           *)

(* The rows of a key, and the calls that have counted for it and whose row *)
(* is still to come, without those that a reset has torn.                  *)
RowsOf(k) == {r \in rows : r.id \notin torn /\ Key(r) = k}
Due(k) == {c \in Calls : step[c] = "row" /\ c \notin torn /\ Key(event[c]) = k}

(* A count covers the rows that are there and those that are to come.      *)
Covered ==
  /\ rollups \in [Keys -> Nat] /\ cutoff \in Nat
  /\ atomic => torn = {}
  /\ \A k \in Keys : k[1] >= cutoff =>
       Cardinality(RowsOf(k)) + Cardinality(Due(k)) <= rollups[k]

(* What lies within two sets is no more than they are.                     *)
LEMMA UnionBound ==
  ASSUME NEW A, NEW B, IsFiniteSet(A), IsFiniteSet(B), NEW X \in SUBSET (A \cup B)
  PROVE  /\ IsFiniteSet(X) /\ Cardinality(X) \in Nat
         /\ Cardinality(A) \in Nat /\ Cardinality(B) \in Nat
         /\ Cardinality(X) <= Cardinality(A) + Cardinality(B)
<1>1. /\ IsFiniteSet(A \cup B)
      /\ Cardinality(A \cup B) = Cardinality(A) + Cardinality(B) - Cardinality(A \cap B)
  BY FS_Union
<1>2. IsFiniteSet(A \cap B)
  BY FS_Intersection
<1>3. IsFiniteSet(X) /\ Cardinality(X) <= Cardinality(A \cup B)
  BY <1>1, FS_Subset
<1>4. /\ Cardinality(A) \in Nat /\ Cardinality(B) \in Nat /\ Cardinality(A \cap B) \in Nat
      /\ Cardinality(X) \in Nat
  BY <1>2, <1>3, FS_CardinalityType
<1> QED
  BY <1>1, <1>3, <1>4

(* Both sets are finite.                                                   *)
LEMMA CoveredType ==
  ASSUME Stored, NEW k \in Keys
  PROVE  /\ IsFiniteSet(RowsOf(k)) /\ Cardinality(RowsOf(k)) \in Nat
         /\ IsFiniteSet(Due(k)) /\ Cardinality(Due(k)) \in Nat
<1>1. RowsOf(k) \in SUBSET rows /\ Due(k) \in SUBSET Calls /\ IsFiniteSet(rows)
  BY DEF RowsOf, Due, Stored, Listed
<1> QED
  BY <1>1, FewCalls, FS_Subset, FS_CardinalityType

(* The rows of a key grow at most by the calls that have it.               *)
LEMMA InsertGrows ==
  ASSUME Stored, Writing, NEW C \in SUBSET Calls,
         \A c \in C : step[c] \in {"write", "row"}, InsertRows(C), torn' = torn, NEW k \in Keys
  PROVE  /\ Cardinality(RowsOf(k)') \in Nat
         /\ Cardinality(RowsOf(k)') <= Cardinality(RowsOf(k))
                                         + Cardinality({c \in C : c \notin torn /\ Key(event[c]) = k})
<1> DEFINE D == {c \in C : c \notin torn /\ Key(event[c]) = k}
<1>1. PICK f : /\ rows' = rows \cup {f[c] : c \in C}
               /\ \A c \in C : f[c].id = c /\ Key(f[c]) = Key(event[c])
  BY InsertAdds
<1>2. RowsOf(k)' \in SUBSET (RowsOf(k) \cup {f[c] : c \in D})
  BY <1>1 DEF RowsOf, Key
<1>3. IsFiniteSet(D) /\ Cardinality(D) \in Nat
  BY FewCalls
<1> HIDE DEF D
<1>4. IsFiniteSet({f[c] : c \in D}) /\ Cardinality({f[c] : c \in D}) <= Cardinality(D)
  BY <1>3, FewValues
<1>5. IsFiniteSet(RowsOf(k))
  BY CoveredType
<1>6. /\ Cardinality(RowsOf(k)') <= Cardinality(RowsOf(k)) + Cardinality({f[c] : c \in D})
      /\ Cardinality(RowsOf(k)') \in Nat /\ Cardinality(RowsOf(k)) \in Nat
      /\ Cardinality({f[c] : c \in D}) \in Nat
  BY <1>2, <1>4, <1>5, UnionBound
<1>7. Cardinality(RowsOf(k)') <= Cardinality(RowsOf(k)) + Cardinality(D)
  BY <1>3, <1>4, <1>6
<1> QED
  BY <1>6, <1>7 DEF D

(* A call that is over is due no more.                                     *)
LEMMA ReturnSettles ==
  ASSUME Stored, NEW C \in SUBSET Calls, Return(C), torn' = torn, NEW k \in Keys
  PROVE  /\ Due(k)' \in SUBSET (Due(k) \ C) /\ IsFiniteSet(Due(k)')
         /\ Cardinality(Due(k)') \in Nat /\ Cardinality(Due(k)') <= Cardinality(Due(k))
<1>1. Due(k)' \in SUBSET (Due(k) \ C)
  BY DEF Return, Due
<1>2. IsFiniteSet(Due(k)') /\ Cardinality(Due(k)') <= Cardinality(Due(k))
  BY <1>1, CoveredType, FS_Subset
<1> QED
  BY <1>1, <1>2, FS_CardinalityType

(* An event that does not count has no key among the rollups.              *)
LEMMA KeyCounts ==
  ASSUME NEW e, Key(e) \in Keys PROVE e.kind \in Counted
BY DEF Key, Keys

(* Nothing is counted, and nothing is due.                                 *)
LEMMA InitCovered == Init => Covered
<1> SUFFICES ASSUME Init PROVE Covered
  OBVIOUS
<1>1. ASSUME NEW k \in Keys PROVE RowsOf(k) = {} /\ Due(k) = {} /\ rollups[k] = 0
  BY DEF Init, RowsOf, Due
<1>2. Cardinality({}) = 0
  BY FS_EmptySet
<1>3. rollups \in [Keys -> Nat] /\ cutoff \in Nat /\ torn = {}
  BY DEF Init
<1>4. ASSUME NEW k \in Keys
      PROVE  Cardinality(RowsOf(k)) + Cardinality(Due(k)) <= rollups[k]
  <2>1. Cardinality(RowsOf(k)) = 0 /\ Cardinality(Due(k)) = 0 /\ rollups[k] = 0
    BY <1>1, <1>2
  <2> QED
    BY <2>1
<1> QED
  BY <1>3, <1>4 DEF Covered

(* A transaction of rows and rollups covers what it inserts.               *)
LEMMA AppendCovers ==
  ASSUME Stored, Writing, Covered, NEW C \in SUBSET Calls, Append(C) PROVE Covered'
<1> DEFINE P == {c \in C : event[c].persist}
           Q == {c \in C : event[c].count}
<1>1. /\ InsertRows(P) /\ Return(C) /\ torn' = torn /\ cutoff' = cutoff /\ atomic' = atomic
      /\ rollups' = [k \in Keys |-> rollups[k] + Cardinality({c \in Q : Key(event[c]) = k})]
      /\ \A c \in C : step[c] = "write"
  BY DEF Append, UpsertRollups, history
<1>2. ASSUME NEW k \in Keys
      PROVE  /\ IsFiniteSet({c \in Q : Key(event[c]) = k})
             /\ Cardinality({c \in Q : Key(event[c]) = k}) \in Nat
  BY FewCalls
<1>3. ASSUME NEW k \in Keys, k[1] >= cutoff
      PROVE  Cardinality(RowsOf(k)') + Cardinality(Due(k)') <= rollups'[k]
  <2> DEFINE D == {c \in P : c \notin torn /\ Key(event[c]) = k}
             G == {c \in Q : Key(event[c]) = k}
  <2>1. /\ Cardinality(RowsOf(k)') \in Nat
        /\ Cardinality(RowsOf(k)') <= Cardinality(RowsOf(k)) + Cardinality(D)
    BY <1>1, InsertGrows
  <2>2. ASSUME NEW c \in D PROVE c \in G
    <3>1. event[c].kind \in Counted
      BY KeyCounts
    <3> QED
      BY <1>1, <3>1 DEF Writing
  <2>3. IsFiniteSet(G) /\ Cardinality(G) \in Nat
    BY <1>2
  <2>4. rollups'[k] = rollups[k] + Cardinality(G) /\ rollups[k] \in Nat
    BY <1>1 DEF Covered
  <2>5. Cardinality(RowsOf(k)) + Cardinality(Due(k)) <= rollups[k]
    BY <1>3 DEF Covered
  <2>6. Cardinality(Due(k)') \in Nat /\ Cardinality(Due(k)') <= Cardinality(Due(k))
    BY <1>1, ReturnSettles
  <2> HIDE DEF D, G
  <2>7. Cardinality(D) \in Nat /\ Cardinality(D) <= Cardinality(G)
    BY <2>2, <2>3, FS_Subset, FS_CardinalityType
  <2> QED
    BY <2>1, <2>3, <2>4, <2>5, <2>6, <2>7, CoveredType
<1>4. rollups' \in [Keys -> Nat]
  <2> DEFINE n(k) == Cardinality({c \in Q : Key(event[c]) = k})
             g(k) == rollups[k] + n(k)
  <2>1. \A k \in Keys : rollups[k] \in Nat /\ n(k) \in Nat
    BY <1>2 DEF Covered
  <2>2. rollups' = [k \in Keys |-> g(k)]
    BY <1>1
  <2> HIDE DEF n
  <2>3. \A k \in Keys : g(k) \in Nat
    BY <2>1
  <2> HIDE DEF g
  <2> QED
    BY <2>2, <2>3
<1> QED
  BY <1>1, <1>3, <1>4 DEF Covered

(* SyncRecorder's rollup is there before its row.                          *)
LEMMA RollupFirstCovers ==
  ASSUME Stored, Writing, Covered, NEW c \in Calls, AppendRollupFirst(c) PROVE Covered'
<1>1. /\ step' = [step EXCEPT ![c] = "row"] /\ UNCHANGED <<rows, atomic, event, cutoff, torn>>
      /\ rollups' = [k \in Keys |-> rollups[k] + Cardinality({d \in {c} : Key(event[d]) = k})]
  BY DEF AppendRollupFirst, UpsertRollups, history
<1>2. ASSUME NEW k \in Keys
      PROVE  /\ IsFiniteSet({d \in {c} : Key(event[d]) = k})
             /\ Cardinality({d \in {c} : Key(event[d]) = k}) \in Nat
  BY FewCalls
<1>3. ASSUME NEW k \in Keys, k[1] >= cutoff
      PROVE  Cardinality(RowsOf(k)') + Cardinality(Due(k)') <= rollups'[k]
  <2> DEFINE G == {d \in {c} : Key(event[d]) = k}
  <2>1. RowsOf(k)' = RowsOf(k)
    BY <1>1 DEF RowsOf
  <2>2. Due(k)' \in SUBSET (Due(k) \cup G)
    BY <1>1 DEF Due, Writing
  <2>3. rollups'[k] = rollups[k] + Cardinality(G) /\ rollups[k] \in Nat
    BY <1>1 DEF Covered
  <2>4. Cardinality(RowsOf(k)) + Cardinality(Due(k)) <= rollups[k]
    BY <1>3 DEF Covered
  <2>5. IsFiniteSet(G) /\ Cardinality(G) \in Nat
    BY <1>2
  <2> HIDE DEF G
  <2>6. /\ Cardinality(Due(k)') \in Nat
        /\ Cardinality(Due(k)') <= Cardinality(Due(k)) + Cardinality(G)
    BY <2>2, <2>5, CoveredType, UnionBound
  <2> QED
    BY <2>1, <2>3, <2>4, <2>5, <2>6, CoveredType
<1>4. rollups' \in [Keys -> Nat]
  <2> DEFINE n(k) == Cardinality({d \in {c} : Key(event[d]) = k})
             g(k) == rollups[k] + n(k)
  <2>1. \A k \in Keys : rollups[k] \in Nat /\ n(k) \in Nat
    BY <1>2 DEF Covered
  <2>2. rollups' = [k \in Keys |-> g(k)]
    BY <1>1
  <2> HIDE DEF n
  <2>3. \A k \in Keys : g(k) \in Nat
    BY <2>1
  <2> HIDE DEF g
  <2> QED
    BY <2>2, <2>3
<1> QED
  BY <1>1, <1>3, <1>4 DEF Covered

(* The row that comes was due, unless a reset has torn its call.           *)
LEMMA RowThenCovers ==
  ASSUME Stored, Writing, Covered, NEW c \in Calls, AppendRowThen(c) PROVE Covered'
<1>1. /\ InsertRows({c}) /\ Return({c}) /\ UNCHANGED <<rollups, atomic, cutoff, torn>>
      /\ step[c] = "row"
  BY DEF AppendRowThen, history
<1>2. ASSUME NEW k \in Keys, k[1] >= cutoff
      PROVE  Cardinality(RowsOf(k)') + Cardinality(Due(k)') <= rollups'[k]
  <2> DEFINE D == {d \in {c} : d \notin torn /\ Key(event[d]) = k}
  <2>1. /\ Cardinality(RowsOf(k)') \in Nat
        /\ Cardinality(RowsOf(k)') <= Cardinality(RowsOf(k)) + Cardinality(D)
    BY <1>1, InsertGrows
  <2>2. /\ Due(k)' \in SUBSET (Due(k) \ {c}) /\ IsFiniteSet(Due(k)')
        /\ Cardinality(Due(k)') \in Nat /\ Cardinality(Due(k)') <= Cardinality(Due(k))
    BY <1>1, ReturnSettles
  <2>3. Cardinality(RowsOf(k)) + Cardinality(Due(k)) <= rollups'[k] /\ rollups'[k] \in Nat
    BY <1>1, <1>2 DEF Covered
  <2>4. CASE D = {}
    <3>1. Cardinality(D) = 0
      BY <2>4, FS_EmptySet
    <3> QED
      BY <2>1, <2>2, <2>3, <3>1, CoveredType
  <2>5. CASE D # {}
    <3>1. D = {c} /\ c \in Due(k)
      BY <1>1, <2>5 DEF Due
    <3>2. Cardinality(D) = 1
      BY <3>1, FS_Singleton
    <3>3. Cardinality(Due(k) \ {c}) = Cardinality(Due(k)) - 1 /\ IsFiniteSet(Due(k) \ {c})
      BY <3>1, CoveredType, FS_RemoveElement
    <3>4. Cardinality(Due(k)') <= Cardinality(Due(k) \ {c})
      BY <2>2, <3>3, FS_Subset
    <3> QED
      BY <2>1, <2>2, <2>3, <3>2, <3>3, <3>4, CoveredType
  <2> QED
    BY <2>4, <2>5
<1> QED
  BY <1>1, <1>2 DEF Covered

(* A reset leaves only its marker, which no rollup counts.                 *)
LEMMA ResetCovers ==
  ASSUME Stored, Writing, Covered, NEW r \in Resets, Reset(r) PROVE Covered'
<1> DEFINE marker == [seq |-> nextSeq, id |-> r, at |-> now, kind |-> Marker]
<1>1. /\ rows' = {marker} /\ rollups' = [k \in Keys |-> 0] /\ UNCHANGED <<atomic, event, cutoff>>
      /\ step' = [step EXCEPT ![r] = "done"] /\ torn' = torn \cup {c \in Calls : step[c] = "row"}
  BY DEF Reset
<1>2. marker.kind = Marker
  OBVIOUS
<1> HIDE DEF marker
<1>3. ASSUME NEW k \in Keys PROVE RowsOf(k)' = {} /\ Due(k)' = {}
  <2>1. Key(marker) # k
    BY <1>2, KeyCounts, RepositoryAssumption
  <2>2. RowsOf(k)' = {}
    BY <1>1, <2>1 DEF RowsOf
  <2>3. \A c \in Calls : step'[c] = "row" => c \in torn'
    BY <1>1, RepositoryAssumption DEF Writing
  <2> QED
    BY <2>2, <2>3 DEF Due
<1>4. Cardinality({}) = 0
  BY FS_EmptySet
<1>5. ASSUME NEW k \in Keys
      PROVE  Cardinality(RowsOf(k)') + Cardinality(Due(k)') <= rollups'[k]
  <2>1. Cardinality(RowsOf(k)') = 0 /\ Cardinality(Due(k)') = 0 /\ rollups'[k] = 0
    BY <1>1, <1>3, <1>4
  <2> QED
    BY <2>1
<1>6. atomic' => torn' = {}
  BY <1>1 DEF Writing, Covered
<1>7. rollups' \in [Keys -> Nat] /\ cutoff' \in Nat
  BY <1>1 DEF Covered
<1> QED
  BY <1>5, <1>6, <1>7 DEF Covered

(* What is pruned from the rollups is before the cutoff.                   *)
LEMMA PruneCovers ==
  ASSUME Stored, Writing, Covered, PruneRetention PROVE Covered'
<1> DEFINE before == now - RetentionDays * Day
<1>1. /\ rows' = {r \in rows : r.at >= before}
      /\ rollups' = [k \in Keys |-> IF k[1] < before THEN 0 ELSE rollups[k]]
      /\ cutoff' = IF before > cutoff THEN before ELSE cutoff
      /\ UNCHANGED <<atomic, event, step, torn>>
  BY DEF PruneRetention
<1>2. before \in Int /\ cutoff \in Nat
  BY RepositoryAssumption DEF Writing, Covered, Day, Hour, Minute, Second
<1> HIDE DEF before
<1>3. cutoff' \in Nat /\ cutoff' >= before /\ cutoff' >= cutoff
  BY <1>1, <1>2
<1>4. ASSUME NEW k \in Keys, k[1] >= cutoff'
      PROVE  Cardinality(RowsOf(k)') + Cardinality(Due(k)') <= rollups'[k]
  <2>1. k[1] \in Int
    BY RepositoryAssumption DEF Keys, MinuteOf, Minute, Second
  <2>2. rollups'[k] = rollups[k] /\ k[1] >= cutoff
    BY <1>1, <1>2, <1>3, <1>4, <2>1
  <2>3. RowsOf(k)' \in SUBSET RowsOf(k) /\ Due(k)' = Due(k)
    BY <1>1 DEF RowsOf, Due
  <2>4. Cardinality(RowsOf(k)') <= Cardinality(RowsOf(k)) /\ Cardinality(RowsOf(k)') \in Nat
    BY <2>3, CoveredType, FS_Subset, FS_CardinalityType
  <2>5. Cardinality(RowsOf(k)) + Cardinality(Due(k)) <= rollups[k] /\ rollups[k] \in Nat
    BY <2>2 DEF Covered
  <2> QED
    BY <2>2, <2>3, <2>4, <2>5, CoveredType
<1>5. rollups' \in [Keys -> Nat]
  BY <1>1 DEF Covered
<1> QED
  BY <1>1, <1>3, <1>4, <1>5 DEF Covered

(* Every step keeps the rows covered.                                      *)
LEMMA CoveredStep ==
  ASSUME Stored, Writing, Covered, [Next]_vars PROVE Covered'
<1>1. ASSUME NEW c \in Calls, Record(c) PROVE Covered'
  <2>1. UNCHANGED <<rows, rollups, atomic, cutoff, torn>> /\ step[c] = "ready"
    BY <1>1 DEF Record, tables, history
  <2>2. \A d \in Calls : step'[d] = "row" => step[d] = "row" /\ event'[d] = event[d]
    BY <1>1 DEF Record, Return, Writing
  <2>3. ASSUME NEW k \in Keys
        PROVE  /\ RowsOf(k)' = RowsOf(k) /\ Cardinality(Due(k)') \in Nat
               /\ Cardinality(Due(k)') <= Cardinality(Due(k))
    <3>1. RowsOf(k)' = RowsOf(k) /\ Due(k)' \in SUBSET Due(k)
      BY <2>1, <2>2 DEF RowsOf, Due
    <3> QED
      BY <3>1, CoveredType, FS_Subset, FS_CardinalityType
  <2>4. ASSUME NEW k \in Keys, k[1] >= cutoff
        PROVE  Cardinality(RowsOf(k)') + Cardinality(Due(k)') <= rollups'[k]
    BY <2>1, <2>3, <2>4, CoveredType DEF Covered
  <2> QED
    BY <2>1, <2>4 DEF Covered
<1>2. ASSUME NEW c \in Calls, WriteFails(c) PROVE Covered'
  <2>1. UNCHANGED <<rows, rollups, atomic, cutoff, torn>> /\ Return({c})
    BY <1>2 DEF WriteFails, tables, history
  <2>2. ASSUME NEW k \in Keys, k[1] >= cutoff
        PROVE  Cardinality(RowsOf(k)') + Cardinality(Due(k)') <= rollups'[k]
    <3>1. RowsOf(k)' = RowsOf(k)
      BY <2>1 DEF RowsOf
    <3>2. Cardinality(Due(k)') \in Nat /\ Cardinality(Due(k)') <= Cardinality(Due(k))
      BY <2>1, ReturnSettles
    <3> QED
      BY <2>1, <2>2, <3>1, <3>2, CoveredType DEF Covered
  <2> QED
    BY <2>1, <2>2 DEF Covered
<1>3. ASSUME UNCHANGED <<rows, rollups, atomic, event, step, cutoff, torn>> PROVE Covered'
  BY <1>3 DEF Covered, RowsOf, Due
<1> QED
  BY <1>1, <1>2, <1>3, AppendCovers, RollupFirstCovers, RowThenCovers, ResetCovers, PruneCovers
  DEF Next, vars, tables, history, readers, Tick, BeginWalk, ListTotal,
      ListPage, MetricsSummary, MetricsPanics, MetricsPoints

-----------------------------------------------------------------------------
(* The sums of the metrics.                                                *)

Metrics == [on : {"idle", "summed", "failed", "answered"},
            query : [from : Int, to : Int, bucket : Int, kinds : SUBSET Kinds],
            summary : Nat, points : Nat, grown : BOOLEAN, shrunk : BOOLEAN]

(* Between its statements, a request whose rollups only grew has summed no *)
(* more than there is now, and one whose rollups only shrank no less.      *)
Measuring ==
  /\ metrics \in Metrics /\ atomic \in BOOLEAN /\ torn \subseteq Calls
  /\ metrics.on = "summed" =>
       /\ metrics.query.bucket > 0
       /\ ~metrics.grown => Sum(Measured(metrics.query)) <= metrics.summary
       /\ ~metrics.shrunk => metrics.summary <= Sum(Measured(metrics.query))
  /\ MetricsAddUp

(* Only a finite number of keys lie in the range of a query.               *)
LEMMA MeasuredFinite ==
  ASSUME NEW q, q.from \in Int, q.to \in Int
  PROVE  IsFiniteSet(Measured(q)) /\ Measured(q) \subseteq Keys
<1>1. Measured(q) \in SUBSET ((q.from .. q.to) \X Counted)
  BY DEF Measured, Keys
<1>2. IsFiniteSet((q.from .. q.to) \X Counted)
  BY FS_Interval, FS_Product, RepositoryAssumption
<1> QED
  BY <1>1, <1>2, FS_Subset DEF Measured

(* A finite number of counts numbers finitely many.                        *)
LEMMA NumberedFinite ==
  ASSUME NEW K, IsFiniteSet(K), NEW r, \A k \in K : r[k] \in Nat
  PROVE  IsFiniteSet(UNION {{k} \X (1 .. r[k]) : k \in K})
<1> DEFINE f == [k \in K |-> {k} \X (1 .. r[k])]
           parts == {f[k] : k \in K}
<1>1. IsFiniteSet(parts)
  <2> HIDE DEF f
  <2> QED
    BY FewValues
<1>2. ASSUME NEW n \in Nat PROVE IsFiniteSet(1 .. n)
  BY FS_Interval, 1 \in Int, n \in Int
<1>3. \A k \in K : IsFiniteSet({k} \X (1 .. r[k]))
  BY <1>2, FS_Singleton, FS_Product
<1>4. \A part \in parts : IsFiniteSet(part)
  BY <1>3
<1>5. IsFiniteSet(UNION parts)
  <2> HIDE DEF parts
  <2> QED
    BY <1>1, <1>4, FS_UNION
<1> QED
  BY <1>5

(* What a finite number of rollups has counted is finite.                  *)
LEMMA SumType ==
  ASSUME rollups \in [Keys -> Nat], NEW K \in SUBSET Keys, IsFiniteSet(K)
  PROVE  IsFiniteSet(Tally(K)) /\ Sum(K) \in Nat
<1>1. \A k \in K : rollups[k] \in Nat
  OBVIOUS
<1> QED
  BY <1>1, NumberedFinite, FS_CardinalityType DEF Tally, Sum

(* Fewer rollups sum up to no more.                                        *)
LEMMA SumOfSubset ==
  ASSUME rollups \in [Keys -> Nat], NEW K \in SUBSET Keys, IsFiniteSet(K), NEW L \in SUBSET K
  PROVE  IsFiniteSet(L) /\ Sum(L) \in Nat /\ Sum(L) <= Sum(K)
<1>1. IsFiniteSet(L) /\ L \in SUBSET Keys
  BY FS_Subset
<1>2. Tally(L) \in SUBSET Tally(K)
  BY DEF Tally
<1> QED
  BY <1>1, <1>2, SumType, FS_Subset DEF Sum

(* A sum grows only if one of its rollups does, and shrinks likewise.      *)
LEMMA SumFollows ==
  ASSUME rollups \in [Keys -> Nat], rollups' \in [Keys -> Nat],
         NEW K \in SUBSET Keys, IsFiniteSet(K)
  PROVE  /\ Sum(K) \in Nat /\ Sum(K)' \in Nat
         /\ (\A k \in Keys : ~(rollups'[k] > rollups[k])) => Sum(K)' <= Sum(K)
         /\ (\A k \in Keys : ~(rollups'[k] < rollups[k])) => Sum(K) <= Sum(K)'
<1>1. IsFiniteSet(Tally(K)) /\ Sum(K) \in Nat
  BY SumType
<1>2. IsFiniteSet(Tally(K)') /\ Sum(K)' \in Nat
  <2>1. \A k \in K : rollups'[k] \in Nat
    OBVIOUS
  <2> QED
    BY <2>1, NumberedFinite, FS_CardinalityType DEF Tally, Sum
<1>3. \A k \in K : rollups[k] \in Nat /\ rollups'[k] \in Nat
  OBVIOUS
<1>4. ASSUME \A k \in Keys : ~(rollups'[k] > rollups[k]) PROVE Sum(K)' <= Sum(K)
  <2>1. \A k \in K : 1 .. rollups'[k] \subseteq 1 .. rollups[k]
    BY <1>3, <1>4
  <2>2. Tally(K)' \in SUBSET Tally(K)
    BY <2>1 DEF Tally
  <2> QED
    BY <1>1, <2>2, FS_Subset DEF Sum
<1>5. ASSUME \A k \in Keys : ~(rollups'[k] < rollups[k]) PROVE Sum(K) <= Sum(K)'
  <2>1. \A k \in K : 1 .. rollups[k] \subseteq 1 .. rollups'[k]
    BY <1>3, <1>5
  <2>2. Tally(K) \in SUBSET Tally(K)'
    BY <2>1 DEF Tally
  <2> QED
    BY <1>2, <2>2, FS_Subset DEF Sum
<1> QED
  BY <1>1, <1>2, <1>4, <1>5

(* Division rounds down, is monotonic, and counts how often n fits.        *)
LEMMA DivRoundsDown ==
  ASSUME NEW x \in Int, NEW n \in Nat \ {0}
  PROVE  x \div n \in Int /\ (x \div n) * n <= x /\ x < (x \div n) * n + n
OBVIOUS

LEMMA LessIsFewer ==
  ASSUME NEW a \in Int, NEW b \in Int, NEW n \in Nat \ {0}, a * n < b * n + n
  PROVE  a <= b
<1>1. CASE a > b
  <2>1. a - b - 1 \in Nat /\ (a - b - 1) * n >= 0
    BY <1>1
  <2>2. (a - b - 1) * n = a * n - b * n - n
    OBVIOUS
  <2> QED
    BY <2>1, <2>2
<1> QED
  BY <1>1

LEMMA DivIsMonotonic ==
  ASSUME NEW x \in Int, NEW y \in Int, x <= y, NEW n \in Nat \ {0}
  PROVE  x \div n <= y \div n
<1> DEFINE a == x \div n
           b == y \div n
<1>1. a \in Int /\ b \in Int /\ a * n <= x /\ y < b * n + n
  BY DivRoundsDown
<1> HIDE DEF a, b
<1>2. a * n < b * n + n
  BY <1>1
<1> QED
  BY <1>1, <1>2, LessIsFewer DEF a, b

LEMMA FitsInto ==
  ASSUME NEW i \in Int, NEW w \in Int, NEW n \in Nat \ {0}, i * n <= w
  PROVE  i <= w \div n
<1> DEFINE b == w \div n
<1>1. b \in Int /\ w < b * n + n
  BY DivRoundsDown
<1> HIDE DEF b
<1>2. i * n < b * n + n
  BY <1>1
<1> QED
  BY <1>1, <1>2, LessIsFewer DEF b

(* A bucket starts at a multiple of its whole seconds, not after the       *)
(* moments that it holds.                                                  *)
LEMMA BucketHolds ==
  ASSUME NEW t \in Int, NEW b \in Int, NEW s \in Nat \ {0}, WholeSeconds(b) = s
  PROVE  /\ ((t \div 2) \div s) \in Int
         /\ BucketStart(t, b) = ((t \div 2) \div s) * s * 2
         /\ BucketStart(t, b) <= t
<1> DEFINE h == t \div 2
           m == h \div s
<1>1. h \in Int /\ h * 2 <= t
  OBVIOUS
<1> HIDE DEF h
<1>2. m \in Int /\ m * s <= h
  BY <1>1, DivRoundsDown
<1> HIDE DEF m
<1>3. m * s \in Int
  BY <1>2
<1>4. m * s * 2 <= t
  BY <1>1, <1>2, <1>3
<1>5. BucketStart(t, b) = m * s * 2
  BY DEF BucketStart, Second, h, m
<1> QED
  BY <1>2, <1>4, <1>5 DEF h, m

(* Each rollup of a query has its point, if buckets are whole seconds.     *)
LEMMA EveryBucketShown ==
  ASSUME NEW q, q.from \in Int, q.to \in Int, q.bucket \in Int, q.bucket > 0,
         q.bucket % Second = 0, NEW t \in Int, t \in q.from .. q.to
  PROVE  LET first == BucketStart(q.from, q.bucket)
         IN \E i \in 0 .. (q.to - first) \div q.bucket :
              BucketStart(t, q.bucket) = ((first + i * q.bucket) \div Second) * Second
<1> DEFINE b == q.bucket
           s == b \div 2
           f == q.from
           w == q.to
<1>1. b \in Int /\ b > 0 /\ b % 2 = 0 /\ f \in Int /\ w \in Int /\ f <= t /\ t <= w
  BY DEF Second
<1>2. s \in Nat \ {0} /\ b = s * 2 /\ WholeSeconds(b) = s
  <2> HIDE DEF b
  <2> QED
    BY <1>1 DEF WholeSeconds, Second
<1> DEFINE hf == f \div 2
           ht == t \div 2
           mf == hf \div s
           mt == ht \div s
           first == BucketStart(f, b)
           i == mt - mf
<1>3. ((first + i * b) \div Second) * Second = BucketStart(t, b)
      /\ i \in 0 .. (w - first) \div b
  <2> HIDE DEF b, s, f, w
  <2>1. /\ mf \in Int /\ first = mf * s * 2
        /\ mt \in Int /\ BucketStart(t, b) = mt * s * 2 /\ BucketStart(t, b) <= t
    BY <1>1, <1>2, BucketHolds
  <2>2. hf \in Int /\ ht \in Int /\ hf <= ht
    BY <1>1
  <2> HIDE DEF hf, ht
  <2>3. mf <= mt
    BY <1>2, <2>2, DivIsMonotonic
  <2> HIDE DEF mf, mt, first
  <2>4. i \in Nat
    BY <2>1, <2>3
  <2>5. mf * s \in Int /\ mt * s \in Int /\ i * s = mt * s - mf * s /\ i * s \in Int
    BY <1>2, <2>1
  <2>6. i * b = (i * s) * 2
    BY <1>2, <2>4
  <2> DEFINE ps == mf * s
             pt == mt * s
             pi == i * s
  <2>7. ps \in Int /\ pt \in Int /\ pi = pt - ps /\ i * b = pi * 2 /\ first = ps * 2
        /\ BucketStart(t, b) = pt * 2 /\ i * b \in Int
    BY <2>1, <2>5, <2>6
  <2> HIDE DEF ps, pt, pi
  <2>8. first + i * b = pt * 2
    BY <2>7
  <2>9. (pt * 2) \div 2 = pt
    BY <2>7
  <2>10. ((first + i * b) \div Second) * Second = BucketStart(t, b)
    BY <2>7, <2>8, <2>9 DEF Second
  <2>11. i * b <= w - first
    BY <1>1, <2>1, <2>7, <2>8
  <2>12. w - first \in Int /\ b \in Nat \ {0} /\ i \in Int
    BY <1>1, <2>4, <2>7
  <2>13. i <= (w - first) \div b /\ (w - first) \div b \in Int
    BY <2>11, <2>12, FitsInto, DivRoundsDown
  <2> QED
    BY <2>4, <2>10, <2>13
<1> QED
  BY <1>3

(* The minutes of the rollups are moments.                                 *)
LEMMA KeyMinutes ==
  ASSUME NEW k \in Keys PROVE k[1] \in Int
BY RepositoryAssumption DEF Keys, MinuteOf, Minute, Second

(* The points show no rollup twice, and all of them if buckets are whole   *)
(* seconds.                                                                *)
LEMMA PointsBounds ==
  ASSUME rollups \in [Keys -> Nat], NEW q, q.from \in Int, q.to \in Int, q.bucket \in Int,
         q.bucket > 0
  PROVE  /\ PointsOf(q) \in Nat /\ Sum(Measured(q)) \in Nat /\ PointsOf(q) <= Sum(Measured(q))
         /\ q.bucket % Second = 0 => PointsOf(q) = Sum(Measured(q))
<1> DEFINE first == BucketStart(q.from, q.bucket)
           shown == {((first + i * q.bucket) \div Second) * Second :
                       i \in 0 .. (q.to - first) \div q.bucket}
           L == {k \in Measured(q) : BucketStart(k[1], q.bucket) \in shown}
<1>1. PointsOf(q) = Sum(L)
  BY DEF PointsOf
<1>2. IsFiniteSet(Measured(q)) /\ Measured(q) \subseteq Keys
  BY MeasuredFinite
<1>3. L \in SUBSET Measured(q)
  OBVIOUS
<1>4. ASSUME q.bucket % Second = 0 PROVE L = Measured(q)
  <2>1. ASSUME NEW k \in Measured(q) PROVE BucketStart(k[1], q.bucket) \in shown
    <3>1. k[1] \in Int /\ k[1] \in q.from .. q.to
      BY <1>2, KeyMinutes DEF Measured
    <3>2. \E i \in 0 .. (q.to - first) \div q.bucket :
            BucketStart(k[1], q.bucket) = ((first + i * q.bucket) \div Second) * Second
      BY <1>4, <3>1, EveryBucketShown
    <3> QED
      BY <3>2
  <2> QED
    BY <2>1
<1> HIDE DEF L
<1>5. Sum(L) \in Nat /\ Sum(L) <= Sum(Measured(q)) /\ Sum(Measured(q)) \in Nat
  BY <1>2, <1>3, SumType, SumOfSubset
<1> QED
  BY <1>1, <1>4, <1>5

(* A query comes to have a range and a bucket.                             *)
LEMMA NormalizedType ==
  ASSUME now \in Times, NEW q \in Queries
  PROVE  /\ Normalized(q) \in [from : Int, to : Int, bucket : Int, kinds : SUBSET Kinds]
         /\ Normalized(q).bucket > 0
<1>1. q \in [from : Nat, to : Nat, bucket : Int, kinds : SUBSET Kinds] /\ now \in Nat
  BY RepositoryAssumption
<1> DEFINE to == IF q.to = 0 THEN now ELSE q.to
           from == IF q.from = 0 THEN to - Day ELSE q.from
           bucket == IF q.bucket <= 0 THEN ChooseBucket(to - from) ELSE q.bucket
<1>2. Day \in Int
  BY DEF Day, Hour, Minute, Second
<1>3. to \in Int /\ from \in Int
  BY <1>1, <1>2
<1>4. ASSUME NEW w PROVE ChooseBucket(w) \in Int /\ ChooseBucket(w) > 0
  BY DEF ChooseBucket, Day, Hour, Minute, Second
<1>5. bucket \in Int /\ bucket > 0
  BY <1>1, <1>4
<1>6. Normalized(q) = [q EXCEPT !.to = to, !.from = from, !.bucket = bucket]
  BY DEF Normalized
<1> HIDE DEF to, from, bucket
<1> QED
  BY <1>1, <1>3, <1>5, <1>6

(* No request has come.                                                    *)
LEMMA InitMeasuring == Init => Measuring
<1> SUFFICES ASSUME Init PROVE Measuring
  OBVIOUS
<1>1. metrics = IdleMetrics /\ atomic \in BOOLEAN /\ torn = {}
  BY DEF Init
<1>2. IdleMetrics \in Metrics /\ IdleMetrics.on = "idle"
  BY DEF IdleMetrics, Metrics
<1> QED
  BY <1>1, <1>2 DEF Measuring, MetricsAddUp

(* The first statement sums what there is.                                 *)
LEMMA SummaryMeasures ==
  ASSUME Measuring, now \in Times, rollups \in [Keys -> Nat], MetricsSummary
  PROVE  Measuring'
<1>1. /\ metrics.on = "idle" /\ rollups' = rollups /\ atomic' = atomic /\ torn' = torn
      /\ metrics \in Metrics
  BY DEF MetricsSummary, tables, history, Measuring
<1>2. PICK q \in Queries :
        metrics' = [metrics EXCEPT !.on = "summed", !.query = Normalized(q),
                                   !.summary = Sum(Measured(Normalized(q)))]
  BY DEF MetricsSummary
<1> DEFINE n == Normalized(q)
           s == Sum(Measured(n))
<1>3. n \in [from : Int, to : Int, bucket : Int, kinds : SUBSET Kinds] /\ n.bucket > 0
  BY NormalizedType
<1> HIDE DEF n
<1>4. s \in Nat
  BY <1>3, MeasuredFinite, SumType
<1>5. metrics' = [metrics EXCEPT !.on = "summed", !.query = n, !.summary = s]
  BY <1>2 DEF n
<1>6. s = Sum(Measured(n))
  OBVIOUS
<1> HIDE DEF s
<1>7. /\ metrics' \in Metrics /\ metrics'.on = "summed" /\ metrics'.query = n
      /\ metrics'.summary = s
  BY <1>1, <1>3, <1>4, <1>5 DEF Metrics
<1>8. Sum(Measured(metrics.query))' = s
  BY <1>1, <1>6, <1>7 DEF Sum, Tally, Measured
<1>9. /\ metrics'.query.bucket > 0 /\ Sum(Measured(metrics.query))' = metrics'.summary
      /\ metrics'.summary \in Nat
  BY <1>3, <1>4, <1>7, <1>8
<1>10. Sum(Measured(metrics.query))' <= metrics'.summary
         /\ metrics'.summary <= Sum(Measured(metrics.query))'
  BY <1>9
<1> QED
  BY <1>1, <1>7, <1>9, <1>10 DEF Measuring, MetricsAddUp

(* The second statement adds up, if nothing has come between.              *)
LEMMA PointsMeasure ==
  ASSUME Measuring, rollups \in [Keys -> Nat], MetricsPoints
  PROVE  Measuring'
<1> DEFINE q == metrics.query
           p == PointsOf(q)
<1>1. /\ metrics.on = "summed" /\ atomic' = atomic /\ torn' = torn /\ metrics \in Metrics
      /\ metrics' = [metrics EXCEPT !.on = "answered", !.points = p]
  BY DEF MetricsPoints, history, Measuring
<1>2. /\ q.from \in Int /\ q.to \in Int /\ q.bucket \in Int /\ q.bucket > 0
      /\ metrics.summary \in Nat
      /\ ~metrics.grown => Sum(Measured(q)) <= metrics.summary
      /\ ~metrics.shrunk => metrics.summary <= Sum(Measured(q))
  BY <1>1 DEF Measuring, Metrics
<1> HIDE DEF q
<1>3. /\ p \in Nat /\ Sum(Measured(q)) \in Nat /\ p <= Sum(Measured(q))
      /\ q.bucket % Second = 0 => p = Sum(Measured(q))
  BY <1>2, PointsBounds
<1> HIDE DEF p
<1>4. /\ metrics' \in Metrics /\ metrics'.on = "answered" /\ metrics'.query = q
      /\ metrics'.points = p /\ metrics'.summary = metrics.summary
      /\ metrics'.grown = metrics.grown /\ metrics'.shrunk = metrics.shrunk
  BY <1>1, <1>3 DEF Metrics, q
<1>5. /\ ~metrics.grown => p <= metrics.summary
      /\ ~metrics.shrunk /\ q.bucket % Second = 0 => p >= metrics.summary
  BY <1>2, <1>3
<1> QED
  BY <1>1, <1>4, <1>5 DEF Measuring, MetricsAddUp

(* What is written meanwhile is noted.                                     *)
LEMMA WritingMeasured ==
  ASSUME Measuring, rollups \in [Keys -> Nat], rollups' \in [Keys -> Nat], LookOn,
         atomic' = atomic, torn' \subseteq Calls
  PROVE  Measuring'
<1>1. CASE metrics.on # "summed"
  BY <1>1 DEF LookOn, Measuring, MetricsAddUp
<1>2. CASE metrics.on = "summed"
  <2> DEFINE g == metrics.grown \/ \E k \in Keys : rollups'[k] > rollups[k]
             s == metrics.shrunk \/ \E k \in Keys : rollups'[k] < rollups[k]
             q == metrics.query
  <2>1. g \in BOOLEAN /\ s \in BOOLEAN
    BY Zenon DEF Measuring, Metrics
  <2>2. metrics' = [metrics EXCEPT !.grown = g, !.shrunk = s]
    BY <1>2, Zenon DEF LookOn
  <2>3. /\ metrics \in Metrics /\ q.from \in Int /\ q.to \in Int /\ q.bucket > 0
        /\ metrics.summary \in Nat
        /\ ~metrics.grown => Sum(Measured(q)) <= metrics.summary
        /\ ~metrics.shrunk => metrics.summary <= Sum(Measured(q))
    BY <1>2 DEF Measuring, Metrics
  <2>4. /\ ~g => ~metrics.grown /\ \A k \in Keys : ~(rollups'[k] > rollups[k])
        /\ ~s => ~metrics.shrunk /\ \A k \in Keys : ~(rollups'[k] < rollups[k])
    OBVIOUS
  <2> HIDE DEF g, s
  <2>5. /\ metrics' \in Metrics /\ metrics'.on = "summed" /\ metrics'.query = q
        /\ metrics'.summary = metrics.summary /\ metrics'.grown = g /\ metrics'.shrunk = s
    BY <1>2, <2>1, <2>2, <2>3 DEF Metrics
  <2>6. PICK K \in SUBSET Keys : K = Measured(q) /\ IsFiniteSet(K)
    BY <2>3, MeasuredFinite
  <2>7. Measured(metrics.query)' = K
    BY <2>5, <2>6 DEF Measured
  <2>8. /\ Sum(K) \in Nat /\ Sum(K)' \in Nat
        /\ ~g => Sum(K)' <= Sum(K)
        /\ ~s => Sum(K) <= Sum(K)'
    BY <2>4, <2>6, SumFollows
  <2>9. Sum(Measured(metrics.query))' = Sum(K)'
    BY <2>7 DEF Sum, Tally
  <2>10. /\ ~g => Sum(K)' <= metrics.summary
         /\ ~s => metrics.summary <= Sum(K)'
    BY <2>3, <2>4, <2>6, <2>8
  <2> QED
    BY <2>3, <2>5, <2>9, <2>10 DEF Measuring, MetricsAddUp
<1> QED
  BY <1>1, <1>2

(* Every step keeps the sums as Measuring says.                            *)
LEMMA MeasuringStep ==
  ASSUME Measuring, now \in Times, rollups \in [Keys -> Nat], rollups' \in [Keys -> Nat],
         [Next]_vars
  PROVE  Measuring'
<1>1. CASE UNCHANGED <<rollups, atomic, metrics, torn>>
  BY <1>1 DEF Measuring, MetricsAddUp, Sum, Tally, Measured
<1>2. CASE LookOn /\ atomic' = atomic /\ torn' \subseteq Calls
  BY <1>2, WritingMeasured
<1>3. CASE MetricsSummary
  BY <1>3, SummaryMeasures
<1>4. CASE MetricsPanics
  <2>1. /\ metrics \in Metrics /\ metrics' = [metrics EXCEPT !.on = "failed"]
        /\ atomic' = atomic /\ torn' = torn
    BY <1>4 DEF MetricsPanics, Measuring, history
  <2>2. metrics' \in Metrics /\ metrics'.on = "failed"
    BY <2>1 DEF Metrics
  <2> QED
    BY <2>1, <2>2 DEF Measuring, MetricsAddUp
<1>5. CASE MetricsPoints
  BY <1>5, PointsMeasure
<1>6. torn \subseteq Calls
  BY DEF Measuring
<1>7. ASSUME NEW C \in SUBSET Calls, Append(C) PROVE LookOn /\ atomic' = atomic /\ torn' \subseteq Calls
  BY <1>6, <1>7 DEF Append, history
<1>8. ASSUME NEW c \in Calls, AppendRollupFirst(c) \/ AppendRowThen(c)
      PROVE LookOn /\ atomic' = atomic /\ torn' \subseteq Calls
  BY <1>6, <1>8 DEF AppendRollupFirst, AppendRowThen, history
<1>9. ASSUME NEW r \in Resets, Reset(r) PROVE LookOn /\ atomic' = atomic /\ torn' \subseteq Calls
  BY <1>6, <1>9 DEF Reset
<1>10. ASSUME PruneRetention PROVE LookOn /\ atomic' = atomic /\ torn' \subseteq Calls
  BY <1>6, <1>10 DEF PruneRetention
<1> QED
  BY <1>1, <1>2, <1>3, <1>4, <1>5, <1>7, <1>8, <1>9, <1>10
  DEF Next, vars, tables, readers, history, Tick, Record, WriteFails, BeginWalk, ListTotal,
      ListPage

-----------------------------------------------------------------------------
(* The theorems.                                                           *)

(* What all steps keep.                                                    *)
IInv == Stored /\ Writing /\ Walking /\ ByCursor /\ ByOffset /\ Covered /\ Measuring

(* The database and its readers stay as IInv says.                         *)
THEOREM RepositoryInvariant == Spec => []IInv
<1>1. Init => IInv
  BY InitTables, InitWalk, InitCovered, InitMeasuring DEF IInv
<1>2. ASSUME IInv, [Next]_vars PROVE IInv'
  <2>1. (Stored /\ Writing /\ Walking /\ ByCursor /\ ByOffset /\ Covered)'
    BY <1>2, StoredStep, WritingStep, WalkStep, ByCursorStep, ByOffsetStep, CoveredStep DEF IInv
  <2>2. Measuring'
    BY <1>2, <2>1, MeasuringStep DEF IInv, Writing, Covered
  <2> QED
    BY <2>1, <2>2 DEF IInv
<1> QED
  BY <1>1, <1>2, PTL DEF Spec

(* No page of a walk by cursor repeats a row or turns back, whatever is    *)
(* written, pruned or reset between the pages.                             *)
THEOREM CursorNeverRepeats == Spec => []NoRowTwice
<1>1. IInv => NoRowTwice
  BY DEF IInv, ByCursor
<1> QED
  BY <1>1, RepositoryInvariant, PTL

(* A walk by cursor shows every row that was there throughout.             *)
THEOREM CursorMissesNothing == Spec => []WalkComplete
<1>1. IInv => WalkComplete
  BY DEF IInv, ByCursor
<1> QED
  BY <1>1, RepositoryInvariant, PTL

(* A walk by offset does, if nothing was deleted under it and its last     *)
(* count was not out of date.                                              *)
THEOREM OffsetMissesNothing == Spec => []LegacyWalkComplete
<1>1. IInv => LegacyWalkComplete
  BY DEF IInv, ByOffset
<1> QED
  BY <1>1, RepositoryInvariant, PTL

(* The counters never fall behind the trail.                               *)
THEOREM CountersKeepUp == Spec => []RowsAreCounted
<1>1. ASSUME IInv, NEW k \in Keys, k[1] >= cutoff
      PROVE  Cardinality({r \in rows : r.id \notin torn /\ Key(r) = k}) <= rollups[k]
  <2>1. Cardinality(RowsOf(k)) + Cardinality(Due(k)) <= rollups[k] /\ rollups[k] \in Nat
    BY <1>1 DEF IInv, Covered
  <2>2. Cardinality(RowsOf(k)) \in Nat /\ Cardinality(Due(k)) \in Nat
    BY <1>1, CoveredType DEF IInv
  <2>3. Cardinality(RowsOf(k)) <= rollups[k]
    BY <2>1, <2>2
  <2> QED
    BY <2>3 DEF RowsOf
<1>2. IInv => RowsAreCounted
  BY <1>1 DEF IInv, Covered, RowsAreCounted
<1> QED
  BY <1>2, RepositoryInvariant, PTL

(* The tables, the calls and the readers keep their types: nothing is      *)
(* stored that no call wrote.                                              *)
THEOREM RepositoryType == Spec => []TypeOK
<1>1. IInv => TypeOK
  BY DEF IInv, Stored, Writing, EventType, Walking, Walk, Covered, Measuring, Metrics, TypeOK
<1> QED
  BY <1>1, RepositoryInvariant, PTL

(* The points of an answer add up to its total, for every query, bucket    *)
(* and number of rollups.                                                  *)
THEOREM MetricsAgree == Spec => []MetricsAddUp
<1>1. IInv => MetricsAddUp
  BY DEF IInv, Measuring
<1> QED
  BY <1>1, RepositoryInvariant, PTL

-----------------------------------------------------------------------------
(* No call is counted twice.                                               *)

(* The calls that came to their upsert, or ended before.                   *)
Past == {c \in Calls : step[c] \in {"row", "done"}}

Sharing(C, k) == {c \in C : Key(event[c]) = k}

(* Every upsert counts each of its calls once: the numbers that it adds to *)
(* a key are as many as the calls that have it.                            *)
LEMMA UpsertAdds ==
  ASSUME rollups \in [Keys -> Nat], NEW K \in SUBSET Keys, IsFiniteSet(K),
         NEW C \in SUBSET Calls, UpsertRollups(C)
  PROVE  Sum(K) \in Nat /\ Sum(K)' \in Nat /\ Cardinality(C) \in Nat
         /\ Sum(K)' <= Sum(K) + Cardinality(C)
<1> DEFINE D == {c \in C : Key(event[c]) \in K}
           b == [k \in K |-> CHOOSE g : g \in Surjection(Sharing(C, k), 1 .. Cardinality(Sharing(C, k)))]
           h == [c \in D |-> <<Key(event[c]), rollups[Key(event[c])] + b[Key(event[c])][c]>>]
           New == {h[c] : c \in D}
<1>1. ASSUME NEW k \in K
      PROVE  /\ Cardinality(Sharing(C, k)) \in Nat
             /\ rollups[k] \in Nat /\ rollups'[k] = rollups[k] + Cardinality(Sharing(C, k))
             /\ b[k] \in Surjection(Sharing(C, k), 1 .. Cardinality(Sharing(C, k)))
  <2> DEFINE S == Sharing(C, k)
             n == Cardinality(S)
  <2>1. IsFiniteSet(S) /\ n \in Nat
    <3>1. S \in SUBSET Calls BY DEF Sharing
    <3> QED BY <3>1, FewCalls
  <2>2. rollups[k] \in Nat /\ rollups'[k] = rollups[k] + n
    BY DEF UpsertRollups, Sharing
  <2> HIDE DEF n
  <2>3. IsFiniteSet(1 .. n) /\ Cardinality(1 .. n) = n
    BY <2>1, 1 \in Int, n \in Int, FS_Interval
  <2>4. ExistsBijection(S, 1 .. n)
    BY <2>1, <2>3, FS_SameCardinalityBij DEF n
  <2>5. \E g : g \in Surjection(S, 1 .. n)
    BY <2>4 DEF ExistsBijection, Bijection
  <2>6. b[k] = CHOOSE g : g \in Surjection(S, 1 .. n)
    BY DEF n
  <2>7. b[k] \in Surjection(S, 1 .. n)
    BY <2>5, <2>6
  <2> QED
    BY <2>1, <2>2, <2>7 DEF n
<1> HIDE DEF b
<1>2. Tally(K)' \subseteq Tally(K) \cup New
  <2> SUFFICES ASSUME NEW k \in K, NEW i \in 1 .. rollups'[k], i \notin 1 .. rollups[k]
               PROVE  <<k, i>> \in New
    BY DEF Tally
  <2>1. i - rollups[k] \in 1 .. Cardinality(Sharing(C, k))
    BY <1>1
  <2>2. PICK c \in Sharing(C, k) : b[k][c] = i - rollups[k]
    BY <2>1, <1>1 DEF Surjection
  <2>3. c \in D /\ Key(event[c]) = k
    BY <2>2 DEF Sharing
  <2>4. rollups[k] + b[k][c] = i
    BY <2>2, <1>1
  <2> QED
    BY <2>3, <2>4
<1> HIDE DEF h
<1>3. IsFiniteSet(C) /\ Cardinality(C) \in Nat /\ IsFiniteSet(D) /\ Cardinality(D) <= Cardinality(C)
      /\ Cardinality(D) \in Nat
  <2>1. D \in SUBSET C OBVIOUS
  <2> QED BY <2>1, FewCalls, FS_Subset, FS_CardinalityType
<1>4. IsFiniteSet(New) /\ Cardinality(New) \in Nat /\ Cardinality(New) <= Cardinality(D)
  <2> HIDE DEF D
  <2> QED BY <1>3, FewValues, FS_CardinalityType
<1>5. IsFiniteSet(Tally(K)) /\ Sum(K) \in Nat
  BY SumType
<1> HIDE DEF New, D
<1>6. /\ IsFiniteSet(Tally(K) \cup New) /\ Cardinality(Tally(K) \cup New) \in Nat
      /\ Cardinality(Tally(K) \cup New) <= Sum(K) + Cardinality(New)
  <2>1. IsFiniteSet(Tally(K) \cap New)
    BY <1>4, FS_Subset
  <2>2. /\ IsFiniteSet(Tally(K) \cup New)
        /\ Cardinality(Tally(K) \cup New)
             = Cardinality(Tally(K)) + Cardinality(New) - Cardinality(Tally(K) \cap New)
    BY <1>4, <1>5, FS_Union
  <2>3. Cardinality(Tally(K) \cap New) \in Nat /\ Cardinality(Tally(K) \cup New) \in Nat
    BY <2>1, <2>2, FS_CardinalityType
  <2> QED
    BY <2>2, <2>3, <1>4, <1>5 DEF Sum
<1>7. Sum(K)' \in Nat /\ Sum(K)' <= Cardinality(Tally(K) \cup New)
  <2>1. Tally(K)' \in SUBSET (Tally(K) \cup New)
    BY <1>2
  <2> QED
    BY <2>1, <1>6, FS_Subset, FS_CardinalityType DEF Sum
<1> QED
  BY <1>3, <1>4, <1>5, <1>6, <1>7

(* However the counted calls are batched into transactions, whatever fails *)
(* in between and whatever is pruned or reset, the rollups of any keys sum *)
(* up to no more than the calls that came to their upsert.                 *)
NoCallTwice ==
  \A K \in SUBSET Keys : IsFiniteSet(K) => Sum(K) <= Cardinality(Past)

(* A step that adds no count.                                              *)
LEMMA NothingCounted ==
  ASSUME NoCallTwice, rollups \in [Keys -> Nat], rollups' \in [Keys -> Nat],
         \A k \in Keys : ~(rollups'[k] > rollups[k]), Past \subseteq Past'
  PROVE  NoCallTwice'
<1> SUFFICES ASSUME NEW K \in SUBSET Keys, IsFiniteSet(K)
             PROVE  Sum(K)' <= Cardinality(Past')
  BY DEF NoCallTwice
<1>1. Sum(K) \in Nat /\ Sum(K)' \in Nat /\ Sum(K)' <= Sum(K)
  BY SumFollows
<1>2. IsFiniteSet(Past') /\ Past \in SUBSET Past' /\ Cardinality(Past') \in Nat
  BY FewCalls DEF Past
<1>3. Cardinality(Past) \in Nat /\ Cardinality(Past) <= Cardinality(Past')
  BY <1>2, FS_Subset, FS_CardinalityType
<1> QED
  BY <1>1, <1>2, <1>3 DEF NoCallTwice

(* An upsert, after which its calls are past it.                           *)
LEMMA CallsCounted ==
  ASSUME NoCallTwice, rollups \in [Keys -> Nat], NEW C \in SUBSET Calls, UpsertRollups(C),
         C \cap Past = {}, Past \cup C \subseteq Past'
  PROVE  NoCallTwice'
<1> SUFFICES ASSUME NEW K \in SUBSET Keys, IsFiniteSet(K)
             PROVE  Sum(K)' <= Cardinality(Past')
  BY DEF NoCallTwice
<1>1. /\ Sum(K) \in Nat /\ Sum(K)' \in Nat /\ Cardinality(C) \in Nat
      /\ Sum(K)' <= Sum(K) + Cardinality(C)
  BY UpsertAdds
<1>2. /\ Past \in SUBSET Calls /\ Past \cup C \in SUBSET Past' /\ Past' \in SUBSET Calls
  BY DEF Past
<1>3. /\ IsFiniteSet(Past) /\ IsFiniteSet(C) /\ IsFiniteSet(Past')
      /\ Cardinality(Past) \in Nat /\ Cardinality(Past') \in Nat
  BY <1>2, FewCalls
<1>4. Cardinality(Past \cup C) = Cardinality(Past) + Cardinality(C) - Cardinality(Past \cap C)
  BY <1>3, FS_Union
<1>5. Cardinality(Past \cap C) = 0
  <2>1. Past \cap C = {}
    OBVIOUS
  <2> QED
    BY <2>1, FS_EmptySet
<1>6. Cardinality(Past \cup C) = Cardinality(Past) + Cardinality(C)
  BY <1>1, <1>3, <1>4, <1>5
<1>7. Cardinality(Past \cup C) <= Cardinality(Past')
  BY <1>2, <1>3, FS_Subset
<1>8. Sum(K) <= Cardinality(Past)
  BY DEF NoCallTwice
<1> QED
  BY <1>1, <1>3, <1>6, <1>7, <1>8

(* Every step.                                                             *)
LEMMA NoCallTwiceStep ==
  ASSUME IInv, IInv', NoCallTwice, [Next]_vars PROVE NoCallTwice'
<1>1. rollups \in [Keys -> Nat] /\ rollups' \in [Keys -> Nat]
  BY DEF IInv, Covered
<1>2. step \in [Calls \cup Resets -> {"ready", "write", "row", "done"}] /\ Writing
  BY DEF IInv, Writing
<1>3. ASSUME NEW C \in SUBSET Calls, Return(C) PROVE Past' = Past \cup C
  BY <1>2, <1>3 DEF Return, Past
<1>4. ASSUME NEW C \in SUBSET Calls, Append(C) PROVE NoCallTwice'
  <2> DEFINE D == {c \in C : event[c].count}
  <2>1. UpsertRollups(D) /\ Return(C) /\ D \in SUBSET C /\ \A c \in C : step[c] = "write"
    BY <1>4 DEF Append
  <2>2. D \cap Past = {} /\ Past \cup D \subseteq Past'
    BY <2>1, <1>3 DEF Past
  <2> HIDE DEF D
  <2> QED
    BY <1>1, <2>1, <2>2, CallsCounted
<1>5. ASSUME NEW c \in Calls, AppendRollupFirst(c) PROVE NoCallTwice'
  <2>1. UpsertRollups({c}) /\ step[c] = "write" /\ step' = [step EXCEPT ![c] = "row"]
    BY <1>5 DEF AppendRollupFirst
  <2>2. {c} \cap Past = {} /\ Past \cup {c} \subseteq Past'
    BY <1>2, <2>1 DEF Past
  <2> QED
    BY <1>1, <2>1, <2>2, CallsCounted
<1>6. ASSUME UNCHANGED rollups, Past \subseteq Past' PROVE NoCallTwice'
  BY <1>1, <1>6, NothingCounted
<1>7. ASSUME NEW c \in Calls, AppendRowThen(c) \/ WriteFails(c) PROVE NoCallTwice'
  <2>1. Past' = Past \cup {c} /\ UNCHANGED rollups
    BY <1>3, <1>7 DEF AppendRowThen, WriteFails, tables
  <2> QED
    BY <1>6, <2>1
<1>8. ASSUME NEW c \in Calls, Record(c) PROVE NoCallTwice'
  <2>1. step[c] = "ready" /\ UNCHANGED rollups
    BY <1>8 DEF Record, tables
  <2>2. step' = [step EXCEPT ![c] = "write"] \/ Return({c})
    BY <1>8 DEF Record
  <2>3. Past \subseteq Past'
    BY <1>2, <1>3, <2>1, <2>2 DEF Past
  <2> QED
    BY <1>6, <2>1, <2>3
<1>9. ASSUME NEW r \in Resets, Reset(r) PROVE NoCallTwice'
  <2>1. \A k \in Keys : rollups'[k] = 0 /\ ~(rollups'[k] > rollups[k])
    BY <1>1, <1>9 DEF Reset
  <2>2. Past' = Past
    BY <1>2, <1>9, RepositoryAssumption DEF Reset, Past
  <2> QED
    BY <1>1, <2>1, <2>2, NothingCounted
<1>10. ASSUME PruneRetention PROVE NoCallTwice'
  <2>1. \A k \in Keys : rollups'[k] = 0 \/ rollups'[k] = rollups[k]
    BY <1>10 DEF PruneRetention
  <2>2. \A k \in Keys : ~(rollups'[k] > rollups[k])
    BY <1>1, <2>1
  <2>3. Past' = Past
    BY <1>10 DEF PruneRetention, Past
  <2> QED
    BY <1>1, <2>2, <2>3, NothingCounted
<1>11. ASSUME UNCHANGED <<rollups, step>> PROVE NoCallTwice'
  BY <1>6, <1>11 DEF Past
<1> QED
  BY <1>4, <1>5, <1>7, <1>8, <1>9, <1>10, <1>11
  DEF Next, vars, tables, Tick, BeginWalk, ListTotal, ListPage, MetricsSummary, MetricsPanics,
      MetricsPoints

(* The dashboard never counts a request twice: not the worker's batches,   *)
(* nor SyncRecorder's two writes, nor both of them beside resets (Append,  *)
(* mergeRollups, the upsert of AppendMetricRollups).                       *)
THEOREM NothingOvercounted == Spec => []NoCallTwice
<1>1. Init => NoCallTwice
  <2> SUFFICES ASSUME Init, NEW K \in SUBSET Keys, IsFiniteSet(K) PROVE Sum(K) <= Cardinality(Past)
    BY DEF NoCallTwice
  <2>1. Tally(K) = {}
    BY DEF Init, Tally
  <2>2. Sum(K) = 0 /\ Cardinality(Past) \in Nat
    BY <2>1, FS_EmptySet, FewCalls DEF Sum, Past
  <2> QED
    BY <2>2
<1>2. IInv /\ IInv' /\ NoCallTwice /\ [Next]_vars => NoCallTwice'
  BY NoCallTwiceStep
<1> QED
  BY <1>1, <1>2, RepositoryInvariant, PTL DEF Spec
=============================================================================
