--------------------------- MODULE AsyncRecorder ---------------------------
(***************************************************************************)
(* The asynchronous audit recorder of internal/audit/recorder.go: request  *)
(* handlers put audit items on a bounded channel; one worker goroutine     *)
(* batches them and writes each batch to the repository, with retries; the *)
(* administrator's reset flushes the queue and then deletes the trail; the *)
(* shutdown path closes the recorder and waits for the queue to drain.     *)
(*                                                                         *)
(* Processes: one per call of Record (Calls), of Flush or Reset            *)
(* (Flushers), of Close (Closers), and the worker.  An action is one step  *)
(* between two points where another goroutine can be observed: a channel   *)
(* operation, an atomic load or store, a repository transaction, a timer.  *)
(***************************************************************************)
EXTENDS Naturals, Sequences, FiniteSets, Functions

CONSTANTS
    Calls,              \* the calls of Record; a call names its item
    Flushers,           \* the calls of Flush, and of Reset, which flushes first
    Resetters,          \* those of the Flushers that are calls of Reset
    Closers,            \* the calls of Close
    Decisions,          \* the policy decisions that enqueue an item
    ChannelSize,        \* AsyncConfig.ChannelSize
    BatchSize,          \* AsyncConfig.BatchSize
    RetryMaxAttempts,   \* AsyncConfig.RetryMaxAttempts
    DropOnFull,         \* AsyncConfig.DropOnFull
    Atomic,             \* the repository implements AtomicBatchRepository
    AmbiguousLimit      \* bound: a commit may take effect and still return an
                        \* error while it adds no rollup more often than this

Priorities == {"critical", "normal", "best_effort"}
Items == [event : BOOLEAN, rollup : BOOLEAN, priority : Priorities]
Clients == Flushers \cup Closers

ASSUME RecorderAssumption ==
    /\ ChannelSize \in Nat \ {0}
    /\ BatchSize \in Nat \ {0}
    /\ RetryMaxAttempts \in Nat \ {0}
    /\ AmbiguousLimit \in Nat
    /\ {DropOnFull, Atomic} \subseteq BOOLEAN
    /\ Resetters \subseteq Flushers
    /\ Flushers \cap Closers = {}
    /\ Decisions \subseteq {d \in Items : d.event \/ d.rollup}

VARIABLES
    closed,     \* r.closed
    record,     \* record[c]: how far call c of Record has come, or how it ended
    item,       \* item[c]: what the policy decided that c's item carries
    items,      \* r.items, the channel: a sequence of calls
    events,     \* the worker's slice of events not yet known to be written
    rollups,    \* the worker's slice of rollups not yet known to be written
    worker,     \* where the worker goroutine is
    attempt,    \* the attempt of flushWithRetry, 0 outside it
    serving,    \* whose request the worker's flush answers: {} on a batch or tick
    flush,      \* flush[f]: how far call f of Flush or Reset has come
    reply,      \* reply[f]: the buffered channel req.done of f's request
    close,      \* close[k]: how far call k of Close has come
    ctxDone,    \* ctxDone[k]: the deadline of k's context has passed
    closeCh,    \* r.closeCh: the Close whose context waits to be taken
    doneCh,     \* r.doneCh: the result of the final flush, until a Close reads it
    stats,      \* the counters of RecorderStats that Record maintains
    rows,       \* repository: calls whose event has a row in audit_events
    counts,     \* repository: how often a call's rollup has been added in
    markers,    \* repository: resets whose audit.reset marker row is visible
    log,        \* history: the calls sent on items, in order
    before,     \* history: what had been sent when a client made its call
    wiped       \* history: the event rows and rollups that a reset deleted

callVars   == <<record, item, stats>>
chanVars   == <<items, log>>
sliceVars  == <<events, rollups>>
workVars   == <<sliceVars, worker, attempt, serving>>
flushVars  == <<flush, reply>>
closeVars  == <<closed, close, ctxDone, closeCh, doneCh>>
repoVars   == <<rows, counts, markers, wiped>>
vars == <<callVars, chanVars, workVars, flushVars, closeVars, repoVars, before>>

Accepted == Range(log)
Parts == {"event", "rollup"}
Counters == {"enqueued", "errors", "full", "dropped", "skipped"}

(* How a call of Record may have ended.                                    *)
Returned == {"ignored", "failed", "skipped", "sent", "dropped", "ctxErr"}

TypeOK ==
    /\ closed \in BOOLEAN
    /\ record \in [Calls -> {"idle", "decided", "waiting"} \cup Returned]
    /\ item \in [Calls -> Items]
    /\ items \in Seq(Calls) /\ Len(items) <= ChannelSize
    /\ events \subseteq Calls /\ rollups \subseteq Calls
    /\ worker \in {"select", "drain", "append", "rollups", "backoff", "exited"}
    /\ attempt \in 0..RetryMaxAttempts
    /\ worker = "backoff" => attempt < RetryMaxAttempts
    /\ serving \subseteq Clients
    /\ flush \in [Flushers -> {"idle", "sending", "awaiting", "closed", "ctxErr",
                               "flushed", "ok", "err"}]
    /\ reply \in [Flushers -> {"none", "ok", "err"}]
    /\ close \in [Closers -> {"idle", "waiting", "already", "ctxErr", "ok", "err"}]
    /\ ctxDone \in [Closers -> BOOLEAN]
    /\ closeCh \subseteq Closers
    /\ doneCh \subseteq {"ok", "err"}
    /\ stats \in [Counters -> Nat]
    /\ rows \subseteq Calls
    /\ counts \in [Calls -> Nat]
    /\ markers \subseteq Flushers
    /\ log \in Seq(Calls)
    /\ before \in [Clients -> SUBSET Calls]
    /\ wiped \subseteq Calls \X Parts

(* NewAsyncRecorder: empty channels, nothing buffered, the worker started. *)
Init ==
    /\ closed = FALSE
    /\ record = [c \in Calls |-> "idle"]
    /\ item = [c \in Calls |-> [event |-> FALSE, rollup |-> FALSE, priority |-> "normal"]]
    /\ items = <<>> /\ log = <<>>
    /\ events = {} /\ rollups = {}
    /\ worker = "select" /\ attempt = 0 /\ serving = {}
    /\ flush = [f \in Flushers |-> "idle"]
    /\ reply = [f \in Flushers |-> "none"]
    /\ close = [k \in Closers |-> "idle"]
    /\ ctxDone = [k \in Closers |-> FALSE]
    /\ closeCh = {} /\ doneCh = {}
    /\ stats = [s \in Counters |-> 0]
    /\ rows = {} /\ counts = [c \in Calls |-> 0] /\ markers = {} /\ wiped = {}
    /\ before = [p \in Clients |-> {}]
-----------------------------------------------------------------------------
(* Record: one call, on the goroutine of a request handler.                *)

Count(names) == stats' = [s \in Counters |-> stats[s] + IF s \in names THEN 1 ELSE 0]

Becomes(c, state) ==
    /\ record' = [record EXCEPT ![c] = state]
    /\ UNCHANGED <<workVars, flushVars, closeVars, repoVars, before>>

(* The recorder was closed before the call: the event is not recorded and  *)
(* the caller is told nothing.                                             *)
RecordClosed(c) ==
    /\ record[c] = "idle" /\ closed
    /\ Becomes(c, "ignored") /\ UNCHANGED <<item, stats, chanVars>>

(* PrepareEvent cannot draw an ID.                                         *)
RecordPrepareFails(c) ==
    /\ record[c] = "idle" /\ ~closed
    /\ Becomes(c, "failed") /\ Count({"errors"}) /\ UNCHANGED <<item, chanVars>>

(* The policy keeps neither a row nor a rollup.                            *)
RecordSkipped(c) ==
    /\ record[c] = "idle" /\ ~closed
    /\ Becomes(c, "skipped") /\ Count({"skipped"}) /\ UNCHANGED <<item, chanVars>>

(* The item is built.  Nothing looks at r.closed again before the send.    *)
RecordDecided(c, d) ==
    /\ record[c] = "idle" /\ ~closed
    /\ item' = [item EXCEPT ![c] = d]
    /\ Becomes(c, "decided") /\ Count(IF d.event THEN {} ELSE {"skipped"})
    /\ UNCHANGED chanVars

HasRoomOffByOne == Len(items) <= ChannelSize    \* variant
HasRoom == Len(items) < ChannelSize

Send(c) ==
    /\ HasRoom
    /\ items' = Append(items, c)
    /\ log' = Append(log, c)
    /\ Becomes(c, "sent") /\ Count({"enqueued"}) /\ UNCHANGED item

(* The non-blocking send at the head of enqueue.                           *)
EnqueueFast(c) == record[c] = "decided" /\ Send(c)

(* A drop without an error counts as an enqueue as well: Record returns nil. *)
EnqueuedOnly == {"enqueued"}    \* variant
DroppedWithNil == {"dropped", "enqueued"}

(* The channel is full.  With DropOnFull only a critical item waits.       *)
EnqueueFull(c) ==
    /\ record[c] = "decided" /\ ~HasRoom
    /\ IF DropOnFull /\ item[c].priority # "critical"
       THEN Becomes(c, "dropped") /\ Count({"full"} \cup DroppedWithNil)
       ELSE Becomes(c, "waiting") /\ Count({"full"})
    /\ UNCHANGED <<item, chanVars>>

(* The wait of enqueue ends with the send, the timer or the context.       *)
EnqueueSlow(c) == record[c] = "waiting" /\ Send(c)

EnqueueTimeout(c) ==
    /\ record[c] = "waiting"
    /\ Becomes(c, "dropped") /\ Count(DroppedWithNil) /\ UNCHANGED <<item, chanVars>>

EnqueueCtxDone(c) ==
    /\ record[c] = "waiting"
    /\ Becomes(c, "ctxErr") /\ Count({"dropped", "errors"}) /\ UNCHANGED <<item, chanVars>>

RecordStep(c) ==
    \/ RecordClosed(c) \/ RecordPrepareFails(c) \/ RecordSkipped(c)
    \/ \E d \in Decisions : RecordDecided(c, d)
    \/ EnqueueFast(c) \/ EnqueueFull(c)
    \/ EnqueueSlow(c) \/ EnqueueTimeout(c) \/ EnqueueCtxDone(c)
-----------------------------------------------------------------------------
(* The worker goroutine: run, flushWithRetry, flushOnce.                   *)

(* add: the parts of an item go to the two slices.                         *)
TakeItem ==
    /\ items # <<>>
    /\ LET c == Head(items)
       IN  /\ events' = IF item[c].event THEN events \cup {c} ELSE events
           /\ rollups' = IF item[c].rollup THEN rollups \cup {c} ELSE rollups
    /\ items' = Tail(items)
    /\ UNCHANGED <<log, callVars>>

(* One attempt.  Without AppendAuditBatch, events and rollups are written  *)
(* one after the other, and an empty slice is not written at all.          *)
BeginAttempt(n) ==
    /\ attempt' = n
    /\ worker' = IF Atomic \/ events' # {} THEN "append" ELSE "rollups"

(* Only success empties the slices.                                        *)
SlicesDiscarded(result) == events' = {} /\ rollups' = {}    \* variant
RollupsKept(result) == events' = {} /\ UNCHANGED rollups    \* variant
SlicesAfter(result) ==
    IF result = "ok" THEN events' = {} /\ rollups' = {} ELSE UNCHANGED sliceVars

(* req.done <- err: whoever asked for the flush is answered.               *)
RepliesOnSuccess(result) ==     \* variant
    reply' = [f \in Flushers |-> IF f \in serving /\ result = "ok" THEN "ok" ELSE reply[f]]
Replies(result) ==
    reply' = [f \in Flushers |-> IF f \in serving THEN result ELSE reply[f]]

(* The end of a flush.  The flush of Close is the worker's last step.      *)
FinishFlush(result) ==
    /\ SlicesAfter(result) /\ Replies(result)
    /\ IF serving \cap Closers # {}
       THEN worker' = "exited" /\ doneCh' = {result}
       ELSE worker' = "select" /\ UNCHANGED doneCh
    /\ serving' = {} /\ attempt' = 0
    /\ UNCHANGED <<flush, closed, close, ctxDone, closeCh>>

BatchDue(es, rs) == Cardinality(es) + Cardinality(rs) >= BatchSize
FlushDue(es, rs) == es \cup rs # {}

(* case item := <-r.items                                                  *)
ReceiveItem ==
    /\ worker = "select"
    /\ TakeItem
    /\ IF BatchDue(events', rollups') THEN BeginAttempt(1) ELSE UNCHANGED <<worker, attempt>>
    /\ UNCHANGED <<serving, flushVars, closeVars, repoVars, before>>

(* case <-ticker.C                                                         *)
Tick ==
    /\ worker = "select" /\ FlushDue(events, rollups)
    /\ UNCHANGED <<sliceVars, serving>>
    /\ BeginAttempt(1)
    /\ UNCHANGED <<callVars, chanVars, flushVars, closeVars, repoVars, before>>

(* case req := <-r.flushCh: the channel is unbuffered, so the request and  *)
(* the worker meet.                                                        *)
TakeFlush(f) ==
    /\ worker = "select" /\ flush[f] = "sending"
    /\ flush' = [flush EXCEPT ![f] = "awaiting"]
    /\ worker' = "drain" /\ serving' = {f}
    /\ UNCHANGED <<callVars, chanVars, sliceVars, attempt, reply, closeVars, repoVars, before>>

(* case closeCtx := <-r.closeCh                                            *)
TakeClose(k) ==
    /\ worker = "select" /\ k \in closeCh
    /\ closeCh' = closeCh \ {k}
    /\ worker' = "drain" /\ serving' = {k}
    /\ UNCHANGED <<callVars, chanVars, sliceVars, attempt, flushVars,
                   closed, close, ctxDone, doneCh, repoVars, before>>

(* drain, and the loop of the close case: items are taken one at a time,   *)
(* and senders may refill the channel meanwhile.                           *)
DrainItem ==
    /\ worker = "drain" /\ TakeItem
    /\ UNCHANGED <<worker, attempt, serving, flushVars, closeVars, repoVars, before>>

DrainStopsEarly == TRUE     \* variant
Drained == items = <<>>

DrainDone ==
    /\ worker = "drain" /\ Drained
    /\ IF FlushDue(events, rollups)
       THEN UNCHANGED <<sliceVars, serving, flushVars, closeVars>> /\ BeginAttempt(1)
       ELSE FinishFlush("ok")
    /\ UNCHANGED <<callVars, chanVars, repoVars, before>>

(* The repository's side of the write in progress.  Rows are inserted      *)
(* under their ID, and again without effect; rollups are added up.         *)
WriteTakesEffect ==
    /\ rows' = rows \cup (IF worker = "append" THEN events ELSE {})
    /\ counts' = [c \in Calls |-> counts[c] +
                    IF c \in rollups /\ (Atomic \/ worker = "rollups") THEN 1 ELSE 0]
    /\ UNCHANGED <<markers, wiped>>

MayBeAmbiguous == /\ AmbiguousLimit > 0
                  /\ \A c \in rollups : counts[c] < AmbiguousLimit

(* AppendMetricRollups is still to come after AppendBatch.                 *)
RollupsToCome == worker = "append" /\ ~Atomic /\ rollups # {}

AppendSucceeds ==
    /\ worker \in {"append", "rollups"}
    /\ WriteTakesEffect
    /\ IF RollupsToCome
       THEN worker' = "rollups" /\ UNCHANGED <<sliceVars, attempt, serving, flushVars, closeVars>>
       ELSE FinishFlush("ok")
    /\ UNCHANGED <<callVars, chanVars, before>>

(* The write returns an error: it was rolled back, or, when the repository *)
(* cannot tell, took effect all the same.                                  *)
AppendFails ==
    /\ worker \in {"append", "rollups"}
    /\ \/ UNCHANGED repoVars
       \/ MayBeAmbiguous /\ WriteTakesEffect
    /\ IF attempt = RetryMaxAttempts
       THEN FinishFlush("err")
       ELSE worker' = "backoff" /\ UNCHANGED <<sliceVars, attempt, serving, flushVars, closeVars>>
    /\ UNCHANGED <<callVars, chanVars, before>>

SameAttempt == attempt  \* variant
NextAttempt == attempt + 1

BackoffElapsed ==
    /\ worker = "backoff"
    /\ UNCHANGED <<sliceVars, serving>>
    /\ BeginAttempt(NextAttempt)
    /\ UNCHANGED <<callVars, chanVars, flushVars, closeVars, repoVars, before>>

(* Only the flush of Close runs under a context that ends.                 *)
BackoffCtxDone ==
    /\ worker = "backoff"
    /\ \E k \in serving \cap Closers : ctxDone[k]
    /\ FinishFlush("err")
    /\ UNCHANGED <<callVars, chanVars, repoVars, before>>

WorkerStep ==
    \/ ReceiveItem \/ Tick
    \/ \E f \in Flushers : TakeFlush(f)
    \/ \E k \in Closers : TakeClose(k)
    \/ DrainItem \/ DrainDone
    \/ AppendSucceeds \/ AppendFails
    \/ BackoffElapsed \/ BackoffCtxDone
-----------------------------------------------------------------------------
(* Flush, and Reset, which flushes and then has the repository delete the  *)
(* trail in a transaction that leaves one marker row.                      *)

FlushBecomes(f, state) ==
    /\ flush' = [flush EXCEPT ![f] = state]
    /\ UNCHANGED <<callVars, chanVars, workVars, reply, closeVars>>

FlushClosed(f) ==
    /\ flush[f] = "idle" /\ closed
    /\ FlushBecomes(f, "closed") /\ UNCHANGED <<repoVars, before>>

FlushBegin(f) ==
    /\ flush[f] = "idle" /\ ~closed
    /\ before' = [before EXCEPT ![f] = Accepted]
    /\ FlushBecomes(f, "sending") /\ UNCHANGED repoVars

(* The caller's context ends while it waits to be taken or to be answered. *)
(* The worker does not notice: its answer stays in the buffered req.done.  *)
FlushCtxDone(f) ==
    /\ flush[f] \in {"sending", "awaiting"}
    /\ FlushBecomes(f, "ctxErr") /\ UNCHANGED <<repoVars, before>>

(* Reset goes on only when the flush succeeded.                            *)
ResetAnyway(f) == f \in Resetters   \* variant
ResetGoesOn(f) == f \in Resetters /\ reply[f] = "ok"

FlushReturn(f) ==
    /\ flush[f] = "awaiting" /\ reply[f] # "none"
    /\ FlushBecomes(f, IF ResetGoesOn(f) THEN "flushed" ELSE reply[f])
    /\ UNCHANGED <<repoVars, before>>

(* The transaction of Repository.Reset, and its audit.reset marker.        *)
RollupsSurvive == counts    \* variant
NoRollups == [c \in Calls |-> 0]

DeleteTrail(f) ==
    /\ wiped' = wiped \cup (rows \X {"event"})
                      \cup ({c \in Calls : counts[c] > 0} \X {"rollup"})
    /\ rows' = {} /\ counts' = NoRollups /\ markers' = {f}

ResetSucceeds(f) ==
    /\ flush[f] = "flushed"
    /\ DeleteTrail(f)
    /\ FlushBecomes(f, "ok") /\ UNCHANGED before

ResetFails(f) ==
    /\ flush[f] = "flushed"
    /\ UNCHANGED repoVars \/ (AmbiguousLimit > 0 /\ DeleteTrail(f))
    /\ FlushBecomes(f, "err") /\ UNCHANGED before

FlushStep(f) ==
    \/ FlushClosed(f) \/ FlushBegin(f) \/ FlushCtxDone(f) \/ FlushReturn(f)
    \/ ResetSucceeds(f) \/ ResetFails(f)
-----------------------------------------------------------------------------
(* Close.  closeMux makes the check of r.closed, its store and the send of *)
(* the context one step; only the first Close sends, on a channel with     *)
(* room for it.                                                            *)

CloseBecomes(k, state) ==
    /\ close' = [close EXCEPT ![k] = state]
    /\ UNCHANGED <<callVars, chanVars, workVars, flushVars, ctxDone, repoVars>>

CloseBegin(k) ==
    /\ close[k] = "idle" /\ ~closed
    /\ closed' = TRUE
    /\ closeCh' = closeCh \cup {k}
    /\ before' = [before EXCEPT ![k] = Accepted]
    /\ CloseBecomes(k, "waiting") /\ UNCHANGED doneCh

(* Both cases of the select are ready when the context has already ended:  *)
(* the recorder may be closed without the worker being told.               *)
CloseExpired(k) ==
    /\ close[k] = "idle" /\ ~closed /\ ctxDone[k]
    /\ closed' = TRUE
    /\ CloseBecomes(k, "ctxErr") /\ UNCHANGED <<closeCh, doneCh, before>>

(* A result is read from doneCh by whoever comes first.                    *)
TakeResult(k) ==
    /\ \E result \in doneCh : CloseBecomes(k, result)
    /\ doneCh' = {} /\ UNCHANGED <<closed, closeCh, before>>

(* A later Close takes the result if it is there, and does not wait for it. *)
CloseAgain(k) ==
    /\ close[k] = "idle" /\ closed
    /\ \/ TakeResult(k)
       \/ doneCh = {} /\ CloseBecomes(k, "already") /\ UNCHANGED <<closed, closeCh, doneCh, before>>

CloseReturn(k) == close[k] = "waiting" /\ TakeResult(k)

CloseCtxDone(k) ==
    /\ close[k] = "waiting" /\ ctxDone[k]
    /\ CloseBecomes(k, "ctxErr") /\ UNCHANGED <<closed, closeCh, doneCh, before>>

(* The deadline that Close gives every context without one.                *)
DeadlinePasses(k) ==
    /\ ~ctxDone[k]
    /\ ctxDone' = [ctxDone EXCEPT ![k] = TRUE]
    /\ UNCHANGED <<callVars, chanVars, workVars, flushVars,
                   closed, close, closeCh, doneCh, repoVars, before>>

CloseStep(k) ==
    \/ CloseBegin(k) \/ CloseExpired(k) \/ CloseAgain(k)
    \/ CloseReturn(k) \/ CloseCtxDone(k) \/ DeadlinePasses(k)
-----------------------------------------------------------------------------
Next == \/ \E c \in Calls : RecordStep(c)
        \/ WorkerStep
        \/ \E f \in Flushers : FlushStep(f)
        \/ \E k \in Closers : CloseStep(k)

Spec == Init /\ [][Next]_vars

(* The scheduling that Go gives.  A goroutine that can go on does, a timer *)
(* or deadline fires, and a select that keeps finding a case ready takes   *)
(* it in the end, because it chooses at random.  Nothing is assumed of the *)
(* callers' contexts, nor of when a call is made.                          *)
Fairness ==
    /\ \A c \in Calls : /\ WF_vars(EnqueueFast(c) \/ EnqueueFull(c))
                        /\ WF_vars(EnqueueTimeout(c))
    /\ SF_vars(ReceiveItem) /\ SF_vars(Tick)
    /\ \A f \in Flushers : SF_vars(TakeFlush(f))
    /\ \A k \in Closers : SF_vars(TakeClose(k))
    /\ WF_vars(DrainItem) /\ WF_vars(DrainDone)
    /\ WF_vars(AppendSucceeds \/ AppendFails) /\ WF_vars(BackoffElapsed)
    /\ \A f \in Flushers : /\ WF_vars(FlushReturn(f))
                           /\ WF_vars(ResetSucceeds(f) \/ ResetFails(f))
    /\ \A k \in Closers : /\ WF_vars(CloseReturn(k)) /\ WF_vars(CloseCtxDone(k))
                          /\ WF_vars(DeadlinePasses(k))

FairSpec == Spec /\ Fairness

(* The repository is not down for ever: of the writes of one kind that are *)
(* tried again and again, some succeed.                                    *)
Recovers == /\ SF_vars(worker = "append" /\ AppendSucceeds)
            /\ SF_vars(worker = "rollups" /\ AppendSucceeds)
-----------------------------------------------------------------------------
(* Properties.                                                             *)

EventKept(c) == item[c].event => c \in rows \/ <<c, "event">> \in wiped
RollupKept(c) == item[c].rollup => counts[c] > 0 \/ <<c, "rollup">> \in wiped

(* The repository has, or had until a reset, all that the item carries.    *)
Kept(c) == EventKept(c) /\ RollupKept(c)

(* An accepted item is always somewhere: on the channel, in the worker's   *)
(* slices, or in the repository; no failed write, retry, reset or shutdown *)
(* makes it disappear.  (AsyncRecorder.run, flush: slices are emptied only *)
(* after a nil error.)                                                     *)
NothingLost ==
    \A c \in Accepted :
        /\ c \in Range(items) \/ c \in events \/ EventKept(c)
        /\ c \in Range(items) \/ c \in rollups \/ RollupKept(c)

(* A Flush that returns nil has written all that was sent before the call, *)
(* whatever the worker was doing, and however often it failed, in between. *)
FlushCovers ==
    \A f \in Flushers : reply[f] = "ok" => \A c \in before[f] : Kept(c)

(* Once the worker has gone, nothing that was sent before Close is left on *)
(* the channel, and if a Close returned the worker's nil, all of it is in  *)
(* the repository.                                                         *)
CloseCovers ==
    /\ worker = "exited" => \A k \in Closers : before[k] \cap Range(items) = {}
    /\ (\E k \in Closers : close[k] = "ok") =>
            \A k \in Closers : \A c \in before[k] : Kept(c)

(* After a Reset that returned nil no row or count of anything sent before *)
(* the call is visible, then or later, and a marker of a reset is.         *)
ResetErases ==
    \A f \in Resetters : flush[f] = "ok" =>
        /\ \A c \in before[f] : c \notin rows /\ counts[c] = 0
        /\ markers # {}

(* Without ambiguous commits no rollup is added twice, however often its   *)
(* batch is retried and whatever resets come between.                      *)
RollupCountedOnce ==
    AmbiguousLimit = 0 =>
        \A c \in Calls : counts[c] + (IF <<c, "rollup">> \in wiped THEN 1 ELSE 0) <= 1

(* With AppendAuditBatch the trail and the dashboard's counters agree: a   *)
(* call that carries both parts has both in the repository or neither.     *)
TrailAndMetricsAgree ==
    Atomic => \A c \in Calls :
        item[c].event /\ item[c].rollup => (c \in rows <=> counts[c] > 0)

(* Every item that the policy wanted kept is on the log or in DroppedTotal, *)
(* and EnqueueTotal and EnqueueErrorTotal account for every call.           *)
Accounting ==
    LET Ended(outcomes) == Cardinality({c \in Calls : record[c] \in outcomes})
    IN  /\ Ended({"sent", "dropped", "ctxErr"}) = Len(log) + stats["dropped"]
        /\ stats["enqueued"] = Len(log) + stats["dropped"] - Ended({"ctxErr"})
        /\ stats["errors"] = Ended({"ctxErr", "failed"})

(* Of a call on the log: all of it is in the repository; a reset deleted   *)
(* something of it.                                                        *)
InTrail == {c \in Accepted : /\ item[c].event => c \in rows
                             /\ item[c].rollup => counts[c] > 0}
Deleted == {c \in Accepted : \E p \in Parts : <<c, p>> \in wiped}

Promise == INSTANCE AuditLog WITH InOrder <- Atomic, kept <- InTrail, erased <- Deleted

(* What the recorder promises, on the abstract log: items are kept in the  *)
(* order they were accepted, and stay kept until a reset.                  *)
ImplementsAuditLog == Promise!Spec

(* A Flush that was taken is answered, even when every write fails.        *)
FlushAnswered == \A f \in Flushers :
    flush[f] = "awaiting" ~> flush[f] \notin {"sending", "awaiting"}

(* Close ends by its deadline even if its result was read by another Close. *)
CloseReturns == \A k \in Closers : close[k] = "waiting" ~> close[k] # "waiting"

(* A Close that reached the worker stops it.                               *)
WorkerStops == \A k \in Closers : k \in closeCh ~> worker = "exited"

(* With the recorder open, or closed without the worker being told, every  *)
(* accepted item reaches the repository if writes succeed again.           *)
EventuallyKept == Recovers => \A c \in Calls :
    c \in Accepted ~> (Kept(c) \/ worker = "exited")
-----------------------------------------------------------------------------
(* Two statements of the documentation that the code does not keep.        *)

(* README.md: AUDIT_BATCH_SIZE is the "max events/rollups per flush".      *)
BatchWithinLimit ==
    worker \in {"append", "rollups"} =>
        Cardinality(events) + Cardinality(rollups) <= BatchSize

(* README.md: AUDIT_DROP_ON_FULL means "drop best-effort events when the   *)
(* queue is full", and normal ones wait for AUDIT_ENQUEUE_TIMEOUT.         *)
OnlyBestEffortDroppedAtOnce ==
    [][\A c \in Calls : record[c] = "decided" /\ record'[c] = "dropped"
                            => item[c].priority = "best_effort"]_vars
=============================================================================
