------------------------ MODULE AsyncRecorderProofs ------------------------
(***************************************************************************)
(* Theorems about AsyncRecorder, for every number of callers and every     *)
(* value of the configuration.                                             *)
(***************************************************************************)
EXTENDS AsyncRecorder, SequenceTheorems, FiniteSetTheorems, TLAPS

-----------------------------------------------------------------------------
(* What a send and a receive do to the set of items on a channel.          *)

(* A send adds the call to the set of calls on the channel or log.         *)
LEMMA RangeAppend ==
    ASSUME NEW S, NEW s \in Seq(S), NEW x
    PROVE  Range(Append(s, x)) = Range(s) \cup {x}
<1>1. /\ DOMAIN s = 1..Len(s) /\ Len(s) \in Nat
      /\ DOMAIN Append(s, x) = 1..(Len(s) + 1)
      /\ \A i \in 1..Len(s) : Append(s, x)[i] = s[i]
      /\ Append(s, x)[Len(s) + 1] = x
    <2>1. s \in Seq(S \cup {x}) /\ x \in S \cup {x}
        BY SeqMonotonic
    <2>2. /\ Append(s, x) \in Seq(S \cup {x}) /\ Len(Append(s, x)) = Len(s) + 1
          /\ \A i \in 1..Len(s) : Append(s, x)[i] = s[i]
          /\ Append(s, x)[Len(s) + 1] = x
        BY <2>1, AppendProperties
    <2> QED BY <2>2, LenProperties
<1>2. ASSUME NEW y \in Range(Append(s, x)) PROVE y \in Range(s) \cup {x}
    <2>1. PICK i \in 1..(Len(s) + 1) : y = Append(s, x)[i]
        BY <1>1, <1>2 DEF Range
    <2> QED BY <1>1, <2>1 DEF Range
<1>3. ASSUME NEW y \in Range(s) \cup {x} PROVE y \in Range(Append(s, x))
    <2>1. CASE y \in Range(s)
        <3>1. PICK i \in 1..Len(s) : y = s[i] BY <1>1, <2>1 DEF Range
        <3> QED BY <1>1, <3>1 DEF Range
    <2>2. CASE y = x
        <3>1. Len(s) + 1 \in DOMAIN Append(s, x) BY <1>1
        <3> QED BY <1>1, <2>2, <3>1 DEF Range
    <2> QED BY <1>3, <2>1, <2>2
<1> QED BY <1>2, <1>3

(* A receive takes the head of the channel and leaves the rest.            *)
LEMMA RangeHeadTail ==
    ASSUME NEW S, NEW s \in Seq(S), s # <<>>
    PROVE  /\ Head(s) \in S /\ Tail(s) \in Seq(S) /\ Len(Tail(s)) = Len(s) - 1
           /\ Range(s) = {Head(s)} \cup Range(Tail(s))
<1>1. /\ DOMAIN s = 1..Len(s) /\ Len(s) \in Nat \ {0}
      /\ Head(s) = s[1] /\ Tail(s) \in Seq(S) /\ Len(Tail(s)) = Len(s) - 1
      /\ DOMAIN Tail(s) = 1..(Len(s) - 1)
      /\ \A i \in 1..(Len(s) - 1) : Tail(s)[i] = s[i + 1]
    BY HeadTailProperties, EmptySeq, LenProperties
<1>2. Head(s) \in S BY <1>1, ElementOfSeq
<1>3. ASSUME NEW y \in Range(s) PROVE y \in {Head(s)} \cup Range(Tail(s))
    <2>1. PICK i \in 1..Len(s) : y = s[i] BY <1>1, <1>3 DEF Range
    <2>2. CASE i = 1 BY <1>1, <2>1, <2>2
    <2>3. CASE i # 1
        <3>1. i - 1 \in 1..(Len(s) - 1) /\ (i - 1) + 1 = i BY <1>1, <2>3
        <3>2. y = Tail(s)[i - 1] BY <1>1, <2>1, <3>1
        <3> QED BY <1>1, <3>1, <3>2 DEF Range
    <2> QED BY <2>2, <2>3
<1>4. ASSUME NEW y \in {Head(s)} \cup Range(Tail(s)) PROVE y \in Range(s)
    <2>1. CASE y = Head(s) BY <1>1, <2>1 DEF Range
    <2>2. CASE y \in Range(Tail(s))
        <3>1. PICK i \in 1..(Len(s) - 1) : y = Tail(s)[i] BY <1>1, <2>2 DEF Range
        <3>2. i + 1 \in 1..Len(s) /\ y = s[i + 1] BY <1>1, <3>1
        <3> QED BY <1>1, <3>2 DEF Range
    <2> QED BY <1>4, <2>1, <2>2
<1> QED BY <1>1, <1>2, <1>3, <1>4
-----------------------------------------------------------------------------
(* Type correctness.                                                       *)

(* NewAsyncRecorder starts with every variable of its type.                *)
LEMMA TypeInit == Init => TypeOK
<1> SUFFICES ASSUME Init PROVE TypeOK OBVIOUS
<1>1. items \in Seq(Calls) /\ Len(items) <= ChannelSize /\ log \in Seq(Calls)
    BY RecorderAssumption, EmptySeq DEF Init
<1>2. [event |-> FALSE, rollup |-> FALSE, priority |-> "normal"] \in Items
    BY DEF Items, Priorities
<1>3. /\ item \in [Calls -> Items]
      /\ stats \in [Counters -> Nat] /\ counts \in [Calls -> Nat]
      /\ before \in [Clients -> SUBSET Calls]
    BY <1>2 DEF Init
<1>4. /\ record \in [Calls -> {"idle", "decided", "waiting"} \cup Returned]
      /\ flush \in [Flushers -> {"idle", "sending", "awaiting", "closed", "ctxErr",
                                 "flushed", "ok", "err"}]
      /\ reply \in [Flushers -> {"none", "ok", "err"}]
      /\ close \in [Closers -> {"idle", "waiting", "already", "ctxErr", "ok", "err"}]
      /\ ctxDone \in [Closers -> BOOLEAN]
    BY DEF Init
<1>5. attempt \in 0..RetryMaxAttempts
    BY RecorderAssumption DEF Init
<1> QED BY <1>1, <1>3, <1>4, <1>5 DEF Init, TypeOK

(* No step of Record breaks the types; its sends find room first.          *)
LEMMA RecordType ==
    ASSUME TypeOK, NEW c \in Calls, RecordStep(c)
    PROVE  TypeOK'
<1> USE DEF vars, callVars, chanVars, sliceVars, workVars, flushVars, closeVars, repoVars, Becomes
<1>1. \A names : Count(names) => stats' \in [Counters -> Nat]
    BY DEF TypeOK, Count
<1>2. ASSUME NEW state \in {"decided", "waiting"} \cup Returned, Becomes(c, state)
      PROVE  record' \in [Calls -> {"idle", "decided", "waiting"} \cup Returned]
    BY <1>2 DEF TypeOK
<1>3. CASE RecordClosed(c) \/ RecordPrepareFails(c) \/ RecordSkipped(c)
    <2>1. stats' \in [Counters -> Nat]
        BY <1>1, <1>3 DEF TypeOK, RecordClosed, RecordPrepareFails, RecordSkipped
    <2>2. record' \in [Calls -> {"idle", "decided", "waiting"} \cup Returned]
        BY <1>2, <1>3 DEF RecordClosed, RecordPrepareFails, RecordSkipped, Returned
    <2>3. UNCHANGED <<item, chanVars, workVars, flushVars, closeVars, repoVars, before>>
        BY <1>3 DEF RecordClosed, RecordPrepareFails, RecordSkipped
    <2> QED BY <2>1, <2>2, <2>3 DEF TypeOK
<1>4. ASSUME NEW d \in Decisions, RecordDecided(c, d) PROVE TypeOK'
    <2>1. d \in Items BY RecorderAssumption
    <2> QED BY <1>1, <1>4, <2>1 DEF TypeOK, RecordDecided
<1>5. ASSUME Send(c) PROVE TypeOK'
    <2>1. /\ items' \in Seq(Calls) /\ Len(items') = Len(items) + 1
          /\ log' \in Seq(Calls)
        BY <1>5 DEF TypeOK, Send
    <2>2. Len(items') <= ChannelSize
        BY <1>5, <2>1, RecorderAssumption, LenProperties DEF TypeOK, Send, HasRoom
    <2> QED BY <1>1, <1>5, <2>1, <2>2 DEF TypeOK, Send, Returned
<1>6. CASE EnqueueFull(c)
    BY <1>1, <1>6 DEF TypeOK, EnqueueFull, Returned
<1>7. CASE EnqueueTimeout(c) \/ EnqueueCtxDone(c)
    BY <1>1, <1>7 DEF TypeOK, EnqueueTimeout, EnqueueCtxDone, Returned
<1> QED BY <1>3, <1>4, <1>5, <1>6, <1>7 DEF RecordStep, EnqueueFast, EnqueueSlow

(* No step of Flush or Reset breaks the types.                             *)
LEMMA FlushType ==
    ASSUME TypeOK, NEW f \in Flushers, FlushStep(f)
    PROVE  TypeOK'
<1> USE DEF vars, callVars, chanVars, sliceVars, workVars, flushVars, closeVars, repoVars, FlushBecomes
<1>1. CASE FlushClosed(f) \/ FlushCtxDone(f)
    BY <1>1 DEF TypeOK, FlushClosed, FlushCtxDone
<1>2. CASE FlushBegin(f)
    <2>1. Accepted \subseteq Calls BY RangeOfSeq DEF TypeOK, Accepted
    <2> QED BY <1>2, <2>1 DEF TypeOK, FlushBegin, Clients
<1>3. CASE FlushReturn(f)
    BY <1>3 DEF TypeOK, FlushReturn
<1>4. ASSUME DeleteTrail(f)
      PROVE  /\ rows' \subseteq Calls /\ counts' \in [Calls -> Nat]
             /\ markers' \subseteq Flushers /\ wiped' \subseteq Calls \X Parts
    BY <1>4 DEF TypeOK, DeleteTrail, NoRollups, Parts
<1>5. CASE ResetSucceeds(f)
    BY <1>4, <1>5 DEF TypeOK, ResetSucceeds
<1>6. CASE ResetFails(f)
    <2>1. /\ rows' \subseteq Calls /\ counts' \in [Calls -> Nat]
          /\ markers' \subseteq Flushers /\ wiped' \subseteq Calls \X Parts
        BY <1>4, <1>6 DEF TypeOK, ResetFails
    <2> QED BY <1>6, <2>1 DEF TypeOK, ResetFails
<1> QED BY <1>1, <1>2, <1>3, <1>5, <1>6 DEF FlushStep

(* No step of Close breaks the types.                                      *)
LEMMA CloseType ==
    ASSUME TypeOK, NEW k \in Closers, CloseStep(k)
    PROVE  TypeOK'
<1> USE DEF vars, callVars, chanVars, sliceVars, workVars, flushVars, closeVars, repoVars, CloseBecomes
<1>1. CASE CloseBegin(k)
    <2>1. Accepted \subseteq Calls BY RangeOfSeq DEF TypeOK, Accepted
    <2> QED BY <1>1, <2>1 DEF TypeOK, CloseBegin, Clients
<1>2. CASE CloseExpired(k) \/ CloseCtxDone(k) \/ DeadlinePasses(k)
    BY <1>2 DEF TypeOK, CloseExpired, CloseCtxDone, DeadlinePasses
<1>3. ASSUME TakeResult(k) PROVE TypeOK'
    <2>1. PICK result \in {"ok", "err"} : CloseBecomes(k, result)
        BY <1>3 DEF TypeOK, TakeResult
    <2> QED BY <1>3, <2>1 DEF TypeOK, TakeResult
<1>4. CASE CloseAgain(k) \/ CloseReturn(k)
    BY <1>3, <1>4 DEF TypeOK, CloseAgain, CloseReturn
<1> QED BY <1>1, <1>2, <1>4 DEF CloseStep

(* No step of the worker breaks the types: a backoff is only entered before *)
(* the last attempt, so attempt stays within RetryMaxAttempts.             *)
LEMMA WorkerType ==
    ASSUME TypeOK, WorkerStep
    PROVE  TypeOK'
<1> USE DEF vars, callVars, chanVars, sliceVars, workVars, flushVars, closeVars, repoVars
<1>1. ASSUME TakeItem
      PROVE  /\ items' \in Seq(Calls) /\ Len(items') <= ChannelSize
             /\ events' \subseteq Calls /\ rollups' \subseteq Calls
    <2>1. /\ Head(items) \in Calls /\ Tail(items) \in Seq(Calls)
          /\ Len(Tail(items)) = Len(items) - 1
        BY <1>1, RangeHeadTail DEF TypeOK, TakeItem
    <2> QED BY <1>1, <2>1, RecorderAssumption, LenProperties DEF TypeOK, TakeItem
<1>2. ASSUME NEW n \in 1..RetryMaxAttempts, BeginAttempt(n)
      PROVE  attempt' \in 0..RetryMaxAttempts /\ worker' \in {"append", "rollups"}
    BY <1>2, RecorderAssumption DEF BeginAttempt
<1>3. 1 \in 1..RetryMaxAttempts /\ 0 \in 0..RetryMaxAttempts BY RecorderAssumption
<1>4. ASSUME NEW result \in {"ok", "err"}, FinishFlush(result)
      PROVE  /\ events' \subseteq Calls /\ rollups' \subseteq Calls
             /\ worker' \in {"select", "exited"} /\ attempt' = 0 /\ serving' = {}
             /\ reply' \in [Flushers -> {"none", "ok", "err"}]
             /\ doneCh' \subseteq {"ok", "err"}
             /\ UNCHANGED <<flush, closed, close, ctxDone, closeCh>>
    BY <1>4 DEF TypeOK, FinishFlush, SlicesAfter, Replies
<1>5. ASSUME WriteTakesEffect
      PROVE  /\ rows' \subseteq Calls /\ counts' \in [Calls -> Nat]
             /\ UNCHANGED <<markers, wiped>>
    BY <1>5 DEF TypeOK, WriteTakesEffect
<1>6. CASE ReceiveItem
    BY <1>1, <1>2, <1>3, <1>6 DEF TypeOK, ReceiveItem, TakeItem
<1>7. CASE Tick
    BY <1>2, <1>3, <1>7 DEF TypeOK, Tick
<1>8. ASSUME NEW f \in Flushers, TakeFlush(f) PROVE TypeOK'
    BY <1>8 DEF TypeOK, TakeFlush, Clients
<1>9. ASSUME NEW k \in Closers, TakeClose(k) PROVE TypeOK'
    BY <1>9 DEF TypeOK, TakeClose, Clients
<1>10. CASE DrainItem
    BY <1>1, <1>10 DEF TypeOK, DrainItem, TakeItem
<1>11. CASE DrainDone
    BY <1>2, <1>3, <1>4, <1>11 DEF TypeOK, DrainDone
<1>12. CASE AppendSucceeds
    <2>1. CASE RollupsToCome
        BY <1>5, <1>12, <2>1 DEF TypeOK, AppendSucceeds
    <2>2. CASE ~RollupsToCome
        BY <1>3, <1>4, <1>5, <1>12, <2>2 DEF TypeOK, AppendSucceeds
    <2> QED BY <2>1, <2>2
<1>13. CASE AppendFails
    <2>1. /\ rows' \subseteq Calls /\ counts' \in [Calls -> Nat]
          /\ UNCHANGED <<markers, wiped>>
        BY <1>5, <1>13 DEF TypeOK, AppendFails
    <2>2. CASE attempt = RetryMaxAttempts
        BY <1>3, <1>4, <1>13, <2>1, <2>2 DEF TypeOK, AppendFails
    <2>3. CASE attempt # RetryMaxAttempts
        <3>1. attempt < RetryMaxAttempts BY <2>3, RecorderAssumption DEF TypeOK
        <3> QED BY <1>13, <2>1, <2>3, <3>1 DEF TypeOK, AppendFails
    <2> QED BY <2>2, <2>3
<1>14. CASE BackoffElapsed
    <2>1. attempt + 1 \in 1..RetryMaxAttempts
        BY <1>14, RecorderAssumption DEF TypeOK, BackoffElapsed
    <2> QED BY <1>2, <1>14, <2>1 DEF TypeOK, BackoffElapsed, NextAttempt
<1>15. CASE BackoffCtxDone
    BY <1>3, <1>4, <1>15 DEF TypeOK, BackoffCtxDone
<1> QED BY <1>6, <1>7, <1>8, <1>9, <1>10, <1>11, <1>12, <1>13, <1>14, <1>15 DEF WorkerStep

(* Every variable keeps its type: the channel never holds more than        *)
(* ChannelSize items, and no flush makes more than RetryMaxAttempts        *)
(* attempts.                                                               *)
THEOREM TypeCorrect == Spec => []TypeOK
<1>1. TypeOK /\ [Next]_vars => TypeOK'
    <2> SUFFICES ASSUME TypeOK, [Next]_vars PROVE TypeOK' OBVIOUS
    <2>1. CASE UNCHANGED vars
        BY <2>1 DEF TypeOK, vars, callVars, chanVars, sliceVars, workVars,
                    flushVars, closeVars, repoVars
    <2> QED BY <2>1, RecordType, WorkerType, FlushType, CloseType DEF Next
<1> QED BY <1>1, TypeInit, PTL DEF Spec
-----------------------------------------------------------------------------
(* The inductive invariant behind the safety properties.                   *)

Pending == Range(items) \cup events \cup rollups

(* Nothing is anywhere that was not sent, and what was sent has returned.  *)
Provenance ==
    /\ \A c \in Calls : record[c] = "sent" <=> c \in Accepted
    /\ Pending \cup rows \subseteq Accepted
    /\ \A c \in Calls : counts[c] > 0 => c \in Accepted
    /\ \A c \in Calls, p \in Parts : <<c, p>> \in wiped => c \in Accepted
    /\ \A p \in Clients : before[p] \subseteq Accepted

(* The worker has drained the channel for the request it serves.           *)
PastDrain == worker \in {"append", "rollups", "backoff"}

(* What a client waits for has left the channel when the flush begins, and *)
(* the slices too when the flush has succeeded; it never comes back.       *)
FlushProgress ==
    \A f \in Flushers :
        /\ f \in serving => flush[f] \in {"awaiting", "ctxErr"} /\ reply[f] = "none"
        /\ flush[f] \in {"idle", "sending"} => reply[f] = "none"
        /\ flush[f] \in {"flushed", "ok"} => reply[f] = "ok"
        /\ PastDrain /\ f \in serving => before[f] \cap Range(items) = {}
        /\ reply[f] = "ok" => before[f] \cap Pending = {}

CloseProgress ==
    /\ \/ closeCh # {} \/ doneCh # {} \/ serving \cap Closers # {} \/ worker = "exited"
       \/ \E k \in Closers : close[k] = "ok"
       => closed
    /\ \A k \in Closers :
        /\ PastDrain /\ serving \cap Closers # {} => before[k] \cap Range(items) = {}
        /\ worker = "exited" => before[k] \cap Range(items) = {}
        /\ ("ok" \in doneCh \/ \E l \in Closers : close[l] = "ok")
              => before[k] \cap Pending = {} /\ worker = "exited"

Erasure ==
    \A f \in Resetters : flush[f] = "ok" =>
        /\ \A c \in before[f] : c \notin rows /\ counts[c] = 0
        /\ markers # {}

(* Nobody is served while the worker selects, and rollups are written on   *)
(* their own only after the events of the batch.                           *)
WorkerPhase ==
    /\ worker \in {"select", "exited"} => serving = {}
    /\ worker = "rollups" => \A c \in events : c \in rows \/ <<c, "event">> \in wiped

IInv == /\ TypeOK
        /\ WorkerPhase
        /\ Provenance
        /\ NothingLost
        /\ FlushProgress
        /\ CloseProgress
        /\ Erasure

(* The inductive invariant holds of the recorder NewAsyncRecorder returns. *)
LEMMA InvInit == Init => IInv
<1> SUFFICES ASSUME Init PROVE IInv OBVIOUS
<1>1. TypeOK BY TypeInit
<1>2. Range(items) = {} /\ Accepted = {} BY DEF Init, Range, Accepted
<1>3. Provenance /\ NothingLost
    BY <1>2 DEF Init, Provenance, NothingLost, Pending
<1>4. FlushProgress /\ CloseProgress /\ Erasure
    BY <1>2, RecorderAssumption DEF Init, FlushProgress, CloseProgress, Erasure, PastDrain
<1>5. WorkerPhase BY DEF Init, WorkerPhase
<1> QED BY <1>1, <1>3, <1>4, <1>5 DEF IInv

(* A call of Record that does not send leaves the log alone; one that does *)
(* is new to it.                                                           *)
LEMMA RecordInv ==
    ASSUME IInv, NEW c \in Calls, RecordStep(c)
    PROVE  IInv'
<1>1. TypeOK' BY RecordType DEF IInv
<1>2. UNCHANGED <<workVars, flushVars, closeVars, repoVars, before>>
    BY DEF RecordStep, RecordClosed, RecordPrepareFails, RecordSkipped, RecordDecided,
           EnqueueFast, EnqueueFull, EnqueueSlow, EnqueueTimeout, EnqueueCtxDone, Send, Becomes
<1>6. WorkerPhase'
    BY <1>2 DEF IInv, WorkerPhase, workVars, sliceVars, repoVars
<1>3. CASE Send(c) /\ record[c] # "sent"
    <2>1. Range(items') = Range(items) \cup {c} /\ Accepted' = Accepted \cup {c}
        BY <1>3, RangeAppend DEF IInv, TypeOK, Send, Accepted
    <2>2. c \notin Accepted /\ UNCHANGED item
        BY <1>3 DEF IInv, Provenance, Send
    <2>3. Provenance'
        <3>1. record' = [record EXCEPT ![c] = "sent"] BY <1>3 DEF Send, Becomes
        <3> QED BY <1>2, <2>1, <3>1 DEF IInv, TypeOK, Provenance, Pending,
                workVars, sliceVars, repoVars
    <2>4. NothingLost'
        BY <1>2, <2>1, <2>2 DEF IInv, NothingLost, EventKept, RollupKept,
                workVars, sliceVars, repoVars
    <2>5. \A p \in Clients : c \notin before[p]
        BY <2>2 DEF IInv, Provenance
    <2>6. FlushProgress' /\ CloseProgress' /\ Erasure'
        BY <1>2, <2>1, <2>5 DEF IInv, FlushProgress, CloseProgress, Erasure, PastDrain, Pending,
                Clients, workVars, sliceVars, flushVars, closeVars, repoVars
    <2> QED BY <1>1, <1>6, <2>3, <2>4, <2>6 DEF IInv
<1> DEFINE NoSend == /\ UNCHANGED chanVars
                     /\ record[c] # "sent" /\ record'[c] # "sent"
                     /\ \A d \in Calls \ {c} : item'[d] = item[d] /\ record'[d] = record[d]
<1>4. CASE NoSend
    <2>1. c \notin Accepted /\ UNCHANGED <<items, Accepted>>
        BY <1>4 DEF IInv, Provenance, chanVars, Accepted
    <2>2. Accepted \subseteq Calls BY RangeOfSeq DEF IInv, TypeOK, Accepted
    <2>3. Provenance'
        BY <1>2, <1>4, <2>1 DEF IInv, Provenance, Pending, workVars, sliceVars, repoVars
    <2>4. NothingLost'
        BY <1>2, <1>4, <2>1, <2>2 DEF IInv, NothingLost, EventKept, RollupKept,
                workVars, sliceVars, repoVars
    <2>5. FlushProgress' /\ CloseProgress' /\ Erasure'
        BY <1>2, <2>1 DEF IInv, FlushProgress, CloseProgress, Erasure, PastDrain, Pending,
                workVars, sliceVars, flushVars, closeVars, repoVars
    <2> QED BY <1>1, <1>6, <2>3, <2>4, <2>5 DEF IInv
<1>5. (Send(c) /\ record[c] # "sent") \/ NoSend
    BY DEF IInv, TypeOK, RecordStep, RecordClosed, RecordPrepareFails, RecordSkipped, RecordDecided,
           EnqueueFast, EnqueueFull, EnqueueSlow, EnqueueTimeout, EnqueueCtxDone, Becomes
<1> QED BY <1>3, <1>4, <1>5

(* A reset moves all that it deletes to wiped, and touches nothing else.   *)
LEMMA DeleteTrailInv ==
    ASSUME IInv, NEW f \in Flushers, DeleteTrail(f), UNCHANGED <<callVars, chanVars, workVars, before>>
    PROVE  /\ WorkerPhase' /\ Provenance' /\ NothingLost'
           /\ \A c \in Calls : c \notin rows' /\ counts'[c] = 0
<1>1. \A c \in Calls : c \notin rows' /\ counts'[c] = 0
    BY DEF DeleteTrail, NoRollups
<1>2. Accepted \subseteq Calls BY RangeOfSeq DEF IInv, TypeOK, Accepted
<1>3. Provenance'
    BY <1>1 DEF IInv, TypeOK, Provenance, Pending, DeleteTrail, Parts, Accepted,
            callVars, chanVars, workVars, sliceVars
<1>4. NothingLost'
    BY <1>1, <1>2 DEF IInv, TypeOK, NothingLost, EventKept, RollupKept, DeleteTrail, Accepted,
            callVars, chanVars, workVars, sliceVars
<1>5. WorkerPhase'
    BY DEF IInv, WorkerPhase, DeleteTrail, workVars, sliceVars
<1> QED BY <1>1, <1>3, <1>4, <1>5

(* Flush and Reset keep the invariant: a caller reads the reply that the   *)
(* worker left for it, and only a reset deletes.                           *)
LEMMA FlushInv ==
    ASSUME IInv, NEW f \in Flushers, FlushStep(f)
    PROVE  IInv'
<1>1. TypeOK' BY FlushType DEF IInv
<1>2. /\ UNCHANGED <<callVars, chanVars, workVars, reply, closeVars>>
      /\ \A g \in Flushers \ {f} : flush'[g] = flush[g]
    BY DEF IInv, TypeOK, FlushStep, FlushClosed, FlushBegin, FlushCtxDone, FlushReturn,
           ResetSucceeds, ResetFails, FlushBecomes
<1>3. CASE UNCHANGED <<repoVars, before>> /\ ~FlushBegin(f) /\ ~ResetSucceeds(f)
    <2>1. Provenance' /\ NothingLost' /\ CloseProgress'
        BY <1>2, <1>3 DEF IInv, Provenance, NothingLost, CloseProgress, EventKept, RollupKept,
                Pending, PastDrain, Accepted, callVars, chanVars, workVars, sliceVars, closeVars, repoVars
    <2>2. /\ f \in serving => flush'[f] = "ctxErr"
          /\ flush'[f] \notin {"idle", "sending"}
          /\ flush'[f] \in {"flushed", "ok"} => reply[f] = "ok"
          /\ flush'[f] = "ok" => f \notin Resetters
        <3>1. CASE FlushClosed(f) \/ FlushCtxDone(f)
            BY <3>1 DEF IInv, TypeOK, FlushProgress, FlushClosed, FlushCtxDone, FlushBecomes
        <3>2. CASE FlushReturn(f)
            BY <3>2 DEF IInv, TypeOK, FlushProgress, FlushReturn, ResetGoesOn, FlushBecomes
        <3>3. CASE ResetFails(f)
            BY <3>3 DEF IInv, TypeOK, FlushProgress, ResetFails, FlushBecomes
        <3> QED BY <1>3, <3>1, <3>2, <3>3 DEF FlushStep
    <2>3. FlushProgress'
        BY <1>2, <1>3, <2>2 DEF IInv, FlushProgress, Pending, PastDrain, chanVars, workVars, sliceVars
    <2>4. Erasure'
        BY <1>2, <1>3, <2>2, RecorderAssumption DEF IInv, Erasure, repoVars
    <2>5. WorkerPhase'
        BY <1>2, <1>3 DEF IInv, WorkerPhase, workVars, sliceVars, repoVars
    <2> QED BY <1>1, <2>1, <2>3, <2>4, <2>5 DEF IInv
<1>4. CASE FlushBegin(f)
    <2>1. /\ \A p \in Clients \ {f} : before'[p] = before[p]
          /\ before'[f] = Accepted /\ UNCHANGED repoVars
          /\ flush[f] = "idle" /\ flush'[f] = "sending"
        BY <1>4 DEF IInv, TypeOK, FlushBegin, FlushBecomes, Clients
    <2>2. Provenance' /\ NothingLost'
        BY <1>2, <2>1 DEF IInv, Provenance, NothingLost, EventKept, RollupKept,
                Pending, Accepted, callVars, chanVars, workVars, sliceVars, repoVars
    <2>3. CloseProgress'
        BY <1>2, <2>1, RecorderAssumption DEF IInv, CloseProgress, Clients,
                Pending, PastDrain, chanVars, workVars, sliceVars, closeVars
    <2>4. FlushProgress' /\ Erasure'
        BY <1>2, <2>1, RecorderAssumption DEF IInv, FlushProgress, Erasure, Clients,
                Pending, PastDrain, chanVars, workVars, sliceVars, repoVars
    <2>5. WorkerPhase'
        BY <1>2, <2>1 DEF IInv, WorkerPhase, workVars, sliceVars, repoVars
    <2> QED BY <1>1, <2>2, <2>3, <2>4, <2>5 DEF IInv
<1>5. CASE (ResetSucceeds(f) \/ ResetFails(f)) /\ DeleteTrail(f)
    <2>1. /\ flush[f] = "flushed" /\ flush'[f] \in {"ok", "err"} /\ UNCHANGED before
        BY <1>5 DEF IInv, TypeOK, ResetSucceeds, ResetFails, FlushBecomes
    <2>2. /\ WorkerPhase' /\ Provenance' /\ NothingLost'
          /\ \A c \in Calls : c \notin rows' /\ counts'[c] = 0
        BY <1>2, <1>5, <2>1, DeleteTrailInv
    <2>3. CloseProgress'
        BY <1>2, <2>1 DEF IInv, CloseProgress, Pending, PastDrain,
                chanVars, workVars, sliceVars, closeVars
    <2>4. FlushProgress'
        BY <1>2, <2>1 DEF IInv, FlushProgress, Pending, PastDrain, chanVars, workVars, sliceVars
    <2>5. Erasure'
        <3>1. markers' # {} BY <1>5 DEF DeleteTrail
        <3>2. \A g \in Resetters : before'[g] \subseteq Calls
            BY <1>1, RecorderAssumption DEF TypeOK, Clients
        <3> QED BY <2>2, <3>1, <3>2 DEF Erasure
    <2> QED BY <1>1, <2>2, <2>3, <2>4, <2>5 DEF IInv
<1> QED BY <1>3, <1>4, <1>5 DEF FlushStep, FlushClosed, FlushCtxDone, FlushReturn,
            FlushBegin, ResetSucceeds, ResetFails, FlushBecomes

(* Close keeps the invariant: the only result it reads is that of the final *)
(* flush.                                                                  *)
LEMMA CloseInv ==
    ASSUME IInv, NEW k \in Closers, CloseStep(k)
    PROVE  IInv'
<1>1. TypeOK' BY CloseType DEF IInv
<1>2. UNCHANGED <<callVars, chanVars, workVars, flushVars, repoVars>>
    BY DEF CloseStep, CloseBegin, CloseExpired, CloseAgain, CloseReturn, CloseCtxDone,
           DeadlinePasses, TakeResult, CloseBecomes
<1>3. /\ \A p \in Clients \ {k} : before'[p] = before[p]
      /\ before'[k] \in {before[k], Accepted}
      /\ before'[k] # before[k] => ~closed /\ closed'
    BY DEF IInv, TypeOK, Clients, CloseStep, CloseBegin, CloseExpired, CloseAgain, CloseReturn,
           CloseCtxDone, DeadlinePasses, TakeResult, CloseBecomes
<1>4. Provenance' /\ NothingLost'
    BY <1>2, <1>3 DEF IInv, Provenance, NothingLost, EventKept, RollupKept, Pending, Accepted,
            Clients, callVars, chanVars, workVars, sliceVars, repoVars
<1>5. FlushProgress' /\ Erasure'
    BY <1>2, <1>3, RecorderAssumption DEF IInv, FlushProgress, Erasure, Pending, PastDrain, Clients,
            chanVars, workVars, sliceVars, flushVars, repoVars
<1>6. CloseProgress'
    <2>1. CASE CloseBegin(k)
        BY <1>2, <1>3, <2>1 DEF IInv, TypeOK, CloseProgress, CloseBegin, CloseBecomes, Clients,
                Pending, PastDrain, chanVars, workVars, sliceVars
    <2>2. CASE CloseExpired(k) \/ CloseCtxDone(k) \/ DeadlinePasses(k)
        BY <1>2, <2>2 DEF IInv, TypeOK, CloseProgress, CloseExpired, CloseCtxDone, DeadlinePasses,
                CloseBecomes, Pending, PastDrain, chanVars, workVars, sliceVars
    <2>3. CASE CloseAgain(k) \/ CloseReturn(k)
        BY <1>2, <2>3 DEF IInv, TypeOK, CloseProgress, CloseAgain, CloseReturn, TakeResult,
                CloseBecomes, Pending, PastDrain, chanVars, workVars, sliceVars
    <2> QED BY <2>1, <2>2, <2>3 DEF CloseStep
<1>7. WorkerPhase'
    BY <1>2 DEF IInv, WorkerPhase, workVars, sliceVars, repoVars
<1> QED BY <1>1, <1>4, <1>5, <1>6, <1>7 DEF IInv

(* Taking an item moves it from the channel to the slices.                 *)
LEMMA TakeItemInv ==
    ASSUME IInv, TakeItem, UNCHANGED <<repoVars, before>>
    PROVE  /\ Provenance' /\ NothingLost'
           /\ Range(items') \subseteq Range(items) /\ Pending' \subseteq Pending
<1>1. /\ Head(items) \in Calls
      /\ Range(items) = {Head(items)} \cup Range(items')
    BY RangeHeadTail DEF IInv, TypeOK, TakeItem
<1>2. Accepted' = Accepted /\ UNCHANGED <<record, item>> BY DEF TakeItem, Accepted, callVars
<1>3. Pending' \subseteq Pending BY <1>1 DEF Pending, TakeItem
<1>4. Provenance' BY <1>2, <1>3 DEF IInv, Provenance, repoVars
<1>5. NothingLost'
    BY <1>1, <1>2 DEF IInv, NothingLost, EventKept, RollupKept, TakeItem, repoVars
<1> QED BY <1>1, <1>3, <1>4, <1>5

(* What a write may do to the repository: it adds what the slices hold.    *)
Grows ==
    /\ rows \subseteq rows' /\ rows' \subseteq rows \cup events
    /\ \A c \in Calls : /\ counts[c] > 0 => counts'[c] > 0
                        /\ counts'[c] > 0 => counts[c] > 0 \/ c \in rollups
    /\ UNCHANGED <<markers, wiped>>

(* A write that takes effect only adds rows and counts.                    *)
LEMMA WriteGrows ==
    ASSUME IInv, WriteTakesEffect
    PROVE  /\ Grows
           /\ worker = "append" => events \subseteq rows'
           /\ worker = "rollups" \/ Atomic => \A c \in rollups : counts'[c] > 0
BY DEF IInv, TypeOK, WriteTakesEffect, Grows

(* A write that only adds, of what the slices hold, keeps the invariant.   *)
LEMMA GrowsInv ==
    ASSUME IInv, TypeOK', Grows, UNCHANGED <<callVars, chanVars, before, flush>>, Pending' \subseteq Pending
    PROVE  Provenance' /\ Erasure'
<1>1. Accepted' = Accepted BY DEF Accepted, chanVars
<1>2. Provenance'
    BY <1>1 DEF IInv, TypeOK, Provenance, Grows, Pending, callVars
<1>3. Erasure'
    <2> SUFFICES ASSUME NEW f \in Resetters, flush[f] = "ok"
                 PROVE  /\ \A c \in before[f] : c \notin rows' /\ counts'[c] = 0
                        /\ markers' # {}
        BY DEF Erasure
    <2>1. f \in Flushers /\ before[f] \subseteq Calls
        BY RecorderAssumption DEF IInv, TypeOK, Clients
    <2>2. before[f] \cap Pending = {} BY <2>1 DEF IInv, FlushProgress
    <2>3. \A c \in before[f] : c \notin rows' /\ ~(counts'[c] > 0)
        BY <2>1, <2>2 DEF IInv, TypeOK, Erasure, Grows, Pending
    <2>4. \A n \in Nat : ~(n > 0) => n = 0 OBVIOUS
    <2>5. counts' \in [Calls -> Nat] BY DEF TypeOK
    <2>6. \A c \in before[f] : counts'[c] = 0 BY <2>1, <2>3, <2>4, <2>5
    <2> QED BY <2>3, <2>6 DEF IInv, Erasure, Grows
<1> QED BY <1>2, <1>3

(* A flush ends with nil only when all that the slices held is written, so *)
(* that emptying them loses nothing and the client may be told.            *)
LEMMA FinishInv ==
    ASSUME IInv, TypeOK', NEW result \in {"ok", "err"}, FinishFlush(result), Grows,
           UNCHANGED <<callVars, chanVars, before>>,
           PastDrain \/ (worker = "drain" /\ items = <<>>),
           result = "ok" => /\ \A c \in events : c \in rows' \/ <<c, "event">> \in wiped
                            /\ \A c \in rollups : counts'[c] > 0
    PROVE  IInv'
<1>1. /\ IF result = "ok" THEN events' = {} /\ rollups' = {} ELSE UNCHANGED sliceVars
      /\ reply' = [f \in Flushers |-> IF f \in serving THEN result ELSE reply[f]]
      /\ IF serving \cap Closers # {}
         THEN worker' = "exited" /\ doneCh' = {result}
         ELSE worker' = "select" /\ UNCHANGED doneCh
      /\ serving' = {} /\ UNCHANGED <<flush, closed, close, ctxDone, closeCh>>
    BY DEF FinishFlush, SlicesAfter, Replies
<1>2. Pending' \subseteq Pending /\ Range(items') = Range(items)
    BY <1>1 DEF Pending, chanVars, sliceVars
<1>3. Provenance' /\ Erasure' BY <1>1, <1>2, GrowsInv
<1>4. Accepted' = Accepted /\ Accepted \subseteq Calls
    BY RangeOfSeq DEF IInv, TypeOK, Accepted, chanVars
<1>5. NothingLost'
    BY <1>1, <1>2, <1>4 DEF IInv, NothingLost, EventKept, RollupKept, Grows, callVars, sliceVars
<1>6. WorkerPhase' BY <1>1 DEF WorkerPhase
<1>7. ~PastDrain' BY <1>1 DEF PastDrain
<1>8. worker # "exited" BY DEF PastDrain
<1>9. \A p \in serving : before[p] \cap Range(items) = {}
    <2>1. CASE items = <<>>
        <3>1. Range(items) = {} BY <2>1 DEF Range
        <3> QED BY <3>1
    <2>2. CASE PastDrain
        <3>1. serving \subseteq Flushers \cup Closers BY DEF IInv, TypeOK, Clients
        <3> QED BY <2>2, <3>1 DEF IInv, FlushProgress, CloseProgress
    <2> QED BY <2>1, <2>2
<1>10. FlushProgress'
    <2> SUFFICES ASSUME NEW f \in Flushers, reply'[f] = "ok"
                 PROVE  before'[f] \cap Pending' = {} /\ flush'[f] \notin {"idle", "sending"}
        BY <1>1, <1>7 DEF IInv, FlushProgress
    <2>1. before'[f] = before[f] /\ flush'[f] = flush[f]
        BY <1>1
    <2>2. CASE f \in serving
        <3>1. result = "ok" /\ flush[f] \in {"awaiting", "ctxErr"}
            BY <1>1, <2>2 DEF IInv, FlushProgress
        <3>2. Pending' = Range(items)
            BY <1>1, <1>2, <3>1 DEF Pending
        <3> QED BY <1>9, <2>1, <2>2, <3>1, <3>2
    <2>3. CASE f \notin serving
        <3>1. reply[f] = "ok"
            BY <1>1, <2>3
        <3>2. before[f] \cap Pending = {} /\ flush[f] \notin {"idle", "sending"}
            BY <3>1 DEF IInv, FlushProgress
        <3> QED BY <1>2, <2>1, <3>2
    <2> QED BY <2>2, <2>3
<1>11. CloseProgress'
    <2>1. CASE serving \cap Closers = {}
        BY <1>1, <1>2, <1>7, <1>8, <2>1 DEF IInv, CloseProgress, Pending
    <2>2. CASE serving \cap Closers # {}
        <3>1. \A k \in Closers : before[k] \cap Range(items) = {}
            <4>1. CASE items = <<>>
                <5>1. Range(items) = {} BY <4>1 DEF Range
                <5> QED BY <5>1
            <4>2. CASE PastDrain BY <2>2, <4>2 DEF IInv, CloseProgress
            <4> QED BY <4>1, <4>2
        <3>2. closed /\ \A k \in Closers : close[k] # "ok"
            BY <1>8, <2>2 DEF IInv, CloseProgress
        <3>3. result = "ok" => Pending' = Range(items)
            BY <1>1, <1>2 DEF Pending
        <3> QED BY <1>1, <1>2, <1>7, <2>2, <3>1, <3>2, <3>3 DEF CloseProgress
    <2> QED BY <2>1, <2>2
<1> QED BY <1>3, <1>5, <1>6, <1>10, <1>11 DEF IInv

(* An attempt that begins leaves everything else as it is.                 *)
LEMMA AttemptInv ==
    ASSUME IInv, TypeOK', NEW n, BeginAttempt(n),
           UNCHANGED <<callVars, chanVars, sliceVars, serving, flushVars, closeVars, repoVars, before>>,
           worker # "exited", serving # {} => PastDrain \/ items = <<>>
    PROVE  IInv'
<1>1. UNCHANGED <<Accepted, Pending>> /\ Range(items') = Range(items)
    BY DEF Accepted, Pending, chanVars, sliceVars
<1>2. worker' \in {"append", "rollups"} /\ (worker' = "rollups" => events' = {})
    BY DEF BeginAttempt
<1>3. Provenance' /\ NothingLost' /\ Erasure' /\ WorkerPhase'
    BY <1>1, <1>2 DEF IInv, Provenance, NothingLost, EventKept, RollupKept, Erasure, WorkerPhase,
            callVars, sliceVars, flushVars, repoVars
<1>4. items = <<>> => Range(items) = {} BY DEF Range
<1>5. FlushProgress'
    BY <1>1, <1>2, <1>4 DEF IInv, FlushProgress, PastDrain, flushVars
<1>6. CloseProgress'
    BY <1>1, <1>2, <1>4 DEF IInv, CloseProgress, PastDrain, closeVars
<1> QED BY <1>3, <1>5, <1>6 DEF IInv

(* Every step of the worker keeps the invariant.                           *)
LEMMA WorkerInv ==
    ASSUME IInv, WorkerStep
    PROVE  IInv'
<1>1. TypeOK' BY WorkerType DEF IInv
<1>2. ASSUME TakeItem, UNCHANGED <<repoVars, before, serving, flushVars, closeVars>>,
             worker \in {"select", "drain"}, worker' \in {"select", "drain", "append", "rollups"},
             worker' = "rollups" => events' = {},
             serving # {} => worker' = "drain"
      PROVE  IInv'
    <2>1. /\ Provenance' /\ NothingLost'
          /\ Range(items') \subseteq Range(items) /\ Pending' \subseteq Pending
        BY <1>2, TakeItemInv
    <2>2. FlushProgress'
        BY <1>2, <2>1 DEF IInv, FlushProgress, PastDrain, flushVars
    <2>3. CloseProgress'
        BY <1>2, <2>1 DEF IInv, CloseProgress, PastDrain, closeVars
    <2>4. Erasure' /\ WorkerPhase'
        BY <1>2 DEF IInv, Erasure, WorkerPhase, repoVars, flushVars
    <2> QED BY <1>1, <2>1, <2>2, <2>3, <2>4 DEF IInv
<1>3. CASE ReceiveItem
    <2>1. worker = "select" /\ serving = {} BY <1>3 DEF IInv, ReceiveItem, WorkerPhase
    <2>2. /\ worker' \in {"select", "append", "rollups"}
          /\ worker' = "rollups" => events' = {}
        BY <1>3, <2>1 DEF ReceiveItem, BeginAttempt
    <2> QED BY <1>2, <1>3, <2>1, <2>2 DEF ReceiveItem
<1>4. CASE Tick
    <2>1. serving = {} BY <1>4 DEF IInv, Tick, WorkerPhase
    <2> QED BY <1>1, <1>4, <2>1, AttemptInv DEF Tick
<1>5. ASSUME NEW f \in Flushers, TakeFlush(f) PROVE IInv'
    <2>1. /\ UNCHANGED <<Pending, Accepted>> /\ Range(items') = Range(items)
          /\ flush[f] = "sending" /\ flush'[f] = "awaiting"
          /\ \A g \in Flushers \ {f} : flush'[g] = flush[g]
          /\ serving' = {f} /\ worker = "select" /\ worker' = "drain" /\ ~PastDrain'
          /\ serving' \cap Closers = {} /\ serving = {}
        BY <1>5, RecorderAssumption
        DEF IInv, TypeOK, TakeFlush, Pending, Accepted, PastDrain, WorkerPhase, chanVars, sliceVars
    <2>2. Provenance' /\ NothingLost' /\ WorkerPhase'
        BY <1>5, <2>1 DEF IInv, Provenance, NothingLost, EventKept, RollupKept, WorkerPhase,
                TakeFlush, callVars, sliceVars, repoVars
    <2>3. FlushProgress'
        BY <1>5, <2>1 DEF IInv, FlushProgress, TakeFlush
    <2>4. CloseProgress'
        BY <1>5, <2>1 DEF IInv, CloseProgress, TakeFlush, closeVars
    <2>5. Erasure'
        BY <1>5, <2>1, RecorderAssumption DEF IInv, Erasure, TakeFlush, repoVars
    <2> QED BY <1>1, <2>2, <2>3, <2>4, <2>5 DEF IInv
<1>6. ASSUME NEW k \in Closers, TakeClose(k) PROVE IInv'
    <2>1. /\ UNCHANGED <<Pending, Accepted>> /\ Range(items') = Range(items)
          /\ serving' = {k} /\ worker = "select" /\ worker' = "drain" /\ ~PastDrain'
          /\ serving' \cap Flushers = {} /\ serving = {} /\ closed
        BY <1>6, RecorderAssumption
        DEF IInv, TakeClose, CloseProgress, Pending, Accepted, PastDrain, WorkerPhase, chanVars, sliceVars
    <2>2. Provenance' /\ NothingLost' /\ WorkerPhase'
        BY <1>6, <2>1 DEF IInv, Provenance, NothingLost, EventKept, RollupKept, WorkerPhase,
                TakeClose, callVars, sliceVars, repoVars
    <2>3. FlushProgress' /\ Erasure'
        BY <1>6, <2>1 DEF IInv, FlushProgress, Erasure, TakeClose, flushVars, repoVars
    <2>4. CloseProgress'
        BY <1>6, <2>1 DEF IInv, CloseProgress, TakeClose
    <2> QED BY <1>1, <2>2, <2>3, <2>4 DEF IInv
<1>7. CASE DrainItem
    BY <1>2, <1>7 DEF DrainItem
<1>8. CASE DrainDone
    <2>1. worker = "drain" /\ items = <<>> BY <1>8 DEF DrainDone, Drained
    <2>2. CASE FlushDue(events, rollups)
        BY <1>1, <1>8, <2>1, <2>2, AttemptInv DEF DrainDone
    <2>3. CASE ~FlushDue(events, rollups)
        <3>1. events = {} /\ rollups = {} BY <2>3 DEF FlushDue
        <3>2. Grows BY <1>8 DEF DrainDone, Grows, repoVars
        <3> QED BY <1>1, <1>8, <2>1, <2>3, <3>1, <3>2, FinishInv DEF DrainDone
    <2> QED BY <2>2, <2>3
<1>9. ASSUME Grows, UNCHANGED <<callVars, chanVars, sliceVars, serving, flushVars, closeVars, before>>,
             PastDrain, PastDrain', worker' = "rollups" => events \subseteq rows'
      PROVE  IInv'
    <2>1. UNCHANGED <<Pending, Accepted>> /\ Range(items') = Range(items)
        BY <1>9 DEF Pending, Accepted, chanVars, sliceVars
    <2>2. Provenance' /\ Erasure' BY <1>1, <1>9, <2>1, GrowsInv DEF flushVars
    <2>3. Accepted \subseteq Calls BY RangeOfSeq DEF IInv, TypeOK, Accepted
    <2>4. NothingLost'
        BY <1>9, <2>1, <2>3 DEF IInv, NothingLost, EventKept, RollupKept, Grows, callVars, sliceVars
    <2>5. WorkerPhase'
        BY <1>9 DEF IInv, WorkerPhase, PastDrain, Grows, sliceVars
    <2>6. FlushProgress' /\ CloseProgress'
        BY <1>9, <2>1 DEF IInv, FlushProgress, CloseProgress, PastDrain, flushVars, closeVars
    <2> QED BY <1>1, <2>2, <2>4, <2>5, <2>6 DEF IInv
<1>10. CASE AppendSucceeds
    <2>1. /\ Grows /\ PastDrain
          /\ worker = "append" => events \subseteq rows'
          /\ worker = "rollups" \/ Atomic => \A c \in rollups : counts'[c] > 0
        BY <1>10, WriteGrows DEF AppendSucceeds, PastDrain
    <2>2. CASE RollupsToCome
        <3>1. PastDrain' /\ worker = "append" BY <1>10, <2>2 DEF AppendSucceeds, PastDrain, RollupsToCome
        <3> QED BY <1>9, <1>10, <2>1, <2>2, <3>1 DEF AppendSucceeds
    <2>3. CASE ~RollupsToCome
        <3>1. /\ \A c \in events : c \in rows' \/ <<c, "event">> \in wiped
              /\ \A c \in rollups : counts'[c] > 0
            BY <1>10, <2>1, <2>3 DEF IInv, WorkerPhase, AppendSucceeds, RollupsToCome, Grows
        <3> QED BY <1>1, <1>10, <2>1, <2>3, <3>1, FinishInv DEF AppendSucceeds
    <2> QED BY <2>2, <2>3
<1>11. CASE AppendFails
    <2>1. Grows /\ PastDrain
        BY <1>11, WriteGrows DEF AppendFails, PastDrain, Grows, repoVars
    <2>2. CASE attempt = RetryMaxAttempts
        BY <1>1, <1>11, <2>1, <2>2, FinishInv DEF AppendFails
    <2>3. CASE attempt # RetryMaxAttempts
        <3>1. worker' = "backoff" /\ PastDrain' BY <1>11, <2>3 DEF AppendFails, PastDrain
        <3> QED BY <1>9, <1>11, <2>1, <2>3, <3>1 DEF AppendFails
    <2> QED BY <2>2, <2>3
<1>12. CASE BackoffElapsed
    BY <1>1, <1>12, AttemptInv DEF BackoffElapsed, PastDrain
<1>13. CASE BackoffCtxDone
    <2>1. Grows /\ PastDrain BY <1>13 DEF BackoffCtxDone, PastDrain, Grows, repoVars
    <2> QED BY <1>1, <1>13, <2>1, FinishInv DEF BackoffCtxDone
<1> QED BY <1>3, <1>4, <1>5, <1>6, <1>7, <1>8, <1>10, <1>11, <1>12, <1>13 DEF WorkerStep

(* The invariant holds in every reachable state.                           *)
LEMMA Inductive == Spec => []IInv
<1>1. IInv /\ [Next]_vars => IInv'
    <2> SUFFICES ASSUME IInv, [Next]_vars PROVE IInv' OBVIOUS
    <2>1. CASE UNCHANGED vars
        <3> USE <2>1 DEF vars, callVars, chanVars, sliceVars, workVars, flushVars, closeVars, repoVars
        <3>1. TypeOK' BY DEF IInv, TypeOK
        <3>2. UNCHANGED <<Accepted, Pending>> /\ Range(items') = Range(items)
            BY DEF Accepted, Pending
        <3>3. Provenance' /\ NothingLost' /\ WorkerPhase'
            BY <3>2 DEF IInv, Provenance, NothingLost, EventKept, RollupKept, WorkerPhase
        <3>4. FlushProgress' /\ CloseProgress' /\ Erasure'
            BY <3>2 DEF IInv, FlushProgress, CloseProgress, Erasure, PastDrain
        <3> QED BY <3>1, <3>3, <3>4 DEF IInv
    <2> QED BY <2>1, RecordInv, WorkerInv, FlushInv, CloseInv DEF Next
<1> QED BY <1>1, InvInit, PTL DEF Spec

-----------------------------------------------------------------------------
(* No accepted item is lost: through every failed write, retry, reset and  *)
(* shutdown it is on the channel, in the worker's slices or was written.   *)
THEOREM NeverLost == Spec => []NothingLost
BY Inductive, PTL DEF IInv

(* A nil from Flush means that everything sent before the call was         *)
(* written.                                                                *)
THEOREM FlushIsABarrier == Spec => []FlushCovers
<1>1. IInv => FlushCovers
    <2> SUFFICES ASSUME IInv, NEW f \in Flushers, reply[f] = "ok", NEW c \in before[f]
                 PROVE  Kept(c)
        BY DEF FlushCovers
    <2>1. c \in Accepted /\ c \notin Pending
        BY DEF IInv, Provenance, FlushProgress, Clients
    <2> QED BY <2>1 DEF IInv, NothingLost, Kept, Pending
<1> QED BY <1>1, Inductive, PTL

(* A nil from the Close that the worker answers means the same; and when   *)
(* the worker stops, whatever it answers, it leaves nothing on the channel *)
(* that was sent before Close.                                             *)
THEOREM CloseIsABarrier == Spec => []CloseCovers
<1>1. IInv => CloseCovers
    <2> SUFFICES ASSUME IInv PROVE CloseCovers OBVIOUS
    <2>1. ASSUME NEW l \in Closers, close[l] = "ok", NEW k \in Closers, NEW c \in before[k]
          PROVE  Kept(c)
        <3>1. c \in Accepted /\ c \notin Pending
            BY <2>1 DEF IInv, Provenance, CloseProgress, Clients
        <3> QED BY <3>1 DEF IInv, NothingLost, Kept, Pending
    <2> QED BY <2>1 DEF IInv, CloseProgress, CloseCovers
<1> QED BY <1>1, Inductive, PTL

(* After a Reset that returned nil, nothing sent before the call is        *)
(* visible again, although the worker goes on writing and retrying.        *)
THEOREM ResetIsFinal == Spec => []ResetErases
<1>1. IInv => ResetErases
    BY DEF IInv, Erasure, ResetErases
<1> QED BY <1>1, Inductive, PTL
-----------------------------------------------------------------------------
(* The invariant behind the counters and the agreement of trail and metrics. *)

(* A call is on the channel once, and while it is there no part of it is   *)
(* anywhere else.                                                          *)
OnChannelOnce ==
    /\ \A i, j \in 1..Len(items) : items[i] = items[j] => i = j
    /\ \A c \in Range(items) :
        /\ c \notin events \cup rollups \cup rows /\ counts[c] = 0
        /\ \A p \in Parts : <<c, p>> \notin wiped

(* An atomic repository writes both slices at once, and the slices hold    *)
(* both parts of a call or neither.                                        *)
PartsTogether ==
    Atomic =>
        /\ worker # "rollups"
        /\ \A c \in Calls : item[c].event /\ item[c].rollup =>
              /\ c \in events <=> c \in rollups
              /\ c \in rows <=> counts[c] > 0

(* Without ambiguous commits a rollup that the worker holds is not yet     *)
(* written, and one that a reset deleted is not written again.             *)
NotYetCounted ==
    AmbiguousLimit = 0 =>
        /\ \A c \in rollups : counts[c] = 0 /\ <<c, "rollup">> \notin wiped
        /\ \A c \in Calls : counts[c] <= 1 /\ (<<c, "rollup">> \in wiped => counts[c] = 0)

JInv == OnChannelOnce /\ PartsTogether /\ NotYetCounted

(* NewAsyncRecorder and an empty repository begin with it.                 *)
LEMMA JInit == Init => JInv
<1> SUFFICES ASSUME Init PROVE JInv OBVIOUS
<1>1. Range(items) = {} /\ Len(items) = 0 BY DEF Init, Range
<1> QED BY <1>1 DEF Init, JInv, OnChannelOnce, PartsTogether, NotYetCounted

(* Nothing changes for a call that is nowhere yet.                         *)
LEMMA JSame ==
    ASSUME IInv, JInv, UNCHANGED <<items, repoVars>>,
           \/ UNCHANGED sliceVars
           \/ events' = {} /\ rollups' = {},
           Atomic => worker' # "rollups",
           \A c \in Calls : c \in Accepted => item'[c] = item[c]
    PROVE  JInv'
<1>1. Range(items') = Range(items) OBVIOUS
<1>2. \A c \in Calls : c \notin Accepted => c \notin Pending \cup rows /\ counts[c] = 0
    BY DEF IInv, TypeOK, Provenance
<1>3. OnChannelOnce'
    BY <1>1 DEF JInv, OnChannelOnce, repoVars, sliceVars
<1>4. PartsTogether'
    BY <1>2 DEF JInv, PartsTogether, repoVars, sliceVars, Pending
<1>5. NotYetCounted'
    BY DEF JInv, NotYetCounted, repoVars, sliceVars
<1> QED BY <1>3, <1>4, <1>5 DEF JInv

(* A call that is sent was nowhere before.                                 *)
LEMMA JSend ==
    ASSUME IInv, JInv, NEW c \in Calls, record[c] # "sent", Send(c)
    PROVE  JInv'
<1>1. /\ Range(items') = Range(items) \cup {c} /\ Len(items') = Len(items) + 1
      /\ Len(items) \in Nat /\ items'[Len(items) + 1] = c
      /\ \A i \in 1..Len(items) : items'[i] = items[i] /\ items[i] \in Range(items)
    <2>1. items \in Seq(Calls) /\ items' = Append(items, c) BY DEF IInv, TypeOK, Send
    <2> QED BY <2>1, RangeAppend, LenProperties, AppendProperties DEF Range
<1>2. /\ c \notin Pending \cup rows /\ ~(counts[c] > 0) /\ counts[c] \in Nat
      /\ \A p \in Parts : <<c, p>> \notin wiped
    BY DEF IInv, TypeOK, Provenance
<1>3. UNCHANGED <<workVars, sliceVars, repoVars, item>> BY DEF Send, Becomes, workVars
<1>4. \A i, j \in 1..Len(items') : items'[i] = items'[j] => i = j
    BY <1>1, <1>2 DEF JInv, OnChannelOnce, Pending
<1>5. OnChannelOnce'
    BY <1>1, <1>2, <1>3, <1>4 DEF JInv, OnChannelOnce, Pending, sliceVars, repoVars
<1>6. PartsTogether' /\ NotYetCounted'
    BY <1>3 DEF JInv, PartsTogether, NotYetCounted, workVars, sliceVars, repoVars
<1> QED BY <1>5, <1>6 DEF JInv

(* The parts of the head of the channel go to the slices together.         *)
LEMMA JTake ==
    ASSUME IInv, JInv, TakeItem, UNCHANGED repoVars, Atomic => worker' # "rollups"
    PROVE  JInv'
<1> DEFINE c == Head(items)
<1>1. /\ items \in Seq(Calls) /\ items # <<>> /\ items' = Tail(items) /\ UNCHANGED item
      /\ events' = IF item[c].event THEN events \cup {c} ELSE events
      /\ rollups' = IF item[c].rollup THEN rollups \cup {c} ELSE rollups
    BY DEF IInv, TypeOK, TakeItem, callVars
<1>2. /\ c \in Calls /\ Range(items) = {c} \cup Range(items') /\ c = items[1]
      /\ Len(items) \in Nat /\ Len(items') = Len(items) - 1
      /\ \A i \in 1..Len(items') : items'[i] = items[i + 1]
    BY <1>1, RangeHeadTail, LenProperties, HeadTailProperties
<1>3. c \notin Range(items')
    <2> SUFFICES ASSUME c \in Range(items') PROVE FALSE OBVIOUS
    <2>1. DOMAIN items' = 1..Len(items') BY <1>1, <1>2, LenProperties, HeadTailProperties
    <2>2. PICK i \in 1..Len(items') : items'[i] = c BY <2>1 DEF Range
    <2> QED BY <1>2, <2>2 DEF JInv, OnChannelOnce
<1>4. c \notin events \cup rollups \cup rows /\ counts[c] = 0 /\ \A p \in Parts : <<c, p>> \notin wiped
    BY <1>2 DEF JInv, OnChannelOnce
<1> HIDE DEF c
<1>5. \A i, j \in 1..Len(items') : items'[i] = items'[j] => i = j
    BY <1>2 DEF JInv, OnChannelOnce
<1>6. OnChannelOnce'
    BY <1>1, <1>2, <1>3, <1>5 DEF JInv, OnChannelOnce, repoVars
<1>7. PartsTogether'
    BY <1>1, <1>2, <1>4 DEF JInv, PartsTogether, repoVars
<1>8. NotYetCounted'
    BY <1>1, <1>2, <1>4 DEF JInv, NotYetCounted, repoVars, Parts
<1> QED BY <1>6, <1>7, <1>8 DEF JInv

(* A write adds what the slices hold.  It empties them, or it was          *)
(* ambiguous, or the rollups are still to come.                            *)
LEMMA JWrite ==
    ASSUME IInv, JInv, WriteTakesEffect, UNCHANGED <<items, item>>,
           worker \in {"append", "rollups"}, Atomic => worker' # "rollups",
           \/ events' = {} /\ rollups' = {}
           \/ UNCHANGED sliceVars /\ (AmbiguousLimit > 0 \/ RollupsToCome)
    PROVE  JInv'
<1>1. Range(items') = Range(items) OBVIOUS
<1>2. /\ rows' = rows \cup (IF worker = "append" THEN events ELSE {})
      /\ \A c \in Calls : counts'[c] = counts[c] +
            IF c \in rollups /\ (Atomic \/ worker = "rollups") THEN 1 ELSE 0
      /\ wiped' = wiped
    BY DEF WriteTakesEffect
<1>3. /\ Range(items) \subseteq Calls /\ rollups \subseteq Calls /\ counts \in [Calls -> Nat]
      /\ AmbiguousLimit \in Nat
    BY RangeOfSeq, RecorderAssumption DEF IInv, TypeOK
<1>4. OnChannelOnce'
    <2>1. ASSUME NEW c \in Range(items)
          PROVE  /\ c \notin events' \cup rollups' \cup rows' /\ counts'[c] = 0
                 /\ \A p \in Parts : <<c, p>> \notin wiped'
        <3>1. /\ c \in Calls /\ c \notin events \cup rollups \cup rows /\ counts[c] = 0
              /\ \A p \in Parts : <<c, p>> \notin wiped
            BY <1>3, <2>1 DEF JInv, OnChannelOnce
        <3>2. counts'[c] = 0 BY <1>2, <3>1
        <3>3. c \notin events' \cup rollups' \cup rows' BY <1>2, <3>1 DEF sliceVars
        <3> QED BY <1>2, <3>1, <3>2, <3>3
    <2> QED BY <1>1, <2>1 DEF JInv, OnChannelOnce
<1>5. PartsTogether'
    BY <1>2, <1>3 DEF JInv, PartsTogether, sliceVars
<1>6. NotYetCounted'
    BY <1>2, <1>3 DEF JInv, NotYetCounted, sliceVars, RollupsToCome
<1> QED BY <1>4, <1>5, <1>6 DEF JInv

(* A reset deletes both parts of everything that was written.              *)
LEMMA JDelete ==
    ASSUME IInv, JInv, NEW f \in Flushers, DeleteTrail(f), UNCHANGED <<items, item, sliceVars, worker>>
    PROVE  JInv'
<1>1. Range(items') = Range(items) /\ Range(items) \subseteq Calls
    BY RangeOfSeq DEF IInv, TypeOK
<1>2. /\ rows' = {} /\ \A c \in Calls : counts'[c] = 0
      /\ wiped' = wiped \cup (rows \X {"event"}) \cup ({c \in Calls : counts[c] > 0} \X {"rollup"})
      /\ counts \in [Calls -> Nat] /\ rollups \subseteq Calls
    BY DEF IInv, TypeOK, DeleteTrail, NoRollups
<1>3. OnChannelOnce'
    BY <1>1, <1>2 DEF JInv, OnChannelOnce, sliceVars
<1>4. PartsTogether' /\ NotYetCounted'
    BY <1>2 DEF JInv, PartsTogether, NotYetCounted, sliceVars
<1> QED BY <1>3, <1>4 DEF JInv

(* Every step of the worker keeps the second invariant.                    *)
LEMMA JWorker ==
    ASSUME IInv, JInv, WorkerStep
    PROVE  JInv'
<1>1. ASSUME NEW n, BeginAttempt(n) PROVE Atomic => worker' # "rollups"
    BY <1>1 DEF BeginAttempt
<1>2. ASSUME NEW result \in {"ok", "err"}, FinishFlush(result)
      PROVE  /\ worker' \in {"select", "exited"}
             /\ \/ UNCHANGED sliceVars /\ result = "err"
                \/ events' = {} /\ rollups' = {}
    BY <1>2 DEF FinishFlush, SlicesAfter
<1>3. Atomic => worker # "rollups" BY DEF JInv, PartsTogether
<1>4. CASE ReceiveItem
    BY <1>1, <1>4, JTake DEF ReceiveItem
<1>5. CASE DrainItem
    BY <1>5, JTake DEF DrainItem
<1>6. CASE Tick \/ BackoffElapsed
    BY <1>1, <1>6, JSame DEF Tick, BackoffElapsed, callVars, chanVars
<1>7. CASE \/ \E f \in Flushers : TakeFlush(f)
           \/ \E k \in Closers : TakeClose(k)
    BY <1>7, JSame DEF TakeFlush, TakeClose, callVars, chanVars
<1>8. CASE DrainDone
    BY <1>1, <1>2, <1>8, JSame DEF DrainDone, callVars, chanVars
<1>9. CASE BackoffCtxDone
    BY <1>2, <1>9, JSame DEF BackoffCtxDone, callVars, chanVars
<1>10. CASE AppendSucceeds
    <2>1. UNCHANGED <<items, item>> /\ worker \in {"append", "rollups"} /\ WriteTakesEffect
        BY <1>10 DEF AppendSucceeds, callVars, chanVars
    <2>2. CASE RollupsToCome
        BY <1>10, <2>1, <2>2, JWrite DEF AppendSucceeds, RollupsToCome
    <2>3. CASE ~RollupsToCome
        BY <1>2, <1>10, <2>1, <2>3, JWrite DEF AppendSucceeds
    <2> QED BY <2>2, <2>3
<1>11. CASE AppendFails
    <2>1. /\ UNCHANGED <<items, item>> /\ worker \in {"append", "rollups"}
          /\ \/ UNCHANGED repoVars
             \/ AmbiguousLimit > 0 /\ WriteTakesEffect
          /\ Atomic => worker' # "rollups"
          /\ UNCHANGED sliceVars \/ (events' = {} /\ rollups' = {})
        BY <1>2, <1>11 DEF AppendFails, MayBeAmbiguous, callVars, chanVars
    <2>2. CASE UNCHANGED repoVars BY <2>1, <2>2, JSame
    <2>3. CASE AmbiguousLimit > 0 /\ WriteTakesEffect BY <2>1, <2>3, JWrite
    <2> QED BY <2>1, <2>2, <2>3
<1> QED BY <1>4, <1>5, <1>6, <1>7, <1>8, <1>9, <1>10, <1>11 DEF WorkerStep

(* The second invariant holds in every reachable state.                    *)
LEMMA JInductive == Spec => []JInv
<1>1. IInv /\ JInv /\ [Next]_vars => JInv'
    <2> SUFFICES ASSUME IInv, JInv, [Next]_vars PROVE JInv' OBVIOUS
    <2>1. Atomic => worker # "rollups" BY DEF JInv, PartsTogether
    <2>2. ASSUME NEW c \in Calls, RecordStep(c) PROVE JInv'
        <3>1. CASE record[c] # "sent" /\ Send(c) BY <2>2, <3>1, JSend
        <3>2. CASE /\ record[c] # "sent" /\ UNCHANGED <<items, repoVars, sliceVars, worker>>
                   /\ \A d \in Calls \ {c} : item'[d] = item[d]
            <4>1. c \notin Accepted BY <2>2, <3>2 DEF IInv, Provenance
            <4> QED BY <2>1, <3>2, <4>1, JSame
        <3> QED BY <2>2, <3>1, <3>2
            DEF IInv, TypeOK, RecordStep, RecordClosed, RecordPrepareFails, RecordSkipped,
                RecordDecided, EnqueueFast, EnqueueFull, EnqueueSlow, EnqueueTimeout,
                EnqueueCtxDone, Becomes, chanVars, workVars
    <2>3. ASSUME NEW f \in Flushers, FlushStep(f) PROVE JInv'
        <3>1. UNCHANGED <<items, item, sliceVars, worker>>
            BY <2>3 DEF FlushStep, FlushClosed, FlushBegin, FlushCtxDone, FlushReturn, ResetSucceeds,
                   ResetFails, FlushBecomes, callVars, chanVars, workVars
        <3>2. DeleteTrail(f) \/ UNCHANGED repoVars
            BY <2>3 DEF FlushStep, FlushClosed, FlushBegin, FlushCtxDone, FlushReturn, ResetSucceeds,
                   ResetFails
        <3> QED BY <2>1, <3>1, <3>2, JSame, JDelete
    <2>4. ASSUME NEW k \in Closers, CloseStep(k) PROVE JInv'
        <3>1. UNCHANGED <<items, item, sliceVars, worker, repoVars>>
            BY <2>4 DEF CloseStep, CloseBegin, CloseExpired, CloseAgain, CloseReturn, CloseCtxDone,
                   DeadlinePasses, TakeResult, CloseBecomes, callVars, chanVars, workVars
        <3> QED BY <2>1, <3>1, JSame
    <2>5. CASE UNCHANGED vars
        BY <2>1, <2>5, JSame DEF vars, callVars, chanVars, workVars
    <2> QED BY <2>2, <2>3, <2>4, <2>5, JWorker DEF Next
<1> QED BY <1>1, Inductive, JInit, PTL DEF Spec

(* No retry, reset or shutdown adds a rollup twice, as long as the         *)
(* repository never takes effect and returns an error.                     *)
THEOREM CountedAtMostOnce == Spec => []RollupCountedOnce
<1>1. IInv /\ JInv => RollupCountedOnce
    <2> SUFFICES ASSUME IInv, JInv, AmbiguousLimit = 0, NEW c \in Calls
                 PROVE  counts[c] + (IF <<c, "rollup">> \in wiped THEN 1 ELSE 0) <= 1
        BY DEF RollupCountedOnce
    <2>1. /\ counts[c] \in Nat /\ counts[c] <= 1
          /\ <<c, "rollup">> \in wiped => counts[c] = 0
        BY DEF IInv, TypeOK, JInv, NotYetCounted
    <2>2. CASE <<c, "rollup">> \in wiped BY <2>1, <2>2
    <2>3. CASE <<c, "rollup">> \notin wiped BY <2>1, <2>3
    <2> QED BY <2>2, <2>3
<1> QED BY <1>1, Inductive, JInductive, PTL

(* With AppendAuditBatch the rows of the trail and the counters of the     *)
(* dashboard never disagree, although commits may be ambiguous and resets  *)
(* come between.                                                           *)
THEOREM TrailAgreesWithMetrics == Spec => []TrailAndMetricsAgree
<1>1. JInv => TrailAndMetricsAgree
    BY DEF JInv, PartsTogether, TrailAndMetricsAgree
<1> QED BY <1>1, JInductive, PTL
-----------------------------------------------------------------------------
(* The counters of RecorderStats against the calls that they count.        *)

With(outcome, outcomes) == {c \in Calls : outcome[c] \in outcomes}

Sending == {"sent", "dropped", "ctxErr"}
Erring == {"ctxErr", "failed"}
Cancelled == {"ctxErr"}

(* Only finitely many calls have ended, however many there may be.         *)
CountedWhen(outcome, sends, totals) ==
    /\ IsFiniteSet(With(outcome, Sending)) /\ IsFiniteSet(With(outcome, Cancelled))
    /\ IsFiniteSet(With(outcome, Erring))
    /\ Cardinality(With(outcome, Sending)) = sends + totals["dropped"]
    /\ totals["enqueued"] = sends + totals["dropped"] - Cardinality(With(outcome, Cancelled))
    /\ totals["errors"] = Cardinality(With(outcome, Erring))

Counted == CountedWhen(record, Len(log), stats)

(* Two tables of outcomes agree but for one call.                          *)
OnlyAt(c, was, is) == \A d \in Calls \ {c} : is[d] = was[d]

(* A call that ends is counted once, where its outcome belongs.            *)
LEMMA EndedGrows ==
    ASSUME NEW was, NEW is, NEW c \in Calls, OnlyAt(c, was, is),
           NEW outcomes, was[c] \notin outcomes, IsFiniteSet(With(was, outcomes))
    PROVE  /\ IsFiniteSet(With(is, outcomes))
           /\ Cardinality(With(was, outcomes)) \in Nat
           /\ Cardinality(With(is, outcomes))
                = Cardinality(With(was, outcomes)) + (IF is[c] \in outcomes THEN 1 ELSE 0)
<1>1. c \notin With(was, outcomes) BY DEF With
<1>2. CASE is[c] \in outcomes
    <2>1. With(is, outcomes) = With(was, outcomes) \cup {c} BY <1>2 DEF With, OnlyAt
    <2> QED BY <1>1, <1>2, <2>1, FS_AddElement, FS_CardinalityType
<1>3. CASE is[c] \notin outcomes
    <2>1. With(is, outcomes) = With(was, outcomes) BY <1>3 DEF With, OnlyAt
    <2> QED BY <1>3, <2>1, FS_CardinalityType
<1> QED BY <1>2, <1>3

(* One call of Record takes a step: its outcome and the counters move      *)
(* together.                                                               *)
LEMMA RecordCounted ==
    ASSUME TypeOK, TypeOK', Counted, NEW c \in Calls, RecordStep(c)
    PROVE  Counted'
<1> DEFINE Moves(from, to, names, sent) ==
        /\ record[c] \in from /\ record' = [record EXCEPT ![c] = to]
        /\ stats' = [s \in Counters |-> stats[s] + IF s \in names THEN 1 ELSE 0]
        /\ Len(log') = Len(log) + sent
<1>1. Len(log) \in Nat /\ stats \in [Counters -> Nat]
    BY LenProperties DEF TypeOK
<1>2. Send(c) => Len(log') = Len(log) + 1
    BY AppendProperties DEF TypeOK, Send
<1>3. \/ record[c] = "idle" /\ record' = [record EXCEPT ![c] = "ignored"] /\ UNCHANGED <<stats, log>>
      \/ Moves({"idle"}, "failed", {"errors"}, 0)
      \/ Moves({"idle"}, "skipped", {"skipped"}, 0)
      \/ Moves({"idle"}, "decided", {}, 0) \/ Moves({"idle"}, "decided", {"skipped"}, 0)
      \/ Moves({"decided", "waiting"}, "sent", {"enqueued"}, 1)
      \/ Moves({"decided"}, "dropped", {"full"} \cup {"dropped", "enqueued"}, 0)
      \/ Moves({"decided"}, "waiting", {"full"}, 0)
      \/ Moves({"waiting"}, "dropped", {"dropped", "enqueued"}, 0)
      \/ Moves({"waiting"}, "ctxErr", {"dropped", "errors"}, 0)
    BY <1>1, <1>2 DEF RecordStep, RecordClosed, RecordPrepareFails, RecordSkipped, RecordDecided,
        EnqueueFast, EnqueueFull, EnqueueSlow, EnqueueTimeout, EnqueueCtxDone, Send, Becomes,
        Count, DroppedWithNil, chanVars
<1>4. ASSUME NEW state, record' = [record EXCEPT ![c] = state], record[c] \in {"idle", "decided", "waiting"},
             NEW S, S \in {Sending, Cancelled, Erring}
      PROVE  /\ IsFiniteSet(With(record', S)) /\ Cardinality(With(record, S)) \in Nat
             /\ Cardinality(With(record', S)) = Cardinality(With(record, S)) + (IF state \in S THEN 1 ELSE 0)
    <2> DEFINE is == record'
               was == record
    <2>1. was[c] \notin S
        BY <1>4 DEF Sending, Erring, Cancelled
    <2>2. IsFiniteSet(With(was, S))
        BY <1>4 DEF Counted, CountedWhen
    <2>3. is[c] = state
        BY <1>4 DEF TypeOK
    <2>4. OnlyAt(c, was, is)
        BY <1>4 DEF TypeOK, OnlyAt
    <2> HIDE DEF is, was
    <2>5. /\ IsFiniteSet(With(is, S)) /\ Cardinality(With(was, S)) \in Nat
          /\ Cardinality(With(is, S)) = Cardinality(With(was, S)) + (IF is[c] \in S THEN 1 ELSE 0)
        BY <2>1, <2>2, <2>4, EndedGrows
    <2> QED BY <2>3, <2>5 DEF is, was
<1>5. ASSUME NEW from \in SUBSET {"idle", "decided", "waiting"}, NEW to, NEW names, NEW sent \in {0, 1},
             Moves(from, to, names, sent),
             (to \in Sending) <=> (sent = 1 \/ "dropped" \in names),
             (to \in Erring) <=> ("errors" \in names),
             ~(sent = 1 /\ "dropped" \in names),
             ("enqueued" \in names) <=> (to \in Sending /\ to \notin Cancelled),
             to \in Cancelled => to \in Sending
      PROVE  Counted'
    <2>1. /\ stats'["dropped"] = stats["dropped"] + (IF "dropped" \in names THEN 1 ELSE 0)
          /\ stats'["enqueued"] = stats["enqueued"] + (IF "enqueued" \in names THEN 1 ELSE 0)
          /\ stats'["errors"] = stats["errors"] + (IF "errors" \in names THEN 1 ELSE 0)
          /\ Len(log') = Len(log) + sent
        BY <1>5 DEF Counters
    <2>2. /\ record' = [record EXCEPT ![c] = to] /\ record[c] \in {"idle", "decided", "waiting"}
        BY <1>5
    <2>3. stats["dropped"] \in Nat /\ stats["enqueued"] \in Nat /\ stats["errors"] \in Nat
        BY <1>1 DEF Counters
    <2> HIDE DEF Moves
    <2>5. \A S \in {Sending, Cancelled, Erring} :
            /\ IsFiniteSet(With(record', S)) /\ Cardinality(With(record, S)) \in Nat
            /\ Cardinality(With(record', S)) = Cardinality(With(record, S)) + (IF to \in S THEN 1 ELSE 0)
        BY <1>4, <2>2
    <2>6. /\ Cardinality(With(record, Sending)) = Len(log) + stats["dropped"]
          /\ stats["enqueued"] = Len(log) + stats["dropped"] - Cardinality(With(record, Cancelled))
          /\ stats["errors"] = Cardinality(With(record, Erring))
        BY DEF Counted, CountedWhen
    <2>7. /\ Cardinality(With(record', Sending)) = Len(log') + stats'["dropped"]
          /\ stats'["enqueued"] = Len(log') + stats'["dropped"] - Cardinality(With(record', Cancelled))
          /\ stats'["errors"] = Cardinality(With(record', Erring))
        <3> DEFINE s == Cardinality(With(record, Sending))
                   x == Cardinality(With(record, Cancelled))
                   e == Cardinality(With(record, Erring))
        <3>1. /\ Cardinality(With(record', Sending)) = s + (IF to \in Sending THEN 1 ELSE 0)
              /\ Cardinality(With(record', Cancelled)) = x + (IF to \in Cancelled THEN 1 ELSE 0)
              /\ Cardinality(With(record', Erring)) = e + (IF to \in Erring THEN 1 ELSE 0)
              /\ s \in Nat /\ x \in Nat /\ e \in Nat
            BY <2>5
        <3>2. s = Len(log) + stats["dropped"] /\ stats["enqueued"] = Len(log) + stats["dropped"] - x /\ stats["errors"] = e
            BY <2>6
        <3> HIDE DEF s, x, e
        <3> DEFINE dropped == IF "dropped" \in names THEN 1 ELSE 0
                   enqueued == IF "enqueued" \in names THEN 1 ELSE 0
                   errors == IF "errors" \in names THEN 1 ELSE 0
                   sending == IF to \in Sending THEN 1 ELSE 0
                   cancelled == IF to \in Cancelled THEN 1 ELSE 0
                   erring == IF to \in Erring THEN 1 ELSE 0
        <3>3. /\ {dropped, enqueued, errors, sending, cancelled, erring} \subseteq {0, 1}
              /\ sending = sent + dropped /\ erring = errors /\ enqueued = sending - cancelled
            BY <1>5
        <3>4. /\ stats'["dropped"] = stats["dropped"] + dropped
              /\ stats'["enqueued"] = stats["enqueued"] + enqueued
              /\ stats'["errors"] = stats["errors"] + errors
              /\ Cardinality(With(record', Sending)) = s + sending
              /\ Cardinality(With(record', Cancelled)) = x + cancelled
              /\ Cardinality(With(record', Erring)) = e + erring
            BY <2>1, <3>1
        <3>5. Len(log') = Len(log) + sent /\ sent \in {0, 1}
            BY <2>1
        <3> HIDE DEF dropped, enqueued, errors, sending, cancelled, erring
        <3> DEFINE l == Len(log)
                   d == stats["dropped"]
        <3>6. /\ l \in Int /\ d \in Int /\ s \in Int /\ x \in Int /\ sent \in Int
              /\ dropped \in Int /\ sending \in Int /\ cancelled \in Int
            BY <1>1, <2>3, <3>1, <3>3
        <3>7. s = l + d /\ stats["enqueued"] = l + d - x
            BY <3>2
        <3>8. stats'["dropped"] = d + dropped /\ Len(log') = l + sent
            BY <3>4, <3>5
        <3> HIDE DEF l, d
        <3>9. /\ s + sending = (l + sent) + (d + dropped)
              /\ (l + d - x) + enqueued = (l + sent) + (d + dropped) - (x + cancelled)
            BY <3>3, <3>6, <3>7
        <3>10. Cardinality(With(record', Sending)) = Len(log') + stats'["dropped"]
            BY <3>4, <3>8, <3>9
        <3>11. stats'["enqueued"] = Len(log') + stats'["dropped"] - Cardinality(With(record', Cancelled))
            BY <3>4, <3>7, <3>8, <3>9
        <3> QED BY <3>2, <3>3, <3>4, <3>10, <3>11
    <2>4. CountedWhen(record', Len(log'), stats')
        BY <2>5, <2>7 DEF CountedWhen
    <2> QED BY <2>4 DEF Counted
<1>6. CASE record[c] = "idle" /\ record' = [record EXCEPT ![c] = "ignored"] /\ UNCHANGED <<stats, log>>
    <2>1. "ignored" \notin Sending /\ "ignored" \notin Erring /\ "ignored" \notin Cancelled
        BY DEF Sending, Erring, Cancelled
    <2>3. \A S \in {Sending, Cancelled, Erring} :
            /\ IsFiniteSet(With(record', S)) /\ Cardinality(With(record, S)) \in Nat
            /\ Cardinality(With(record', S)) = Cardinality(With(record, S)) + 0
        BY <1>4, <1>6, <2>1
    <2>2. CountedWhen(record', Len(log), stats)
        BY <2>3 DEF Counted, CountedWhen
    <2> QED BY <1>6, <2>2 DEF Counted
<1> HIDE DEF Moves
<1>7. CASE \/ Moves({"idle"}, "failed", {"errors"}, 0)
           \/ Moves({"idle"}, "skipped", {"skipped"}, 0)
           \/ Moves({"idle"}, "decided", {}, 0) \/ Moves({"idle"}, "decided", {"skipped"}, 0)
    BY <1>5, <1>7 DEF Sending, Erring, Cancelled
<1>8. CASE \/ Moves({"decided", "waiting"}, "sent", {"enqueued"}, 1)
           \/ Moves({"decided"}, "waiting", {"full"}, 0)
    BY <1>5, <1>8 DEF Sending, Erring, Cancelled
<1>9. CASE \/ Moves({"decided"}, "dropped", {"full"} \cup {"dropped", "enqueued"}, 0)
           \/ Moves({"waiting"}, "dropped", {"dropped", "enqueued"}, 0)
           \/ Moves({"waiting"}, "ctxErr", {"dropped", "errors"}, 0)
    BY <1>5, <1>9 DEF Sending, Erring, Cancelled
<1> QED BY <1>3, <1>6, <1>7, <1>8, <1>9

(* Every accepted item is on the log, and EnqueueTotal, DroppedTotal and   *)
(* EnqueueErrorTotal account for every call of Record.                     *)
THEOREM CountersAccount == Spec => []Accounting
<1>1. Init => Counted
    <2> SUFFICES ASSUME Init PROVE Counted OBVIOUS
    <2>1. With(record, Sending) = {} /\ With(record, Cancelled) = {} /\ With(record, Erring) = {}
        BY DEF Init, With, Sending, Erring, Cancelled
    <2>2. Len(log) = 0 /\ \A s \in Counters : stats[s] = 0 BY DEF Init
    <2>3. IsFiniteSet({}) /\ Cardinality({}) = 0 BY FS_EmptySet
    <2>4. stats["dropped"] = 0 /\ stats["enqueued"] = 0 /\ stats["errors"] = 0 BY <2>2 DEF Counters
    <2>5. IsFiniteSet(With(record, Sending)) /\ IsFiniteSet(With(record, Cancelled)) /\ IsFiniteSet(With(record, Erring)) BY <2>1, <2>3
    <2>6. Cardinality(With(record, Sending)) = Len(log) + stats["dropped"] BY <2>1, <2>2, <2>3, <2>4
    <2>7. stats["enqueued"] = Len(log) + stats["dropped"] - Cardinality(With(record, Cancelled)) BY <2>1, <2>2, <2>3, <2>4
    <2>8. stats["errors"] = Cardinality(With(record, Erring)) BY <2>1, <2>2, <2>3, <2>4
    <2> QED BY <2>5, <2>6, <2>7, <2>8 DEF Counted, CountedWhen
<1>2. TypeOK /\ TypeOK' /\ Counted /\ [Next]_vars => Counted'
    <2> SUFFICES ASSUME TypeOK, TypeOK', Counted, [Next]_vars PROVE Counted' OBVIOUS
    <2>1. CASE \E c \in Calls : RecordStep(c) BY <2>1, RecordCounted
    <2>2. CASE UNCHANGED <<record, stats, log>> BY <2>2 DEF Counted
    <2>3. WorkerStep => UNCHANGED <<record, stats, log>>
        BY DEF WorkerStep, ReceiveItem, Tick, TakeFlush, TakeClose, DrainItem, DrainDone, TakeItem,
            AppendSucceeds, AppendFails, BackoffElapsed, BackoffCtxDone, callVars, chanVars
    <2>4. ASSUME NEW f \in Flushers, FlushStep(f) PROVE UNCHANGED <<record, stats, log>>
        BY <2>4 DEF FlushStep, FlushClosed, FlushBegin, FlushCtxDone, FlushReturn, ResetSucceeds,
            ResetFails, FlushBecomes, callVars, chanVars
    <2>5. ASSUME NEW k \in Closers, CloseStep(k) PROVE UNCHANGED <<record, stats, log>>
        BY <2>5 DEF CloseStep, CloseBegin, CloseExpired, CloseAgain, CloseReturn, CloseCtxDone,
            DeadlinePasses, TakeResult, CloseBecomes, callVars, chanVars
    <2>6. UNCHANGED vars => UNCHANGED <<record, stats, log>> BY DEF vars, callVars, chanVars
    <2> QED BY <2>1, <2>2, <2>3, <2>4, <2>5, <2>6 DEF Next
<1>3. Counted => Accounting
    BY DEF Counted, CountedWhen, Accounting, With, Sending, Erring, Cancelled
<1> QED BY <1>1, <1>2, <1>3, TypeCorrect, PTL DEF Spec

-----------------------------------------------------------------------------
(* The handshakes between the worker and those who wait for it.            *)

(* The calls of Close that have returned what the worker sent.             *)
Told == {k \in Closers : close[k] \in {"ok", "err"}}

(* Whoever has been taken by the worker is served by it or answered.       *)
Served ==
    /\ \A p, q \in serving : p = q
    /\ worker = "drain" => serving # {}
    /\ \A f \in Flushers : flush[f] = "awaiting" => f \in serving \/ reply[f] # "none"

(* One Close, the first, goes through the channel to the worker.           *)
OneClose ==
    /\ ~closed => closeCh = {} /\ \A k \in Closers : close[k] = "idle"
    /\ \A k, l \in closeCh \cup (serving \cap Closers) : k = l
    /\ closeCh = {} \/ serving \cap Closers = {}
    /\ worker = "exited" => closeCh = {}
    /\ \A k, l \in Closers : close[k] = "waiting" /\ close[l] = "waiting" => k = l
    /\ \A k \in Closers : close[k] = "waiting" => k \in closeCh \cup serving \/ worker = "exited"

(* The worker sends one result, and it is waiting to be read or was read.  *)
OneResult ==
    /\ worker # "exited" => doneCh = {} /\ Told = {}
    /\ worker = "exited" => doneCh # {} \/ Told # {}
    /\ \A k, l \in Told : k = l
    /\ \A a, b \in doneCh : a = b
    /\ doneCh = {} \/ Told = {}

HInv == Served /\ OneClose /\ OneResult

(* Nobody has called yet.                                                  *)
LEMMA HInit == Init => HInv
BY DEF Init, HInv, Served, OneClose, OneResult, Told

(* What the handshakes are made of.                                        *)
hands == <<serving, flush, reply, closed, close, closeCh, doneCh>>

(* The worker goes on without a word to anyone.                            *)
LEMMA HSilent ==
    ASSUME HInv, UNCHANGED hands,
           worker' = worker \/ (worker # "exited" /\ worker' \notin {"drain", "exited"})
    PROVE  HInv'
BY DEF HInv, Served, OneClose, OneResult, Told, hands

(* The end of a flush answers the one that is served, and nobody else; the *)
(* flush of Close sends its result when none has been sent.                *)
LEMMA HFinish ==
    ASSUME IInv, HInv, NEW result \in {"ok", "err"}, FinishFlush(result), worker # "exited"
    PROVE  HInv'
<1>1. /\ reply' = [f \in Flushers |-> IF f \in serving THEN result ELSE reply[f]]
      /\ IF serving \cap Closers # {}
         THEN worker' = "exited" /\ doneCh' = {result}
         ELSE worker' = "select" /\ UNCHANGED doneCh
      /\ serving' = {} /\ UNCHANGED <<flush, closed, close, closeCh>>
    BY DEF FinishFlush, Replies
<1>2. Served'
    BY <1>1 DEF HInv, Served
<1>3. CASE serving \cap Closers = {}
    <2>1. OneClose'
        BY <1>1, <1>3 DEF HInv, OneClose
    <2>2. OneResult'
        BY <1>1, <1>3 DEF HInv, OneResult, Told
    <2> QED BY <1>2, <2>1, <2>2 DEF HInv
<1>4. CASE serving \cap Closers # {}
    <2>1. OneClose'
        BY <1>1, <1>4 DEF HInv, OneClose, IInv, CloseProgress
    <2>2. OneResult'
        BY <1>1, <1>4 DEF HInv, OneResult, Told
    <2> QED BY <1>2, <2>1, <2>2 DEF HInv
<1> QED BY <1>3, <1>4

(* Every step of the worker keeps the handshakes.                          *)
LEMMA HWorker ==
    ASSUME IInv, HInv, WorkerStep
    PROVE  HInv'
<1>1. CASE ReceiveItem \/ Tick \/ DrainItem \/ BackoffElapsed
    <2>1. UNCHANGED hands /\ worker # "exited"
        BY <1>1 DEF ReceiveItem, Tick, DrainItem, BackoffElapsed, hands, flushVars, closeVars
    <2>2. worker' = worker \/ worker' \notin {"drain", "exited"}
        BY <1>1 DEF ReceiveItem, Tick, DrainItem, BackoffElapsed, BeginAttempt
    <2> QED BY <2>1, <2>2, HSilent
<1>2. ASSUME NEW f \in Flushers, TakeFlush(f) PROVE HInv'
    <2>1. /\ worker = "select" /\ worker' = "drain" /\ serving' = {f} /\ serving' \cap Closers = {}
          /\ serving = {} /\ UNCHANGED <<reply, closed, close, closeCh, doneCh>>
          /\ \A g \in Flushers \ {f} : flush'[g] = flush[g]
        BY <1>2, RecorderAssumption DEF TakeFlush, IInv, TypeOK, WorkerPhase, closeVars
    <2> QED BY <2>1 DEF HInv, Served, OneClose, OneResult, Told
<1>3. ASSUME NEW k \in Closers, TakeClose(k) PROVE HInv'
    <2>1. /\ worker = "select" /\ worker' = "drain" /\ serving' = {k} /\ serving = {}
          /\ k \in closeCh /\ closeCh' = closeCh \ {k}
          /\ UNCHANGED <<flush, reply, closed, close, doneCh>>
        BY <1>3 DEF TakeClose, IInv, WorkerPhase, flushVars
    <2>2. closeCh = {k}
        BY <2>1 DEF HInv, OneClose
    <2> QED BY <2>1, <2>2 DEF HInv, Served, OneClose, OneResult, Told
<1>4. CASE DrainDone
    <2>1. worker = "drain"
        BY <1>4 DEF DrainDone
    <2>2. CASE FlushDue(events, rollups)
        <3>1. UNCHANGED hands /\ worker' \notin {"drain", "exited"}
            BY <1>4, <2>2 DEF DrainDone, BeginAttempt, hands, flushVars, closeVars
        <3> QED BY <2>1, <3>1, HSilent
    <2>3. CASE ~FlushDue(events, rollups)
        BY <1>4, <2>1, <2>3, HFinish DEF DrainDone
    <2> QED BY <2>2, <2>3
<1>5. CASE AppendSucceeds
    <2>1. worker # "exited"
        BY <1>5 DEF AppendSucceeds
    <2>2. CASE RollupsToCome
        <3>1. UNCHANGED hands /\ worker' \notin {"drain", "exited"}
            BY <1>5, <2>2 DEF AppendSucceeds, hands, flushVars, closeVars
        <3> QED BY <2>1, <3>1, HSilent
    <2>3. CASE ~RollupsToCome
        BY <1>5, <2>1, <2>3, HFinish DEF AppendSucceeds
    <2> QED BY <2>2, <2>3
<1>6. CASE AppendFails
    <2>1. worker # "exited"
        BY <1>6 DEF AppendFails
    <2>2. CASE attempt = RetryMaxAttempts
        BY <1>6, <2>1, <2>2, HFinish DEF AppendFails
    <2>3. CASE attempt # RetryMaxAttempts
        <3>1. UNCHANGED hands /\ worker' \notin {"drain", "exited"}
            BY <1>6, <2>3 DEF AppendFails, hands, flushVars, closeVars
        <3> QED BY <2>1, <3>1, HSilent
    <2> QED BY <2>2, <2>3
<1>7. CASE BackoffCtxDone
    BY <1>7, HFinish DEF BackoffCtxDone
<1> QED BY <1>1, <1>2, <1>3, <1>4, <1>5, <1>6, <1>7 DEF WorkerStep

(* A call of Flush ends, or comes to wait for the worker to take it.       *)
LEMMA HFlush ==
    ASSUME IInv, HInv, NEW f \in Flushers, FlushStep(f)
    PROVE  HInv'
<1>1. /\ UNCHANGED <<worker, serving, reply, closed, close, closeCh, doneCh>>
      /\ flush'[f] # "awaiting" /\ \A g \in Flushers \ {f} : flush'[g] = flush[g]
    BY DEF FlushStep, FlushClosed, FlushBegin, FlushCtxDone, FlushReturn, ResetSucceeds, ResetFails,
           FlushBecomes, workVars, closeVars, IInv, TypeOK
<1> QED BY <1>1 DEF HInv, Served, OneClose, OneResult, Told

(* A call of Close: the first is sent to the worker, and a result is read  *)
(* by one.                                                                 *)
LEMMA HClose ==
    ASSUME IInv, HInv, NEW k \in Closers, CloseStep(k)
    PROVE  HInv'
<1>1. UNCHANGED <<worker, serving, flush, reply>> /\ close \in [Closers -> {"idle", "waiting", "already", "ctxErr", "ok", "err"}]
    BY DEF CloseStep, CloseBegin, CloseExpired, CloseAgain, CloseReturn, TakeResult, CloseCtxDone,
           DeadlinePasses, CloseBecomes, workVars, flushVars, IInv, TypeOK
<1>2. Served'
    BY <1>1 DEF HInv, Served
<1>3. CASE CloseBegin(k)
    <2>1. /\ ~closed /\ closed' /\ closeCh' = closeCh \cup {k} /\ UNCHANGED doneCh
          /\ close'[k] = "waiting" /\ \A l \in Closers \ {k} : close'[l] = close[l]
        BY <1>1, <1>3 DEF CloseBegin, CloseBecomes
    <2>2. /\ closeCh = {} /\ serving \cap Closers = {} /\ worker # "exited"
          /\ \A l \in Closers : close[l] = "idle"
        BY <2>1 DEF HInv, OneClose, IInv, CloseProgress
    <2> QED BY <1>1, <1>2, <2>1, <2>2 DEF HInv, OneClose, OneResult, Told
<1>4. CASE CloseExpired(k) \/ CloseCtxDone(k)
    <2>1. /\ closed' /\ UNCHANGED <<closeCh, doneCh>>
          /\ close[k] \in {"idle", "waiting"}
          /\ close'[k] = "ctxErr" /\ \A l \in Closers \ {k} : close'[l] = close[l]
        BY <1>1, <1>4 DEF CloseExpired, CloseCtxDone, CloseBecomes, HInv, OneClose
    <2> QED BY <1>1, <1>2, <2>1 DEF HInv, OneClose, OneResult, Told
<1>5. CASE TakeResult(k) /\ close[k] \in {"idle", "waiting"}
    <2>1. PICK result \in doneCh : close' = [close EXCEPT ![k] = result]
        BY <1>5 DEF TakeResult, CloseBecomes
    <2>2. result \in {"ok", "err"}
        BY DEF IInv, TypeOK
    <2>3. /\ doneCh # {} /\ doneCh' = {} /\ UNCHANGED <<closed, closeCh>>
          /\ close'[k] = result /\ \A l \in Closers \ {k} : close'[l] = close[l]
        BY <1>1, <1>5, <2>1 DEF TakeResult
    <2>4. worker = "exited" /\ Told = {} /\ Told' = {k} /\ closed
        BY <2>2, <2>3 DEF HInv, OneResult, Told, IInv, CloseProgress
    <2> QED BY <1>1, <1>2, <2>2, <2>3, <2>4 DEF HInv, OneClose, OneResult
<1>6. CASE close[k] = "idle" /\ closed /\ CloseBecomes(k, "already") /\ UNCHANGED <<closed, closeCh, doneCh>>
    <2>1. close'[k] = "already" /\ \A l \in Closers \ {k} : close'[l] = close[l]
        BY <1>1, <1>6 DEF CloseBecomes
    <2> QED BY <1>1, <1>2, <1>6, <2>1 DEF HInv, OneClose, OneResult, Told
<1>7. CASE DeadlinePasses(k)
    BY <1>7, HSilent DEF DeadlinePasses, hands, workVars, flushVars
<1> QED BY <1>3, <1>4, <1>5, <1>6, <1>7 DEF CloseStep, CloseAgain, CloseReturn

(* The handshakes hold in every reachable state.                           *)
LEMMA HInductive == Spec => []HInv
<1>1. IInv /\ HInv /\ [Next]_vars => HInv'
    <2> SUFFICES ASSUME IInv, HInv, [Next]_vars PROVE HInv' OBVIOUS
    <2>1. CASE UNCHANGED vars
        BY <2>1, HSilent DEF vars, hands, workVars, flushVars, closeVars
    <2>2. ASSUME NEW c \in Calls, RecordStep(c) PROVE HInv'
        <3>1. UNCHANGED hands /\ worker' = worker
            BY <2>2 DEF RecordStep, RecordClosed, RecordPrepareFails, RecordSkipped, RecordDecided,
               EnqueueFast, EnqueueFull, EnqueueSlow, EnqueueTimeout, EnqueueCtxDone, Send, Becomes,
               hands, workVars, flushVars, closeVars
        <3> QED BY <3>1, HSilent
    <2> QED BY <2>1, <2>2, HWorker, HFlush, HClose DEF Next
<1> QED BY <1>1, Inductive, HInit, PTL DEF Spec

(* The sends on the buffered channels find room, so that neither the       *)
(* worker nor the Close that holds closeMux ever blocks on one: closeCh    *)
(* and doneCh are empty when the only send on them comes, and a request's  *)
(* done channel is empty as long as the request is served.                 *)
SendsFindRoom ==
    /\ ~closed => closeCh = {}
    /\ \A f \in Flushers : f \in serving => reply[f] = "none"
    /\ serving \cap Closers # {} => doneCh = {}

(* No send of the worker, or of a Close that holds closeMux, blocks.       *)
THEOREM WorkerNeverBlocks == Spec => []SendsFindRoom
<1>1. IInv /\ HInv => SendsFindRoom
    BY DEF IInv, FlushProgress, WorkerPhase, HInv, OneClose, OneResult, SendsFindRoom
<1> QED BY <1>1, Inductive, HInductive, PTL

(* Nobody waits for what cannot come: a Flush that was taken is served or  *)
(* its answer is there; a Close that waits is still to be taken, is        *)
(* served, or the worker has gone; and the result that the worker left     *)
(* when it went is there, unless a Close has read it.                      *)
NobodyForgotten ==
    /\ \A f \in Flushers : flush[f] = "awaiting" => f \in serving \/ reply[f] # "none"
    /\ \A k \in Closers : close[k] = "waiting" => k \in closeCh \cup serving \/ worker = "exited"
    /\ worker = "exited" => doneCh # {} \/ \E k \in Closers : close[k] \in {"ok", "err"}

(* Every Flush and Close that waits has its answer, or one who will give   *)
(* it; a Close may also find that another has read its result, and waits   *)
(* for its deadline.                                                       *)
THEOREM WaitersAreServed == Spec => []NobodyForgotten
<1>1. HInv => NobodyForgotten
    BY DEF HInv, Served, OneClose, OneResult, Told, NobodyForgotten
<1> QED BY <1>1, HInductive, PTL

(* The result of the final flush is returned by one Close at most, which   *)
(* need not be the one that waits for it.                                  *)
ReadOnce ==
    \A k, l \in Closers : close[k] \in {"ok", "err"} /\ close[l] \in {"ok", "err"} => k = l

(* No two calls of Close return the worker's result.                       *)
THEOREM ResultReadOnce == Spec => []ReadOnce
<1>1. HInv => ReadOnce
    BY DEF HInv, OneResult, Told, ReadOnce
<1> QED BY <1>1, HInductive, PTL
-----------------------------------------------------------------------------
(* How far a flush exceeds AUDIT_BATCH_SIZE.                               *)

(* A flush that an item or a tick begins, on slices that were not due, has *)
(* at most one part more than BatchSize: an item brings two parts, and the *)
(* size is looked at only after both.  What a drain takes in, or a failed  *)
(* flush leaves, has no such bound.                                        *)
OneTooMany ==
    worker = "select" /\ worker' \in {"append", "rollups"} /\ ~BatchDue(events, rollups)
        => Cardinality(events') + Cardinality(rollups') <= BatchSize + 1

(* The slices are finite, as the log is.                                   *)
LEMMA SlicesFinite ==
    ASSUME IInv PROVE IsFiniteSet(events) /\ IsFiniteSet(rollups)
<1>1. Len(log) \in Nat /\ log \in [1..Len(log) -> Calls]
    BY LenProperties DEF IInv, TypeOK
<1>2. IsFiniteSet(1..Len(log)) BY <1>1, 1 \in Int, Len(log) \in Int, FS_Interval
<1>3. log \in Surjection(1..Len(log), Accepted) BY <1>1 DEF Surjection, Accepted, Range
<1>4. IsFiniteSet(Accepted) BY <1>2, <1>3, FS_Surjection
<1>5. events \subseteq Accepted /\ rollups \subseteq Accepted
    BY DEF IInv, Provenance, Pending
<1> QED BY <1>4, <1>5, FS_Subset

(* A slice grows by one part at most.                                      *)
LEMMA SliceGrows ==
    ASSUME NEW S, IsFiniteSet(S), NEW T, NEW c, T = S \/ T = S \cup {c}
    PROVE  /\ Cardinality(S) \in Nat /\ Cardinality(T) \in Nat
           /\ Cardinality(T) <= Cardinality(S) + 1
<1>1. IsFiniteSet(S) /\ Cardinality(S) \in Nat
    BY FS_CardinalityType
<1>2. Cardinality(S \cup {c}) = (IF c \in S THEN Cardinality(S) ELSE Cardinality(S) + 1)
    BY FS_AddElement
<1>3. CASE T = S BY <1>1, <1>3
<1>4. CASE T = S \cup {c}
    <2>1. Cardinality(T) = Cardinality(S) \/ Cardinality(T) = Cardinality(S) + 1 BY <1>2, <1>4
    <2> QED BY <1>1, <2>1
<1> QED BY <1>3, <1>4

(* The step that begins the flush.                                         *)
LEMMA FlushStarts ==
    ASSUME IInv, [Next]_vars PROVE OneTooMany
<1> SUFFICES ASSUME worker = "select", worker' \in {"append", "rollups"},
                    ~BatchDue(events, rollups)
             PROVE  Cardinality(events') + Cardinality(rollups') <= BatchSize + 1
    BY DEF OneTooMany
<1>1. ReceiveItem \/ Tick
    <2>1. worker' # worker OBVIOUS
    <2>2. ~(UNCHANGED vars) BY <2>1 DEF vars, workVars
    <2>3. \A c \in Calls : RecordStep(c) => UNCHANGED worker
        BY DEF RecordStep, RecordClosed, RecordPrepareFails, RecordSkipped, RecordDecided, EnqueueFast,
               EnqueueFull, EnqueueSlow, EnqueueTimeout, EnqueueCtxDone, Send, Becomes, workVars
    <2>4. \A f \in Flushers : FlushStep(f) => UNCHANGED worker
        BY DEF FlushStep, FlushClosed, FlushBegin, FlushCtxDone, FlushReturn, ResetSucceeds,
               ResetFails, FlushBecomes, workVars
    <2>5. \A k \in Closers : CloseStep(k) => UNCHANGED worker
        BY DEF CloseStep, CloseBegin, CloseExpired, CloseAgain, CloseReturn, CloseCtxDone,
               DeadlinePasses, TakeResult, CloseBecomes, workVars
    <2>6. WorkerStep BY <2>1, <2>2, <2>3, <2>4, <2>5 DEF Next
    <2> QED BY <2>6 DEF WorkerStep, TakeFlush, TakeClose, DrainItem, DrainDone, AppendSucceeds,
                        AppendFails, BackoffElapsed, BackoffCtxDone
<1>2. IsFiniteSet(events) /\ IsFiniteSet(rollups) /\ items \in Seq(Calls)
    BY SlicesFinite DEF IInv, TypeOK
<1>3. /\ Cardinality(events) \in Nat /\ Cardinality(rollups) \in Nat
    BY <1>2, FS_CardinalityType
<1>4. BatchSize \in Nat /\ Cardinality(events) + Cardinality(rollups) <= BatchSize - 1
    BY <1>3, RecorderAssumption DEF BatchDue
<1>5. CASE Tick
    BY <1>3, <1>4, <1>5 DEF Tick, sliceVars
<1>6. CASE ReceiveItem
    <2>1. items # <<>> /\ Head(items) \in Calls
        BY <1>2, <1>6, RangeHeadTail DEF ReceiveItem, TakeItem
    <2>2. /\ events' = events \/ events' = events \cup {Head(items)}
          /\ rollups' = rollups \/ rollups' = rollups \cup {Head(items)}
        BY <1>6 DEF ReceiveItem, TakeItem
    <2>3. /\ Cardinality(events') \in Nat /\ Cardinality(events') <= Cardinality(events) + 1
          /\ Cardinality(rollups') \in Nat /\ Cardinality(rollups') <= Cardinality(rollups) + 1
        BY <1>2, <2>1, <2>2, SliceGrows
    <2> QED BY <1>3, <1>4, <2>3
<1> QED BY <1>1, <1>5, <1>6

(* Without drains and failures a write exceeds AUDIT_BATCH_SIZE by at most *)
(* one (AsyncRecorder.run, the case of an item).                           *)
THEOREM BatchExceedsByOne == Spec => [][OneTooMany]_vars
<1>1. IInv /\ [Next]_vars => [OneTooMany]_vars BY FlushStarts
<1> QED BY <1>1, Inductive, PTL DEF Spec
=============================================================================
