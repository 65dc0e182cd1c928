------------------------- MODULE RefinementProofs -------------------------
(***************************************************************************)
(* AsyncRecorder implements AuditLog, for every number of callers, every   *)
(* configuration, and a repository of either kind.                         *)
(***************************************************************************)
EXTENDS AsyncRecorderProofs

-----------------------------------------------------------------------------
(* What the refinement needs beside IInv and JInv.                         *)

(* A call that is past its decision carries something, and only what it    *)
(* carries is written.                                                     *)
Carried ==
    /\ \A c \in Calls : record[c] \in {"decided", "waiting", "sent"} => item[c].event \/ item[c].rollup
    /\ \A c \in events \cup rows : item[c].event
    /\ \A c \in Calls : c \in rollups \/ counts[c] > 0 => item[c].rollup

(* The channel is the end of the log, and no call is on the log twice.     *)
Fifo ==
    /\ \A i, j \in 1..Len(log) : log[i] = log[j] => i = j
    /\ Len(items) <= Len(log)
    /\ \A i \in 1..Len(items) : items[i] = log[Len(log) - Len(items) + i]

KInv == Carried /\ Fifo

(* The log's side of a step: a call is sent.                               *)
Sends == \E c \in Calls : record[c] \in {"decided", "waiting"} /\ Send(c)

(* The worker takes an item.                                               *)
Takes == TakeItem /\ UNCHANGED <<rows, counts, wiped>>

(* A write takes effect or not, and the slices are kept or emptied.        *)
Writes ==
    /\ UNCHANGED <<chanVars, record, item, wiped>>
    /\ events' \subseteq events /\ rollups' \subseteq rollups
    /\ \/ UNCHANGED <<rows, counts>>
       \/ /\ Grows
          /\ Atomic => events \subseteq rows' /\ \A c \in rollups : counts'[c] > 0

(* A reset deletes the trail.                                              *)
Deletes ==
    /\ \E f \in Flushers : DeleteTrail(f)
    /\ UNCHANGED <<chanVars, sliceVars, record, item>>

(* Anything else: at most a call that has not sent decides or gives up.    *)
Aside ==
    /\ UNCHANGED <<chanVars, sliceVars, rows, counts, wiped>>
    /\ \A c \in Calls :
        \/ record'[c] = record[c] /\ item'[c] = item[c]
        \/ /\ record[c] # "sent" /\ record'[c] # "sent"
           /\ record'[c] \in {"decided", "waiting"} => item'[c].event \/ item'[c].rollup

(* A step of Record sends, or is aside.                                    *)
LEMMA RecordKinds ==
    ASSUME IInv, KInv, NEW c \in Calls, RecordStep(c)
    PROVE  Sends \/ Aside
<1>1. /\ record \in [Calls -> {"idle", "decided", "waiting"} \cup Returned]
      /\ item \in [Calls -> Items]
    BY DEF IInv, TypeOK
<1>2. CASE EnqueueFast(c)
    BY <1>2 DEF EnqueueFast, Sends
<1>3. CASE EnqueueSlow(c)
    BY <1>3 DEF EnqueueSlow, Sends
<1>4. ASSUME NEW d \in Decisions, RecordDecided(c, d) PROVE Aside
    <2>1. d \in Items /\ (d.event \/ d.rollup)
        BY RecorderAssumption
    <2>2. /\ record' = [record EXCEPT ![c] = "decided"] /\ item' = [item EXCEPT ![c] = d]
          /\ record[c] = "idle" /\ UNCHANGED <<chanVars, sliceVars, rows, counts, wiped>>
        BY <1>4 DEF RecordDecided, Becomes, workVars, repoVars
    <2>3. record'[c] = "decided" /\ item'[c] = d
            /\ \A b \in Calls \ {c} : record'[b] = record[b] /\ item'[b] = item[b]
        BY <1>1, <2>2
    <2> QED BY <2>1, <2>2, <2>3 DEF Aside
<1>5. ASSUME NEW state, Becomes(c, state), UNCHANGED <<item, chanVars>>, record[c] # "sent",
             state # "sent", state = "waiting" => record[c] = "decided", state # "decided"
      PROVE  Aside
    <2>1. /\ record'[c] = state /\ \A b \in Calls \ {c} : record'[b] = record[b]
          /\ UNCHANGED <<sliceVars, rows, counts, wiped>>
        BY <1>1, <1>5 DEF Becomes, workVars, repoVars
    <2> QED BY <1>5, <2>1 DEF Aside, KInv, Carried
<1>6. CASE RecordClosed(c) BY <1>5, <1>6 DEF RecordClosed
<1>7. CASE RecordPrepareFails(c) BY <1>5, <1>7 DEF RecordPrepareFails
<1>8. CASE RecordSkipped(c) BY <1>5, <1>8 DEF RecordSkipped
<1>9. CASE EnqueueFull(c) BY <1>5, <1>9 DEF EnqueueFull
<1>10. CASE EnqueueTimeout(c) BY <1>5, <1>10 DEF EnqueueTimeout
<1>11. CASE EnqueueCtxDone(c) BY <1>5, <1>11 DEF EnqueueCtxDone
<1> QED BY <1>2, <1>3, <1>4, <1>6, <1>7, <1>8, <1>9, <1>10, <1>11 DEF RecordStep

(* A step of the worker takes an item, or writes, or leaves both alone.    *)
LEMMA WorkerKinds ==
    ASSUME IInv, JInv, WorkerStep
    PROVE  Takes \/ Writes
<1>1. ASSUME NEW result, FinishFlush(result)
      PROVE  events' \subseteq events /\ rollups' \subseteq rollups
    BY <1>1 DEF FinishFlush, SlicesAfter, sliceVars
<1>2. CASE ReceiveItem \/ DrainItem
    BY <1>2 DEF ReceiveItem, DrainItem, Takes, repoVars
<1>3. CASE Tick \/ BackoffElapsed
    BY <1>3 DEF Tick, BackoffElapsed, Writes, callVars, sliceVars, repoVars
<1>4. CASE \/ \E f \in Flushers : TakeFlush(f)
           \/ \E k \in Closers : TakeClose(k)
    BY <1>4 DEF TakeFlush, TakeClose, Writes, callVars, sliceVars, repoVars
<1>5. CASE DrainDone \/ BackoffCtxDone
    BY <1>1, <1>5 DEF DrainDone, BackoffCtxDone, Writes, callVars, sliceVars, repoVars
<1>6. ASSUME WriteTakesEffect, worker \in {"append", "rollups"}
      PROVE  Grows /\ (Atomic => events \subseteq rows' /\ \A c \in rollups : counts'[c] > 0)
    <2>1. Atomic => worker = "append" BY <1>6 DEF JInv, PartsTogether
    <2> QED BY <1>6, <2>1, WriteGrows
<1>7. CASE AppendSucceeds
    <2>1. /\ Grows /\ (Atomic => events \subseteq rows' /\ \A c \in rollups : counts'[c] > 0)
          /\ UNCHANGED <<chanVars, record, item, wiped>>
        BY <1>6, <1>7 DEF AppendSucceeds, callVars, Grows
    <2>2. events' \subseteq events /\ rollups' \subseteq rollups
        BY <1>1, <1>7 DEF AppendSucceeds, sliceVars
    <2> QED BY <2>1, <2>2 DEF Writes
<1>8. CASE AppendFails
    <2>1. /\ \/ UNCHANGED <<rows, counts, wiped>>
             \/ Grows /\ (Atomic => events \subseteq rows' /\ \A c \in rollups : counts'[c] > 0)
          /\ UNCHANGED <<chanVars, record, item>>
        BY <1>6, <1>8 DEF AppendFails, callVars, repoVars
    <2>2. events' \subseteq events /\ rollups' \subseteq rollups
        BY <1>1, <1>8 DEF AppendFails, sliceVars
    <2> QED BY <2>1, <2>2 DEF Writes, Grows
<1> QED BY <1>2, <1>3, <1>4, <1>5, <1>7, <1>8 DEF WorkerStep

(* A step of a client deletes the trail, or is aside.                      *)
LEMMA ClientKinds ==
    /\ \A f \in Flushers : FlushStep(f) => Deletes \/ Aside
    /\ \A k \in Closers : CloseStep(k) => Aside
<1>1. ASSUME NEW f \in Flushers, FlushStep(f) PROVE Deletes \/ Aside
    <2>1. UNCHANGED <<chanVars, sliceVars, record, item>>
        BY <1>1 DEF FlushStep, FlushClosed, FlushBegin, FlushCtxDone, FlushReturn, ResetSucceeds,
               ResetFails, FlushBecomes, callVars, workVars
    <2>2. DeleteTrail(f) \/ UNCHANGED <<rows, counts, wiped>>
        BY <1>1 DEF FlushStep, FlushClosed, FlushBegin, FlushCtxDone, FlushReturn, ResetSucceeds,
               ResetFails, repoVars
    <2> QED BY <2>1, <2>2 DEF Deletes, Aside
<1>2. ASSUME NEW k \in Closers, CloseStep(k) PROVE Aside
    BY <1>2 DEF CloseStep, CloseBegin, CloseExpired, CloseAgain, CloseReturn, CloseCtxDone,
           DeadlinePasses, TakeResult, CloseBecomes, Aside, callVars, chanVars, workVars, repoVars
<1> QED BY <1>1, <1>2

(* Every step is one of these.                                             *)
LEMMA Kinds ==
    ASSUME IInv, JInv, KInv, [Next]_vars
    PROVE  Sends \/ Takes \/ Writes \/ Deletes \/ Aside
<1>1. CASE UNCHANGED vars
    BY <1>1 DEF vars, callVars, workVars, repoVars, Aside
<1> QED BY <1>1, RecordKinds, WorkerKinds, ClientKinds DEF Next

-----------------------------------------------------------------------------
(* They keep the invariant.                                                *)

(* What the sequences are.                                                 *)
LEMMA Sequenced ==
    ASSUME IInv
    PROVE  /\ log \in Seq(Calls) /\ items \in Seq(Calls)
           /\ Len(log) \in Nat /\ Len(items) \in Nat
           /\ \A i \in 1..Len(log) : log[i] \in Accepted /\ log[i] \in Calls
           /\ \A c \in Accepted : c \in Calls /\ \E i \in 1..Len(log) : c = log[i]
           /\ \A i \in 1..Len(items) : items[i] \in Range(items)
           /\ \A c \in Range(items) : \E i \in 1..Len(items) : c = items[i]
<1>1. /\ log \in Seq(Calls) /\ items \in Seq(Calls)
      /\ Len(log) \in Nat /\ DOMAIN log = 1..Len(log)
      /\ Len(items) \in Nat /\ DOMAIN items = 1..Len(items)
    BY LenProperties DEF IInv, TypeOK
<1>2. \A i \in 1..Len(log) : log[i] \in Calls
    BY <1>1, ElementOfSeq
<1> QED BY <1>1, <1>2 DEF Accepted, Range

(* Nothing has been decided, sent or written.                              *)
LEMMA KInit == Init => KInv
<1> SUFFICES ASSUME Init PROVE KInv OBVIOUS
<1>1. Carried BY DEF Init, Carried
<1>2. Len(log) = 0 /\ Len(items) = 0 BY DEF Init
<1> QED BY <1>1, <1>2 DEF KInv, Fifo

(* What is written is what the item carries.                               *)
LEMMA CarriedStep ==
    ASSUME IInv, KInv, Sends \/ Takes \/ Writes \/ Deletes \/ Aside
    PROVE  Carried'
<1>1. /\ record \in [Calls -> {"idle", "decided", "waiting"} \cup Returned]
      /\ events \subseteq Calls /\ rollups \subseteq Calls /\ rows \subseteq Calls
    BY DEF IInv, TypeOK
<1>2. CASE Sends
    <2>1. PICK c \in Calls : record[c] \in {"decided", "waiting"} /\ Send(c)
        BY <1>2 DEF Sends
    <2>2. record' = [record EXCEPT ![c] = "sent"] /\ UNCHANGED <<item, sliceVars, rows, counts>>
        BY <2>1 DEF Send, Becomes, workVars, repoVars
    <2>3. record'[c] = "sent" /\ \A d \in Calls \ {c} : record'[d] = record[d]
        BY <1>1, <2>2
    <2> QED BY <2>1, <2>2, <2>3 DEF KInv, Carried, sliceVars
<1>3. CASE Takes
    <2>1. /\ UNCHANGED <<record, item, rows, counts>>
          /\ \A c \in events' : c \in events \/ item[c].event
          /\ \A c \in rollups' : c \in rollups \/ item[c].rollup
        BY <1>3 DEF Takes, TakeItem, callVars
    <2> QED BY <2>1 DEF KInv, Carried
<1>4. CASE Writes
    <2>1. /\ \A c \in events' \cup rows' : c \in events \cup rows
          /\ \A c \in Calls : c \in rollups' \/ counts'[c] > 0 => c \in rollups \/ counts[c] > 0
        BY <1>4 DEF Writes, Grows
    <2> QED BY <1>4, <2>1 DEF KInv, Carried, Writes
<1>5. CASE Deletes
    <2>1. rows' = {} /\ (\A c \in Calls : counts'[c] = 0) /\ UNCHANGED <<sliceVars, record, item>>
        BY <1>5 DEF Deletes, DeleteTrail, NoRollups
    <2> QED BY <2>1 DEF KInv, Carried, sliceVars
<1>6. CASE Aside
    <2>1. \A c \in Calls : c \in events \cup rollups \cup rows \/ counts[c] > 0 => record[c] = "sent"
        BY DEF IInv, Provenance, Pending
    <2>2. \A c \in Calls : c \in events \cup rollups \cup rows \/ counts[c] > 0 => item'[c] = item[c]
        BY <1>6, <2>1 DEF Aside
    <2>3. /\ \A c \in events' \cup rows' : item'[c].event
          /\ \A c \in Calls : c \in rollups' \/ counts'[c] > 0 => item'[c].rollup
        BY <1>1, <1>6, <2>2 DEF Aside, KInv, Carried, sliceVars
    <2>4. \A c \in Calls : record'[c] \in {"decided", "waiting", "sent"}
                             => item'[c].event \/ item'[c].rollup
        BY <1>6 DEF Aside, KInv, Carried
    <2> QED BY <2>3, <2>4 DEF Carried
<1> QED BY <1>2, <1>3, <1>4, <1>5, <1>6

(* The channel stays the end of the log.                                   *)
LEMMA FifoStep ==
    ASSUME IInv, KInv, Sends \/ Takes \/ Writes \/ Deletes \/ Aside
    PROVE  Fifo'
<1>1. CASE Sends
    <2>1. PICK c \in Calls : record[c] \in {"decided", "waiting"} /\ Send(c)
        BY <1>1 DEF Sends
    <2>2. c \notin Accepted
        BY <2>1 DEF IInv, Provenance
    <2>3. log' = Append(log, c) /\ items' = Append(items, c)
        BY <2>1 DEF Send
    <2>4. /\ Len(log') = Len(log) + 1 /\ Len(items') = Len(items) + 1
          /\ \A i \in 1..Len(log) : log'[i] = log[i] /\ log[i] # c
          /\ \A i \in 1..Len(items) : items'[i] = items[i]
          /\ log'[Len(log) + 1] = c /\ items'[Len(items) + 1] = c
        BY <2>2, <2>3, Sequenced, AppendProperties
    <2>5. \A i, j \in 1..Len(log') : log'[i] = log'[j] => i = j
        BY <2>4, Sequenced DEF KInv, Fifo
    <2>6. ASSUME NEW i \in 1..Len(items')
          PROVE  items'[i] = log'[Len(log') - Len(items') + i]
        <3>1. CASE i = Len(items) + 1
            BY <2>4, <3>1, Sequenced
        <3>2. CASE i # Len(items) + 1
            <4>1. /\ i \in 1..Len(items) /\ Len(items) <= Len(log)
                  /\ items[i] = log[Len(log) - Len(items) + i]
                BY <2>4, <3>2, Sequenced DEF KInv, Fifo
            <4>2. /\ Len(log) - Len(items) + i \in 1..Len(log)
                  /\ Len(log') - Len(items') + i = Len(log) - Len(items) + i
                BY <2>4, <4>1, Sequenced
            <4> QED BY <2>4, <4>1, <4>2
        <3> QED BY <3>1, <3>2
    <2> QED BY <2>4, <2>5, <2>6, Sequenced DEF KInv, Fifo
<1>2. CASE Takes
    <2>1. items # <<>> /\ items' = Tail(items) /\ log' = log
        BY <1>2 DEF Takes, TakeItem
    <2>2. /\ Len(items') = Len(items) - 1 /\ Len(items) \in Nat \ {0}
          /\ \A i \in 1..(Len(items) - 1) : items'[i] = items[i + 1]
        BY <2>1, Sequenced, HeadTailProperties, EmptySeq, LenProperties
    <2> QED BY <2>1, <2>2, Sequenced DEF KInv, Fifo
<1>3. CASE UNCHANGED chanVars
    BY <1>3 DEF KInv, Fifo, chanVars
<1> QED BY <1>1, <1>2, <1>3 DEF Writes, Deletes, Aside

(* The invariant holds in every reachable state.                           *)
LEMMA KInductive == Spec => []KInv
<1>1. IInv /\ JInv /\ KInv /\ [Next]_vars => KInv'
    BY Kinds, CarriedStep, FifoStep DEF KInv
<1> QED BY <1>1, Inductive, JInductive, KInit, PTL DEF Spec

-----------------------------------------------------------------------------
(* The refinement.                                                         *)

(* An item that has left the channel and the slices was kept, and is so    *)
(* still unless a reset deleted it.                                        *)
LEMMA KeptOrDeleted ==
    ASSUME IInv, JInv, KInv, Atomic, NEW c \in Accepted, c \notin Pending
    PROVE  c \in InTrail \/ c \in Deleted
<1>1. c \in Calls /\ counts[c] \in Nat BY Sequenced DEF IInv, TypeOK
<1>2. EventKept(c) /\ RollupKept(c)
    BY DEF IInv, NothingLost, Pending
<1>3. item[c].event /\ item[c].rollup => (c \in rows <=> counts[c] > 0)
    BY <1>1 DEF JInv, PartsTogether
<1> QED BY <1>1, <1>2, <1>3 DEF EventKept, RollupKept, InTrail, Deleted, Parts

(* A write leaves no gap: what precedes an item that it keeps is in the    *)
(* slices as well, or was written before.                                  *)
LEMMA NoGap ==
    ASSUME IInv, JInv, KInv, Writes, Atomic,
           NEW i \in DOMAIN log, NEW j \in DOMAIN log, i < j, log[j] \in InTrail' \ InTrail
    PROVE  log[i] \in (InTrail' \ InTrail) \cup InTrail \cup Deleted
<1>1. /\ i \in 1..Len(log) /\ j \in 1..Len(log) /\ Len(log) \in Nat /\ Len(items) \in Nat
      /\ log[i] \in Accepted /\ log[i] \in Calls /\ log[j] \in Accepted /\ log[j] \in Calls
    BY Sequenced, LenProperties
<1>2. /\ UNCHANGED item /\ Accepted' = Accepted
      /\ Grows /\ events \subseteq rows' /\ \A c \in rollups : counts'[c] > 0
    BY DEF Writes, InTrail, chanVars, Accepted
<1>3. log[j] \in events \cup rollups
    BY <1>1, <1>2 DEF InTrail, Grows
<1>4. log[j] \notin Range(items)
    BY <1>3 DEF JInv, OnChannelOnce
<1>5. log[i] \notin Range(items)
    <2> SUFFICES ASSUME log[i] \in Range(items) PROVE FALSE OBVIOUS
    <2>1. PICK m \in 1..Len(items) : log[i] = items[m]
        BY Sequenced
    <2>2. /\ Len(items) <= Len(log) /\ Len(log) - Len(items) + m \in 1..Len(log)
          /\ log[i] = log[Len(log) - Len(items) + m]
        BY <1>1, <2>1 DEF KInv, Fifo
    <2>3. i = Len(log) - Len(items) + m
        BY <1>1, <2>2 DEF KInv, Fifo
    <2>4. j - (Len(log) - Len(items)) \in 1..Len(items)
            /\ Len(log) - Len(items) + (j - (Len(log) - Len(items))) = j
        BY <1>1, <2>2, <2>3
    <2>5. items[j - (Len(log) - Len(items))] = log[j]
        BY <2>4 DEF KInv, Fifo
    <2> QED BY <2>4, <2>5, <1>4, Sequenced
<1>6. CASE log[i] \in Pending
    <2>1. log[i] \in events \cup rollups
        BY <1>5, <1>6 DEF Pending
    <2>2. /\ item[log[i]].event => log[i] \in rows'
          /\ item[log[i]].rollup => counts'[log[i]] > 0
        BY <1>1, <1>2, <2>1 DEF JInv, PartsTogether, KInv, Carried
    <2> QED BY <1>1, <1>2, <2>2 DEF InTrail
<1>7. CASE log[i] \notin Pending
    BY <1>1, <1>7, KeptOrDeleted
<1> QED BY <1>6, <1>7

(* Each step is one of the abstract log's, or none.                        *)
LEMMA StepRefines ==
    ASSUME IInv, JInv, KInv, Sends \/ Takes \/ Writes \/ Deletes \/ Aside
    PROVE  Promise!Next \/ UNCHANGED <<log, InTrail, Deleted>>
<1>1. Accepted = Promise!Range(log) /\ Accepted \subseteq Calls
    BY Sequenced DEF Accepted, Range, Promise!Range
<1>2. CASE Sends
    <2>1. PICK c \in Calls : record[c] \in {"decided", "waiting"} /\ Send(c)
        BY <1>2 DEF Sends
    <2>2. c \notin Accepted /\ log' = Append(log, c) /\ Accepted' = Accepted \cup {c}
        BY <2>1, RangeAppend DEF IInv, TypeOK, Provenance, Send, Accepted
    <2>3. UNCHANGED <<item, rows, counts, wiped>>
        BY <2>1 DEF Send, Becomes, repoVars
    <2>4. /\ item[c].event \/ item[c].rollup
          /\ c \notin rows /\ ~(counts[c] > 0) /\ \A p \in Parts : <<c, p>> \notin wiped
        BY <2>1, <2>2 DEF KInv, Carried, IInv, Provenance
    <2>5. InTrail' = InTrail /\ Deleted' = Deleted
        BY <2>2, <2>3, <2>4 DEF InTrail, Deleted
    <2>6. Promise!Accept(c)
        BY <1>1, <2>2, <2>5 DEF Promise!Accept
    <2> QED BY <2>6 DEF Promise!Next
<1>3. CASE Takes
    BY <1>3 DEF Takes, TakeItem, callVars, InTrail, Deleted, Accepted
<1>4. CASE Aside
    <2>1. log' = log /\ Accepted' = Accepted /\ UNCHANGED <<rows, counts, wiped>>
        BY <1>4 DEF Aside, chanVars, Accepted
    <2>2. \A c \in Accepted : item'[c] = item[c]
        BY <1>1, <1>4 DEF Aside, IInv, Provenance
    <2> QED BY <2>1, <2>2 DEF InTrail, Deleted
<1>5. CASE Writes
    <2> DEFINE S == InTrail' \ InTrail
    <2>1. log' = log /\ Accepted' = Accepted /\ UNCHANGED <<item, wiped>>
        BY <1>5 DEF Writes, chanVars, Accepted
    <2>2. Deleted' = Deleted
        BY <2>1 DEF Deleted
    <2>3. InTrail \subseteq InTrail' /\ InTrail' \subseteq Accepted
        BY <1>1, <1>5, <2>1 DEF Writes, Grows, InTrail
    <2>4. CASE S = {}
        BY <2>1, <2>2, <2>3, <2>4
    <2>5. CASE S # {}
        <3>1. Atomic => \A i, j \in DOMAIN log : i < j /\ log[j] \in S => log[i] \in S \cup InTrail \cup Deleted
            BY <1>5, NoGap
        <3>2. S \in SUBSET (Promise!Range(log) \ InTrail) /\ InTrail' = InTrail \cup S
            BY <1>1, <2>3
        <3> HIDE DEF S
        <3>3. Promise!Keep(S)
            BY <2>1, <2>2, <2>5, <3>1, <3>2 DEF Promise!Keep, Promise!LeavesNoGap
        <3> QED BY <3>2, <3>3 DEF Promise!Next
    <2> QED BY <2>4, <2>5
<1>6. CASE Deletes
    <2> DEFINE S == {c \in Accepted : c \in rows \/ counts[c] > 0}
    <2>1. log' = log /\ Accepted' = Accepted /\ UNCHANGED item
        BY <1>6 DEF Deletes, chanVars, Accepted
    <2>2. /\ rows' = {} /\ \A c \in Calls : counts'[c] = 0
          /\ wiped' = wiped \cup (rows \X {"event"}) \cup ({c \in Calls : counts[c] > 0} \X {"rollup"})
        BY <1>6 DEF Deletes, DeleteTrail, NoRollups
    <2>3. \A c \in Accepted : item[c].event \/ item[c].rollup
        BY <1>1 DEF KInv, Carried, IInv, Provenance
    <2>4. InTrail' = {}
        BY <1>1, <2>1, <2>2, <2>3 DEF InTrail
    <2>5. Deleted' = Deleted \cup S
        BY <1>1, <2>1, <2>2 DEF Deleted, Parts
    <2>6. InTrail \subseteq S
        BY <2>3 DEF InTrail
    <2>7. ASSUME Atomic PROVE S \subseteq InTrail
        <3>1. \A c \in Calls : item[c].event /\ item[c].rollup => (c \in rows <=> counts[c] > 0)
            BY <2>7 DEF JInv, PartsTogether
        <3>2. \A c \in Calls : (c \in rows => item[c].event) /\ (counts[c] > 0 => item[c].rollup)
            BY DEF KInv, Carried
        <3> QED BY <1>1, <3>1, <3>2 DEF InTrail
    <2>8. S \in SUBSET Promise!Range(log)
        BY <1>1
    <2> HIDE DEF S
    <2>9. Promise!Erase(S)
        BY <2>1, <2>4, <2>5, <2>6, <2>7 DEF Promise!Erase
    <2> QED BY <2>8, <2>9 DEF Promise!Next
<1> QED BY <1>2, <1>3, <1>4, <1>5, <1>6

(* The recorder keeps the promise of AuditLog: behind the channel, the     *)
(* batches, the retries, ambiguous commits and resets there is one log,    *)
(* kept in order when rows and rollups are written together.               *)
THEOREM RecorderImplementsAuditLog == Spec => ImplementsAuditLog
<1>1. Init => Promise!Init
    <2> SUFFICES ASSUME Init PROVE Promise!Init OBVIOUS
    <2>1. log = <<>> /\ Accepted = {} BY DEF Init, Accepted, Range
    <2> QED BY <2>1 DEF Promise!Init, InTrail, Deleted
<1>2. IInv /\ JInv /\ KInv /\ [Next]_vars => [Promise!Next]_(Promise!vars)
    BY Kinds, StepRefines DEF Promise!vars
<1> QED BY <1>1, <1>2, Inductive, JInductive, KInductive, PTL DEF Spec, ImplementsAuditLog, Promise!Spec

-----------------------------------------------------------------------------
(* What AuditLog says of its log holds of the recorder's.                  *)
Log == INSTANCE AuditLogProofs WITH InOrder <- Atomic, kept <- InTrail, erased <- Deleted

(* The log whose consequences are proved is the one that is implemented.   *)
LEMMA SameLog == Promise!Spec => Log!Spec
<1>1. Promise!Init => Log!Init
    BY DEF Promise!Init, Log!Init
<1>2. [Promise!Next]_(Promise!vars) => [Log!Next]_(Log!vars)
    BY DEF Promise!Next, Log!Next, Promise!vars, Log!vars, Promise!Accept, Log!Accept, Promise!Keep, Log!Keep,
           Promise!Erase, Log!Erase, Promise!LeavesNoGap, Log!LeavesNoGap, Promise!Range, Log!Range
<1> QED BY <1>1, <1>2, PTL DEF Promise!Spec, Log!Spec

(* With AppendAuditBatch the trail has no gap: once a call's parts are in  *)
(* the repository, those of every call that was accepted before are too,   *)
(* or were until a reset.                                                  *)
TrailInOrder ==
    Atomic => \A i, j \in DOMAIN log :
                i < j /\ log[j] \in InTrail \cup Deleted => log[i] \in InTrail \cup Deleted

(* No batch, retry or shutdown brings a later event before an earlier one. *)
THEOREM TrailHasNoGap == Spec => []TrailInOrder
<1>1. Log!NoGap => TrailInOrder
    BY DEF Log!NoGap, TrailInOrder
<1> QED BY <1>1, SameLog, Log!TrailHasNoGap, RecorderImplementsAuditLog, PTL DEF ImplementsAuditLog

(* What a reader has seen in the trail, row and rollup, stays there until  *)
(* a reset, and is then gone with the whole trail.                         *)
TrailGoesAtOnce ==
    [][/\ InTrail \subseteq InTrail' \/ (InTrail' = {} /\ InTrail \subseteq Deleted')
       /\ Deleted \subseteq Deleted']_<<log, InTrail, Deleted>>

(* No failed write, retry or shutdown takes anything out of the trail.     *)
THEOREM TrailStaysKept == Spec => TrailGoesAtOnce
<1>1. Log!KeptUntilErased => TrailGoesAtOnce
    BY PTL DEF Log!KeptUntilErased, Log!vars, TrailGoesAtOnce
<1> QED BY <1>1, SameLog, Log!TrailStaysKept, RecorderImplementsAuditLog, PTL DEF ImplementsAuditLog
=============================================================================
