--------------------------- MODULE AuditLogProofs ---------------------------
(***************************************************************************)
(* What the promise of AuditLog amounts to for who reads the trail.        *)
(***************************************************************************)
EXTENDS AuditLog, SequenceTheorems, TLAPS

(* Only accepted calls are kept or erased, and each is on the log once.    *)
OnLog ==
    /\ log \in Seq(Calls)
    /\ kept \cup erased \subseteq Range(log)
    /\ \A i, j \in DOMAIN log : log[i] = log[j] => i = j

(* The trail has no gap: what is kept, or was until it was erased, is a    *)
(* prefix of the log.                                                      *)
NoGap ==
    InOrder => \A i, j \in DOMAIN log :
                 i < j /\ log[j] \in kept \cup erased => log[i] \in kept \cup erased

(* What the log is after a call is accepted.                               *)
LEMMA AcceptAppends ==
    ASSUME OnLog, NEW c \in Calls, Accept(c)
    PROVE  /\ log' \in Seq(Calls) /\ c \notin Range(log)
           /\ Len(log) \in Nat /\ DOMAIN log = 1..Len(log) /\ DOMAIN log' = 1..(Len(log) + 1)
           /\ \A i \in 1..Len(log) : log'[i] = log[i]
           /\ log'[Len(log) + 1] = c /\ Range(log) \subseteq Range(log')
<1>1. log' = Append(log, c) /\ c \notin Range(log) /\ log \in Seq(Calls)
    BY DEF Accept, OnLog
<1>2. /\ log' \in Seq(Calls) /\ Len(log') = Len(log) + 1
      /\ \A i \in 1..Len(log) : log'[i] = log[i] /\ log'[Len(log) + 1] = c
      /\ log'[Len(log) + 1] = c
    BY <1>1, AppendProperties
<1>3. Len(log) \in Nat /\ DOMAIN log = 1..Len(log) /\ DOMAIN log' = 1..Len(log')
    BY <1>1, <1>2, LenProperties
<1>4. Range(log) \subseteq Range(log')
    BY <1>2, <1>3 DEF Range
<1> QED BY <1>1, <1>2, <1>3, <1>4

(* Every step keeps the log as OnLog says, and without a gap.              *)
LEMMA LogStep ==
    ASSUME OnLog, NoGap, [Next]_vars
    PROVE  OnLog' /\ NoGap'
<1>1. ASSUME NEW c \in Calls, Accept(c) PROVE OnLog' /\ NoGap'
    <2>1. UNCHANGED <<kept, erased>> BY <1>1 DEF Accept
    <2>2. \A i \in 1..Len(log) : log[i] # c
        BY <1>1, AcceptAppends DEF Range
    <2>3. OnLog'
        BY <1>1, <2>1, <2>2, AcceptAppends DEF OnLog
    <2>4. c \notin kept \cup erased
        BY <1>1, AcceptAppends DEF OnLog
    <2>5. NoGap'
        BY <1>1, <2>1, <2>4, AcceptAppends DEF NoGap
    <2> QED BY <2>3, <2>5
<1>2. ASSUME NEW S \in SUBSET (Range(log) \ kept), Keep(S) PROVE OnLog' /\ NoGap'
    BY <1>2 DEF Keep, LeavesNoGap, OnLog, NoGap
<1>3. ASSUME NEW S \in SUBSET Range(log), Erase(S) PROVE OnLog' /\ NoGap'
    BY <1>3 DEF Erase, OnLog, NoGap
<1>4. CASE UNCHANGED vars
    BY <1>4 DEF vars, OnLog, NoGap
<1> QED BY <1>1, <1>2, <1>3, <1>4 DEF Next

(* With rows and rollups written together, the trail is at all times a     *)
(* prefix of the log of accepted calls.                                    *)
THEOREM TrailHasNoGap == Spec => [](OnLog /\ NoGap)
<1>1. Init => OnLog /\ NoGap
    BY DEF Init, OnLog, NoGap, Range
<1> QED BY <1>1, LogStep, PTL DEF Spec

(* A call that is kept stays kept until it is erased with the whole trail, *)
(* and what was erased does not become unknown.                            *)
KeptUntilErased ==
    [][/\ kept \subseteq kept' \/ (kept' = {} /\ kept \subseteq erased')
       /\ erased \subseteq erased']_vars

(* No step but an erasure takes anything from the trail.                   *)
THEOREM TrailStaysKept == Spec => KeptUntilErased
<1>1. [Next]_vars => [/\ kept \subseteq kept' \/ (kept' = {} /\ kept \subseteq erased')
                      /\ erased \subseteq erased']_vars
    BY DEF Next, Accept, Keep, Erase, vars
<1> QED BY <1>1, PTL DEF Spec, KeptUntilErased
=============================================================================
