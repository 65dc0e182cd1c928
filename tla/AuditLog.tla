------------------------------ MODULE AuditLog ------------------------------
(***************************************************************************)
(* What the audit recorder promises to its callers and to the reader of    *)
(* the audit trail, with no channel, batch, retry or worker in sight.      *)
(*                                                                         *)
(* A call of Record that is accepted takes the next place in a log.  Some  *)
(* time later its event row and metric rollup are kept by the repository.  *)
(* Calls are kept in the order of the log, so the trail never shows a late *)
(* event while an earlier one is still missing, and a kept call stays kept *)
(* until an administrator erases the whole trail.  An eraser who comes     *)
(* between the two writes of a call, where they are two, erases a half.    *)
(*                                                                         *)
(* AsyncRecorder is shown to implement this specification.                 *)
(***************************************************************************)
EXTENDS Naturals, Sequences, Functions

CONSTANTS Calls,    \* the calls of Record
          InOrder   \* TRUE when rows and rollups are written in one transaction

VARIABLES log,      \* accepted calls, in the order they were accepted
          kept,     \* calls whose row and rollup are both in the repository
          erased    \* calls of which a reset deleted what was there

vars == <<log, kept, erased>>

TypeOK == /\ log \in Seq(Calls)
          /\ kept \subseteq Calls
          /\ erased \subseteq Calls

Init == log = <<>> /\ kept = {} /\ erased = {}

Accept(c) == /\ c \notin Range(log)
             /\ log' = Append(log, c)
             /\ UNCHANGED <<kept, erased>>

(* A set of calls leaves no gap when all that precede its members in the   *)
(* log are members too, or were kept before.                               *)
LeavesNoGap(S) ==
    \A i, j \in DOMAIN log :
        i < j /\ log[j] \in S => log[i] \in S \cup kept \cup erased

Keep(S) == /\ S # {}
           /\ InOrder => LeavesNoGap(S)
           /\ kept' = kept \cup S
           /\ UNCHANGED <<log, erased>>

Erase(S) == /\ kept \subseteq S
            /\ InOrder => S = kept
            /\ erased' = erased \cup S
            /\ kept' = {}
            /\ UNCHANGED log

Next == \/ \E c \in Calls : Accept(c)
        \/ \E S \in SUBSET (Range(log) \ kept) : Keep(S)
        \/ \E S \in SUBSET Range(log) : Erase(S)

Spec == Init /\ [][Next]_vars
=============================================================================
