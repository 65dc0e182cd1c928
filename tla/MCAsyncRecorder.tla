-------------------------- MODULE MCAsyncRecorder --------------------------
(* Small instances of AsyncRecorder for TLC.                               *)
EXTENDS AsyncRecorder, TLC

CONSTANTS c1, c2, c3, f1, r1, k1, k2

Both(p) == [event |-> TRUE, rollup |-> TRUE, priority |-> p]

(* A critical denial with row and rollup, a persisted system event, and a  *)
(* sampled-out verification that is only counted.                          *)
MCDecisions == {Both("critical"),
                [event |-> TRUE, rollup |-> FALSE, priority |-> "normal"],
                [event |-> FALSE, rollup |-> TRUE, priority |-> "best_effort"]}

MixedDecisions == {Both("critical"), Both("best_effort")}

NormalDecisions == {Both("normal"), Both("critical")}

OnlyCritical == {Both("critical")}

CallSymmetry == Permutations(Calls)
=============================================================================
