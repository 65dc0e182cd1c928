----------------------------- MODULE MCGateway -----------------------------
(* Small instances of Gateway for TLC.                                     *)
EXTENDS Gateway, TLC

CONSTANTS q1, q2, t1, t2

Config(mode, vs, vf, es, ef, code) ==
    [mode |-> mode, success |-> [exchange |-> es, verify |-> vs],
     failure |-> [exchange |-> ef, verify |-> vf], failureStatus |-> code]

(* The defaults but for a sampled row, and a gateway that keeps every step, *)
(* or samples it, and whose denials are redirects.                         *)
MCConfigs == {Config("failure_step", "never", "always", "always", "always", 401),
              Config("step", "sometimes", "never", "sometimes", "never", 302)}

Defaults == {Config("failure_step", "never", "always", "always", "always", 401)}

RequestSymmetry == Permutations(Requests)
=============================================================================
