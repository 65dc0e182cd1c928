----------------------------- MODULE MCRepository -----------------------------
(* A small instance of Repository: three moments, two in the same minute and  *)
(* one a little more than a day later.                                        *)
EXTENDS Repository, TLC

Monday == 3 * Day

MCTimes == {Monday + 30, Monday + 90, Monday + Day + 60}

AllKinds == {"exchange", "admin", "reset"}

MCFilters == {[from |-> 0, to |-> 0, kinds |-> AllKinds],
              [from |-> Monday + 60, to |-> Monday + 2 * Day, kinds |-> {"exchange"}]}

MCQueries == {[from |-> 0, to |-> 0, bucket |-> 0, kinds |-> AllKinds],
              [from |-> Monday, to |-> Monday + 90, bucket |-> 1, kinds |-> AllKinds],
              [from |-> Monday - 2, to |-> Monday + 90, bucket |-> 3, kinds |-> AllKinds],
              [from |-> Monday - 30, to |-> Monday + 90, bucket |-> Minute, kinds |-> AllKinds]}

\* A bound: one reader at a time, so that its statements meet every write.
OneReader == walk.on = "idle" \/ metrics.on = "idle"

Symmetry == Permutations(Calls)
=============================================================================
