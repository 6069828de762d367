--------------------------- MODULE MCRunLifecycle ---------------------------
(* RunLifecycle for TLC: Runs of which no one differs from another may be   *)
(* permuted in the runs that check safety.                                  *)
EXTENDS RunLifecycle, TLC

RunSymmetry == Permutations(Runs)
=============================================================================
