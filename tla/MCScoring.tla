----------------------------- MODULE MCScoring -----------------------------
(* Scoring for TLC: the late requests may be permuted. *)
EXTENDS Scoring, TLC

CallSymmetry == Permutations(Calls)
=============================================================================
