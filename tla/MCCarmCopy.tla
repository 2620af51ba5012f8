----------------------------- MODULE MCCarmCopy -----------------------------
(* Model-checking instance of CarmCopy. *)
EXTENDS CarmCopy, TLC

MCSymmetry == Permutations(Frames) \cup Permutations(Sources) \cup Permutations(Values)
=============================================================================
