---------------------------- MODULE MCCarmDeref -----------------------------
(* Model-checking instance of CarmDeref. *)
EXTENDS CarmDeref, TLC

MCSymmetry == Permutations(Frames) \cup Permutations(Objects) \cup Permutations(Values)
=============================================================================
