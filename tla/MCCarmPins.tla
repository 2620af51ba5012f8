----------------------------- MODULE MCCarmPins -----------------------------
(* Model-checking instance of CarmPins. *)
EXTENDS CarmPins, TLC

MCSymmetry == Permutations(Frames)
=============================================================================
