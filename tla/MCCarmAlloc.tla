---------------------------- MODULE MCCarmAlloc -----------------------------
(* Model-checking instance of CarmAlloc: objects of four bytes. *)
EXTENDS CarmAlloc
=============================================================================
