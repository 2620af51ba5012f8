---------------------------- MODULE MCCarmLoops -----------------------------
(* Model-checking instance of CarmLoops: objects of four bytes. *)
EXTENDS CarmLoops

(* Elements whose size divides an object and which start at a multiple of  *)
(* it; a row of whole objects; a loop-invariant pointer; a local array.    *)
MCEvenPointers ==
    {[addr |-> 2, step |-> 1, remote |-> TRUE],
     [addr |-> 0, step |-> 2, remote |-> TRUE],
     [addr |-> 4, step |-> 8, remote |-> TRUE],
     [addr |-> 3, step |-> 0, remote |-> TRUE],
     [addr |-> 5, step |-> 3, remote |-> FALSE]}

(* The second byte of two-byte elements: a field of an array of structs. *)
MCFieldPointers == {[addr |-> 1, step |-> 2, remote |-> TRUE]}

MCObjects == 0 .. 8
=============================================================================
