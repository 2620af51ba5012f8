----------------------------- MODULE FlatMemory -----------------------------
(***************************************************************************)
(* What an instrumented program is promised: a flat memory.  One request   *)
(* at a time is issued; a store replaces the contents of its object, a     *)
(* load returns the contents, and nothing else ever changes the memory.    *)
(* CarmDeref is shown to implement this specification.                     *)
(***************************************************************************)
CONSTANTS
    Objects,    \* object indices
    Values,     \* contents a program can store
    Undef       \* contents of memory that was never written

VARIABLES
    mem,        \* contents of each object, as the program sees it
    op,         \* the pending request: "none", "load" or "store"
    obj,        \* the object it names
    val,        \* the value it stores
    ret         \* result of the load just completed

flatVars == <<mem, op, obj, val, ret>>

FlatInit ==
    /\ mem = [o \in Objects |-> Undef]
    /\ op = "none"
    /\ obj \in Objects
    /\ val = Undef
    /\ ret = Undef

(* The program executes a load or a store of object o. *)
FlatIssue ==
    /\ op = "none"
    /\ \E o \in Objects :
          /\ obj' = o
          /\ \/ op' = "load" /\ val' = Undef
             \/ op' = "store" /\ val' \in Values
    /\ ret' = Undef
    /\ UNCHANGED mem

FlatLoad ==
    /\ op = "load"
    /\ ret' = mem[obj]
    /\ op' = "none"
    /\ val' = Undef
    /\ UNCHANGED <<mem, obj>>

FlatStore ==
    /\ op = "store"
    /\ mem' = [mem EXCEPT ![obj] = val]
    /\ op' = "none"
    /\ val' = Undef
    /\ UNCHANGED <<obj, ret>>

FlatNext == FlatIssue \/ FlatLoad \/ FlatStore

FlatSpec == FlatInit /\ [][FlatNext]_flatVars
=============================================================================
