----------------------------- MODULE CarmChecks -----------------------------
(***************************************************************************)
(* The carm_checks pass over one function: a check in front of every load  *)
(* and store, then the removal of the checks on stack variables.           *)
(*                                                                         *)
(* A function is a sequence of instructions in the order of its blocks;    *)
(* the value of an instruction is its position.  Every instruction names   *)
(* the nesting level of its loop (0 outside of loops); the loops form one  *)
(* nest.  Types, constants that are no addresses and control flow inside a *)
(* loop body are left out.  A phi may name a value defined later: the      *)
(* incoming value of a back edge.                                          *)
(***************************************************************************)
EXTENDS Integers, Sequences, FiniteSets

CONSTANT Programs    \* the functions the pass is run on

(* Pointers come first among the operands.  What a gep, a cast or an       *)
(* access points with is defined before it.  Loop-closed SSA form: only a  *)
(* phi uses a value outside of its loop.  An icall is a call through a     *)
(* pointer to a function.                                                  *)
WellFormed(p) ==
    /\ Len(p) \in Nat /\ DOMAIN p = 1 .. Len(p)
    /\ \A v \in DOMAIN p :
        /\ p[v].op \in {"alloca", "ptr", "gep", "cast", "phi", "load", "store", "call", "icall"}
        /\ p[v].a \in Seq(DOMAIN p) /\ p[v].lvl \in Nat
        /\ p[v].op \in {"gep", "cast", "phi", "load", "store"} => p[v].a # <<>>
        /\ p[v].op \in {"gep", "cast", "load", "store"} => p[v].a[1] < v
        /\ p[v].op # "phi" => \A n \in DOMAIN p[v].a : p[p[v].a[n]].lvl <= p[v].lvl

ASSUME ChecksAssumption == \A p \in Programs : WellFormed(p)

VARIABLES
    prog,         \* the function: its instructions
    pass,         \* the pass that runs next or is running
    carm_checks,  \* loads and stores that have a check
    alloca_list,  \* values known to be stack addresses
    visited       \* checks the running sweep has looked at

Values == DOMAIN prog

Operand(v) == prog[v].a[1]

IsOp(v, ops) == prog[v].op \in ops

Accesses == {v \in Values : IsOp(v, {"load", "store"})}

Allocas == {v \in Values : IsOp(v, {"alloca"})}

(* Values that are equal to v whatever the program does: the must-alias    *)
(* answer of LLVM's alias analysis, which looks through casts.             *)
Uncast ==
    LET strip[v \in Values] == IF IsOp(v, {"cast"}) THEN strip[Operand(v)] ELSE v
    IN  strip

must_alias(v, list) == \E s \in list : Uncast[v] = Uncast[s]

(* One step of uncast_ungep: through a gep or a cast, and from a phi to    *)
(* its first incoming value only.                                          *)
StepBack(v) ==
    CASE IsOp(v, {"gep", "cast"}) -> Operand(v)
      [] IsOp(v, {"phi"}) -> Operand(v)
      [] OTHER -> v

(* uncast_ungep: a phi that was seen before ends the search. *)
uncast_ungep(v) ==
    LET back[s \in Values \X SUBSET Values] ==
            LET x == s[1]
                phiset == s[2]
            IN  IF StepBack(x) = x \/ x \in phiset THEN x
                ELSE back[<<StepBack(x), IF IsOp(x, {"phi"}) THEN phiset \cup {x} ELSE phiset>>]
    IN  back[<<v, {}>>]

(* Where the search for a stack variable ends. *)
Root(v) == Uncast[uncast_ungep(v)]

ChecksInit ==
    /\ prog \in Programs
    /\ pass = "checks"
    /\ carm_checks = {}
    /\ alloca_list = {}
    /\ visited = {}

(* Mutant: calls get a check too. *)
InsertChecksCalls ==
    /\ pass = "checks"
    /\ pass' = "sweep"
    /\ carm_checks' = Accesses \cup {v \in Values : IsOp(v, {"call"})}
    /\ alloca_list' = Allocas
    /\ visited' = {}
    /\ UNCHANGED prog

(* transform_loads and transform_stores *)
InsertChecks ==
    /\ pass = "checks"
    /\ pass' = "sweep"
    /\ carm_checks' = Accesses
    /\ alloca_list' = Allocas
    /\ visited' = {}
    /\ UNCHANGED prog

(* Mutant: a gep of a stack variable keeps its check. *)
OnStackNoGep(v) == v \in alloca_list \/ must_alias(v, alloca_list)

OnStack(v) ==
    \/ v \in alloca_list
    \/ must_alias(v, alloca_list)
    \/ must_alias(uncast_ungep(v), alloca_list)

(* One iteration of the loop over the checks; std::set orders them by      *)
(* address.  What the sweep knows to be on the stack grows as it goes on.  *)
SweepCheck(v) ==
    /\ pass = "sweep"
    /\ v \in carm_checks \ visited
    /\ visited' = visited \cup {v}
    /\ IF OnStack(Operand(v))
       THEN /\ alloca_list' = alloca_list \cup {Operand(v)}
            /\ carm_checks' = carm_checks \ {v}
       ELSE UNCHANGED <<alloca_list, carm_checks>>
    /\ UNCHANGED <<prog, pass>>

(* Mutant: the sweep is repeated until no check is left. *)
SweepForever ==
    /\ pass = "sweep"
    /\ carm_checks \subseteq visited
    /\ visited' = {}
    /\ pass' = IF carm_checks = {} THEN "select" ELSE "sweep"
    /\ UNCHANGED <<prog, carm_checks, alloca_list>>

(* The sweep is repeated until one removes nothing. *)
SweepAgain ==
    /\ pass = "sweep"
    /\ carm_checks \subseteq visited
    /\ visited' = {}
    /\ pass' = IF visited = carm_checks THEN "select" ELSE "sweep"
    /\ UNCHANGED <<prog, carm_checks, alloca_list>>

ChecksNext == InsertChecks \/ (\E v \in Values : SweepCheck(v)) \/ SweepAgain
=============================================================================
