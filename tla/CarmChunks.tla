----------------------------- MODULE CarmChunks -----------------------------
(***************************************************************************)
(* The compiler pipeline after carm_checks: carm_loop_checks or            *)
(* carm_profile_checks selects the geps whose loops are chunked,           *)
(* carm_loop_transform replaces each of them by a local pointer that walks *)
(* through objects (CarmLoops is what it does at run time), and            *)
(* carm_transform turns the checks that are left into guards (CarmDeref).  *)
(*                                                                         *)
(* A gep adds a constant and multiples of variables to its base:           *)
(* prog[g].c and prog[g].t, a size per variable, zero if it has no part.   *)
(***************************************************************************)
EXTENDS CarmChecks, Functions

CONSTANTS
    OBJ_SIZE,
    deep_nest,    \* loops nested deeper have no induction variables here
    min_ratio,    \* instructions per invocation that make a loop worth it
    Profiles,     \* what the profiler may report: [inv, ins]
    depth,        \* casts is_mutable follows before it gives up
    IVs,          \* induction variables: name -> [level, start, step]
    OtherVars,    \* variables that are no induction variables
    MaxTrips      \* bound: iterations and values the properties look at

Vars == DOMAIN IVs \cup OtherVars

ASSUME ChunksAssumption ==
    /\ OBJ_SIZE \in Nat \ {0} /\ deep_nest \in Nat /\ min_ratio \in Nat /\ depth \in Nat
    /\ Profiles \subseteq [inv : Nat, ins : Nat]
    /\ \A w \in DOMAIN IVs : IVs[w] \in [level : Nat \ {0}, start : Int, step : Int]
    /\ OtherVars \cap DOMAIN IVs = {}
    /\ IsFiniteSet(Vars)
    /\ \A p \in Programs : \A v \in DOMAIN p : p[v].c \in Int /\ p[v].t \in [Vars -> Int]
    /\ MaxTrips \in Nat

VARIABLES
    chunks,       \* gep -> arguments of its carm_deref_loop or _const call
    transformed,  \* geps whose loop is transformed
    guards        \* load or store -> how its guard dereferences

vars == <<prog, pass, carm_checks, alloca_list, visited, chunks, transformed, guards>>

(* Casts are looked through, a gep is not. *)
return_gep(v) == Uncast[v]

-----------------------------------------------------------------------------
(* carm_loop_checks and carm_profile_checks *)

(* add_loops_to_instrument *)
induction_variables == {w \in DOMAIN IVs : IVs[w].level <= deep_nest}

(* identify_candidate_geps: a gep in a loop with a check, whose base is    *)
(* defined outside of the innermost loop around it.                        *)
Candidate(g) ==
    /\ IsOp(g, {"gep"})
    /\ prog[g].lvl > 0
    /\ prog[Operand(g)].lvl < prog[g].lvl
    /\ \E v \in carm_checks : return_gep(Operand(v)) = g

(* The extra condition of carm_profile_checks. *)
Hot(p) == p.inv # 0 /\ p.ins \div p.inv >= min_ratio

(* collectOffset *)
VariableOffsets(g) == {w \in Vars : prog[g].t[w] # 0}

(* check_if_loop_nesting_level_is_equal *)
Inner(g) == {w \in VariableOffsets(g) : IVs[w].level = prog[g].lvl}

(* check_gep_offsets: a gep is instrumented if every variable in it is an  *)
(* induction variable and its constant part stays below an object.         *)
Instrumented(g) ==
    /\ VariableOffsets(g) # {}
    /\ VariableOffsets(g) \subseteq induction_variables
    /\ prog[g].c <= OBJ_SIZE

Users(v) == {u \in Values : \E n \in DOMAIN prog[u].a : prog[u].a[n] = v}

(* Mutant: a store behind a cast is not found. *)
is_mutableDirect(g) == \E u \in Users(g) : IsOp(u, {"store", "call"})

(* is_mutable: is the gep stored through or passed on?  It follows casts   *)
(* and gives up, with TRUE, after depth of them (the cast of a check's     *)
(* operand, which may use up one more, is left out).  A gep of the gep     *)
(* itself, a phi and a call of an unknown function do not count.           *)
is_mutable(g) ==
    LET mut[d \in 0 .. depth] ==    \* values for which d casts are enough
            IF d = 0 THEN Values
            ELSE {v \in Values : \E u \in Users(v) :
                    \/ IsOp(u, {"store", "call"})
                    \/ IsOp(u, {"gep"}) /\ v # g
                    \/ IsOp(u, {"cast"}) /\ u \in mut[d - 1]}
    IN  g \in mut[depth]

(* The start value, computed in front of the gep's loop: variables of      *)
(* outer loops enter with the value they have there.                       *)
Start(g) == [c |-> prog[g].c + SumFunction([w \in Inner(g) |-> prog[g].t[w] * IVs[w].start]),
             t |-> [w \in VariableOffsets(g) \ Inner(g) |-> prog[g].t[w]]]

(* Mutant: the constant part is added to the step too. *)
StepConst(g) == prog[g].c + SumFunction([w \in Inner(g) |-> prog[g].t[w] * IVs[w].step])

(* The step value: only variables of the gep's own loop contribute. *)
Step(g) == SumFunction([w \in Inner(g) |-> prog[g].t[w] * IVs[w].step])

(* _instrument_geps *)
Chunk(g) == [start |-> Start(g), step |-> Step(g),
             const |-> Inner(g) = {}, mut |-> is_mutable(g)]

SelectFrom(candidates) ==
    /\ pass = "select"
    /\ pass' = "chunk"
    /\ chunks' = [g \in {h \in candidates : Instrumented(h)} |-> Chunk(g)]
    /\ UNCHANGED <<prog, carm_checks, alloca_list, visited, transformed, guards>>

LoopChecks == SelectFrom({g \in Values : Candidate(g)})

ProfileChecks ==
    \E profile \in [{g \in Values : Candidate(g)} -> Profiles] :
        SelectFrom({g \in DOMAIN profile : Hot(profile[g])})

-----------------------------------------------------------------------------
(* carm_loop_transform *)

Pending == DOMAIN chunks \ transformed

(* Mutant: geps are looked through too. *)
DropChecksBase(g) == {v \in carm_checks : uncast_ungep(Operand(v)) # uncast_ungep(g)}

(* delete_carm_checks_on_gep *)
DropChecks(g) == {v \in carm_checks : return_gep(Operand(v)) # g}

(* _transform_loop_function: the calls with a step come before those       *)
(* without one, each kind in the order of the function.                    *)
TransformLoop(g) ==
    /\ pass = "chunk"
    /\ g \in Pending
    /\ \A h \in Pending \ {g} :
          IF chunks[h].const = chunks[g].const THEN g < h ELSE chunks[h].const
    /\ carm_checks' = DropChecks(g)
    /\ transformed' = transformed \cup {g}
    /\ UNCHANGED <<prog, pass, alloca_list, visited, chunks, guards>>

(* delete_loop_functions *)
LoopsDone ==
    /\ pass = "chunk"
    /\ Pending = {}
    /\ pass' = "guard"
    /\ UNCHANGED <<prog, carm_checks, alloca_list, visited, chunks, transformed, guards>>

-----------------------------------------------------------------------------
(* carm_transform *)

GuardKind(v) == IF IsOp(v, {"load"}) THEN "read" ELSE "write"

(* transform_function and delete_dummy_functions *)
Guards ==
    /\ pass = "guard"
    /\ pass' = "end"
    /\ guards' = [v \in carm_checks |-> GuardKind(v)]
    /\ carm_checks' = {}
    /\ UNCHANGED <<prog, alloca_list, visited, chunks, transformed>>

-----------------------------------------------------------------------------
Init ==
    /\ ChecksInit
    /\ chunks = <<>>
    /\ transformed = {}
    /\ guards = <<>>

Next ==
    \/ ChecksNext /\ UNCHANGED <<chunks, transformed, guards>>
    \/ LoopChecks \/ ProfileChecks
    \/ \E g \in Values : TransformLoop(g)
    \/ LoopsDone \/ Guards

Spec == Init /\ [][Next]_vars

(* The functions the passes support: a phi does not join a stack address,  *)
(* as its first value, with another pointer, and the elements a loop walks *)
(* over are accessed, cast or passed to functions called by their names,   *)
(* but not the base of another gep or kept in a phi.                       *)
Walked(g) == IsOp(g, {"gep"}) /\ prog[g].lvl > 0 /\ VariableOffsets(g) # {}

Supported ==
    \A v \in Values : \A n \in DOMAIN prog[v].a :
        /\ IsOp(v, {"phi"}) /\ Root(v) \in Allocas => Root(prog[v].a[n]) \in Allocas
        /\ IsOp(v, {"gep", "phi", "icall"}) => ~Walked(Uncast[prog[v].a[n]])

SupportedInit == Init /\ Supported

SupportedSpec == SupportedInit /\ [][Next]_vars

(* The compiler goes on until the last pass is over. *)
FairSpec == SupportedSpec /\ WF_vars(Next)

-----------------------------------------------------------------------------
(* What a pointer may be when the transformed function runs: a stack       *)
(* address, a far pointer, the local pointer of a chunked gep in its loop  *)
(* (the gep), or a local address nobody keeps valid: one kept over a move  *)
(* of the chunk or computed from one with a variable index.                *)
Stack == 0
Far == -1
Stray == -2

(* A phi behind the loop of the chunk, or over its back edge, keeps the    *)
(* local pointer longer than the chunk is held.                            *)
Kept(v, o, kinds) ==
    {IF k \in Values /\ (prog[v].lvl < prog[k].lvl \/ o >= v) THEN Stray ELSE k : k \in kinds}

KindsIn(R, u) == {r[2] : r \in {q \in R : q[1] = u}}

KindsStep(R, v) ==
    CASE IsOp(v, {"alloca"}) -> {Stack}
      [] IsOp(v, {"ptr"}) -> {Far}
      [] IsOp(v, {"gep"}) /\ v \in transformed ->
            {v} \cup {IF x \in {Stack, Far} THEN v ELSE Stray : x \in KindsIn(R, Operand(v))}
      [] IsOp(v, {"gep"}) /\ v \notin transformed ->
            {IF x \in Values /\ VariableOffsets(v) # {} THEN Stray ELSE x : x \in KindsIn(R, Operand(v))}
      [] IsOp(v, {"cast"}) -> KindsIn(R, Operand(v))
      [] IsOp(v, {"phi"}) ->
            UNION {Kept(v, prog[v].a[n], KindsIn(R, prog[v].a[n])) : n \in DOMAIN prog[v].a}
      [] OTHER -> {}

(* The least such relation between values and kinds, reached in as many    *)
(* rounds as there are values.                                             *)
Kinds ==
    LET round[n \in 0 .. Cardinality(Values)] ==
            IF n = 0 THEN {}
            ELSE LET R == round[n - 1] IN UNION {{v} \X KindsStep(R, v) : v \in Values}
    IN  round[Cardinality(Values)]

-----------------------------------------------------------------------------
(* Properties *)

(* Type invariant. *)
TypeOK ==
    /\ pass \in {"checks", "sweep", "select", "chunk", "guard", "end"}
    /\ carm_checks \subseteq Accesses
    /\ alloca_list \subseteq Values
    /\ visited \subseteq Accesses
    /\ DOMAIN chunks \subseteq {v \in Values : IsOp(v, {"gep"})}
    /\ transformed \subseteq DOMAIN chunks
    /\ DOMAIN guards \subseteq Accesses

(* When the passes are over, no load or store uses a far pointer without   *)
(* a guard, none uses a local pointer of a chunk outside of the loop that  *)
(* holds the chunk, and none a local address that nobody keeps valid.      *)
ProtectedAccesses ==
    pass = "end" => \A r \in Kinds, v \in Accesses : r[1] = Operand(v) =>
        LET k == r[2] IN
        \/ k = Stack
        \/ k = Far /\ v \in DOMAIN guards
        \/ k \in Values /\ prog[v].lvl >= prog[k].lvl

(* A store marks its object dirty: its guard dereferences for writing, and *)
(* a chunk does so if its local pointer is stored through, or passed to a  *)
(* function that may do it.                                                *)
StoresMarkDirty ==
    pass = "end" =>
        /\ \A v \in DOMAIN guards : IsOp(v, {"store"}) => guards[v] = "write"
        /\ \A v \in Values : IsOp(v, {"store", "call", "icall"}) =>
              \A n \in DOMAIN prog[v].a, r \in Kinds :
                  r[1] = prog[v].a[n] /\ r[2] \in Values => chunks[r[2]].mut

(* Value of a variable in an iteration of the gep's loop. *)
ValueIn(g, w, outer, n) ==
    IF w \in Inner(g) THEN IVs[w].start + n * IVs[w].step ELSE outer[w]

(* The walk of a chunk, from its start by its step, is where the replaced  *)
(* gep points in every iteration, whatever the outer loops are at.         *)
ChunksFollowGep ==
    pass = "chunk" => \A g \in DOMAIN chunks :
        \A outer \in [VariableOffsets(g) \ Inner(g) -> 0 .. MaxTrips], n \in 0 .. MaxTrips :
            LET ch == chunks[g]
            IN  ch.start.c + SumFunction([w \in DOMAIN ch.start.t |-> ch.start.t[w] * outer[w]])
                  + (IF ch.const THEN 0 ELSE n * ch.step)
                = prog[g].c + SumFunction([w \in VariableOffsets(g) |->
                                              prog[g].t[w] * ValueIn(g, w, outer, n)])

(* The order in which a sweep looks at the checks, an order of addresses,  *)
(* does not matter: the checks that carm_checks leaves are those of the    *)
(* pointers that do not lead back to a stack variable.                     *)
SweepsConfluent ==
    pass = "select" =>
        carm_checks = {v \in Accesses : Root(Operand(v)) \notin Allocas}

(* The passes come to an end. *)
PassesEnd == <>(pass = "end")
-----------------------------------------------------------------------------
(* The inductive invariant *)

(* The checks of pointers that do not lead back to a stack variable, and   *)
(* those the transformed loops have left.                                  *)
FarChecks == {v \in Accesses : Root(Operand(v)) \notin Allocas}
LeftChecks == {v \in FarChecks : return_gep(Operand(v)) \notin transformed}

(* What the sweep takes for a stack address is one, and what it has looked *)
(* at and left is none.                                                    *)
SweepInv ==
    pass = "sweep" =>
        /\ Allocas \subseteq alloca_list
        /\ \A s \in alloca_list : Root(s) \in Allocas
        /\ FarChecks \subseteq carm_checks
        /\ visited \cap carm_checks \subseteq FarChecks

(* Behind the sweeps every check is there whose gep has not been           *)
(* transformed; the last pass turns them into guards.                      *)
LeftInv ==
    /\ pass \in {"select", "chunk", "guard"} => carm_checks = LeftChecks
    /\ pass = "end" => guards = [v \in LeftChecks |-> GuardKind(v)]
    /\ pass # "end" => guards = <<>>

(* The chunks are those of selected geps. *)
ChunkInv ==
    /\ pass \in {"checks", "sweep", "select"} => chunks = <<>> /\ transformed = {}
    /\ \A g \in DOMAIN chunks :
          /\ IsOp(g, {"gep"}) /\ prog[g].lvl > 0 /\ Instrumented(g)
          /\ chunks[g] = Chunk(g)

PassesInv == TypeOK /\ SweepInv /\ LeftInv /\ ChunkInv
=============================================================================
