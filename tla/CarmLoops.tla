----------------------------- MODULE CarmLoops ------------------------------
(***************************************************************************)
(* Loop chunking: carm_loops.cpp and the code carm_loop_transform puts     *)
(* around a loop.  Instead of a guard per access, a pointer of the loop is *)
(* dereferenced once per object, the object's region is pinned, and a      *)
(* local pointer walks through the object until a bound check at the back  *)
(* edge moves it to the next one.                                          *)
(*                                                                         *)
(* One thread runs a nest of loops (an inner loop, or a loop of a function *)
(* called from the body), each with one or more chunked pointers.  Every   *)
(* pointer owns a slot of loopstate.                                       *)
(***************************************************************************)
EXTENDS Integers, Sequences, FiniteSets

CONSTANTS
    OBJ_SIZE,
    MAX_LOOPS,
    LOOP_ID_POS,   \* bit position of the loop id in carm_loop_init's result
    Pointers,      \* pointers of the program's loops: [addr, step, remote]
    Objects,       \* bound: object indices a walk can reach
    MaxPointers,   \* bound: chunked pointers of one loop
    MaxTrips,      \* bound: iterations of a loop
    NoRegion       \* region_addr = 0

ASSUME LoopsAssumption ==
    /\ OBJ_SIZE \in Nat \ {0} /\ MAX_LOOPS \in Nat \ {0}
    /\ LOOP_ID_POS \in Nat \ {0} /\ OBJ_SIZE < 2 ^ (LOOP_ID_POS - 1)
    /\ 2 ^ (LOOP_ID_POS - 1) \in Nat                           \* powers of two,
    /\ 2 ^ LOOP_ID_POS = 2 * 2 ^ (LOOP_ID_POS - 1)             \* for the provers
    /\ Pointers \subseteq [addr : Nat, step : Nat, remote : BOOLEAN]
    /\ Objects \subseteq Nat
    /\ MaxPointers \in Nat \ {0} /\ MaxTrips \in Nat
    /\ NoRegion \notin Objects

VARIABLES
    loopstate,     \* the slots
    loop_id_cnt,   \* next slot to hand out
    pins,          \* per object, how often its region is marked not evacuable
    nest           \* the loops the program is in, the innermost last

vars == <<loopstate, loop_id_cnt, pins, nest>>

LoopIds == 0 .. MAX_LOOPS - 1
Stack == -1        \* base of a local pointer that is not into an object

Cleared(stride) ==
    [active |-> FALSE, carm_ptr |-> FALSE, stack_addr |-> 0, obj_index |-> 0,
     start_obj_index |-> 0, start_obj_offset |-> 0, region_addr |-> NoRegion,
     stride |-> stride]

(* init_loops *)
Init ==
    /\ loopstate = [id \in LoopIds |-> Cleared(0)]
    /\ loop_id_cnt = 0
    /\ pins = [o \in Objects |-> 0]
    /\ nest = <<>>

Top == nest[Len(nest)]
SetTop(l) == nest' = [nest EXCEPT ![Len(nest)] = l]

-----------------------------------------------------------------------------
(* carm_loops.cpp *)

StackBound == OBJ_SIZE + 2 ^ (LOOP_ID_POS - 1)

(* Objects from one dereference of a walk to the next. *)
Stride(step) ==
    IF step = 0 THEN 0
    ELSE IF step < OBJ_SIZE THEN 1 ELSE step \div OBJ_SIZE

(* What the bound Objects is to cover: one new object an iteration. *)
ASSUME ObjectsAssumption ==
    \A p \in Pointers : p.remote =>
        \A c \in 0 .. MaxTrips : (p.addr \div OBJ_SIZE) + c * Stride(p.step) \in Objects

(* Mutant: the offset is not reduced to the object. *)
InitSlotWholeAddress(p, slot) ==
    [slot EXCEPT !.active = TRUE, !.carm_ptr = p.remote,
                 !.obj_index = p.addr \div OBJ_SIZE, !.region_addr = NoRegion,
                 !.start_obj_index = p.addr \div OBJ_SIZE,
                 !.start_obj_offset = p.addr,
                 !.stride = Stride(p.step)]

(* carm_loop_init: what it writes to the slot ... *)
InitSlot(p, slot) ==
    IF p.remote
    THEN [slot EXCEPT !.active = TRUE, !.carm_ptr = TRUE,
                      !.obj_index = p.addr \div OBJ_SIZE, !.region_addr = NoRegion,
                      !.start_obj_index = p.addr \div OBJ_SIZE,
                      !.start_obj_offset = p.addr % OBJ_SIZE,
                      !.stride = Stride(p.step)]
    ELSE [slot EXCEPT !.active = TRUE, !.carm_ptr = FALSE,
                      !.obj_index = 0, !.region_addr = NoRegion,
                      !.stack_addr = p.addr]

(* Mutant: the slot is missing in the result. *)
InitResultNoId(p) == IF p.remote THEN OBJ_SIZE - (p.addr % OBJ_SIZE) ELSE StackBound

(* ... and what it returns: the bytes left in the object and the slot. *)
InitResult(p) ==
    (IF p.remote THEN OBJ_SIZE - (p.addr % OBJ_SIZE) ELSE StackBound)
      + loop_id_cnt * 2 ^ LOOP_ID_POS

(* The local pointer carm_deref_loop_read and _write return for a slot. *)
DerefLoopResult(slot) ==
    IF slot.carm_ptr
    THEN [base |-> slot.obj_index,
          off |-> IF slot.start_obj_index = slot.obj_index THEN slot.start_obj_offset ELSE 0]
    ELSE [base |-> Stack, off |-> slot.stack_addr + slot.obj_index * OBJ_SIZE]

(* What it leaves in the slot: the region it marked and the next object. *)
DerefLoopSlot(slot) ==
    IF slot.carm_ptr
    THEN [slot EXCEPT !.region_addr = slot.obj_index, !.obj_index = @ + slot.stride]
    ELSE [slot EXCEPT !.obj_index = @ + 1]

(* invalidate_marked_region and mark_region_not_evacutable of the manager. *)
Unpin(pp, region) == [o \in Objects |-> IF o = region THEN pp[o] - 1 ELSE pp[o]]
Pin(pp, o) == [pp EXCEPT ![o] = @ + 1]

(* What it does to the regions: the old object is let go before the new    *)
(* one is held.                                                            *)
DerefLoopPins(slot) ==
    IF slot.carm_ptr THEN Pin(Unpin(pins, slot.region_addr), slot.obj_index) ELSE pins

-----------------------------------------------------------------------------
(* The code around a loop *)

(* Chunked pointers of all the loops the program is in; a history of the   *)
(* program, of which the code keeps nothing.                               *)
PointersOpen == IF nest = <<>> THEN 0 ELSE Top.outer + Len(Top.ptrs)

(* The program reaches the preheader of a loop with the pointers ps.  A    *)
(* bound on the program, which the code does not check: the loops of a     *)
(* nest have at most MAX_LOOPS chunked pointers.                           *)
Enter(ps) ==
    /\ nest # <<>> => Top.at = "body"
    /\ PointersOpen + Len(ps) <= MAX_LOOPS
    /\ nest' = Append(nest, [at |-> "header", k |-> 1, i |-> 0, ptrs |-> ps, regs |-> <<>>,
                             outer |-> PointersOpen])
    /\ UNCHANGED <<loopstate, loop_id_cnt, pins>>

(* Outer loop header, for one pointer: carm_loop_init, then the first      *)
(* dereference; the bound is what is left of the object.                   *)
Header ==
    /\ nest # <<>> /\ Top.at = "header"
    /\ ~loopstate[loop_id_cnt].active      \* otherwise it aborts
    /\ LET p == Top.ptrs[Top.k]
           res == InitResult(p)
           id == res \div (2 ^ LOOP_ID_POS)
           slot == InitSlot(p, loopstate[loop_id_cnt])
           ptr == DerefLoopResult(slot)
           reg == [id |-> id, base |-> ptr.base, off |-> ptr.off,
                   bound |-> ptr.off + (res % (2 ^ LOOP_ID_POS))]
       IN  /\ loopstate' = [loopstate EXCEPT ![loop_id_cnt] = DerefLoopSlot(slot)]
           /\ pins' = DerefLoopPins(slot)
           /\ SetTop([Top EXCEPT !.regs = Append(@, reg),
                                 !.at = IF Top.k = Len(Top.ptrs) THEN "body" ELSE "header",
                                 !.k = IF Top.k = Len(Top.ptrs) THEN 1 ELSE @ + 1])
    /\ loop_id_cnt' = loop_id_cnt + 1

(* The body is done and takes the back edge. *)
BackEdge ==
    /\ nest # <<>> /\ Top.at = "body"
    /\ Top.i < MaxTrips
    /\ SetTop([Top EXCEPT !.at = "check", !.k = 1])
    /\ UNCHANGED <<loopstate, loop_id_cnt, pins>>

(* Mutant: a pointer that reaches the bound exactly stays in the object. *)
CrossesLate(reg, p) == reg.off + p.step > reg.bound

(* Does the pointer leave its object?  (A step of 0 is never added.) *)
Crosses(reg, p) == reg.off + p.step >= reg.bound

(* .carm.check, for one pointer: add the step; at the bound, dereference   *)
(* the next object instead.                                                *)
Check ==
    /\ nest # <<>> /\ Top.at = "check"
    /\ LET p == Top.ptrs[Top.k]
           reg == Top.regs[Top.k]
           slot == loopstate[reg.id]
           ptr == DerefLoopResult(slot)
           last == Top.k = Len(Top.ptrs)
           new == IF Crosses(reg, p)
                  THEN [reg EXCEPT !.base = ptr.base, !.off = ptr.off,
                                   !.bound = ptr.off + OBJ_SIZE]
                  ELSE [reg EXCEPT !.off = @ + p.step]
       IN  /\ IF Crosses(reg, p)
              THEN /\ loopstate' = [loopstate EXCEPT ![reg.id] = DerefLoopSlot(slot)]
                   /\ pins' = DerefLoopPins(slot)
              ELSE UNCHANGED <<loopstate, pins>>
           /\ SetTop([Top EXCEPT !.regs[Top.k] = new,
                                 !.at = IF last THEN "body" ELSE "check",
                                 !.k = IF last THEN 1 ELSE @ + 1,
                                 !.i = IF last THEN @ + 1 ELSE @])
    /\ UNCHANGED loop_id_cnt

(* The loop is left. *)
Exit ==
    /\ nest # <<>> /\ Top.at = "body"
    /\ SetTop([Top EXCEPT !.at = "exit", !.k = 1])
    /\ UNCHANGED <<loopstate, loop_id_cnt, pins>>

(* Mutant: the region of the slot stays marked. *)
UnpinSlotNot(slot) == pins

(* The region a slot holds is let go. *)
UnpinSlot(slot) == IF slot.carm_ptr THEN Unpin(pins, slot.region_addr) ELSE pins

(* Mutant: the slot is not given back. *)
SlotsAfter == loop_id_cnt

(* loop_id_cnt after an active slot is invalidated. *)
SlotsAfterInvalidate == IF loop_id_cnt > 0 THEN loop_id_cnt - 1 ELSE loop_id_cnt

(* Exit block, for one pointer: invalidate_loop_index.  Both the calls in  *)
(* the header and those in the exit block are put in front of the ones     *)
(* already there, so slots are taken and given back in the same order.     *)
Invalidate ==
    /\ nest # <<>> /\ Top.at = "exit"
    /\ LET id == Top.regs[Top.k].id
           slot == loopstate[id]
       IN  IF slot.active
           THEN /\ pins' = UnpinSlot(slot)
                /\ loopstate' = [loopstate EXCEPT ![id] = Cleared(slot.stride)]
                /\ loop_id_cnt' = SlotsAfterInvalidate
           ELSE UNCHANGED <<pins, loopstate, loop_id_cnt>>
    /\ nest' = IF Top.k = Len(Top.ptrs)
               THEN SubSeq(nest, 1, Len(nest) - 1)
               ELSE [nest EXCEPT ![Len(nest)].k = @ + 1]

Next ==
    \/ \E n \in 1 .. MaxPointers : \E ps \in [1 .. n -> Pointers] : Enter(ps)
    \/ Header
    \/ BackEdge
    \/ Check
    \/ Exit
    \/ Invalidate

Spec == Init /\ [][Next]_vars

-----------------------------------------------------------------------------
(* Properties *)

Slot == [active : BOOLEAN, carm_ptr : BOOLEAN, stack_addr : Nat, obj_index : Nat,
         start_obj_index : Nat, start_obj_offset : 0 .. OBJ_SIZE - 1,
         region_addr : Objects \cup {NoRegion}, stride : Nat]

Reg == [id : LoopIds, base : Objects \cup {Stack}, off : Nat, bound : Nat]

(* Type invariant; carm_loop_init, which does not look at MAX_LOOPS, hands *)
(* out no slot behind loopstate to a nest with MAX_LOOPS pointers: every   *)
(* slot is given back once, so the count never runs ahead of the nest.     *)
TypeOK ==
    /\ loopstate \in [LoopIds -> Slot]
    /\ loop_id_cnt \in 0 .. MAX_LOOPS
    /\ pins \in [Objects -> Nat]
    /\ \A n \in 1 .. Len(nest) :
          /\ nest[n].at \in {"header", "body", "check", "exit"}
          /\ nest[n].k \in 1 .. Len(nest[n].ptrs)
          /\ nest[n].i \in 0 .. MaxTrips
          /\ \A j \in 1 .. Len(nest[n].regs) : nest[n].regs[j] \in Reg

(* In every iteration, each chunked pointer is where the original loop's   *)
(* getelementptr would be: base address plus iteration times step.         *)
WalkAgrees ==
    \A n \in 1 .. Len(nest) : nest[n].at = "body" =>
        \A j \in 1 .. Len(nest[n].ptrs) :
            LET p == nest[n].ptrs[j]
                reg == nest[n].regs[j]
                addr == p.addr + nest[n].i * p.step
            IN  IF p.remote
                THEN reg.base = addr \div OBJ_SIZE /\ reg.off = addr % OBJ_SIZE
                ELSE reg.base = Stack /\ reg.off = addr

(* The object under every chunked pointer is held by the pointer's slot,   *)
(* whatever loops have run inside this one.                                *)
PointersPinned ==
    \A n \in 1 .. Len(nest) : nest[n].at = "body" =>
        \A j \in 1 .. Len(nest[n].ptrs) : nest[n].ptrs[j].remote =>
            /\ pins[nest[n].regs[j].base] > 0
            /\ loopstate[nest[n].regs[j].id].region_addr = nest[n].regs[j].base

(* Each object is pinned once per slot that holds it, so no pin outlives   *)
(* its loop and the evacuator gets every region back.                      *)
PinsBalanced ==
    \A o \in Objects :
        pins[o] = Cardinality({id \in LoopIds : loopstate[id].active /\ loopstate[id].region_addr = o})

(* Outside the exit block of a loop the slots in use are the first         *)
(* loop_id_cnt ones, so carm_loop_init finds a free slot and never aborts  *)
(* with "nested loops not supported".                                      *)
SlotsAreStack ==
    (nest # <<>> => Top.at # "exit") =>
        {id \in LoopIds : loopstate[id].active} = 0 .. loop_id_cnt - 1

-----------------------------------------------------------------------------
(* The inductive invariant behind the properties, in parts. *)

Loop == [at : {"header", "body", "check", "exit"}, k : Nat, i : Nat,
         ptrs : Seq(Pointers), regs : Seq(Reg), outer : Nat]

(* How far a loop has come: every pointer stepped has its register. *)
LoopOK(l) ==
    /\ l.k \in 1 .. Len(l.ptrs)
    /\ l.i <= MaxTrips /\ (l.at = "check" => l.i < MaxTrips)
    /\ Len(l.regs) = IF l.at = "header" THEN l.k - 1 ELSE Len(l.ptrs)

(* Only the innermost loop is anywhere but in its body. *)
NestInv ==
    /\ nest \in Seq(Loop)
    /\ \A n \in 1 .. Len(nest) : LoopOK(nest[n]) /\ (n < Len(nest) => nest[n].at = "body")

(* The slot of the first pointer of a loop. *)
Base(n) == IF nest[n].regs = <<>> THEN loop_id_cnt ELSE nest[n].regs[1].id

(* Slots of the innermost loop that its exit block has given back. *)
GivenBack == IF nest # <<>> /\ Top.at = "exit" THEN Top.k - 1 ELSE 0

(* The loops of the nest have consecutive slots, one for each pointer of   *)
(* the program, and loop_id_cnt counts those that have not been given back.*)
SlotInv ==
    /\ nest = <<>> => loop_id_cnt = 0
    /\ \A n \in 1 .. Len(nest) :
          /\ n = 1 => Base(n) = 0
          /\ n = Len(nest) => /\ loop_id_cnt = Base(n) + Len(nest[n].regs) - GivenBack
                              /\ Base(n) + Len(nest[n].ptrs) <= MAX_LOOPS
          /\ n < Len(nest) => Base(n + 1) = Base(n) + Len(nest[n].regs)
          /\ \A m \in 1 .. Len(nest) : n < m => Base(n) + Len(nest[n].regs) <= Base(m)
          /\ \A j \in 1 .. Len(nest[n].regs) : nest[n].regs[j].id = Base(n) + j - 1
          /\ nest[n].outer = Base(n)

(* The active slots are those of the nest. *)
ActiveInv ==
    \A id \in LoopIds :
        loopstate[id].active <=>
            IF GivenBack = 0 THEN id < loop_id_cnt
            ELSE \/ id < Base(Len(nest))
                 \/ Base(Len(nest)) + GivenBack <= id /\ id < Base(Len(nest)) + Len(Top.regs)

(* A slot holds the object the j-th pointer of its loop is in, and knows   *)
(* the next.                                                               *)
HoldOK(l, j, slot) ==
    /\ slot.carm_ptr = l.ptrs[j].remote
    /\ l.ptrs[j].remote =>
          /\ slot.region_addr = l.regs[j].base
          /\ slot.obj_index = l.regs[j].base + slot.stride
          /\ slot.stride = Stride(l.ptrs[j].step)
          /\ slot.start_obj_index = l.ptrs[j].addr \div OBJ_SIZE
    /\ ~l.ptrs[j].remote => slot.region_addr = NoRegion

(* Every pointer of the nest has such a slot until it is given back. *)
HoldInv ==
    \A n \in 1 .. Len(nest) : \A j \in 1 .. Len(nest[n].regs) :
        (n = Len(nest) => j > GivenBack) => HoldOK(nest[n], j, loopstate[nest[n].regs[j].id])

(* Iterations the j-th pointer of a loop has been stepped for. *)
Steps(l, j) == IF l.at = "check" /\ j < l.k THEN l.i + 1 ELSE l.i

(* A pointer into far memory has crossed into a new object at most once    *)
(* an iteration.                                                           *)
CrossOK(l, j) ==
    IF l.ptrs[j].remote
    THEN \E c \in 0 .. Steps(l, j) :
            l.regs[j].base = (l.ptrs[j].addr \div OBJ_SIZE) + c * Stride(l.ptrs[j].step)
    ELSE l.regs[j].base = Stack

CrossInv == \A n \in 1 .. Len(nest) : \A j \in 1 .. Len(nest[n].regs) : CrossOK(nest[n], j)

(* An offset from which a walk meets every border it crosses exactly: an   *)
(* element size that divides an object, at a multiple of it, or whole      *)
(* objects.                                                                *)
Even(p, off) ==
    \/ p.step = 0
    \/ p.step <= OBJ_SIZE /\ OBJ_SIZE % p.step = 0 /\ off % p.step = 0
    \/ p.step % OBJ_SIZE = 0 /\ off = 0

(* The walks WalkAgrees holds for; local ones must stay below the bound    *)
(* that stands for "no object".                                            *)
Aligned(p) ==
    IF p.remote THEN Even(p, p.addr % OBJ_SIZE) ELSE MaxTrips * p.step < StackBound

AlignedWalks == \A p \in Pointers : Aligned(p)

(* A register of pointer p after i steps. *)
WalkAt(p, reg, i) ==
    LET addr == p.addr + i * p.step
    IN  IF p.remote
        THEN /\ reg.base = addr \div OBJ_SIZE /\ reg.off = addr % OBJ_SIZE
             /\ reg.bound = OBJ_SIZE /\ Even(p, reg.off)
        ELSE reg.base = Stack /\ reg.off = addr /\ reg.bound = p.addr + StackBound

WalkInv ==
    \A n \in 1 .. Len(nest) :
        /\ nest[n].at = "header" => nest[n].i = 0
        /\ \A j \in 1 .. Len(nest[n].regs) :
              WalkAt(nest[n].ptrs[j], nest[n].regs[j], Steps(nest[n], j))

LoopsInv ==
    /\ TypeOK /\ NestInv /\ SlotInv /\ ActiveInv /\ HoldInv /\ CrossInv /\ PinsBalanced
=============================================================================
