--------------------------- MODULE CarmLoopsProofs ---------------------------
(***************************************************************************)
(* Proofs about CarmLoops: the slots of loopstate are a stack although     *)
(* loops give them back first to last, every region is pinned as often as  *)
(* slots hold it, and the walks go where the original loops do.            *)
(***************************************************************************)
EXTENDS CarmLoops, FiniteSetTheorems, TLAPS

-----------------------------------------------------------------------------
(* Arithmetic *)

(* The parts of a sum with a multiple of U. *)
LEMMA DivMod ==
    ASSUME NEW U \in Nat \ {0}, NEW r \in Nat, r < U, NEW i \in Nat
    PROVE  (r + i * U) \div U = i /\ (r + i * U) % U = r
  OBVIOUS

(* A number is its quotient times the divisor plus the remainder. *)
LEMMA Parts ==
    ASSUME NEW U \in Nat \ {0}, NEW a \in Nat
    PROVE  a = (a \div U) * U + (a % U) /\ a % U \in 0 .. U - 1 /\ a \div U \in Nat
  OBVIOUS

(* An address is the index of its object and the offset in it. *)
LEMMA AddressParts ==
    ASSUME NEW p \in Pointers
    PROVE  /\ p.addr \in Nat /\ p.step \in Nat /\ p.remote \in BOOLEAN
           /\ p.addr \div OBJ_SIZE \in Nat
           /\ p.addr % OBJ_SIZE \in 0 .. OBJ_SIZE - 1
           /\ p.addr = (p.addr \div OBJ_SIZE) * OBJ_SIZE + (p.addr % OBJ_SIZE)
           /\ OBJ_SIZE \in Nat \ {0}
           /\ Stride(p.step) \in Nat
  <1>1. /\ p.addr \in Nat /\ p.step \in Nat /\ p.remote \in BOOLEAN
        /\ OBJ_SIZE \in Nat \ {0}
    BY LoopsAssumption
  <1>2. p.step \div OBJ_SIZE \in Nat
    BY <1>1, Parts
  <1>3. Stride(p.step) \in Nat
    BY <1>1, <1>2 DEF Stride
  <1> QED
    BY <1>1, <1>3, Parts

(* A walk stays within the objects. *)
LEMMA WalkReaches ==
    ASSUME NEW p \in Pointers, p.remote, NEW c \in 0 .. MaxTrips
    PROVE  (p.addr \div OBJ_SIZE) + c * Stride(p.step) \in Objects
  BY ObjectsAssumption

(* The code around a loop finds the slot and the bytes left in the object  *)
(* in the result of carm_loop_init.                                        *)
LEMMA InitResultParts ==
    ASSUME NEW p \in Pointers, loop_id_cnt \in Nat
    PROVE  /\ InitResult(p) \div (2 ^ LOOP_ID_POS) = loop_id_cnt
           /\ InitResult(p) % (2 ^ LOOP_ID_POS)
                = IF p.remote THEN OBJ_SIZE - (p.addr % OBJ_SIZE) ELSE StackBound
           /\ StackBound \in Nat
  <1> DEFINE half == 2 ^ (LOOP_ID_POS - 1)
             unit == 2 ^ LOOP_ID_POS
             rest == IF p.remote THEN OBJ_SIZE - (p.addr % OBJ_SIZE) ELSE StackBound
  <1>1. half \in Nat /\ unit = 2 * half /\ OBJ_SIZE \in Nat \ {0} /\ OBJ_SIZE < half
    BY LoopsAssumption
  <1>2. p.addr % OBJ_SIZE \in 0 .. OBJ_SIZE - 1
    BY AddressParts
  <1>3. StackBound = OBJ_SIZE + half
    BY DEF StackBound
  <1> HIDE DEF half, unit
  <1>4. rest \in Nat /\ rest < unit /\ unit \in Nat \ {0} /\ StackBound \in Nat
    BY <1>1, <1>2, <1>3
  <1>5. InitResult(p) = rest + loop_id_cnt * unit
    BY DEF InitResult, unit
  <1> HIDE DEF rest
  <1>6. InitResult(p) \div unit = loop_id_cnt /\ InitResult(p) % unit = rest
    BY <1>4, <1>5, DivMod
  <1> QED
    BY <1>4, <1>6 DEF unit, rest

-----------------------------------------------------------------------------
(* Pins *)

(* The slots that hold an object. *)
Holders(o) == {id \in LoopIds : loopstate[id].active /\ loopstate[id].region_addr = o}

(* There are finitely many. *)
LEMMA HoldersFinite ==
    ASSUME NEW S \in SUBSET LoopIds
    PROVE  IsFiniteSet(S) /\ Cardinality(S) \in Nat
  <1>1. MAX_LOOPS \in Nat
    BY LoopsAssumption
  <1>2. IsFiniteSet(LoopIds)
    BY <1>1, FS_Interval DEF LoopIds
  <1> QED
    BY <1>2, FS_Subset, FS_CardinalityType

(* Membership of one element decides the cardinality of two sets that      *)
(* otherwise agree.                                                        *)
LEMMA OneElement ==
    ASSUME NEW S \in SUBSET LoopIds, NEW T \in SUBSET LoopIds, NEW x \in LoopIds,
           \A y \in LoopIds \ {x} : y \in S <=> y \in T
    PROVE  Cardinality(T) = Cardinality(S) - (IF x \in S THEN 1 ELSE 0)
                                           + (IF x \in T THEN 1 ELSE 0)
  <1> DEFINE R == S \ {x}
  <1>1. /\ IsFiniteSet(R) /\ Cardinality(R) \in Nat /\ x \notin R
        /\ Cardinality(R \cup {x}) = Cardinality(R) + 1
    BY HoldersFinite, FS_AddElement
  <1>2. Cardinality(S) = Cardinality(R) + (IF x \in S THEN 1 ELSE 0)
    <2>1. CASE x \in S
      <3>1. S = R \cup {x}
        BY <2>1
      <3> QED
        BY <1>1, <2>1, <3>1
    <2>2. CASE x \notin S
      <3>1. S = R
        BY <2>2
      <3> QED
        BY <1>1, <2>2, <3>1
    <2> QED
      BY <2>1, <2>2
  <1>3. Cardinality(T) = Cardinality(R) + (IF x \in T THEN 1 ELSE 0)
    <2>1. CASE x \in T
      <3>1. T = R \cup {x}
        BY <2>1
      <3> QED
        BY <1>1, <2>1, <3>1
    <2>2. CASE x \notin T
      <3>1. T = R
        BY <2>2
      <3> QED
        BY <1>1, <2>2, <3>1
    <2> QED
      BY <2>1, <2>2
  <1> HIDE DEF R
  <1> QED
    BY <1>1, <1>2, <1>3

(* The pins stay balanced when one slot changes and the pins follow it. *)
LEMMA PinsFollow ==
    ASSUME TypeOK, PinsBalanced, NEW x \in LoopIds, NEW s \in Slot,
           loopstate' = [loopstate EXCEPT ![x] = s],
           \A o \in Objects : pins'[o] =
              pins[o] - (IF loopstate[x].active /\ loopstate[x].region_addr = o THEN 1 ELSE 0)
                      + (IF s.active /\ s.region_addr = o THEN 1 ELSE 0)
    PROVE  PinsBalanced' /\ \A o \in Objects : pins'[o] \in Nat
  <1> SUFFICES ASSUME NEW o \in Objects
               PROVE  pins'[o] = Cardinality(Holders(o)') /\ pins'[o] \in Nat
    BY DEF PinsBalanced, Holders
  <1>0. /\ loopstate \in [LoopIds -> Slot]
        /\ loopstate'[x] = s /\ \A y \in LoopIds \ {x} : loopstate'[y] = loopstate[y]
    BY DEF TypeOK
  <1>1. Holders(o) \in SUBSET LoopIds /\ Holders(o)' \in SUBSET LoopIds
    BY DEF Holders
  <1>2. \A y \in LoopIds \ {x} : y \in Holders(o) <=> y \in Holders(o)'
    BY <1>0 DEF Holders
  <1>3. /\ x \in Holders(o) <=> loopstate[x].active /\ loopstate[x].region_addr = o
        /\ x \in Holders(o)' <=> s.active /\ s.region_addr = o
    BY <1>0 DEF Holders
  <1>4. pins[o] = Cardinality(Holders(o))
    BY DEF PinsBalanced, Holders
  <1>5. Cardinality(Holders(o)') = Cardinality(Holders(o))
                                     - (IF x \in Holders(o) THEN 1 ELSE 0)
                                     + (IF x \in Holders(o)' THEN 1 ELSE 0)
    BY <1>1, <1>2, OneElement
  <1>6. pins'[o] = Cardinality(Holders(o)')
    BY <1>3, <1>4, <1>5
  <1> QED
    BY <1>1, <1>6, HoldersFinite

-----------------------------------------------------------------------------
(* The nest *)

(* A step of the innermost loop leaves the others alone. *)
LEMMA NestTop ==
    ASSUME nest \in Seq(Loop), nest # <<>>, NEW l \in Loop, SetTop(l)
    PROVE  /\ nest' \in Seq(Loop) /\ nest' # <<>>
           /\ Len(nest) \in Nat \ {0} /\ Len(nest') = Len(nest)
           /\ nest'[Len(nest)] = l
           /\ \A n \in 1 .. Len(nest) : n # Len(nest) => nest'[n] = nest[n]
  BY DEF SetTop

(* What is known of a loop of the nest. *)
LEMMA LoopTypes ==
    ASSUME NEW l \in Loop, LoopOK(l)
    PROVE  /\ l.at \in {"header", "body", "check", "exit"}
           /\ l.k \in 1 .. Len(l.ptrs) /\ l.i \in 0 .. MaxTrips
           /\ l.ptrs \in Seq(Pointers) /\ l.regs \in Seq(Reg)
           /\ \A j \in 1 .. Len(l.ptrs) : l.ptrs[j] \in Pointers
           /\ \A j \in 1 .. Len(l.regs) : l.regs[j] \in Reg
           /\ Len(l.ptrs) \in Nat \ {0} /\ Len(l.regs) \in Nat
           /\ Len(l.regs) <= Len(l.ptrs)
           /\ l.at # "header" => Len(l.regs) = Len(l.ptrs)
  <1>1. /\ l.ptrs \in Seq(Pointers) /\ l.regs \in Seq(Reg) /\ l.k \in Nat /\ l.i \in Nat
        /\ l.at \in {"header", "body", "check", "exit"}
    BY DEF Loop
  <1>2. /\ l.k \in 1 .. Len(l.ptrs) /\ l.i <= MaxTrips
        /\ Len(l.regs) = IF l.at = "header" THEN l.k - 1 ELSE Len(l.ptrs)
    BY DEF LoopOK
  <1>3. Len(l.ptrs) \in Nat /\ Len(l.regs) \in Nat /\ MaxTrips \in Nat
    BY <1>1, LoopsAssumption
  <1> QED
    BY <1>1, <1>2, <1>3

(* Types in the nest, in one state. *)
LEMMA NestTypes ==
    ASSUME NestInv
    PROVE  /\ Len(nest) \in Nat /\ (nest = <<>> <=> Len(nest) = 0)
           /\ \A n \in 1 .. Len(nest) : nest[n] \in Loop /\ LoopOK(nest[n])
           /\ nest # <<>> => Top \in Loop /\ LoopOK(Top) /\ Top = nest[Len(nest)]
                             /\ Len(nest) \in 1 .. Len(nest)
  <1>1. nest \in Seq(Loop)
    BY DEF NestInv
  <1>2. Len(nest) \in Nat /\ (nest = <<>> <=> Len(nest) = 0)
    BY <1>1
  <1>3. \A n \in 1 .. Len(nest) : nest[n] \in Loop /\ LoopOK(nest[n])
    BY <1>1 DEF NestInv
  <1> QED
    BY <1>2, <1>3 DEF Top

(* The first slot of a loop. *)
LEMMA BaseTypes ==
    ASSUME NestInv, loop_id_cnt \in Nat, NEW n \in 1 .. Len(nest)
    PROVE  Base(n) \in Nat /\ Len(nest[n].regs) \in Nat /\ Len(nest[n].ptrs) \in Nat
  <1>1. /\ nest[n].regs \in Seq(Reg) /\ Len(nest[n].regs) \in Nat /\ Len(nest[n].ptrs) \in Nat
        /\ \A j \in 1 .. Len(nest[n].regs) : nest[n].regs[j] \in Reg
    BY NestTypes, LoopTypes
  <1>2. nest[n].regs # <<>> => nest[n].regs[1].id \in Nat
    BY <1>1, LoopsAssumption DEF Reg, LoopIds
  <1> QED
    BY <1>1, <1>2 DEF Base

-----------------------------------------------------------------------------
(* A loop is entered. *)

(* In the body of a loop every slot in use is one of the nest's pointers,  *)
(* and every pointer of the nest has one.                                  *)
LEMMA OpenSlots ==
    ASSUME LoopsInv, nest # <<>> => Top.at = "body"
    PROVE  PointersOpen = loop_id_cnt /\ loop_id_cnt \in Nat
  <1>1. loop_id_cnt \in Nat
    BY LoopsAssumption DEF LoopsInv, TypeOK
  <1>2. CASE nest = <<>>
    BY <1>1, <1>2 DEF PointersOpen, LoopsInv, SlotInv
  <1>3. CASE nest # <<>>
    <2> PICK T \in Nat : T = Len(nest)
      BY NestTypes DEF LoopsInv
    <2>1. T \in 1 .. T /\ Top = nest[T] /\ Top.at = "body" /\ LoopOK(Top)
      BY <1>3, NestTypes DEF LoopsInv
    <2>2. Len(Top.regs) = Len(Top.ptrs) /\ GivenBack = 0
      BY <2>1 DEF LoopOK, GivenBack
    <2>3. Base(T) \in Nat /\ Len(Top.regs) \in Nat
      BY <1>1, <2>1, BaseTypes DEF LoopsInv
    <2>4. loop_id_cnt = Base(T) + Len(Top.regs) - GivenBack /\ Top.outer = Base(T)
      BY <2>1 DEF LoopsInv, SlotInv
    <2> QED
      BY <1>1, <1>3, <2>2, <2>3, <2>4 DEF PointersOpen
  <1> QED
    BY <1>2, <1>3

(* The nest gets one more loop, and nothing else changes. *)
LEMMA EnterNest ==
    ASSUME LoopsInv, NEW N \in Nat \ {0}, NEW ps \in [1 .. N -> Pointers], Enter(ps)
    PROVE  /\ nest' \in Seq(Loop) /\ Len(nest) \in Nat /\ Len(nest') = Len(nest) + 1
           /\ nest'[Len(nest) + 1] = [at |-> "header", k |-> 1, i |-> 0, ptrs |-> ps, regs |-> <<>>,
               outer |-> PointersOpen]
           /\ \A n \in 1 .. Len(nest) : nest'[n] = nest[n] /\ nest[n].at = "body"
           /\ Len(ps) = N /\ UNCHANGED <<loopstate, loop_id_cnt, pins>>
           /\ loop_id_cnt \in Nat /\ loop_id_cnt + Len(ps) <= MAX_LOOPS
           /\ PointersOpen = loop_id_cnt
  <1> DEFINE new == [at |-> "header", k |-> 1, i |-> 0, ptrs |-> ps, regs |-> <<>>,
               outer |-> PointersOpen]
  <1>0. PointersOpen = loop_id_cnt /\ loop_id_cnt \in Nat
    BY OpenSlots DEF Enter
  <1>1. new \in Loop /\ Len(ps) = N
    BY <1>0 DEF Loop
  <1>2. nest \in Seq(Loop) /\ loop_id_cnt \in Nat
    BY DEF LoopsInv, NestInv, TypeOK
  <1>3. nest' = Append(nest, new)
    BY DEF Enter
  <1> HIDE DEF new
  <1>4. /\ nest' \in Seq(Loop) /\ Len(nest') = Len(nest) + 1 /\ nest'[Len(nest) + 1] = new
        /\ Len(nest) \in Nat /\ \A n \in 1 .. Len(nest) : nest'[n] = nest[n]
    BY <1>1, <1>2, <1>3
  <1>5. \A n \in 1 .. Len(nest) : nest[n].at = "body"
    BY <1>2 DEF LoopsInv, NestInv, Enter, Top
  <1> QED
    BY <1>0, <1>1, <1>2, <1>4, <1>5 DEF Enter, new

(* The new loop will take the next slots. *)
LEMMA EnterStep ==
    ASSUME LoopsInv, NEW N \in Nat \ {0}, NEW ps \in [1 .. N -> Pointers], Enter(ps)
    PROVE  LoopsInv'
  <1> PICK T \in Nat : T = Len(nest)
    BY EnterNest
  <1> DEFINE new == [at |-> "header", k |-> 1, i |-> 0, ptrs |-> ps, regs |-> <<>>,
               outer |-> PointersOpen]
  <1>0. /\ nest' \in Seq(Loop) /\ Len(nest) = T /\ Len(nest') = T + 1
        /\ nest'[T + 1] = new
        /\ \A n \in 1 .. T : nest'[n] = nest[n] /\ nest[n].at = "body"
        /\ Len(ps) = N /\ UNCHANGED <<loopstate, loop_id_cnt, pins>>
        /\ loop_id_cnt \in Nat /\ loop_id_cnt + Len(ps) <= MAX_LOOPS
        /\ PointersOpen = loop_id_cnt
    BY EnterNest
  <1>1. /\ new.at = "header" /\ new.regs = <<>> /\ new.ptrs = ps /\ LoopOK(new)
        /\ Len(new.regs) = 0 /\ new.outer = loop_id_cnt
    BY <1>0, LoopsAssumption DEF LoopOK
  <1> HIDE DEF new
  <1>2. /\ (nest = <<>> <=> T = 0) /\ nest' # <<>> /\ Top' = new
        /\ \A n \in 1 .. T : nest[n] \in Loop /\ LoopOK(nest[n])
        /\ T # 0 => Top = nest[T] /\ Top.at = "body"
    BY <1>0, NestTypes DEF LoopsInv, Top
  <1>3. GivenBack = 0 /\ GivenBack' = 0
    BY <1>0, <1>1, <1>2 DEF GivenBack
  <1>4. /\ \A n \in 1 .. T : Base(n)' = Base(n)
        /\ Base(T + 1)' = loop_id_cnt
    BY <1>0, <1>1 DEF Base
  <1>5. NestInv'
    <2> SUFFICES ASSUME NEW n \in 1 .. T + 1
                 PROVE  LoopOK(nest'[n]) /\ (n < T + 1 => nest'[n].at = "body")
      BY <1>0 DEF NestInv
    <2>1. CASE n = T + 1
      BY <1>0, <1>1, <2>1
    <2>2. CASE n \in 1 .. T
      BY <1>0, <1>2, <2>2
    <2> QED
      BY <2>1, <2>2
  <1>6. TypeOK'
    <2> SUFFICES ASSUME NEW n \in 1 .. Len(nest')
                 PROVE  /\ nest'[n].at \in {"header", "body", "check", "exit"}
                        /\ nest'[n].k \in 1 .. Len(nest'[n].ptrs)
                        /\ nest'[n].i \in 0 .. MaxTrips
                        /\ \A j \in 1 .. Len(nest'[n].regs) : nest'[n].regs[j] \in Reg
      BY <1>0 DEF LoopsInv, TypeOK
    <2>1. nest'[n] \in Loop /\ LoopOK(nest'[n])
      BY <1>0, <1>5 DEF NestInv
    <2> QED
      BY <2>1, LoopTypes
  <1>7. \A n \in 1 .. T : Len(nest[n].regs) \in Nat /\ Base(n) \in Nat
    BY <1>0, BaseTypes DEF LoopsInv
  <1>8. SlotInv'
    <2>0. loop_id_cnt = IF T = 0 THEN 0 ELSE Base(T) + Len(nest[T].regs)
      BY <1>0, <1>2, <1>3, <1>7 DEF LoopsInv, SlotInv
    <2> SUFFICES ASSUME NEW n \in 1 .. T + 1
                 PROVE  /\ n = 1 => Base(n)' = 0
                        /\ n = T + 1 => /\ loop_id_cnt' = Base(n)' + Len(nest'[n].regs) - GivenBack'
                                        /\ Base(n)' + Len(nest'[n].ptrs) <= MAX_LOOPS
                        /\ n < T + 1 => Base(n + 1)' = Base(n)' + Len(nest'[n].regs)
                        /\ \A m \in 1 .. T + 1 : n < m => Base(n)' + Len(nest'[n].regs) <= Base(m)'
                        /\ \A j \in 1 .. Len(nest'[n].regs) : nest'[n].regs[j].id = Base(n)' + j - 1
                        /\ nest'[n].outer = Base(n)'
      BY <1>0, <1>2 DEF SlotInv
    <2>1. CASE n = T + 1
      BY <1>0, <1>1, <1>3, <1>4, <2>0, <2>1, SMTT(30)
    <2>2. CASE n \in 1 .. T
      <3>1. /\ Base(n)' = Base(n) /\ nest'[n] = nest[n] /\ Base(n) \in Nat
            /\ Len(nest[n].regs) \in Nat
        BY <1>0, <1>4, <1>7, <2>2
      <3>2. /\ n = 1 => Base(n) = 0
            /\ \A j \in 1 .. Len(nest[n].regs) : nest[n].regs[j].id = Base(n) + j - 1
            /\ n < T => Base(n + 1) = Base(n) + Len(nest[n].regs)
            /\ \A m \in 1 .. T : n < m => Base(n) + Len(nest[n].regs) <= Base(m)
            /\ nest[n].outer = Base(n)
        BY <1>0, <2>2 DEF LoopsInv, SlotInv
      <3>3. Base(n + 1)' = Base(n) + Len(nest[n].regs)
        <4>1. CASE n = T
          BY <1>4, <2>0, <2>2, <4>1
        <4>2. CASE n < T
          BY <1>4, <2>2, <3>2, <4>2
        <4> QED
          BY <2>2, <4>1, <4>2
      <3>4. ASSUME NEW m \in 1 .. T + 1, n < m
            PROVE  Base(n) + Len(nest[n].regs) <= Base(m)'
        <4>1. CASE m \in 1 .. T
          BY <1>4, <3>2, <3>4, <4>1
        <4>2. CASE m = T + 1
          <5>1. T \in 1 .. T /\ Base(m)' = Base(T) + Len(nest[T].regs)
                /\ Base(T) \in Nat /\ Len(nest[T].regs) \in Nat
            BY <1>4, <1>7, <2>0, <2>2, <4>2
          <5>2. n = T \/ Base(n) + Len(nest[n].regs) <= Base(T)
            BY <2>2, <3>2, <5>1
          <5>3. PICK b \in Nat : b = Base(n) + Len(nest[n].regs)
            BY <3>1
          <5>4. PICK t \in Nat, e \in Nat : t = Base(T) /\ e = Len(nest[T].regs)
            BY <5>1
          <5>5. Base(m)' = t + e /\ (n = T => b = t + e) /\ (n # T => b <= t)
            BY <5>1, <5>2, <5>3, <5>4
          <5>6. b <= t + e
            BY <5>5
          <5> QED
            BY <5>3, <5>5, <5>6
        <4> QED
          BY <4>1, <4>2
      <3> QED
        BY <2>2, <3>1, <3>2, <3>3, <3>4
    <2> QED
      BY <2>1, <2>2
  <1>9. ActiveInv'
    BY <1>0, <1>3 DEF LoopsInv, ActiveInv
  <1>10. HoldInv' /\ CrossInv'
    <2> SUFFICES ASSUME NEW n \in 1 .. T + 1, NEW j \in 1 .. Len(nest'[n].regs)
                 PROVE  /\ HoldOK(nest'[n], j, loopstate'[nest'[n].regs[j].id])
                        /\ CrossOK(nest'[n], j)
      BY <1>0 DEF HoldInv, CrossInv
    <2>1. n \in 1 .. T
      BY <1>0, <1>1
    <2>2. nest'[n] = nest[n] /\ j \in 1 .. Len(nest[n].regs) /\ j > GivenBack
      BY <1>0, <1>3, <2>1
    <2> QED
      BY <1>0, <2>1, <2>2 DEF LoopsInv, HoldInv, CrossInv
  <1>11. PinsBalanced'
    BY <1>0 DEF LoopsInv, PinsBalanced
  <1> QED
    BY <1>5, <1>6, <1>8, <1>9, <1>10, <1>11 DEF LoopsInv

-----------------------------------------------------------------------------
(* The slots of the nest *)

(* Types are kept if those of the nest are. *)
LEMMA TypeNext ==
    ASSUME NestInv', loopstate' \in [LoopIds -> Slot], loop_id_cnt' \in 0 .. MAX_LOOPS,
           pins' \in [Objects -> Nat]
    PROVE  TypeOK'
  <1> SUFFICES ASSUME NEW n \in 1 .. Len(nest')
               PROVE  /\ nest'[n].at \in {"header", "body", "check", "exit"}
                      /\ nest'[n].k \in 1 .. Len(nest'[n].ptrs)
                      /\ nest'[n].i \in 0 .. MaxTrips
                      /\ \A j \in 1 .. Len(nest'[n].regs) : nest'[n].regs[j] \in Reg
    BY DEF TypeOK
  <1>1. nest'[n] \in Loop /\ LoopOK(nest'[n])
    BY DEF NestInv
  <1> QED
    BY <1>1, LoopTypes

(* No two pointers of the nest have the same slot. *)
LEMMA SlotsApart ==
    ASSUME LoopsInv, NEW n \in 1 .. Len(nest), NEW m \in 1 .. Len(nest),
           NEW j \in 1 .. Len(nest[n].regs), NEW h \in 1 .. Len(nest[m].regs),
           n # m \/ j # h
    PROVE  nest[n].regs[j].id # nest[m].regs[h].id
  <1>1. loop_id_cnt \in Nat /\ Len(nest) \in Nat /\ NestInv
    BY LoopsAssumption, NestTypes DEF LoopsInv, TypeOK
  <1>2. /\ Base(n) \in Nat /\ Len(nest[n].regs) \in Nat
        /\ Base(m) \in Nat /\ Len(nest[m].regs) \in Nat
    BY <1>1, BaseTypes
  <1>3. nest[n].regs[j].id = Base(n) + j - 1 /\ nest[m].regs[h].id = Base(m) + h - 1
    BY DEF LoopsInv, SlotInv
  <1>4. /\ n < m => Base(n) + Len(nest[n].regs) <= Base(m)
        /\ m < n => Base(m) + Len(nest[m].regs) <= Base(n)
    BY DEF LoopsInv, SlotInv
  <1>5. PICK a \in Nat, b \in Nat : a = Base(n) /\ b = Base(m)
    BY <1>2
  <1>6. PICK k \in Nat, l \in Nat : k = Len(nest[n].regs) /\ l = Len(nest[m].regs)
    BY <1>2
  <1>7. (n < m => a + k <= b) /\ (m < n => b + l <= a) /\ j \in 1 .. k /\ h \in 1 .. l
    BY <1>4, <1>5, <1>6
  <1>8. n < m \/ m < n \/ (n = m /\ a = b)
    BY <1>1, <1>5
  <1>9. a + j - 1 # b + h - 1
    BY <1>7, <1>8
  <1> QED
    BY <1>3, <1>5, <1>9

(* A slot is active until it is given back. *)
LEMMA SlotIsActive ==
    ASSUME LoopsInv, NEW n \in 1 .. Len(nest), NEW j \in 1 .. Len(nest[n].regs),
           n = Len(nest) => j > GivenBack
    PROVE  nest[n].regs[j].id \in LoopIds /\ loopstate[nest[n].regs[j].id].active
  <1> PICK T \in Nat : T = Len(nest)
    BY NestTypes DEF LoopsInv
  <1>1. loop_id_cnt \in Nat /\ NestInv /\ T \in 1 .. T /\ Top = nest[T] /\ nest # <<>>
    BY LoopsAssumption, NestTypes DEF LoopsInv, TypeOK
  <1>2. /\ Base(n) \in Nat /\ Len(nest[n].regs) \in Nat
        /\ Base(T) \in Nat /\ Len(nest[T].regs) \in Nat
    BY <1>1, BaseTypes
  <1>3. nest[n] \in Loop /\ LoopOK(nest[n]) /\ Top \in Loop /\ LoopOK(Top)
    BY <1>1, NestTypes
  <1>4. nest[n].regs[j] \in Reg /\ Top.k \in Nat /\ 1 <= Top.k
    BY <1>3, LoopTypes
  <1>5. nest[n].regs[j].id \in LoopIds
    BY <1>4 DEF Reg
  <1>6. nest[n].regs[j].id = Base(n) + j - 1
    BY DEF LoopsInv, SlotInv
  <1>7. n < T => Base(n) + Len(nest[n].regs) <= Base(T)
    BY <1>1 DEF LoopsInv, SlotInv
  <1>8. loop_id_cnt = Base(T) + Len(Top.regs) - GivenBack /\ GivenBack \in Nat
    BY <1>1, <1>4 DEF LoopsInv, SlotInv, GivenBack
  <1>9. IF GivenBack = 0 THEN nest[n].regs[j].id < loop_id_cnt
        ELSE \/ nest[n].regs[j].id < Base(T)
             \/ Base(T) + GivenBack <= nest[n].regs[j].id /\ nest[n].regs[j].id < Base(T) + Len(Top.regs)
    <2>1. CASE n < T
      <3>1. nest[n].regs[j].id < Base(T)
        BY <1>2, <1>6, <1>7, <2>1
      <3>2. Base(T) <= loop_id_cnt \/ GivenBack # 0
        BY <1>1, <1>2, <1>8
      <3> QED
        BY <1>1, <1>2, <1>5, <3>1, <3>2 DEF LoopIds
    <2>2. CASE n = T
      BY <1>1, <1>2, <1>6, <1>8, <2>2
    <2> QED
      BY <2>1, <2>2
  <1> QED
    BY <1>5, <1>9 DEF LoopsInv, ActiveInv

(* A step of the innermost loop that neither takes nor gives back a slot.  *)
LEMMA TopStep ==
    ASSUME LoopsInv, nest # <<>>, NEW l \in Loop, LoopOK(l), SetTop(l),
           l.ptrs = Top.ptrs, l.outer = Top.outer, Len(l.regs) = Len(Top.regs),
           \A j \in 1 .. Len(l.regs) : l.regs[j].id = Top.regs[j].id,
           loop_id_cnt' = loop_id_cnt, Top.at # "exit", l.at = "exit" => l.k = 1
    PROVE  /\ NestInv' /\ SlotInv' /\ GivenBack = 0 /\ GivenBack' = 0
           /\ nest' # <<>> /\ Len(nest') = Len(nest) /\ Top' = l
           /\ \A n \in 1 .. Len(nest) :
                 nest'[n] = IF n = Len(nest) THEN l ELSE nest[n]
  <1> PICK T \in Nat : T = Len(nest)
    BY NestTypes DEF LoopsInv
  <1>1. nest \in Seq(Loop) /\ NestInv /\ loop_id_cnt \in Nat
    BY LoopsAssumption DEF LoopsInv, NestInv, TypeOK
  <1>2. /\ nest' \in Seq(Loop) /\ nest' # <<>> /\ T \in 1 .. T /\ Len(nest') = T
        /\ nest'[T] = l /\ Top' = l /\ Top = nest[T]
        /\ \A n \in 1 .. T : n # T => nest'[n] = nest[n]
    BY <1>1, NestTop DEF Top
  <1>3. GivenBack = 0 /\ GivenBack' = 0
    BY <1>2 DEF GivenBack
  <1>4. NestInv'
    <2> SUFFICES ASSUME NEW n \in 1 .. T
                 PROVE  LoopOK(nest'[n]) /\ (n < T => nest'[n].at = "body")
      BY <1>2 DEF NestInv
    <2>1. CASE n = T
      BY <1>2, <2>1
    <2>2. CASE n # T
      BY <1>2, <2>2 DEF LoopsInv, NestInv
    <2> QED
      BY <2>1, <2>2
  <1>5. \A n \in 1 .. T : /\ Len(nest'[n].regs) = Len(nest[n].regs) /\ nest'[n].ptrs = nest[n].ptrs
                          /\ nest'[n].outer = nest[n].outer
                          /\ \A j \in 1 .. Len(nest[n].regs) :
                                nest'[n].regs[j].id = nest[n].regs[j].id
    BY <1>2
  <1>6. ASSUME NEW n \in 1 .. T PROVE Base(n)' = Base(n)
    <2>1. nest[n] \in Loop /\ LoopOK(nest[n]) /\ nest'[n] \in Loop
      BY <1>1, <1>2, NestTypes
    <2>2. nest[n].regs \in Seq(Reg) /\ nest'[n].regs \in Seq(Reg)
      BY <2>1 DEF Loop
    <2>3. Len(nest'[n].regs) = Len(nest[n].regs)
      BY <1>5
    <2>4. nest'[n].regs = <<>> <=> nest[n].regs = <<>>
      BY <2>2, <2>3
    <2>5. nest[n].regs # <<>> => 1 \in 1 .. Len(nest[n].regs)
      BY <2>2
    <2> QED
      BY <1>5, <2>4, <2>5 DEF Base
  <1>7. SlotInv'
    <2> SUFFICES ASSUME NEW n \in 1 .. T
                 PROVE  /\ n = 1 => Base(n)' = 0
                        /\ n = T => /\ loop_id_cnt' = Base(n)' + Len(nest'[n].regs) - GivenBack'
                                    /\ Base(n)' + Len(nest'[n].ptrs) <= MAX_LOOPS
                        /\ n < T => Base(n + 1)' = Base(n)' + Len(nest'[n].regs)
                        /\ \A m \in 1 .. T : n < m => Base(n)' + Len(nest'[n].regs) <= Base(m)'
                        /\ \A j \in 1 .. Len(nest'[n].regs) : nest'[n].regs[j].id = Base(n)' + j - 1
                        /\ nest'[n].outer = Base(n)'
      BY <1>2 DEF SlotInv
    <2>1. n < T => n + 1 \in 1 .. T
      OBVIOUS
    <2> QED
      BY <1>2, <1>3, <1>5, <1>6, <2>1 DEF LoopsInv, SlotInv
  <1> QED
    BY <1>2, <1>3, <1>4, <1>7

(* The back edge is taken, or the loop left: nothing has been stepped yet. *)
LEMMA QuietStep ==
    ASSUME LoopsInv, BackEdge \/ Exit
    PROVE  LoopsInv'
  <1> PICK T \in Nat : T = Len(nest)
    BY NestTypes DEF LoopsInv
  <1>1. PICK at \in {"check", "exit"} :
           /\ nest # <<>> /\ Top.at = "body" /\ SetTop([Top EXCEPT !.at = at, !.k = 1])
           /\ UNCHANGED <<loopstate, loop_id_cnt, pins>>
           /\ at = "check" => Top.i < MaxTrips
    BY DEF BackEdge, Exit
  <1>2. Top \in Loop /\ LoopOK(Top) /\ Top = nest[T] /\ T \in 1 .. T
    BY <1>1, NestTypes DEF LoopsInv
  <1> DEFINE m == [Top EXCEPT !.at = at, !.k = 1]
  <1>3. /\ m \in Loop /\ m.at = at /\ m.k = 1 /\ m.i = Top.i
        /\ m.ptrs = Top.ptrs /\ m.regs = Top.regs /\ m.outer = Top.outer
    BY <1>2 DEF Loop
  <1>4. SetTop(m)
    BY <1>1
  <1> HIDE DEF m
  <1>5. LoopOK(m)
    BY <1>1, <1>2, <1>3, LoopTypes DEF LoopOK
  <1>6. /\ NestInv' /\ SlotInv' /\ GivenBack = 0 /\ GivenBack' = 0
        /\ Len(nest') = T
        /\ \A n \in 1 .. T : nest'[n] = IF n = T THEN m ELSE nest[n]
    BY <1>1, <1>3, <1>4, <1>5, TopStep
  <1>7. TypeOK'
    BY <1>1, <1>6, TypeNext DEF LoopsInv, TypeOK
  <1>8. ActiveInv'
    BY <1>1, <1>6 DEF LoopsInv, ActiveInv
  <1>9. HoldInv' /\ CrossInv'
    <2> SUFFICES ASSUME NEW n \in 1 .. T, NEW j \in 1 .. Len(nest'[n].regs)
                 PROVE  /\ HoldOK(nest'[n], j, loopstate'[nest'[n].regs[j].id])
                        /\ CrossOK(nest'[n], j)
      BY <1>6 DEF HoldInv, CrossInv
    <2>1. j \in 1 .. Len(nest[n].regs)
      BY <1>2, <1>3, <1>6
    <2>2. HoldOK(nest[n], j, loopstate[nest[n].regs[j].id]) /\ CrossOK(nest[n], j)
      BY <1>6, <2>1 DEF LoopsInv, HoldInv, CrossInv
    <2>3. CASE n # T
      BY <1>1, <1>6, <2>2, <2>3
    <2>4. CASE n = T
      <3>1. Steps(m, j) = Top.i /\ Steps(Top, j) = Top.i
        BY <1>1, <1>2, <1>3, <2>1, LoopTypes DEF Steps
      <3>2. CrossOK(m, j)
        BY <1>2, <1>3, <2>2, <2>4, <3>1 DEF CrossOK
      <3>3. HoldOK(m, j, loopstate[m.regs[j].id])
        BY <1>2, <1>3, <2>2, <2>4 DEF HoldOK
      <3> QED
        BY <1>1, <1>2, <1>3, <1>6, <2>4, <3>2, <3>3
    <2> QED
      BY <2>3, <2>4
  <1>10. PinsBalanced'
    BY <1>1 DEF LoopsInv, PinsBalanced
  <1> QED
    BY <1>6, <1>7, <1>8, <1>9, <1>10 DEF LoopsInv

-----------------------------------------------------------------------------
(* The dereference of a slot *)

(* What carm_deref_loop_read and _write leave in the slot.                 *)
LEMMA DerefSlot ==
    ASSUME NEW slot \in Slot, slot.carm_ptr => slot.obj_index \in Objects
    PROVE  LET s == DerefLoopSlot(slot)
           IN  /\ s \in Slot /\ s.active = slot.active /\ s.carm_ptr = slot.carm_ptr
               /\ s.stride = slot.stride /\ s.start_obj_index = slot.start_obj_index
               /\ slot.carm_ptr => /\ s.region_addr = slot.obj_index
                                   /\ s.obj_index = slot.obj_index + slot.stride
               /\ ~slot.carm_ptr => s.region_addr = slot.region_addr
  <1>1. slot.obj_index \in Nat /\ slot.stride \in Nat /\ slot.carm_ptr \in BOOLEAN
    BY DEF Slot
  <1>2. CASE slot.carm_ptr
    <2>1. slot.obj_index + slot.stride \in Nat
      BY <1>1
    <2>2. DerefLoopSlot(slot)
            = [slot EXCEPT !.region_addr = slot.obj_index, !.obj_index = @ + slot.stride]
      BY <1>2 DEF DerefLoopSlot
    <2> QED
      BY <1>2, <2>1, <2>2 DEF Slot
  <1>3. CASE ~slot.carm_ptr
    <2>1. slot.obj_index + 1 \in Nat
      BY <1>1
    <2>2. DerefLoopSlot(slot) = [slot EXCEPT !.obj_index = @ + 1]
      BY <1>3 DEF DerefLoopSlot
    <2> QED
      BY <1>3, <2>1, <2>2 DEF Slot
  <1> QED
    BY <1>2, <1>3

(* A product of naturals is one. *)
LEMMA TimesNat ==
    ASSUME NEW a \in Nat, NEW b \in Nat
    PROVE  a * b \in Nat
  OBVIOUS

(* The local pointer they return. *)
LEMMA DerefResult ==
    ASSUME NEW slot \in Slot, slot.carm_ptr => slot.obj_index \in Objects
    PROVE  LET ptr == DerefLoopResult(slot)
           IN  /\ ptr.base \in Objects \cup {Stack} /\ ptr.off \in Nat
               /\ ptr.base = IF slot.carm_ptr THEN slot.obj_index ELSE Stack
  <1>1. /\ slot.obj_index \in Nat /\ slot.stack_addr \in Nat /\ slot.carm_ptr \in BOOLEAN
        /\ slot.start_obj_offset \in 0 .. OBJ_SIZE - 1 /\ OBJ_SIZE \in Nat
    BY LoopsAssumption DEF Slot
  <1>2. slot.obj_index * OBJ_SIZE \in Nat
    BY <1>1, TimesNat
  <1>3. CASE slot.carm_ptr
    BY <1>1, <1>3 DEF DerefLoopResult
  <1>4. CASE ~slot.carm_ptr
    <2> DEFINE x == slot.obj_index * OBJ_SIZE
    <2>1. DerefLoopResult(slot) = [base |-> Stack, off |-> slot.stack_addr + x]
      BY <1>4 DEF DerefLoopResult
    <2> HIDE DEF x
    <2>2. x \in Nat
      BY <1>2 DEF x
    <2> QED
      BY <1>1, <1>4, <2>1, <2>2
  <1> QED
    BY <1>3, <1>4

(* The old region is let go and the new one held. *)
LEMMA DerefPins ==
    ASSUME pins \in [Objects -> Nat], NEW slot \in Slot,
           slot.carm_ptr => slot.obj_index \in Objects,
           ~slot.carm_ptr => slot.region_addr = NoRegion
    PROVE  /\ DOMAIN DerefLoopPins(slot) = Objects
           /\ DerefLoopPins(slot) = [o \in Objects |-> DerefLoopPins(slot)[o]]
           /\ \A o \in Objects :
                 DerefLoopPins(slot)[o] =
                    pins[o] - (IF slot.region_addr = o THEN 1 ELSE 0)
                            + (IF DerefLoopSlot(slot).region_addr = o THEN 1 ELSE 0)
  <1>1. NoRegion \notin Objects /\ slot.carm_ptr \in BOOLEAN
    BY LoopsAssumption DEF Slot
  <1>2. CASE slot.carm_ptr
    <2> DEFINE un == Unpin(pins, slot.region_addr)
    <2>1. /\ un = [o \in Objects |-> un[o]]
          /\ \A o \in Objects : un[o] = pins[o] - (IF slot.region_addr = o THEN 1 ELSE 0)
      BY DEF Unpin
    <2>2. DerefLoopPins(slot) = [un EXCEPT ![slot.obj_index] = @ + 1]
      BY <1>2 DEF DerefLoopPins, Pin
    <2> HIDE DEF un
    <2>3. DerefLoopSlot(slot).region_addr = slot.obj_index
      BY <1>2, DerefSlot
    <2>4. \A o \in Objects : DerefLoopPins(slot)[o] =
             IF o = slot.obj_index THEN un[o] + 1 ELSE un[o]
      BY <1>2, <2>1, <2>2
    <2>5. \A o \in Objects : pins[o] \in Nat
      OBVIOUS
    <2>6. /\ DOMAIN DerefLoopPins(slot) = Objects
          /\ DerefLoopPins(slot) = [o \in Objects |-> DerefLoopPins(slot)[o]]
      BY <2>1, <2>2
    <2> QED
      BY <2>1, <2>3, <2>4, <2>5, <2>6
  <1>3. CASE ~slot.carm_ptr
    <2>1. DerefLoopPins(slot) = pins /\ DerefLoopSlot(slot).region_addr = slot.region_addr
      BY <1>3, DerefSlot DEF DerefLoopPins
    <2> QED
      BY <1>1, <1>3, <2>1
  <1> QED
    BY <1>1, <1>2, <1>3

-----------------------------------------------------------------------------
(* The check at the back edge *)

(* Where the pointer under test is: its slot holds its object, and the     *)
(* next object is within reach.                                            *)
LEMMA CheckStart ==
    ASSUME LoopsInv, nest # <<>>, Top.at = "check"
    PROVE  /\ Top.k \in 1 .. Len(Top.ptrs) /\ Top.k \in 1 .. Len(Top.regs)
           /\ Top.ptrs[Top.k] \in Pointers /\ Top.regs[Top.k] \in Reg
           /\ Top.i \in Nat /\ Top.i + 1 <= MaxTrips
           /\ Top.regs[Top.k].id \in LoopIds
           /\ loopstate[Top.regs[Top.k].id] \in Slot
           /\ loopstate[Top.regs[Top.k].id].active
           /\ HoldOK(Top, Top.k, loopstate[Top.regs[Top.k].id])
           /\ Top.ptrs[Top.k].remote =>
                 \E c \in 0 .. Top.i :
                    Top.regs[Top.k].base = (Top.ptrs[Top.k].addr \div OBJ_SIZE)
                                             + c * Stride(Top.ptrs[Top.k].step)
           /\ ~Top.ptrs[Top.k].remote => Top.regs[Top.k].base = Stack
  <1>1. /\ Top \in Loop /\ LoopOK(Top) /\ Top = nest[Len(nest)]
        /\ Len(nest) \in 1 .. Len(nest) /\ NestInv
    BY NestTypes DEF LoopsInv
  <1>2. /\ Top.k \in 1 .. Len(Top.ptrs) /\ Top.k \in 1 .. Len(Top.regs)
        /\ Top.ptrs[Top.k] \in Pointers /\ Top.regs[Top.k] \in Reg
        /\ Top.i \in 0 .. MaxTrips
    BY <1>1, LoopTypes
  <1>3. Top.i + 1 <= MaxTrips /\ Top.i \in Nat
    BY <1>1, <1>2, LoopsAssumption DEF LoopOK
  <1>4. GivenBack = 0
    BY DEF GivenBack
  <1>5. Top.k > GivenBack
    BY <1>2, <1>4
  <1>6. Top.regs[Top.k].id \in LoopIds /\ loopstate[Top.regs[Top.k].id].active
    BY <1>1, <1>2, <1>5, SlotIsActive
  <1>7. loopstate[Top.regs[Top.k].id] \in Slot
    BY <1>6 DEF LoopsInv, TypeOK
  <1>8. HoldOK(Top, Top.k, loopstate[Top.regs[Top.k].id]) /\ CrossOK(Top, Top.k)
    BY <1>1, <1>2, <1>5 DEF LoopsInv, HoldInv, CrossInv
  <1>10. Steps(Top, Top.k) = Top.i
    BY <1>2 DEF Steps
  <1> QED
    BY <1>2, <1>3, <1>6, <1>7, <1>8, <1>10 DEF CrossOK

(* One more stride is one more crossing.                                   *)
LEMMA OneMore ==
    ASSUME NEW a \in Nat, NEW c \in Nat, NEW d \in Nat
    PROVE  (a + c * d) + d = a + (c + 1) * d
  OBVIOUS

(* The object a slot has ready is the one after the walk's. *)
LEMMA NextObject ==
    ASSUME NEW p \in Pointers, p.remote, NEW i \in Nat, i + 1 <= MaxTrips, NEW base, NEW c \in 0 .. i,
           base = (p.addr \div OBJ_SIZE) + c * Stride(p.step)
    PROVE  /\ base + Stride(p.step) \in Objects
           /\ \E e \in 0 .. i + 1 :
                 base + Stride(p.step) = (p.addr \div OBJ_SIZE) + e * Stride(p.step)
           /\ \E e \in 0 .. i + 1 :
                 base = (p.addr \div OBJ_SIZE) + e * Stride(p.step)
  <1>1. p.addr \div OBJ_SIZE \in Nat /\ Stride(p.step) \in Nat /\ MaxTrips \in Nat /\ c \in Nat
    BY AddressParts, LoopsAssumption
  <1>2. base + Stride(p.step) = (p.addr \div OBJ_SIZE) + (c + 1) * Stride(p.step)
    BY <1>1, OneMore
  <1>3. c + 1 \in 0 .. MaxTrips /\ c + 1 \in 0 .. i + 1 /\ c \in 0 .. i + 1
    BY <1>1
  <1>4. (p.addr \div OBJ_SIZE) + (c + 1) * Stride(p.step) \in Objects
    BY <1>3, WalkReaches
  <1> QED
    BY <1>2, <1>3, <1>4

(* What the check makes of a register, its slot and the pins. *)
NewReg(reg, p, slot) ==
    IF Crosses(reg, p)
    THEN [reg EXCEPT !.base = DerefLoopResult(slot).base, !.off = DerefLoopResult(slot).off,
                     !.bound = DerefLoopResult(slot).off + OBJ_SIZE]
    ELSE [reg EXCEPT !.off = @ + p.step]
NewSlot(reg, p, slot) == IF Crosses(reg, p) THEN DerefLoopSlot(slot) ELSE slot
NewPins(reg, p, slot) == IF Crosses(reg, p) THEN DerefLoopPins(slot) ELSE pins

(* A slot that holds the object of its pointer and knows the next, which   *)
(* the pointer may reach in iteration i + 1.                               *)
Holding(p, reg, slot, i) ==
    /\ slot.active /\ slot.carm_ptr = p.remote
    /\ p.remote => /\ slot.region_addr = reg.base
                   /\ slot.obj_index = reg.base + slot.stride
                   /\ slot.stride = Stride(p.step)
                   /\ slot.start_obj_index = p.addr \div OBJ_SIZE
                   /\ \E c \in 0 .. i :
                         reg.base = (p.addr \div OBJ_SIZE) + c * Stride(p.step)
    /\ ~p.remote => slot.region_addr = NoRegion /\ reg.base = Stack

(* The check keeps it that way. *)
LEMMA Advance ==
    ASSUME NEW p \in Pointers, NEW reg \in Reg, NEW slot \in Slot,
           NEW i \in Nat, i + 1 <= MaxTrips, pins \in [Objects -> Nat],
           Holding(p, reg, slot, i),
           NEW new, new = NewReg(reg, p, slot), NEW s, s = NewSlot(reg, p, slot),
           NEW pp, pp = NewPins(reg, p, slot)
    PROVE  /\ new \in Reg /\ s \in Slot /\ new.id = reg.id
           /\ pp = [o \in Objects |-> pp[o]]
           /\ \A o \in Objects : pp[o] =
                 pins[o] - (IF slot.region_addr = o THEN 1 ELSE 0)
                         + (IF s.region_addr = o THEN 1 ELSE 0)
           /\ Holding(p, new, s, i + 1)
  <1>1. p.step \in Nat /\ p.remote \in BOOLEAN /\ OBJ_SIZE \in Nat /\ reg.off \in Nat
    BY AddressParts DEF Reg
  <1>2. p.remote => /\ slot.obj_index \in Objects
                    /\ \E c \in 0 .. i + 1 :
                          slot.obj_index = (p.addr \div OBJ_SIZE) + c * Stride(p.step)
                    /\ \E c \in 0 .. i + 1 :
                          reg.base = (p.addr \div OBJ_SIZE) + c * Stride(p.step)
    <2> SUFFICES ASSUME p.remote
                 PROVE  /\ slot.obj_index \in Objects
                        /\ \E c \in 0 .. i + 1 :
                              slot.obj_index = (p.addr \div OBJ_SIZE) + c * Stride(p.step)
                        /\ \E c \in 0 .. i + 1 :
                              reg.base = (p.addr \div OBJ_SIZE) + c * Stride(p.step)
      OBVIOUS
    <2>1. PICK c \in 0 .. i : reg.base = (p.addr \div OBJ_SIZE) + c * Stride(p.step)
      BY DEF Holding
    <2>2. slot.obj_index = reg.base + Stride(p.step)
      BY DEF Holding
    <2> QED
      BY <2>1, <2>2, NextObject
  <1>3. slot.carm_ptr => slot.obj_index \in Objects
    BY <1>2 DEF Holding
  <1>4. CASE Crosses(reg, p)
    <2>1. s = DerefLoopSlot(slot) /\ pp = DerefLoopPins(slot)
      BY <1>4 DEF NewSlot, NewPins
    <2>2. PICK ptr : ptr = DerefLoopResult(slot)
      OBVIOUS
    <2>3. /\ ptr.base \in Objects \cup {Stack} /\ ptr.off \in Nat
          /\ ptr.base = IF p.remote THEN slot.obj_index ELSE Stack
      BY <1>3, <2>2, DerefResult DEF Holding
    <2>4. new = [reg EXCEPT !.base = ptr.base, !.off = ptr.off, !.bound = ptr.off + OBJ_SIZE]
      BY <1>4, <2>2 DEF NewReg
    <2>5. ptr.off + OBJ_SIZE \in Nat
      BY <1>1, <2>3
    <2>6. new \in Reg /\ new.id = reg.id /\ new.base = ptr.base
      BY <2>3, <2>4, <2>5 DEF Reg
    <2>7. /\ s \in Slot /\ s.active /\ s.carm_ptr = p.remote
          /\ p.remote => /\ s.region_addr = new.base /\ s.obj_index = new.base + s.stride
                         /\ s.stride = Stride(p.step)
                         /\ s.start_obj_index = p.addr \div OBJ_SIZE
          /\ ~p.remote => s.region_addr = NoRegion /\ new.base = Stack
      BY <1>3, <2>1, <2>3, <2>6, DerefSlot DEF Holding
    <2>8. /\ pp = [o \in Objects |-> pp[o]]
          /\ \A o \in Objects : pp[o] = pins[o] - (IF slot.region_addr = o THEN 1 ELSE 0)
                                                + (IF s.region_addr = o THEN 1 ELSE 0)
      BY <1>3, <2>1, DerefPins DEF Holding
    <2> QED
      BY <1>2, <2>3, <2>6, <2>7, <2>8 DEF Holding
  <1>5. CASE ~Crosses(reg, p)
    <2>1. s = slot /\ pp = pins /\ new = [reg EXCEPT !.off = @ + p.step]
      BY <1>5 DEF NewSlot, NewPins, NewReg
    <2>2. reg.off + p.step \in Nat
      BY <1>1
    <2>3. new \in Reg /\ new.id = reg.id /\ new.base = reg.base
      BY <2>1, <2>2 DEF Reg
    <2>4. /\ pp = [o \in Objects |-> pp[o]]
          /\ \A o \in Objects : pp[o] = pins[o] - (IF slot.region_addr = o THEN 1 ELSE 0)
                                                + (IF s.region_addr = o THEN 1 ELSE 0)
      BY <2>1
    <2> QED
      BY <1>2, <2>1, <2>3, <2>4 DEF Holding
  <1> QED
    BY <1>4, <1>5

(* The innermost loop after the check of its pointer k. *)
Checked(L, k, new) ==
    [L EXCEPT !.regs[k] = new,
              !.at = IF k = Len(L.ptrs) THEN "body" ELSE "check",
              !.k = IF k = Len(L.ptrs) THEN 1 ELSE @ + 1,
              !.i = IF k = Len(L.ptrs) THEN @ + 1 ELSE @]

(* It goes to the next pointer, and to the body after the last. *)
LEMMA CheckedLoop ==
    ASSUME NEW L \in Loop, LoopOK(L), L.at = "check", NEW k, k = L.k,
           NEW new \in Reg, new.id = L.regs[k].id,
           NEW l, l = Checked(L, k, new)
    PROVE  /\ l \in Loop /\ LoopOK(l) /\ l.at # "exit" /\ l.outer = L.outer
           /\ l.ptrs = L.ptrs /\ Len(l.regs) = Len(L.regs) /\ Len(L.regs) = Len(L.ptrs)
           /\ \A j \in 1 .. Len(L.regs) :
                 /\ l.regs[j] = IF j = k THEN new ELSE L.regs[j]
                 /\ l.regs[j].id = L.regs[j].id
                 /\ Steps(l, j) = IF j <= k THEN L.i + 1 ELSE L.i
                 /\ Steps(L, j) = IF j < k THEN L.i + 1 ELSE L.i
  <1>1. /\ L.ptrs \in Seq(Pointers) /\ L.regs \in Seq(Reg) /\ L.k \in Nat /\ L.i \in Nat
        /\ k \in 1 .. Len(L.ptrs) /\ Len(L.regs) = Len(L.ptrs) /\ Len(L.ptrs) \in Nat
        /\ L.i < MaxTrips /\ MaxTrips \in Nat
    BY LoopsAssumption DEF Loop, LoopOK
  <1>2. PICK regs : regs = [L.regs EXCEPT ![k] = new]
    OBVIOUS
  <1>3. /\ regs \in Seq(Reg) /\ Len(regs) = Len(L.regs)
        /\ \A j \in 1 .. Len(L.regs) : regs[j] = IF j = k THEN new ELSE L.regs[j]
    BY <1>1, <1>2
  <1>4. /\ l.regs = regs /\ l.ptrs = L.ptrs
        /\ l.at = IF k = Len(L.ptrs) THEN "body" ELSE "check"
        /\ l.k = IF k = Len(L.ptrs) THEN 1 ELSE k + 1
        /\ l.i = IF k = Len(L.ptrs) THEN L.i + 1 ELSE L.i
        /\ l.outer = L.outer /\ L.outer \in Nat
        /\ l = [at |-> l.at, k |-> l.k, i |-> l.i, ptrs |-> l.ptrs, regs |-> l.regs,
              outer |-> l.outer]
    BY <1>2 DEF Loop, Checked
  <1>5. l \in Loop
    <2>1. /\ l.at \in {"header", "body", "check", "exit"} /\ l.k \in Nat /\ l.i \in Nat
          /\ l.ptrs \in Seq(Pointers) /\ l.regs \in Seq(Reg)
      BY <1>1, <1>3, <1>4
    <2> QED
      BY <1>4, <2>1 DEF Loop
  <1>6. LoopOK(l)
    BY <1>1, <1>3, <1>4 DEF LoopOK
  <1>7. ASSUME NEW j \in 1 .. Len(L.regs)
        PROVE  /\ Steps(l, j) = IF j <= k THEN L.i + 1 ELSE L.i
               /\ Steps(L, j) = IF j < k THEN L.i + 1 ELSE L.i
    BY <1>1, <1>4 DEF Steps
  <1>8. \A j \in 1 .. Len(L.regs) : l.regs[j].id = L.regs[j].id
    BY <1>3, <1>4
  <1> QED
    BY <1>1, <1>3, <1>4, <1>5, <1>6, <1>7, <1>8

(* The check moves one pointer on and leaves the others alone. *)
LEMMA CheckStep ==
    ASSUME LoopsInv, Check
    PROVE  LoopsInv'
  <1>T. PICK T \in Nat : T = Len(nest)
    BY NestTypes DEF LoopsInv
  <1>1. /\ nest # <<>> /\ Top.at = "check" /\ Top \in Loop /\ LoopOK(Top)
        /\ Top = nest[T] /\ T \in 1 .. T /\ loop_id_cnt' = loop_id_cnt
        /\ Top.k \in Nat
    <2>1. nest # <<>> /\ Top.at = "check" /\ loop_id_cnt' = loop_id_cnt
      BY DEF Check
    <2>2. Top \in Loop /\ LoopOK(Top) /\ Top = nest[T] /\ T \in 1 .. T
      BY <1>T, <2>1, NestTypes DEF LoopsInv
    <2> QED
      BY <2>1, <2>2 DEF Loop
  <1>L. PICK L \in Loop : L = Top
    BY <1>1
  <1>k. PICK k \in Nat : k = L.k
    BY <1>1, <1>L
  <1>p. PICK p \in Pointers : p = L.ptrs[k]
    BY <1>1, <1>L, <1>k, CheckStart
  <1>r. PICK reg \in Reg : reg = L.regs[k]
    BY <1>1, <1>L, <1>k, CheckStart
  <1>i. PICK i \in Nat : i = L.i
    BY <1>1, <1>L, CheckStart
  <1>2. /\ k \in 1 .. Len(L.ptrs) /\ k \in 1 .. Len(L.regs) /\ i + 1 <= MaxTrips
        /\ reg.id \in LoopIds /\ loopstate[reg.id] \in Slot /\ loopstate[reg.id].active
        /\ HoldOK(L, k, loopstate[reg.id])
        /\ p.remote => \E c \in 0 .. i : reg.base = (p.addr \div OBJ_SIZE) + c * Stride(p.step)
        /\ ~p.remote => reg.base = Stack
    BY <1>1, <1>L, <1>k, <1>p, <1>r, <1>i, CheckStart
  <1>s. PICK slot \in Slot : slot = loopstate[reg.id]
    BY <1>2
  <1>3. Holding(p, reg, slot, i)
    BY <1>p, <1>r, <1>s, <1>2 DEF HoldOK, Holding
  <1>4. PICK new : new = NewReg(reg, p, slot)
    OBVIOUS
  <1>5. PICK s : s = NewSlot(reg, p, slot)
    OBVIOUS
  <1>6. PICK pp : pp = NewPins(reg, p, slot)
    OBVIOUS
  <1>7. PICK l : l = Checked(L, k, new)
    OBVIOUS
  <1>8. loopstate \in [LoopIds -> Slot] /\ pins \in [Objects -> Nat]
    BY DEF LoopsInv, TypeOK
  <1>9. SetTop(l) /\ pins' = pp /\ loopstate' = [loopstate EXCEPT ![reg.id] = s]
    <2>1. SetTop(l)
      BY <1>L, <1>k, <1>p, <1>r, <1>s, <1>4, <1>7 DEF Check, NewReg, Checked
    <2>2. CASE Crosses(reg, p)
      BY <1>L, <1>k, <1>p, <1>r, <1>s, <1>5, <1>6, <2>1, <2>2 DEF Check, NewSlot, NewPins
    <2>3. CASE ~Crosses(reg, p)
      <3>1. pins' = pins /\ loopstate' = loopstate
        BY <1>L, <1>k, <1>p, <1>r, <2>3 DEF Check
      <3> QED
        BY <1>s, <1>5, <1>6, <1>8, <2>1, <2>3, <3>1 DEF NewSlot, NewPins
    <2> QED
      BY <2>2, <2>3
  <1>10. /\ new \in Reg /\ s \in Slot /\ new.id = reg.id
         /\ pp = [o \in Objects |-> pp[o]]
         /\ \A o \in Objects : pp[o] =
               pins[o] - (IF slot.region_addr = o THEN 1 ELSE 0)
                       + (IF s.region_addr = o THEN 1 ELSE 0)
         /\ Holding(p, new, s, i + 1)
    BY <1>2, <1>3, <1>4, <1>5, <1>6, <1>8, Advance
  <1>11. /\ l \in Loop /\ LoopOK(l) /\ l.at # "exit" /\ l.outer = L.outer
         /\ l.ptrs = L.ptrs /\ Len(l.regs) = Len(L.regs) /\ Len(L.regs) = Len(L.ptrs)
         /\ \A j \in 1 .. Len(L.regs) :
               /\ l.regs[j] = IF j = k THEN new ELSE L.regs[j]
               /\ l.regs[j].id = L.regs[j].id
               /\ Steps(l, j) = IF j <= k THEN L.i + 1 ELSE L.i
               /\ Steps(L, j) = IF j < k THEN L.i + 1 ELSE L.i
    <2>1. LoopOK(L) /\ L.at = "check" /\ new.id = L.regs[k].id /\ new \in Reg
      BY <1>1, <1>L, <1>r, <1>10
    <2> QED
      BY <1>k, <1>7, <2>1, CheckedLoop
  <1>12. /\ NestInv' /\ SlotInv' /\ GivenBack = 0 /\ GivenBack' = 0
         /\ nest' # <<>> /\ Len(nest') = T /\ Top' = l
         /\ \A n \in 1 .. T : nest'[n] = IF n = T THEN l ELSE nest[n]
    BY <1>T, <1>L, <1>1, <1>9, <1>11, TopStep
  <1>13. PinsBalanced' /\ \A o \in Objects : pins'[o] \in Nat
    <2>1. \A o \in Objects : pins'[o] =
             pins[o] - (IF loopstate[reg.id].active /\ loopstate[reg.id].region_addr = o THEN 1 ELSE 0)
                     + (IF s.active /\ s.region_addr = o THEN 1 ELSE 0)
      BY <1>s, <1>2, <1>9, <1>10 DEF Holding
    <2>2. /\ TypeOK /\ PinsBalanced /\ reg.id \in LoopIds /\ s \in Slot
          /\ loopstate' = [loopstate EXCEPT ![reg.id] = s]
      BY <1>2, <1>9, <1>10 DEF LoopsInv
    <2> QED
      BY <2>1, <2>2, PinsFollow
  <1>14. loopstate' \in [LoopIds -> Slot] /\ pins' \in [Objects -> Nat]
    BY <1>2, <1>8, <1>9, <1>10, <1>13
  <1>15. TypeOK'
    BY <1>1, <1>12, <1>14, TypeNext DEF LoopsInv, TypeOK
  <1>16. /\ loopstate'[reg.id] = s /\ \A id \in LoopIds \ {reg.id} : loopstate'[id] = loopstate[id]
         /\ \A id \in LoopIds : loopstate'[id].active = loopstate[id].active
    BY <1>2, <1>8, <1>9, <1>10 DEF Holding
  <1>17. ActiveInv'
    BY <1>1, <1>12, <1>16 DEF LoopsInv, ActiveInv
  <1>18. HoldInv' /\ CrossInv'
    <2> SUFFICES ASSUME NEW n \in 1 .. T, NEW j \in 1 .. Len(nest'[n].regs)
                 PROVE  /\ HoldOK(nest'[n], j, loopstate'[nest'[n].regs[j].id])
                        /\ CrossOK(nest'[n], j)
      BY <1>12 DEF HoldInv, CrossInv
    <2>1. j \in 1 .. Len(nest[n].regs) /\ (n = T => j > GivenBack)
      BY <1>1, <1>2, <1>L, <1>11, <1>12
    <2>2. /\ HoldOK(nest[n], j, loopstate[nest[n].regs[j].id]) /\ CrossOK(nest[n], j)
          /\ nest[n].regs[j].id \in LoopIds
      BY <1>T, <1>12, <2>1, SlotIsActive DEF LoopsInv, HoldInv, CrossInv
    <2>3. ~(n = T /\ j = k) => nest[n].regs[j].id # reg.id
      BY <1>T, <1>L, <1>r, <1>1, <1>2, <2>1, SlotsApart
    <2>4. CASE n # T
      BY <1>12, <1>16, <2>2, <2>3, <2>4
    <2>5. CASE n = T /\ j # k
      <3>1. /\ nest'[n] = l /\ nest[n] = L /\ l.regs[j] = L.regs[j] /\ l.ptrs = L.ptrs
            /\ Steps(l, j) = Steps(L, j)
        BY <1>L, <1>k, <1>1, <1>2, <1>i, <1>11, <1>12, <2>1, <2>5
      <3>2. loopstate'[l.regs[j].id] = loopstate[L.regs[j].id]
        BY <1>16, <2>2, <2>3, <2>5, <3>1
      <3>3. CrossOK(l, j)
        BY <2>2, <3>1 DEF CrossOK
      <3>4. HoldOK(l, j, loopstate[L.regs[j].id])
        BY <2>2, <3>1 DEF HoldOK
      <3> QED
        BY <3>1, <3>2, <3>3, <3>4
    <2>6. CASE n = T /\ j = k
      <3>1. nest'[n] = l /\ l.regs[j] = new /\ l.ptrs[j] = p /\ Steps(l, j) = i + 1
        BY <1>i, <1>p, <1>2, <1>11, <1>12, <2>6
      <3>2. loopstate'[l.regs[j].id] = s
        BY <1>10, <1>16, <3>1
      <3>3. CrossOK(l, j)
        BY <1>10, <3>1 DEF CrossOK, Holding
      <3>4. HoldOK(l, j, s)
        BY <1>10, <3>1 DEF HoldOK, Holding
      <3> QED
        BY <3>1, <3>2, <3>3, <3>4
    <2> QED
      BY <2>4, <2>5, <2>6
  <1> QED
    BY <1>12, <1>13, <1>15, <1>17, <1>18 DEF LoopsInv

-----------------------------------------------------------------------------
(* The first dereference in the header *)

(* carm_loop_init makes the slot active, with the object of the pointer.   *)
LEMMA InitSlotHolds ==
    ASSUME NEW p \in Pointers, NEW old \in Slot, NEW slot, slot = InitSlot(p, old)
    PROVE  /\ slot \in Slot /\ slot.active /\ slot.carm_ptr = p.remote
           /\ slot.region_addr = NoRegion
           /\ p.remote => /\ slot.obj_index = p.addr \div OBJ_SIZE
                          /\ slot.obj_index \in Objects
                          /\ slot.start_obj_index = p.addr \div OBJ_SIZE
                          /\ slot.stride = Stride(p.step)
  <1>1. /\ p.addr \in Nat /\ p.remote \in BOOLEAN /\ p.addr \div OBJ_SIZE \in Nat
        /\ p.addr % OBJ_SIZE \in 0 .. OBJ_SIZE - 1 /\ Stride(p.step) \in Nat
    BY AddressParts
  <1>2. PICK a \in Nat : a = p.addr \div OBJ_SIZE
    BY <1>1
  <1>3. PICK r \in 0 .. OBJ_SIZE - 1 : r = p.addr % OBJ_SIZE
    BY <1>1
  <1>4. PICK d \in Nat : d = Stride(p.step)
    BY <1>1
  <1>5. CASE p.remote
    <2>1. slot = [old EXCEPT !.active = TRUE, !.carm_ptr = TRUE, !.obj_index = a,
                             !.region_addr = NoRegion, !.start_obj_index = a,
                             !.start_obj_offset = r, !.stride = d]
      BY <1>2, <1>3, <1>4, <1>5 DEF InitSlot
    <2>2. /\ slot \in Slot /\ slot.active /\ slot.carm_ptr = TRUE
          /\ slot.region_addr = NoRegion /\ slot.obj_index = a /\ slot.start_obj_index = a
          /\ slot.stride = d
      BY <2>1 DEF Slot
    <2>3. a + 0 * d \in Objects
      <3>1. 0 \in 0 .. MaxTrips
        BY LoopsAssumption
      <3> QED
        BY <1>2, <1>4, <1>5, <3>1, WalkReaches
    <2>4. a + 0 * d = a
      OBVIOUS
    <2> QED
      BY <1>2, <1>4, <1>5, <2>2, <2>3, <2>4
  <1>6. CASE ~p.remote
    <2>1. slot = [old EXCEPT !.active = TRUE, !.carm_ptr = FALSE, !.obj_index = 0,
                             !.region_addr = NoRegion, !.stack_addr = p.addr]
      BY <1>6 DEF InitSlot
    <2>2. /\ slot \in Slot /\ slot.active /\ ~slot.carm_ptr
          /\ slot.region_addr = NoRegion
      <3>1. PICK x \in Nat : x = p.addr
        BY <1>1
      <3>2. slot = [old EXCEPT !.active = TRUE, !.carm_ptr = FALSE, !.obj_index = 0,
                               !.region_addr = NoRegion, !.stack_addr = x]
        BY <2>1, <3>1
      <3>3. /\ slot.active /\ ~slot.carm_ptr /\ slot.region_addr = NoRegion
            /\ slot = [active |-> TRUE, carm_ptr |-> FALSE, stack_addr |-> x, obj_index |-> 0,
                       start_obj_index |-> old.start_obj_index,
                       start_obj_offset |-> old.start_obj_offset,
                       region_addr |-> NoRegion, stride |-> old.stride]
        BY <3>2 DEF Slot
      <3> QED
        BY <3>3 DEF Slot
    <2>3. slot.carm_ptr = p.remote
      <3>1. slot.carm_ptr \in BOOLEAN /\ p.remote \in BOOLEAN
        BY <1>1, <2>2 DEF Slot
      <3> QED
        BY <1>6, <2>2, <3>1
    <2> QED
      BY <1>6, <2>2, <2>3
  <1> QED
    BY <1>1, <1>5, <1>6

(* The first dereference leaves the slot with that object. *)
LEMMA FirstHeld ==
    ASSUME NEW p \in Pointers, NEW old \in Slot, NEW slot, slot = InitSlot(p, old),
           NEW reg, reg.base = DerefLoopResult(slot).base,
           NEW s, s = DerefLoopSlot(slot), NEW i \in Nat
    PROVE  s \in Slot /\ Holding(p, reg, s, i)
  <1>1. /\ slot \in Slot /\ slot.active /\ slot.carm_ptr = p.remote
        /\ slot.region_addr = NoRegion
        /\ p.remote => /\ slot.obj_index = p.addr \div OBJ_SIZE
                       /\ slot.obj_index \in Objects
                       /\ slot.start_obj_index = p.addr \div OBJ_SIZE
                       /\ slot.stride = Stride(p.step)
    BY InitSlotHolds
  <1>2. reg.base = IF p.remote THEN slot.obj_index ELSE Stack
    BY <1>1, DerefResult
  <1>3. /\ s \in Slot /\ s.active = slot.active /\ s.carm_ptr = slot.carm_ptr
        /\ s.stride = slot.stride /\ s.start_obj_index = slot.start_obj_index
        /\ slot.carm_ptr => /\ s.region_addr = slot.obj_index
                            /\ s.obj_index = slot.obj_index + slot.stride
        /\ ~slot.carm_ptr => s.region_addr = slot.region_addr
    BY <1>1, DerefSlot
  <1>4. p.remote => \E c \in 0 .. i : reg.base = (p.addr \div OBJ_SIZE) + c * Stride(p.step)
    <2>1. /\ p.addr \div OBJ_SIZE \in Nat /\ Stride(p.step) \in Nat
      BY AddressParts
    <2>2. (p.addr \div OBJ_SIZE) + 0 * Stride(p.step) = p.addr \div OBJ_SIZE
      BY <2>1
    <2>3. 0 \in 0 .. i
      OBVIOUS
    <2> QED
      BY <1>1, <1>2, <2>2, <2>3
  <1> QED
    BY <1>1, <1>2, <1>3, <1>4 DEF Holding

(* The innermost loop after the header has set up a pointer. *)
Started(L, reg) ==
    [L EXCEPT !.regs = Append(@, reg),
              !.at = IF L.k = Len(L.ptrs) THEN "body" ELSE "header",
              !.k = IF L.k = Len(L.ptrs) THEN 1 ELSE @ + 1]

(* It has one more register. *)
LEMMA StartedLoop ==
    ASSUME NEW L \in Loop, LoopOK(L), L.at = "header", NEW reg \in Reg,
           NEW l, l = Started(L, reg)
    PROVE  /\ l \in Loop /\ LoopOK(l) /\ l.at \in {"header", "body"} /\ l.i = L.i
           /\ l.outer = L.outer
           /\ l.ptrs = L.ptrs /\ Len(L.regs) \in Nat /\ Len(l.regs) = Len(L.regs) + 1
           /\ Len(L.regs) = L.k - 1 /\ L.k \in 1 .. Len(L.ptrs) /\ Len(L.ptrs) \in Nat
           /\ l.regs[Len(L.regs) + 1] = reg
           /\ \A j \in 1 .. Len(L.regs) : l.regs[j] = L.regs[j]
  <1>1. /\ L.ptrs \in Seq(Pointers) /\ L.regs \in Seq(Reg) /\ L.k \in Nat /\ L.i \in Nat
        /\ L.k \in 1 .. Len(L.ptrs) /\ Len(L.regs) = L.k - 1 /\ Len(L.ptrs) \in Nat
        /\ L.i <= MaxTrips /\ MaxTrips \in Nat
    BY LoopsAssumption DEF Loop, LoopOK
  <1>2. PICK regs : regs = Append(L.regs, reg)
    OBVIOUS
  <1>3. /\ regs \in Seq(Reg) /\ Len(regs) = Len(L.regs) + 1 /\ Len(L.regs) \in Nat
        /\ regs[Len(L.regs) + 1] = reg
        /\ \A j \in 1 .. Len(L.regs) : regs[j] = L.regs[j]
    BY <1>1, <1>2
  <1>4. /\ l.regs = regs /\ l.ptrs = L.ptrs /\ l.i = L.i
        /\ l.outer = L.outer /\ L.outer \in Nat
        /\ l.at = IF L.k = Len(L.ptrs) THEN "body" ELSE "header"
        /\ l.k = IF L.k = Len(L.ptrs) THEN 1 ELSE L.k + 1
        /\ l = [at |-> l.at, k |-> l.k, i |-> l.i, ptrs |-> l.ptrs, regs |-> l.regs,
              outer |-> l.outer]
    BY <1>2 DEF Loop, Started
  <1>5. l \in Loop
    <2>1. /\ l.at \in {"header", "body", "check", "exit"} /\ l.k \in Nat /\ l.i \in Nat
          /\ l.ptrs \in Seq(Pointers) /\ l.regs \in Seq(Reg)
      BY <1>1, <1>3, <1>4
    <2> QED
      BY <1>4, <2>1 DEF Loop
  <1>6. LoopOK(l)
    <2>1. CASE L.k = Len(L.ptrs)
      <3>1. l.at = "body" /\ l.k = 1 /\ Len(l.regs) = Len(l.ptrs) /\ Len(l.ptrs) \in Nat \ {0}
        BY <1>1, <1>3, <1>4, <2>1
      <3> QED
        BY <1>1, <1>4, <3>1 DEF LoopOK
    <2>2. CASE L.k # Len(L.ptrs)
      <3>1. l.at = "header" /\ l.k = L.k + 1 /\ l.ptrs = L.ptrs
        BY <1>4, <2>2
      <3>2. Len(l.regs) = L.k
        BY <1>1, <1>3, <1>4
      <3>3. L.k \in 1 .. Len(L.ptrs)
        BY <1>1 DEF LoopOK
      <3>4. L.k + 1 \in 1 .. Len(L.ptrs)
        BY <1>1, <2>2, <3>3
      <3>5. l.k \in 1 .. Len(l.ptrs)
        BY <3>1, <3>4
      <3> QED
        BY <1>1, <1>4, <3>1, <3>2, <3>5 DEF LoopOK
    <2> QED
      BY <2>1, <2>2
  <1> QED
    BY <1>1, <1>3, <1>4, <1>5, <1>6

(* The header finds a free slot: the next one. *)
LEMMA HeaderStart ==
    ASSUME LoopsInv, nest # <<>>, Top.at = "header"
    PROVE  /\ Top \in Loop /\ LoopOK(Top) /\ Top = nest[Len(nest)]
           /\ Len(nest) \in 1 .. Len(nest) /\ GivenBack = 0
           /\ Base(Len(nest)) \in Nat /\ Len(Top.regs) \in Nat
           /\ loop_id_cnt = Base(Len(nest)) + Len(Top.regs)
           /\ loop_id_cnt \in LoopIds /\ loop_id_cnt \in Nat
           /\ Top.k \in 1 .. Len(Top.ptrs) /\ Top.ptrs[Top.k] \in Pointers
           /\ ~loopstate[loop_id_cnt].active
  <1>1. /\ Top \in Loop /\ LoopOK(Top) /\ Top = nest[Len(nest)] /\ NestInv
        /\ Len(nest) \in 1 .. Len(nest) /\ loop_id_cnt \in Nat
    BY NestTypes, LoopsAssumption DEF LoopsInv, TypeOK
  <1>2. GivenBack = 0
    BY DEF GivenBack
  <1>3. /\ Base(Len(nest)) \in Nat /\ Len(Top.regs) \in Nat /\ Len(Top.ptrs) \in Nat
    BY <1>1, BaseTypes
  <1>4. /\ loop_id_cnt = Base(Len(nest)) + Len(Top.regs) - 0
        /\ Base(Len(nest)) + Len(Top.ptrs) <= MAX_LOOPS
    BY <1>1, <1>2 DEF LoopsInv, SlotInv
  <1>5. /\ Top.k \in 1 .. Len(Top.ptrs) /\ Top.ptrs[Top.k] \in Pointers
        /\ Len(Top.regs) = Top.k - 1
    BY <1>1, LoopTypes DEF LoopOK
  <1>6. loop_id_cnt \in LoopIds
    <2>1. MAX_LOOPS \in Nat
      BY LoopsAssumption
    <2>2. loop_id_cnt = Base(Len(nest)) + (Top.k - 1) /\ Top.k <= Len(Top.ptrs)
      BY <1>3, <1>4, <1>5
    <2>3. loop_id_cnt < MAX_LOOPS
      BY <1>3, <1>4, <1>5, <2>1, <2>2
    <2> QED
      BY <1>1, <2>1, <2>3 DEF LoopIds
  <1>7. ~loopstate[loop_id_cnt].active
    BY <1>1, <1>2, <1>6 DEF LoopsInv, ActiveInv
  <1> QED
    BY <1>1, <1>2, <1>3, <1>4, <1>5, <1>6, <1>7

(* The header takes the next slot for a pointer. *)
LEMMA HeaderStep ==
    ASSUME LoopsInv, Header
    PROVE  LoopsInv'
  <1>T. PICK T \in Nat : T = Len(nest)
    BY NestTypes DEF LoopsInv
  <1>0. nest # <<>> /\ Top.at = "header" /\ loop_id_cnt' = loop_id_cnt + 1
    BY DEF Header
  <1>1. /\ Top \in Loop /\ LoopOK(Top) /\ Top = nest[T] /\ T \in 1 .. T /\ GivenBack = 0
        /\ Base(T) \in Nat /\ Len(Top.regs) \in Nat /\ loop_id_cnt = Base(T) + Len(Top.regs)
        /\ loop_id_cnt \in LoopIds /\ loop_id_cnt \in Nat /\ ~loopstate[loop_id_cnt].active
        /\ Top.k \in 1 .. Len(Top.ptrs) /\ Top.ptrs[Top.k] \in Pointers
    BY <1>0, <1>T, HeaderStart
  <1>L. PICK L \in Loop : L = Top
    BY <1>1
  <1>p. PICK p \in Pointers : p = L.ptrs[L.k]
    BY <1>1, <1>L
  <1>c. PICK cnt \in LoopIds : cnt = loop_id_cnt
    BY <1>1
  <1>2. loopstate \in [LoopIds -> Slot] /\ pins \in [Objects -> Nat]
    BY DEF LoopsInv, TypeOK
  <1>o. PICK old \in Slot : old = loopstate[cnt]
    BY <1>2
  <1>s. PICK slot : slot = InitSlot(p, old)
    OBVIOUS
  <1>3. PICK s : s = DerefLoopSlot(slot)
    OBVIOUS
  <1>4. PICK reg : reg = [id |-> InitResult(p) \div (2 ^ LOOP_ID_POS),
                          base |-> DerefLoopResult(slot).base, off |-> DerefLoopResult(slot).off,
                          bound |-> DerefLoopResult(slot).off + (InitResult(p) % (2 ^ LOOP_ID_POS))]
    OBVIOUS
  <1>5. PICK l : l = Started(L, reg)
    OBVIOUS
  <1>6. /\ SetTop(l) /\ loopstate' = [loopstate EXCEPT ![cnt] = s]
        /\ pins' = DerefLoopPins(slot)
    BY <1>L, <1>p, <1>c, <1>o, <1>s, <1>3, <1>4, <1>5 DEF Header, Started
  <1>7. /\ slot \in Slot /\ slot.region_addr = NoRegion
        /\ slot.carm_ptr => slot.obj_index \in Objects
    BY <1>s, InitSlotHolds
  <1>8. reg \in Reg /\ reg.id = cnt /\ reg.base = DerefLoopResult(slot).base
    <2>1. PICK ptr : ptr = DerefLoopResult(slot)
      OBVIOUS
    <2>2. ptr.base \in Objects \cup {Stack} /\ ptr.off \in Nat
      BY <1>7, <2>1, DerefResult
    <2>3. PICK b : b = InitResult(p) % (2 ^ LOOP_ID_POS)
      OBVIOUS
    <2>4. InitResult(p) \div (2 ^ LOOP_ID_POS) = cnt /\ b \in Nat
      <3>1. /\ InitResult(p) \div (2 ^ LOOP_ID_POS) = cnt /\ StackBound \in Nat
            /\ b = IF p.remote THEN OBJ_SIZE - (p.addr % OBJ_SIZE) ELSE StackBound
        BY <1>1, <1>c, <2>3, InitResultParts
      <3>2. OBJ_SIZE \in Nat /\ p.addr % OBJ_SIZE \in 0 .. OBJ_SIZE - 1
        BY AddressParts
      <3> QED
        BY <3>1, <3>2
    <2>5. reg = [id |-> cnt, base |-> ptr.base, off |-> ptr.off, bound |-> ptr.off + b]
      BY <1>4, <2>1, <2>3, <2>4
    <2>6. ptr.off + b \in Nat
      BY <2>2, <2>4
    <2> QED
      BY <2>1, <2>2, <2>5, <2>6 DEF Reg
  <1>9. ASSUME NEW i \in Nat PROVE s \in Slot /\ Holding(p, reg, s, i)
    BY <1>s, <1>3, <1>8, FirstHeld
  <1>10. s \in Slot /\ s.active
    BY <1>9 DEF Holding
  <1>11. /\ l \in Loop /\ LoopOK(l) /\ l.at \in {"header", "body"} /\ l.i = L.i /\ l.outer = L.outer
         /\ l.ptrs = L.ptrs /\ Len(L.regs) \in Nat /\ Len(l.regs) = Len(L.regs) + 1
         /\ Len(L.regs) = L.k - 1 /\ L.k \in 1 .. Len(L.ptrs) /\ Len(L.ptrs) \in Nat
         /\ l.regs[Len(L.regs) + 1] = reg
         /\ \A j \in 1 .. Len(L.regs) : l.regs[j] = L.regs[j]
    <2>1. LoopOK(L) /\ L.at = "header" /\ reg \in Reg
      BY <1>0, <1>1, <1>L, <1>8
    <2> QED
      BY <1>5, <2>1, StartedLoop
  <1>12. /\ nest' \in Seq(Loop) /\ nest' # <<>> /\ Len(nest') = T
         /\ nest'[T] = l /\ \A n \in 1 .. T : n # T => nest'[n] = nest[n]
         /\ Top' = l /\ GivenBack' = 0
    <2>1. nest \in Seq(Loop)
      BY DEF LoopsInv, NestInv
    <2>2. /\ nest' \in Seq(Loop) /\ nest' # <<>> /\ Len(nest') = T
          /\ nest'[T] = l /\ \A n \in 1 .. T : n # T => nest'[n] = nest[n]
      BY <1>0, <1>T, <1>6, <1>11, <2>1, NestTop
    <2>3. Top' = l
      BY <2>2 DEF Top
    <2> QED
      BY <1>11, <2>2, <2>3 DEF GivenBack
  <1>13. NestInv'
    <2> SUFFICES ASSUME NEW n \in 1 .. T
                 PROVE  LoopOK(nest'[n]) /\ (n < T => nest'[n].at = "body")
      BY <1>12 DEF NestInv
    <2>1. CASE n = T
      BY <1>11, <1>12, <2>1
    <2>2. CASE n # T
      BY <1>T, <1>12, <2>2 DEF LoopsInv, NestInv
    <2> QED
      BY <2>1, <2>2
  <1>14. PinsBalanced' /\ \A o \in Objects : pins'[o] \in Nat
    <2>1. ASSUME NEW o \in Objects
          PROVE  pins'[o] =
             pins[o] - (IF loopstate[cnt].active /\ loopstate[cnt].region_addr = o THEN 1 ELSE 0)
                     + (IF s.active /\ s.region_addr = o THEN 1 ELSE 0)
      <3>1. NoRegion # o /\ pins[o] \in Nat
        BY <1>2, LoopsAssumption
      <3>2. pins'[o] = pins[o] - (IF slot.region_addr = o THEN 1 ELSE 0)
                               + (IF s.region_addr = o THEN 1 ELSE 0)
        BY <1>2, <1>3, <1>6, <1>7, DerefPins
      <3> QED
        BY <1>1, <1>c, <1>7, <1>10, <3>1, <3>2
    <2> QED
      BY <1>6, <1>10, <2>1, PinsFollow DEF LoopsInv
  <1>15. loopstate' \in [LoopIds -> Slot] /\ pins' \in [Objects -> Nat]
    <2>1. pins' = [o \in Objects |-> pins'[o]]
      BY <1>2, <1>6, <1>7, DerefPins
    <2> QED
      BY <1>2, <1>6, <1>10, <1>14, <2>1
  <1>16. TypeOK'
    <2>1. loop_id_cnt' \in 0 .. MAX_LOOPS
      <3>1. MAX_LOOPS \in Nat
        BY LoopsAssumption
      <3> QED
        BY <1>0, <1>c, <3>1 DEF LoopIds
    <2> QED
      BY <1>13, <1>15, <2>1, TypeNext
  <1>17. /\ loopstate'[cnt] = s /\ \A id \in LoopIds \ {cnt} : loopstate'[id] = loopstate[id]
    BY <1>2, <1>6
  <1>18. ASSUME NEW n \in 1 .. T PROVE Base(n)' = Base(n)
    <2>1. CASE n = T
      <3>1. l.regs # <<>> /\ 1 \in 1 .. Len(L.regs) + 1
        BY <1>11
      <3>2. Base(n)' = l.regs[1].id
        BY <1>12, <2>1, <3>1 DEF Base
      <3>3. CASE L.regs = <<>>
        <4>1. Len(L.regs) = 0
          BY <3>3
        <4>2. l.regs[1] = reg
          <5>1. Len(L.regs) + 1 = 1
            BY <4>1
          <5>2. l.regs[Len(L.regs) + 1] = reg
            BY <1>11
          <5> QED
            BY <5>1, <5>2
        <4>3. nest[n].regs = <<>>
          BY <1>1, <1>L, <2>1, <3>3
        <4>4. Base(n) = cnt
          BY <1>c, <4>3 DEF Base
        <4> QED
          BY <1>8, <3>2, <4>2, <4>4
      <3>4. CASE L.regs # <<>>
        <4>1. L.regs \in Seq(Reg)
          BY DEF Loop
        <4>2. 1 \in 1 .. Len(L.regs)
          BY <3>4, <4>1
        <4> QED
          BY <1>1, <1>L, <1>11, <2>1, <3>2, <3>4, <4>2 DEF Base
      <3> QED
        BY <3>3, <3>4
    <2>2. CASE n # T
      <3>1. nest[n] \in Loop /\ LoopOK(nest[n]) /\ nest[n].at = "body"
        BY <1>T, <2>2, NestTypes DEF LoopsInv, NestInv
      <3>2. nest[n].regs # <<>>
        BY <3>1, LoopTypes
      <3> QED
        BY <1>12, <2>2, <3>2 DEF Base
    <2> QED
      BY <2>1, <2>2
  <1>19. \A n \in 1 .. T : Base(n) \in Nat /\ Len(nest[n].regs) \in Nat
    BY <1>T, <1>1, BaseTypes DEF LoopsInv
  <1>20. SlotInv'
    <2> SUFFICES ASSUME NEW n \in 1 .. T
                 PROVE  /\ n = 1 => Base(n)' = 0
                        /\ n = T => /\ loop_id_cnt' = Base(n)' + Len(nest'[n].regs) - GivenBack'
                                    /\ Base(n)' + Len(nest'[n].ptrs) <= MAX_LOOPS
                        /\ n < T => Base(n + 1)' = Base(n)' + Len(nest'[n].regs)
                        /\ \A m \in 1 .. T : n < m => Base(n)' + Len(nest'[n].regs) <= Base(m)'
                        /\ \A j \in 1 .. Len(nest'[n].regs) : nest'[n].regs[j].id = Base(n)' + j - 1
                        /\ nest'[n].outer = Base(n)'
      BY <1>12 DEF SlotInv
    <2>1. /\ n = 1 => Base(n) = 0
          /\ n = T => Base(n) + Len(nest[n].ptrs) <= MAX_LOOPS
          /\ n < T => Base(n + 1) = Base(n) + Len(nest[n].regs)
          /\ \A m \in 1 .. T : n < m => Base(n) + Len(nest[n].regs) <= Base(m)
          /\ \A j \in 1 .. Len(nest[n].regs) : nest[n].regs[j].id = Base(n) + j - 1
          /\ nest[n].outer = Base(n)
      BY <1>T DEF LoopsInv, SlotInv
    <2>2. CASE n = T
      <3>1. nest'[n] = l /\ nest[n] = L /\ Base(n)' = Base(n) /\ Base(n) \in Nat
        BY <1>1, <1>L, <1>12, <1>18, <1>19, <2>2
      <3>2. cnt = Base(n) + Len(L.regs) /\ cnt \in Nat /\ loop_id_cnt' = cnt + 1
        BY <1>0, <1>1, <1>L, <1>c, <2>2
      <3>3. loop_id_cnt' = Base(n)' + Len(nest'[n].regs) - GivenBack'
        <4>1. Len(nest'[n].regs) = Len(L.regs) + 1 /\ Len(L.regs) \in Nat /\ GivenBack' = 0
          BY <1>11, <1>12, <3>1
        <4>2. PICK b \in Nat : b = Base(n)
          BY <3>1
        <4>3. PICK k \in Nat : k = Len(L.regs)
          BY <4>1
        <4>4. loop_id_cnt' = b + k + 1
          BY <3>2, <4>2, <4>3
        <4>5. loop_id_cnt' = b + (k + 1) - 0
          BY <4>4
        <4> QED
          BY <3>1, <4>1, <4>2, <4>3, <4>5
      <3>4. Base(n)' + Len(nest'[n].ptrs) <= MAX_LOOPS
        BY <1>11, <2>1, <2>2, <3>1
      <3>5. ASSUME NEW j \in 1 .. Len(nest'[n].regs)
            PROVE  nest'[n].regs[j].id = Base(n)' + j - 1
        <4>1. CASE j = Len(L.regs) + 1
          <5>1. nest'[n].regs[j] = reg
            BY <1>11, <3>1, <4>1
          <5>2. cnt = Base(n)' + j - 1
            <6>1. Len(L.regs) \in Nat
              BY <1>11
            <6>2. PICK k \in Nat : k = Len(L.regs)
              BY <6>1
            <6>3. PICK b \in Nat : b = Base(n)
              BY <3>1
            <6>4. cnt = b + k /\ j = k + 1
              BY <3>2, <4>1, <6>2, <6>3
            <6>5. cnt = b + j - 1
              BY <6>4
            <6> QED
              BY <3>1, <6>3, <6>5
          <5> QED
            BY <1>8, <5>1, <5>2
        <4>2. CASE j \in 1 .. Len(L.regs)
          BY <1>11, <2>1, <3>1, <4>2
        <4> QED
          BY <1>11, <3>1, <4>1, <4>2, SMTT(30)
      <3>6. n = 1 => Base(n)' = 0
        BY <2>1, <3>1
      <3>7. nest'[n].outer = Base(n)'
        BY <1>11, <2>1, <3>1
      <3>8. \A m \in 1 .. T : ~(n < m)
        BY <2>2
      <3> QED
        BY <2>2, <3>3, <3>4, <3>5, <3>6, <3>7, <3>8
    <2>3. CASE n # T
      <3>1. nest'[n] = nest[n] /\ n + 1 \in 1 .. T
        BY <1>12, <2>3
      <3> QED
        BY <1>18, <2>1, <2>3, <3>1
    <2> QED
      BY <2>2, <2>3
  <1>21. ActiveInv'
    <2> SUFFICES ASSUME NEW id \in LoopIds
                 PROVE  loopstate'[id].active <=> id < loop_id_cnt'
      BY <1>12 DEF ActiveInv
    <2>1. loopstate[id].active <=> id < loop_id_cnt
      BY <1>1 DEF LoopsInv, ActiveInv
    <2>2. id \in Nat
      BY LoopsAssumption DEF LoopIds
    <2>3. CASE id = cnt
      BY <1>0, <1>1, <1>c, <1>10, <1>17, <2>2, <2>3, SMTT(30)
    <2>4. CASE id # cnt
      <3>1. loopstate'[id] = loopstate[id]
        BY <1>17, <2>4
      <3>2. cnt \in Nat /\ loop_id_cnt = cnt /\ loop_id_cnt' = cnt + 1
        BY <1>0, <1>1, <1>c
      <3>3. id < loop_id_cnt <=> id < loop_id_cnt'
        BY <2>2, <2>4, <3>2
      <3> QED
        BY <2>1, <3>1, <3>3
    <2> QED
      BY <2>3, <2>4
  <1>22. HoldInv' /\ CrossInv'
    <2> SUFFICES ASSUME NEW n \in 1 .. T, NEW j \in 1 .. Len(nest'[n].regs)
                 PROVE  /\ HoldOK(nest'[n], j, loopstate'[nest'[n].regs[j].id])
                        /\ CrossOK(nest'[n], j)
      BY <1>12 DEF HoldInv, CrossInv
    <2>i. L.i \in Nat
      BY DEF Loop
    <2>1. ASSUME j \in 1 .. Len(nest[n].regs)
          PROVE  /\ HoldOK(nest[n], j, loopstate[nest[n].regs[j].id]) /\ CrossOK(nest[n], j)
                 /\ nest[n].regs[j].id \in LoopIds \ {cnt}
      <3>1. j > GivenBack
        BY <1>1, <1>19, <2>1
      <3>2. /\ HoldOK(nest[n], j, loopstate[nest[n].regs[j].id]) /\ CrossOK(nest[n], j)
        BY <1>T, <2>1, <3>1 DEF LoopsInv, HoldInv, CrossInv
      <3>3. nest[n].regs[j].id \in LoopIds /\ loopstate[nest[n].regs[j].id].active
        BY <1>T, <2>1, <3>1, SlotIsActive
      <3> QED
        BY <1>1, <1>c, <3>2, <3>3
    <2>2. CASE n # T
      BY <1>12, <1>17, <2>1, <2>2
    <2>3. CASE n = T /\ j \in 1 .. Len(L.regs)
      <3>1. /\ nest'[n] = l /\ nest[n] = L /\ l.regs[j] = L.regs[j] /\ l.ptrs = L.ptrs
        BY <1>1, <1>L, <1>11, <1>12, <2>3
      <3>2. Steps(l, j) = L.i /\ Steps(L, j) = L.i
        BY <1>0, <1>L, <1>11 DEF Steps
      <3>3. loopstate'[l.regs[j].id] = loopstate[L.regs[j].id]
        BY <1>17, <2>1, <2>3, <3>1
      <3>4. CrossOK(l, j)
        BY <2>1, <2>3, <3>1, <3>2 DEF CrossOK
      <3>5. HoldOK(l, j, loopstate[L.regs[j].id])
        BY <2>1, <2>3, <3>1 DEF HoldOK
      <3> QED
        BY <3>1, <3>3, <3>4, <3>5
    <2>4. CASE n = T /\ j = Len(L.regs) + 1
      <3>1. nest'[n] = l /\ l.regs[j] = reg /\ l.ptrs[j] = p
        BY <1>p, <1>11, <1>12, <2>4
      <3>2. Steps(l, j) = L.i
        BY <1>11 DEF Steps
      <3>3. loopstate'[l.regs[j].id] = s
        BY <1>8, <1>17, <3>1
      <3>4. CrossOK(l, j)
        BY <2>i, <1>9, <3>1, <3>2 DEF CrossOK, Holding
      <3>5. HoldOK(l, j, s)
        BY <2>i, <1>9, <3>1 DEF HoldOK, Holding
      <3> QED
        BY <3>1, <3>3, <3>4, <3>5
    <2>5. n = T => j \in 1 .. Len(L.regs) \/ j = Len(L.regs) + 1
      BY <1>11, <1>12
    <2> QED
      BY <2>2, <2>3, <2>4, <2>5
  <1> QED
    BY <1>13, <1>14, <1>16, <1>20, <1>21, <1>22 DEF LoopsInv

-----------------------------------------------------------------------------
(* The exit block *)

(* The slot to be given back is the one of the pointer at hand, and it is  *)
(* active.                                                                 *)
LEMMA InvalidateStart ==
    ASSUME LoopsInv, nest # <<>>, Top.at = "exit"
    PROVE  /\ Top \in Loop /\ LoopOK(Top) /\ Top = nest[Len(nest)]
           /\ Len(nest) \in 1 .. Len(nest) /\ GivenBack = Top.k - 1
           /\ Base(Len(nest)) \in Nat /\ Len(Top.regs) \in Nat
           /\ Len(Top.regs) = Len(Top.ptrs) /\ Top.k \in 1 .. Len(Top.regs)
           /\ Top.regs[Top.k].id = Base(Len(nest)) + (Top.k - 1)
           /\ loop_id_cnt = Base(Len(nest)) + Len(Top.regs) - (Top.k - 1)
           /\ Top.regs[Top.k].id \in LoopIds
           /\ loopstate[Top.regs[Top.k].id] \in Slot
           /\ loopstate[Top.regs[Top.k].id].active
           /\ HoldOK(Top, Top.k, loopstate[Top.regs[Top.k].id])
  <1>1. /\ Top \in Loop /\ LoopOK(Top) /\ Top = nest[Len(nest)] /\ NestInv
        /\ Len(nest) \in 1 .. Len(nest) /\ loop_id_cnt \in Nat
    BY NestTypes, LoopsAssumption DEF LoopsInv, TypeOK
  <1>2. GivenBack = Top.k - 1
    BY DEF GivenBack
  <1>3. /\ Base(Len(nest)) \in Nat /\ Len(Top.regs) \in Nat /\ Len(Top.ptrs) \in Nat
    BY <1>1, BaseTypes
  <1>4. /\ Top.k \in 1 .. Len(Top.regs) /\ Len(Top.regs) = Len(Top.ptrs)
    BY <1>1, LoopTypes
  <1>5. Top.k > GivenBack
    BY <1>2, <1>4
  <1>6. loop_id_cnt = Base(Len(nest)) + Len(Top.regs) - GivenBack
    BY <1>1 DEF LoopsInv, SlotInv
  <1>7. Top.regs[Top.k].id = Base(Len(nest)) + Top.k - 1
    BY <1>1, <1>4 DEF LoopsInv, SlotInv
  <1>8. Base(Len(nest)) + Top.k - 1 = Base(Len(nest)) + (Top.k - 1)
    BY <1>3, <1>4
  <1>9. Top.regs[Top.k].id \in LoopIds /\ loopstate[Top.regs[Top.k].id].active
    BY <1>1, <1>4, <1>5, SlotIsActive
  <1>10. loopstate[Top.regs[Top.k].id] \in Slot
    BY <1>9 DEF LoopsInv, TypeOK
  <1>11. HoldOK(Top, Top.k, loopstate[Top.regs[Top.k].id])
    BY <1>1, <1>4, <1>5 DEF LoopsInv, HoldInv
  <1> QED
    BY <1>1, <1>2, <1>3, <1>4, <1>6, <1>7, <1>8, <1>9, <1>10, <1>11

(* The slot is cleared, its region let go, and one slot fewer is in use.   *)
LEMMA GiveBack ==
    ASSUME LoopsInv, Invalidate, NEW id, id = Top.regs[Top.k].id
    PROVE  /\ loopstate' \in [LoopIds -> Slot] /\ pins' \in [Objects -> Nat]
           /\ PinsBalanced'
           /\ ~loopstate'[id].active
           /\ \A x \in LoopIds \ {id} : loopstate'[x] = loopstate[x]
           /\ loop_id_cnt' = loop_id_cnt - 1 /\ loop_id_cnt' \in 0 .. MAX_LOOPS
  <1>1. nest # <<>> /\ Top.at = "exit"
    BY DEF Invalidate
  <1>2. /\ Base(Len(nest)) \in Nat /\ Len(Top.regs) \in Nat /\ Top.k \in 1 .. Len(Top.regs)
        /\ loop_id_cnt = Base(Len(nest)) + Len(Top.regs) - (Top.k - 1)
        /\ id \in LoopIds /\ loopstate[id] \in Slot /\ loopstate[id].active
        /\ HoldOK(Top, Top.k, loopstate[id])
    BY <1>1, InvalidateStart
  <1>3. PICK slot \in Slot : slot = loopstate[id]
    BY <1>2
  <1>4. /\ pins' = UnpinSlot(slot) /\ loopstate' = [loopstate EXCEPT ![id] = Cleared(slot.stride)]
        /\ loop_id_cnt' = SlotsAfterInvalidate
    BY <1>2, <1>3 DEF Invalidate
  <1>5. /\ loopstate \in [LoopIds -> Slot] /\ pins \in [Objects -> Nat]
        /\ loop_id_cnt \in 0 .. MAX_LOOPS
    BY DEF LoopsInv, TypeOK
  <1>6. PICK s : s = Cleared(slot.stride)
    OBVIOUS
  <1>7. s \in Slot /\ ~s.active
    <2>1. slot.stride \in Nat /\ 0 \in 0 .. OBJ_SIZE - 1
      BY LoopsAssumption DEF Slot
    <2> QED
      BY <1>6, <2>1 DEF Slot, Cleared
  <1>8. ~slot.carm_ptr => slot.region_addr = NoRegion
    BY <1>2, <1>3 DEF HoldOK
  <1>9. /\ pins' = [o \in Objects |-> pins'[o]]
        /\ \A o \in Objects : pins'[o] =
             pins[o] - (IF loopstate[id].active /\ loopstate[id].region_addr = o THEN 1 ELSE 0)
                     + (IF s.active /\ s.region_addr = o THEN 1 ELSE 0)
    <2>1. ASSUME NEW o \in Objects PROVE pins[o] \in Nat /\ NoRegion # o
      BY <1>5, LoopsAssumption
    <2>2. slot.active /\ ~s.active
      BY <1>2, <1>3, <1>7
    <2>3. /\ pins' = [o \in Objects |-> pins'[o]]
          /\ \A o \in Objects : pins'[o] = pins[o] - (IF slot.region_addr = o THEN 1 ELSE 0)
      <3>1. CASE slot.carm_ptr
        <4>1. pins' = [o \in Objects |-> IF o = slot.region_addr THEN pins[o] - 1 ELSE pins[o]]
          BY <1>4, <3>1 DEF UnpinSlot, Unpin
        <4> QED
          BY <2>1, <4>1
      <3>2. CASE ~slot.carm_ptr
        <4>1. pins' = pins
          BY <1>4, <3>2 DEF UnpinSlot
        <4> QED
          BY <1>5, <1>8, <2>1, <3>2, <4>1
      <3> QED
        BY <3>1, <3>2
    <2> QED
      BY <1>3, <2>1, <2>2, <2>3
  <1>10. PinsBalanced' /\ \A o \in Objects : pins'[o] \in Nat
    BY <1>2, <1>4, <1>6, <1>7, <1>9, PinsFollow DEF LoopsInv
  <1>11. pins' \in [Objects -> Nat]
    BY <1>9, <1>10
  <1>12. /\ loopstate' \in [LoopIds -> Slot] /\ loopstate'[id] = s
         /\ \A x \in LoopIds \ {id} : loopstate'[x] = loopstate[x]
    BY <1>2, <1>4, <1>5, <1>6, <1>7
  <1>13. loop_id_cnt > 0
    BY <1>2
  <1>14. loop_id_cnt' = loop_id_cnt - 1 /\ loop_id_cnt' \in 0 .. MAX_LOOPS
    <2>1. MAX_LOOPS \in Nat
      BY LoopsAssumption
    <2> QED
      BY <1>4, <1>5, <1>13, <2>1 DEF SlotsAfterInvalidate
  <1> QED
    BY <1>7, <1>10, <1>11, <1>12, <1>14

(* Registers outside the part given back keep their slots. *)
LEMMA OthersHeld ==
    ASSUME LoopsInv, Invalidate, NEW n \in 1 .. Len(nest), NEW j \in 1 .. Len(nest[n].regs),
           n = Len(nest) => j > Top.k
    PROVE  /\ loopstate'[nest[n].regs[j].id] = loopstate[nest[n].regs[j].id]
           /\ HoldOK(nest[n], j, loopstate[nest[n].regs[j].id])
  <1>1. nest # <<>> /\ Top.at = "exit"
    BY DEF Invalidate
  <1>2. /\ Top = nest[Len(nest)] /\ Len(nest) \in 1 .. Len(nest) /\ GivenBack = Top.k - 1
        /\ Top.k \in 1 .. Len(Top.regs) /\ Len(Top.regs) \in Nat
    BY <1>1, InvalidateStart
  <1>3. NestInv /\ loop_id_cnt \in Nat
    BY LoopsAssumption DEF LoopsInv, TypeOK
  <1>4. j \in Nat
    BY <1>3, BaseTypes
  <1>5. n = Len(nest) => j > GivenBack
    BY <1>2, <1>4
  <1>6. n # Len(nest) \/ j # Top.k
    BY <1>2, <1>4
  <1>7. nest[n].regs[j].id # Top.regs[Top.k].id
    BY <1>2, <1>6, SlotsApart
  <1>8. nest[n].regs[j].id \in LoopIds
    BY <1>5, SlotIsActive
  <1>9. HoldOK(nest[n], j, loopstate[nest[n].regs[j].id])
    BY <1>5 DEF LoopsInv, HoldInv
  <1> QED
    BY <1>7, <1>8, <1>9, GiveBack

(* Every loop of the nest but a new innermost one has a register, so its   *)
(* first slot is that register's.                                          *)
LEMMA BaseIsFirst ==
    ASSUME NestInv, NEW n \in 1 .. Len(nest), nest[n].at # "header"
    PROVE  nest[n].regs # <<>> /\ Base(n) = nest[n].regs[1].id
  <1>1. nest[n] \in Loop /\ LoopOK(nest[n])
    BY NestTypes
  <1>2. Len(nest[n].regs) # 0
    BY <1>1, LoopTypes
  <1> QED
    BY <1>2 DEF Base

(* The exit block goes on to the next pointer. *)
LEMMA InvalidateOneStep ==
    ASSUME LoopsInv, Invalidate, Top.k # Len(Top.ptrs)
    PROVE  LoopsInv'
  <1>T. PICK T \in Nat : T = Len(nest)
    BY NestTypes DEF LoopsInv
  <1>0. /\ nest # <<>> /\ Top.at = "exit" /\ nest' = [nest EXCEPT ![Len(nest)].k = @ + 1]
    BY DEF Invalidate
  <1>1. /\ Top \in Loop /\ LoopOK(Top) /\ Top = nest[T] /\ T \in 1 .. T /\ GivenBack = Top.k - 1
        /\ Base(T) \in Nat /\ Len(Top.regs) \in Nat
        /\ Len(Top.regs) = Len(Top.ptrs) /\ Top.k \in 1 .. Len(Top.regs)
        /\ Top.regs[Top.k].id = Base(T) + (Top.k - 1)
        /\ loop_id_cnt = Base(T) + Len(Top.regs) - (Top.k - 1)
        /\ Top.regs[Top.k].id \in LoopIds
    BY <1>0, <1>T, InvalidateStart
  <1>L. PICK L \in Loop : L = Top
    BY <1>1
  <1>k. PICK k \in Nat : k = L.k
    BY <1>1, <1>L
  <1>d. PICK id \in LoopIds : id = Top.regs[Top.k].id
    BY <1>1
  <1>b. PICK base \in Nat : base = Base(T)
    BY <1>1
  <1>N. PICK N \in Nat : N = Len(L.regs)
    BY <1>1, <1>L
  <1>2. /\ k \in 1 .. N /\ k # N /\ Len(L.ptrs) = N /\ id = base + (k - 1)
        /\ loop_id_cnt = base + N - (k - 1) /\ GivenBack = k - 1 /\ L.at = "exit"
    BY <1>0, <1>1, <1>L, <1>k, <1>d, <1>b, <1>N
  <1>3. /\ loopstate' \in [LoopIds -> Slot] /\ pins' \in [Objects -> Nat] /\ PinsBalanced'
        /\ ~loopstate'[id].active
        /\ \A x \in LoopIds \ {id} : loopstate'[x] = loopstate[x]
        /\ loop_id_cnt' = loop_id_cnt - 1 /\ loop_id_cnt' \in 0 .. MAX_LOOPS
    BY <1>d, GiveBack
  <1>4. PICK l : l = [L EXCEPT !.k = k + 1]
    OBVIOUS
  <1>5. /\ l \in Loop /\ l.at = "exit" /\ l.k = k + 1 /\ l.i = L.i
        /\ l.ptrs = L.ptrs /\ l.regs = L.regs /\ l.outer = L.outer
    <2>1. k + 1 \in Nat
      OBVIOUS
    <2>2. /\ l.at = L.at /\ l.k = k + 1 /\ l.i = L.i /\ l.ptrs = L.ptrs /\ l.regs = L.regs
          /\ l \in Loop /\ l.outer = L.outer
      BY <1>4, <2>1 DEF Loop
    <2> QED
      BY <1>2, <2>2
  <1>6. LoopOK(l)
    <2>1. LoopOK(L) /\ L.at = "exit"
      BY <1>1, <1>L, <1>2
    <2>2. L.i <= MaxTrips /\ Len(L.regs) = Len(L.ptrs)
      BY <2>1 DEF LoopOK
    <2>3. l.k \in 1 .. Len(l.ptrs)
      BY <1>2, <1>5
    <2> QED
      BY <1>5, <2>2, <2>3 DEF LoopOK
  <1>7. SetTop(l)
    <2>1. nest \in Seq(Loop)
      BY DEF LoopsInv, NestInv
    <2> QED
      BY <1>0, <1>1, <1>T, <1>L, <1>k, <1>4, <2>1 DEF SetTop
  <1>8. /\ nest' \in Seq(Loop) /\ nest' # <<>> /\ Len(nest') = T
        /\ nest'[T] = l /\ \A n \in 1 .. T : n # T => nest'[n] = nest[n]
        /\ Top' = l /\ GivenBack' = k
    <2>1. nest \in Seq(Loop)
      BY DEF LoopsInv, NestInv
    <2>2. /\ nest' \in Seq(Loop) /\ nest' # <<>> /\ Len(nest') = T
          /\ nest'[T] = l /\ \A n \in 1 .. T : n # T => nest'[n] = nest[n]
      BY <1>0, <1>T, <1>5, <1>7, <2>1, NestTop
    <2>3. Top' = l
      BY <2>2 DEF Top
    <2> QED
      BY <1>5, <2>2, <2>3 DEF GivenBack
  <1>9. NestInv'
    <2> SUFFICES ASSUME NEW n \in 1 .. T
                 PROVE  LoopOK(nest'[n]) /\ (n < T => nest'[n].at = "body")
      BY <1>8 DEF NestInv
    <2>1. CASE n = T
      BY <1>6, <1>8, <2>1
    <2>2. CASE n # T
      BY <1>T, <1>8, <2>2 DEF LoopsInv, NestInv
    <2> QED
      BY <2>1, <2>2
  <1>10. TypeOK'
    BY <1>3, <1>9, TypeNext
  <1>11. \A n \in 1 .. T : /\ nest'[n].regs = nest[n].regs /\ nest'[n].ptrs = nest[n].ptrs
                           /\ nest'[n].outer = nest[n].outer
    BY <1>1, <1>L, <1>5, <1>8
  <1>12. ASSUME NEW n \in 1 .. T PROVE Base(n)' = Base(n)
    <2>1. nest[n].at # "header"
      <3>1. CASE n = T
        BY <1>0, <1>1, <3>1
      <3>2. CASE n # T
        <4>1. nest[n].at = "body"
          BY <1>T, <3>2 DEF LoopsInv, NestInv
        <4> QED
          BY <4>1
      <3> QED
        BY <3>1, <3>2
    <2>2. nest[n].regs # <<>>
      BY <1>T, <2>1, BaseIsFirst DEF LoopsInv
    <2> QED
      BY <1>11, <2>2 DEF Base
  <1>13. SlotInv'
    <2> SUFFICES ASSUME NEW n \in 1 .. T
                 PROVE  /\ n = 1 => Base(n)' = 0
                        /\ n = T => /\ loop_id_cnt' = Base(n)' + Len(nest'[n].regs) - GivenBack'
                                    /\ Base(n)' + Len(nest'[n].ptrs) <= MAX_LOOPS
                        /\ n < T => Base(n + 1)' = Base(n)' + Len(nest'[n].regs)
                        /\ \A m \in 1 .. T : n < m => Base(n)' + Len(nest'[n].regs) <= Base(m)'
                        /\ \A j \in 1 .. Len(nest'[n].regs) : nest'[n].regs[j].id = Base(n)' + j - 1
                        /\ nest'[n].outer = Base(n)'
      BY <1>8 DEF SlotInv
    <2>1. n < T => n + 1 \in 1 .. T
      OBVIOUS
    <2>2. n = T => loop_id_cnt' = Base(n)' + Len(nest'[n].regs) - GivenBack'
      <3> SUFFICES ASSUME n = T
                   PROVE  loop_id_cnt' = Base(T)' + Len(nest'[T].regs) - GivenBack'
        OBVIOUS
      <3>1. Base(T)' = base /\ Len(nest'[T].regs) = N /\ GivenBack' = k
        BY <1>1, <1>L, <1>b, <1>N, <1>5, <1>8, <1>12
      <3>2. loop_id_cnt' = (base + N - (k - 1)) - 1
        BY <1>2, <1>3
      <3> QED
        BY <1>2, <3>1, <3>2
    <2> QED
      BY <1>T, <1>11, <1>12, <2>1, <2>2, SMTT(30) DEF LoopsInv, SlotInv
  <1>14. ActiveInv'
    <2> SUFFICES ASSUME NEW x \in LoopIds
                 PROVE  loopstate'[x].active <=> x < base \/ (base + k <= x /\ x < base + N)
      <3>1. GivenBack' = k /\ k # 0 /\ Len(Top.regs)' = N
        BY <1>2, <1>N, <1>5, <1>8
      <3>2. Base(Len(nest))' = base
        <4>1. Base(T)' = base
          BY <1>1, <1>b, <1>12
        <4> QED
          BY <1>8, <4>1 DEF Base
      <3>3. ActiveInv' <=>
               \A x \in LoopIds : loopstate'[x].active <=>
                  IF GivenBack' = 0 THEN x < loop_id_cnt'
                  ELSE \/ x < Base(Len(nest))'
                       \/ Base(Len(nest))' + GivenBack' <= x
                          /\ x < Base(Len(nest))' + Len(Top.regs)'
        BY DEF ActiveInv
      <3>4. ASSUME NEW x \in LoopIds
            PROVE  loopstate'[x].active <=>
                     IF GivenBack' = 0 THEN x < loop_id_cnt'
                     ELSE \/ x < Base(Len(nest))'
                          \/ Base(Len(nest))' + GivenBack' <= x
                             /\ x < Base(Len(nest))' + Len(Top.regs)'
        <4>1. loopstate'[x].active <=> x < base \/ (base + k <= x /\ x < base + N)
          OBVIOUS
        <4>0. x \in Nat
          BY LoopsAssumption DEF LoopIds
        <4>2. GivenBack' # 0
          BY <3>1
        <4>3. Base(Len(nest))' + GivenBack' = base + k
          BY <3>1, <3>2
        <4>4. Base(Len(nest))' + Len(Top.regs)' = base + N
          BY <3>1, <3>2
        <4>5. loopstate'[x].active <=>
                \/ x < Base(Len(nest))'
                \/ Base(Len(nest))' + GivenBack' <= x /\ x < Base(Len(nest))' + Len(Top.regs)'
          BY <3>2, <4>0, <4>1, <4>3, <4>4
        <4> QED
          BY <4>2, <4>5, Zenon
      <3> QED
        BY <3>3, <3>4
    <2>1. loopstate[x].active <=>
             IF k - 1 = 0 THEN x < loop_id_cnt
             ELSE x < base \/ (base + (k - 1) <= x /\ x < base + N)
      BY <1>T, <1>2, <1>b, <1>L, <1>N DEF LoopsInv, ActiveInv
    <2>2. x \in Nat
      BY LoopsAssumption DEF LoopIds
    <2>3. CASE x = id
      BY <1>2, <1>3, <2>2, <2>3
    <2>4. CASE x # id
      <3>1. loopstate'[x] = loopstate[x]
        BY <1>3, <2>4
      <3>2. (IF k - 1 = 0 THEN x < loop_id_cnt
             ELSE x < base \/ (base + (k - 1) <= x /\ x < base + N))
              <=> (x < base \/ (base + k <= x /\ x < base + N))
        BY <1>2, <2>2, <2>4
      <3> QED
        BY <2>1, <3>1, <3>2
    <2> QED
      BY <2>3, <2>4
  <1>15. HoldInv'
    <2> SUFFICES ASSUME NEW n \in 1 .. T, NEW j \in 1 .. Len(nest'[n].regs), n = T => j > k
                 PROVE  HoldOK(nest'[n], j, loopstate'[nest'[n].regs[j].id])
      BY <1>8 DEF HoldInv
    <2>1. /\ j \in 1 .. Len(nest[n].regs) /\ (n = T => j > Top.k)
      BY <1>L, <1>k, <1>11
    <2>2. /\ loopstate'[nest[n].regs[j].id] = loopstate[nest[n].regs[j].id]
          /\ HoldOK(nest[n], j, loopstate[nest[n].regs[j].id])
      BY <1>T, <2>1, OthersHeld
    <2> QED
      BY <1>11, <2>2 DEF HoldOK
  <1>16. CrossInv'
    <2> SUFFICES ASSUME NEW n \in 1 .. T, NEW j \in 1 .. Len(nest'[n].regs)
                 PROVE  CrossOK(nest'[n], j)
      BY <1>8 DEF CrossInv
    <2>1. CrossOK(nest[n], j)
      BY <1>T, <1>11 DEF LoopsInv, CrossInv
    <2>2. Steps(nest'[n], j) = Steps(nest[n], j)
      <3>1. CASE n = T
        BY <1>1, <1>L, <1>2, <1>5, <1>8, <3>1 DEF Steps
      <3>2. CASE n # T
        BY <1>8, <3>2
      <3> QED
        BY <3>1, <3>2
    <2> QED
      BY <1>11, <2>1, <2>2 DEF CrossOK
  <1> QED
    BY <1>3, <1>9, <1>10, <1>13, <1>14, <1>15, <1>16 DEF LoopsInv

(* After the last pointer the loop is gone. *)
LEMMA InvalidateLastStep ==
    ASSUME LoopsInv, Invalidate, Top.k = Len(Top.ptrs)
    PROVE  LoopsInv'
  <1>T. PICK T \in Nat : T = Len(nest)
    BY NestTypes DEF LoopsInv
  <1>0. /\ nest # <<>> /\ Top.at = "exit" /\ nest' = SubSeq(nest, 1, Len(nest) - 1)
    BY DEF Invalidate
  <1>1. /\ Top \in Loop /\ LoopOK(Top) /\ Top = nest[T] /\ T \in 1 .. T /\ GivenBack = Top.k - 1
        /\ Base(T) \in Nat /\ Len(Top.regs) \in Nat
        /\ Len(Top.regs) = Len(Top.ptrs) /\ Top.k \in 1 .. Len(Top.regs)
        /\ Top.regs[Top.k].id = Base(T) + (Top.k - 1)
        /\ loop_id_cnt = Base(T) + Len(Top.regs) - (Top.k - 1)
        /\ Top.regs[Top.k].id \in LoopIds
    BY <1>0, <1>T, InvalidateStart
  <1>d. PICK id \in LoopIds : id = Top.regs[Top.k].id
    BY <1>1
  <1>b. PICK base \in Nat : base = Base(T)
    BY <1>1
  <1>N. PICK N \in Nat : N = Len(Top.regs)
    BY <1>1
  <1>2. /\ N # 0 /\ id = base + (N - 1) /\ loop_id_cnt = base + 1 /\ GivenBack = N - 1
    <2>1. Top.k = N
      BY <1>1, <1>N
    <2>2. N # 0
      BY <1>1, <1>N, <2>1
    <2>3. id = base + (N - 1)
      BY <1>1, <1>d, <1>b, <2>1
    <2>4. loop_id_cnt = base + N - (N - 1)
      BY <1>1, <1>b, <1>N, <2>1
    <2>5. loop_id_cnt = base + 1
      BY <2>4
    <2>6. GivenBack = N - 1
      BY <1>1, <2>1
    <2> QED
      BY <2>2, <2>3, <2>5, <2>6
  <1>3. /\ loopstate' \in [LoopIds -> Slot] /\ pins' \in [Objects -> Nat] /\ PinsBalanced'
        /\ ~loopstate'[id].active
        /\ \A x \in LoopIds \ {id} : loopstate'[x] = loopstate[x]
        /\ loop_id_cnt' = loop_id_cnt - 1 /\ loop_id_cnt' \in 0 .. MAX_LOOPS
    BY <1>d, GiveBack
  <1>4. loop_id_cnt' = base
    BY <1>2, <1>3
  <1>M. PICK M \in Nat : M = T - 1
    BY <1>1
  <1>5. /\ nest' \in Seq(Loop) /\ Len(nest') = M /\ (nest' = <<>> <=> M = 0)
        /\ \A n \in 1 .. M : nest'[n] = nest[n] /\ n \in 1 .. T /\ n < T
    <2>1. nest \in Seq(Loop)
      BY DEF LoopsInv, NestInv
    <2>2. nest' = SubSeq(nest, 1, M) /\ M <= Len(nest)
      BY <1>0, <1>T, <1>M
    <2>3. /\ nest' \in Seq(Loop) /\ Len(nest') = M
          /\ \A n \in 1 .. M : nest'[n] = nest[n]
      BY <2>1, <2>2
    <2>4. nest' = <<>> <=> M = 0
      BY <2>3
    <2>5. \A n \in 1 .. M : n \in 1 .. T /\ n < T
      BY <1>M
    <2> QED
      BY <2>3, <2>4, <2>5
  <1>6. \A n \in 1 .. M : LoopOK(nest[n]) /\ nest[n].at = "body"
    BY <1>T, <1>5 DEF LoopsInv, NestInv
  <1>7. NestInv'
    BY <1>5, <1>6 DEF NestInv
  <1>8. TypeOK'
    BY <1>3, <1>7, TypeNext
  <1>9. GivenBack' = 0
    <2>1. nest' # <<>> => M \in 1 .. M /\ Top' = nest[M]
      BY <1>5 DEF Top
    <2> QED
      BY <1>6, <2>1 DEF GivenBack
  <1>10. ASSUME NEW n \in 1 .. M
         PROVE  Base(n)' = Base(n) /\ Base(n) \in Nat /\ Len(nest[n].regs) \in Nat
                /\ Len(nest[n].regs) = Len(nest[n].ptrs)
    <2>1. nest[n].regs # <<>>
      BY <1>T, <1>5, <1>6, BaseIsFirst DEF LoopsInv
    <2>2. Base(n) \in Nat /\ Len(nest[n].regs) \in Nat
      BY <1>T, <1>5, BaseTypes, LoopsAssumption DEF LoopsInv, TypeOK
    <2>3. Len(nest[n].regs) = Len(nest[n].ptrs)
      BY <1>6 DEF LoopOK
    <2> QED
      BY <1>5, <2>1, <2>2, <2>3 DEF Base
  <1>11. SlotInv'
    <2>1. ASSUME M = 0 PROVE loop_id_cnt' = 0
      <3>1. T = 1
        BY <1>M, <2>1
      <3> QED
        BY <1>1, <1>T, <1>b, <1>4, <3>1 DEF LoopsInv, SlotInv
    <2>2. ASSUME NEW n \in 1 .. M
          PROVE  /\ n = 1 => Base(n)' = 0
                 /\ n = M => /\ loop_id_cnt' = Base(n)' + Len(nest'[n].regs) - GivenBack'
                             /\ Base(n)' + Len(nest'[n].ptrs) <= MAX_LOOPS
                 /\ n < M => Base(n + 1)' = Base(n)' + Len(nest'[n].regs)
                 /\ \A m \in 1 .. M : n < m => Base(n)' + Len(nest'[n].regs) <= Base(m)'
                 /\ \A j \in 1 .. Len(nest'[n].regs) : nest'[n].regs[j].id = Base(n)' + j - 1
                 /\ nest'[n].outer = Base(n)'
      <3>1. /\ n = 1 => Base(n) = 0
            /\ Base(n + 1) = Base(n) + Len(nest[n].regs)
            /\ \A m \in 1 .. M : n < m => Base(n) + Len(nest[n].regs) <= Base(m)
            /\ \A j \in 1 .. Len(nest[n].regs) : nest[n].regs[j].id = Base(n) + j - 1
            /\ nest[n].outer = Base(n)
        BY <1>T, <1>5 DEF LoopsInv, SlotInv
      <3>2. ASSUME n = M
            PROVE  /\ loop_id_cnt' = Base(n)' + Len(nest'[n].regs) - GivenBack'
                   /\ Base(n)' + Len(nest'[n].ptrs) <= MAX_LOOPS
        <4>1. n + 1 = T
          BY <1>M, <3>2
        <4>2. Base(T) = Base(n) + Len(nest[n].regs)
          BY <3>1, <4>1
        <4>3. MAX_LOOPS \in Nat
          BY LoopsAssumption
        <4> QED
          BY <1>b, <1>3, <1>4, <1>5, <1>9, <1>10, <4>2, <4>3
      <3>3. n < M => n + 1 \in 1 .. M
        OBVIOUS
      <3> QED
        BY <1>5, <1>10, <3>1, <3>2, <3>3
    <2> QED
      BY <1>5, <2>1, <2>2 DEF SlotInv
  <1>12. ActiveInv'
    <2> SUFFICES ASSUME NEW x \in LoopIds
                 PROVE  loopstate'[x].active <=> x < base
      BY <1>4, <1>9 DEF ActiveInv
    <2>1. loopstate[x].active <=>
             IF N - 1 = 0 THEN x < loop_id_cnt
             ELSE x < base \/ (base + (N - 1) <= x /\ x < base + N)
      BY <1>T, <1>2, <1>b, <1>N DEF LoopsInv, ActiveInv
    <2>2. x \in Nat
      BY LoopsAssumption DEF LoopIds
    <2>3. CASE x = id
      BY <1>2, <1>3, <2>2, <2>3
    <2>4. CASE x # id
      <3>1. loopstate'[x] = loopstate[x]
        BY <1>3, <2>4
      <3>2. (IF N - 1 = 0 THEN x < loop_id_cnt
             ELSE x < base \/ (base + (N - 1) <= x /\ x < base + N)) <=> x < base
        BY <1>2, <2>2, <2>4
      <3> QED
        BY <2>1, <3>1, <3>2
    <2> QED
      BY <2>3, <2>4
  <1>13. HoldInv' /\ CrossInv'
    <2> SUFFICES ASSUME NEW n \in 1 .. M, NEW j \in 1 .. Len(nest[n].regs)
                 PROVE  /\ HoldOK(nest[n], j, loopstate'[nest[n].regs[j].id])
                        /\ CrossOK(nest[n], j)
      BY <1>5 DEF HoldInv, CrossInv
    <2>1. n \in 1 .. T /\ n # T
      BY <1>5
    <2> QED
      BY <1>T, <2>1, OthersHeld DEF LoopsInv, CrossInv
  <1> QED
    BY <1>3, <1>7, <1>8, <1>11, <1>12, <1>13 DEF LoopsInv

-----------------------------------------------------------------------------
(* The theorems *)

(* No loop has been entered yet. *)
LEMMA InitLoopsInv ==
    ASSUME Init
    PROVE  LoopsInv
  <1>1. /\ MAX_LOOPS \in Nat /\ 0 \in 0 .. OBJ_SIZE - 1 /\ 0 \in 0 .. MAX_LOOPS
    BY LoopsAssumption
  <1>2. Cleared(0) \in Slot /\ ~Cleared(0).active
    BY <1>1 DEF Cleared, Slot
  <1>3. /\ nest = <<>> /\ Len(nest) = 0 /\ loop_id_cnt = 0
        /\ loopstate = [id \in LoopIds |-> Cleared(0)] /\ pins = [o \in Objects |-> 0]
    BY DEF Init
  <1>4. TypeOK
    BY <1>1, <1>2, <1>3 DEF TypeOK
  <1>5. NestInv /\ SlotInv /\ HoldInv /\ CrossInv
    BY <1>3 DEF NestInv, SlotInv, HoldInv, CrossInv
  <1>6. ActiveInv
    <2>1. GivenBack = 0
      BY <1>3 DEF GivenBack
    <2>2. \A id \in LoopIds : id \in Nat
      BY <1>1 DEF LoopIds
    <2>3. \A id \in LoopIds : ~loopstate[id].active
      BY <1>2, <1>3
    <2> QED
      BY <1>3, <2>1, <2>2, <2>3 DEF ActiveInv
  <1>7. PinsBalanced
    <2> SUFFICES ASSUME NEW o \in Objects PROVE pins[o] = Cardinality(Holders(o))
      BY DEF PinsBalanced, Holders
    <2>1. Holders(o) = {}
      BY <1>2, <1>3 DEF Holders
    <2> QED
      BY <1>3, <2>1, FS_EmptySet
  <1> QED
    BY <1>4, <1>5, <1>6, <1>7 DEF LoopsInv

(* Every step keeps the invariant. *)
LEMMA NextLoopsInv ==
    ASSUME LoopsInv, [Next]_vars
    PROVE  LoopsInv'
  <1>1. ASSUME NEW N \in 1 .. MaxPointers, NEW ps \in [1 .. N -> Pointers], Enter(ps)
        PROVE  LoopsInv'
    <2>1. N \in Nat \ {0}
      OBVIOUS
    <2> QED
      BY <1>1, <2>1, EnterStep
  <1>2. CASE Header
    BY <1>2, HeaderStep
  <1>3. CASE BackEdge \/ Exit
    BY <1>3, QuietStep
  <1>4. CASE Check
    BY <1>4, CheckStep
  <1>5. CASE Invalidate
    BY <1>5, InvalidateOneStep, InvalidateLastStep
  <1>6. CASE UNCHANGED vars
    BY <1>6 DEF vars, LoopsInv, TypeOK, NestInv, SlotInv, ActiveInv, HoldInv, CrossInv,
                PinsBalanced, Base, GivenBack, Top
  <1> QED
    BY <1>1, <1>2, <1>3, <1>4, <1>5, <1>6 DEF Next

(* The slots, registers and pins of a nest of loops, whatever loops are    *)
(* entered and left and however often a pointer crosses into a new object  *)
(* (carm_loop_init, carm_deref_loop_read and _write, and                   *)
(* invalidate_loop_index with the code the pass puts around a loop).       *)
THEOREM LoopsInductive == Spec => []LoopsInv
  <1>1. Init => LoopsInv
    BY InitLoopsInv
  <1>2. LoopsInv /\ [Next]_vars => LoopsInv'
    BY NextLoopsInv
  <1> QED
    BY <1>1, <1>2, PTL DEF Spec

(* carm_loop_init counts no slot more than the nest has chunked pointers,  *)
(* so a nest of at most MAX_LOOPS pointers, a bound on the program that    *)
(* the code does not check, never leaves loopstate, whatever loops have    *)
(* come and gone; and a walk never leaves the objects it may reach.        *)
THEOREM LoopsTypeCorrect == Spec => []TypeOK
  <1>1. LoopsInv => TypeOK
    BY DEF LoopsInv
  <1> QED
    BY <1>1, LoopsInductive, PTL

(* Each object is pinned once per slot that holds it, so no pin outlives   *)
(* its loop and none is taken away under another (the marks of the region  *)
(* in carm_loops.cpp).                                                     *)
THEOREM PinsStayBalanced == Spec => []PinsBalanced
  <1>1. LoopsInv => PinsBalanced
    BY DEF LoopsInv
  <1> QED
    BY <1>1, LoopsInductive, PTL

(* Outside an exit block the slots in use are the first loop_id_cnt ones,  *)
(* so that carm_loop_init finds a free slot and never aborts, although a   *)
(* loop gives its slots back first to last.                                *)
THEOREM SlotsStack == Spec => []SlotsAreStack
  <1>1. ASSUME LoopsInv PROVE SlotsAreStack
    <2> SUFFICES ASSUME nest # <<>> => Top.at # "exit"
                 PROVE  {id \in LoopIds : loopstate[id].active} = 0 .. loop_id_cnt - 1
      BY DEF SlotsAreStack
    <2>1. GivenBack = 0
      BY DEF GivenBack
    <2>2. \A id \in LoopIds : loopstate[id].active <=> id < loop_id_cnt
      BY <1>1, <2>1 DEF LoopsInv, ActiveInv
    <2>3. MAX_LOOPS \in Nat /\ loop_id_cnt \in 0 .. MAX_LOOPS
      BY <1>1, LoopsAssumption DEF LoopsInv, TypeOK
    <2> QED
      BY <2>2, <2>3 DEF LoopIds
  <1>2. LoopsInv => SlotsAreStack
    BY <1>1
  <1> QED
    BY <1>2, LoopsInductive, PTL

(* In the body of every loop of the nest, the object under each chunked    *)
(* pointer is held by the pointer's own slot and pinned, whatever loops    *)
(* have run inside this one: its region cannot be evacuated under the      *)
(* plain loads and stores of the body.                                     *)
THEOREM PointersStayPinned == Spec => []PointersPinned
  <1>1. ASSUME LoopsInv PROVE PointersPinned
    <2> SUFFICES ASSUME NEW n \in 1 .. Len(nest), nest[n].at = "body",
                        NEW j \in 1 .. Len(nest[n].ptrs), nest[n].ptrs[j].remote
                 PROVE  /\ pins[nest[n].regs[j].base] > 0
                        /\ loopstate[nest[n].regs[j].id].region_addr = nest[n].regs[j].base
      BY DEF PointersPinned
    <2>1. /\ nest[n] \in Loop /\ LoopOK(nest[n]) /\ nest # <<>> /\ Len(nest) \in Nat
          /\ Top = nest[Len(nest)]
      BY <1>1, NestTypes DEF LoopsInv
    <2>2. /\ j \in 1 .. Len(nest[n].regs) /\ j \in Nat /\ nest[n].regs[j] \in Reg
          /\ nest[n].ptrs[j] \in Pointers
      BY <2>1, LoopTypes
    <2>3. n = Len(nest) => j > GivenBack
      BY <2>1, <2>2 DEF GivenBack
    <2>4. PICK id \in LoopIds : id = nest[n].regs[j].id /\ loopstate[id].active
      BY <1>1, <2>2, <2>3, SlotIsActive
    <2>5. HoldOK(nest[n], j, loopstate[id]) /\ CrossOK(nest[n], j)
      BY <1>1, <2>2, <2>3, <2>4 DEF LoopsInv, HoldInv, CrossInv
    <2>6. loopstate[id].region_addr = nest[n].regs[j].base
      BY <2>5 DEF HoldOK
    <2>7. PICK c \in 0 .. Steps(nest[n], j) :
             nest[n].regs[j].base = (nest[n].ptrs[j].addr \div OBJ_SIZE)
                                      + c * Stride(nest[n].ptrs[j].step)
      BY <2>5 DEF CrossOK
    <2>8. Steps(nest[n], j) = nest[n].i /\ nest[n].i \in 0 .. MaxTrips
      BY <2>1, LoopTypes DEF Steps
    <2>9. c \in 0 .. MaxTrips
      BY <2>7, <2>8, LoopsAssumption
    <2>10. PICK o \in Objects : o = nest[n].regs[j].base
      BY <2>2, <2>7, <2>9, WalkReaches
    <2>11. pins[o] = Cardinality(Holders(o))
      BY <1>1 DEF LoopsInv, PinsBalanced, Holders
    <2>12. id \in Holders(o)
      BY <2>4, <2>6, <2>10 DEF Holders
    <2>13. Holders(o) \in SUBSET LoopIds
      BY DEF Holders
    <2>14. Cardinality(Holders(o)) # 0 /\ Cardinality(Holders(o)) \in Nat
      BY <2>12, <2>13, HoldersFinite, FS_EmptySet
    <2> QED
      BY <2>4, <2>6, <2>10, <2>11, <2>14
  <1>2. LoopsInv => PointersPinned
    BY <1>1
  <1> QED
    BY <1>2, LoopsInductive, PTL

-----------------------------------------------------------------------------
(* The walk *)

(* A step that stays below the border stays in the object. *)
LEMMA StayInObject ==
    ASSUME NEW U \in Nat \ {0}, NEW a \in Nat, NEW s \in Nat, (a % U) + s < U
    PROVE  (a + s) \div U = a \div U /\ (a + s) % U = (a % U) + s
  <1>1. PICK q \in Nat, r \in 0 .. U - 1 : q = a \div U /\ r = a % U /\ a = q * U + r
    BY Parts
  <1>2. PICK t \in Nat : t = r + s
    OBVIOUS
  <1>3. a + s = t + q * U /\ t < U
    BY <1>1, <1>2
  <1>4. (t + q * U) \div U = q /\ (t + q * U) % U = t
    BY <1>3, DivMod
  <1> QED
    BY <1>1, <1>2, <1>3, <1>4

(* A step that ends at a border is at the start of an object. *)
LEMMA MeetBorder ==
    ASSUME NEW U \in Nat \ {0}, NEW a \in Nat, NEW s \in Nat, NEW m \in Nat, (a % U) + s = m * U
    PROVE  (a + s) \div U = (a \div U) + m /\ (a + s) % U = 0
  <1>1. PICK q \in Nat, r \in 0 .. U - 1 : q = a \div U /\ r = a % U /\ a = q * U + r
    BY Parts
  <1>2. a + s = q * U + m * U
    BY <1>1
  <1>3. q * U + m * U = (q + m) * U
    OBVIOUS
  <1>4. PICK n \in Nat : n = q + m
    OBVIOUS
  <1>5. a + s = 0 + n * U /\ 0 < U
    BY <1>2, <1>3, <1>4
  <1>6. (0 + n * U) \div U = n /\ (0 + n * U) % U = 0
    BY <1>5, DivMod
  <1> QED
    BY <1>1, <1>4, <1>5, <1>6

(* Between two multiples of s lies at least one s. *)
LEMMA OneStepFits ==
    ASSUME NEW s \in Nat \ {0}, NEW U \in Nat, NEW o \in Nat, U % s = 0, o % s = 0, o < U
    PROVE  o + s <= U
  <1>1. PICK u \in Nat : U = u * s
    <2>1. U = (U \div s) * s + (U % s) /\ U \div s \in Nat
      BY Parts
    <2>2. PICK u \in Nat : u = U \div s
      BY <2>1
    <2> QED
      BY <2>1, <2>2
  <1>2. PICK v \in Nat : o = v * s
    <2>1. o = (o \div s) * s + (o % s) /\ o \div s \in Nat
      BY Parts
    <2>2. PICK v \in Nat : v = o \div s
      BY <2>1
    <2>3. o = v * s + 0
      BY <2>1, <2>2
    <2> QED
      BY <2>3
  <1>3. v < u
    <2> SUFFICES ASSUME u <= v PROVE FALSE
      OBVIOUS
    <2>1. PICK w \in Nat : v = u + w
      OBVIOUS
    <2>2. v * s = u * s + w * s
      BY <2>1
    <2>3. w * s \in Nat /\ u * s \in Nat
      BY TimesNat
    <2> QED
      BY <1>1, <1>2, <2>2, <2>3
  <1>4. PICK w \in Nat : u = v + 1 + w
    BY <1>3
  <1>5. u * s = v * s + s + w * s
    BY <1>4
  <1>6. w * s \in Nat /\ v * s \in Nat
    BY TimesNat
  <1> QED
    BY <1>1, <1>2, <1>5, <1>6

(* A multiple of s plus s is a multiple of s. *)
LEMMA StillEven ==
    ASSUME NEW s \in Nat \ {0}, NEW o \in Nat, o % s = 0
    PROVE  (o + s) % s = 0 /\ 0 % s = 0
  <1>1. o = (o \div s) * s + 0 /\ o \div s \in Nat
    BY Parts
  <1>2. PICK v \in Nat : v = o \div s
    BY <1>1
  <1>3. PICK w \in Nat : w = v + 1
    OBVIOUS
  <1>4. PICK z \in Nat : z = 0
    OBVIOUS
  <1>5. o + s = z + w * s /\ 0 = z + z * s /\ z < s
    BY <1>1, <1>2, <1>3, <1>4
  <1>6. (z + w * s) % s = z /\ (z + z * s) % s = z
    BY <1>5, DivMod
  <1> QED
    BY <1>4, <1>5, <1>6

(* An aligned step that reaches the border ends at the start of the object *)
(* a stride ahead.                                                         *)
LEMMA AlignedCross ==
    ASSUME NEW p \in Pointers, NEW off \in 0 .. OBJ_SIZE - 1, Even(p, off),
           off + p.step >= OBJ_SIZE
    PROVE  /\ off + p.step = Stride(p.step) * OBJ_SIZE
           /\ Stride(p.step) > 0 /\ Even(p, 0)
  <1>1. PICK U \in Nat \ {0} : U = OBJ_SIZE
    BY LoopsAssumption
  <1>2. PICK s \in Nat : s = p.step
    BY AddressParts
  <1>3. s # 0
    BY <1>1, <1>2
  <1>4. off \in Nat /\ off < U /\ off + s >= U
    BY <1>1, <1>2
  <1>5. (U \div U) = 1
    <2>1. U = 0 + 1 * U /\ 0 < U
      OBVIOUS
    <2> QED
      BY <2>1, DivMod
  <1>6. CASE s <= U /\ U % s = 0 /\ off % s = 0
    <2>1. off + s = U
      <3>1. off + s <= U
        BY <1>3, <1>4, <1>6, OneStepFits
      <3> QED
        BY <1>4, <3>1
    <2>2. Stride(s) = 1
      BY <1>1, <1>3, <1>5, <1>6 DEF Stride
    <2>3. 0 % s = 0
      BY <1>3, <1>6, <1>4, StillEven
    <2> QED
      BY <1>1, <1>2, <1>6, <2>1, <2>2, <2>3 DEF Even
  <1>7. CASE s % U = 0 /\ off = 0
    <2>1. PICK m \in Nat : m = s \div U /\ s = m * U + (s % U)
      BY Parts
    <2>2. s = m * U /\ s >= U
      BY <1>4, <1>7, <2>1
    <2>3. m # 0
      BY <1>3, <2>2
    <2>4. Stride(s) = m
      BY <1>1, <1>3, <2>1, <2>2 DEF Stride
    <2> QED
      BY <1>1, <1>2, <1>7, <2>2, <2>3, <2>4 DEF Even
  <1> QED
    BY <1>1, <1>2, <1>3, <1>6, <1>7 DEF Even

(* An aligned step that does not reach the border stays aligned. *)
LEMMA AlignedStay ==
    ASSUME NEW p \in Pointers, NEW off \in 0 .. OBJ_SIZE - 1, Even(p, off),
           off + p.step < OBJ_SIZE
    PROVE  Even(p, off + p.step)
  <1>1. PICK U \in Nat \ {0} : U = OBJ_SIZE
    BY LoopsAssumption
  <1>2. PICK s \in Nat : s = p.step
    BY AddressParts
  <1>3. off \in Nat /\ off + s < U
    BY <1>1, <1>2
  <1>4. CASE s = 0
    BY <1>2, <1>4 DEF Even
  <1>5. CASE s # 0 /\ s <= U /\ U % s = 0 /\ off % s = 0
    BY <1>1, <1>2, <1>3, <1>5, StillEven DEF Even
  <1>6. CASE s # 0 /\ s % U = 0 /\ off = 0
    <2>1. s < U
      BY <1>3, <1>6
    <2>2. s % U = s
      <3>1. s = s + 0 * U
        OBVIOUS
      <3> QED
        BY <2>1, <3>1, DivMod
    <2> QED
      BY <1>6, <2>2
  <1> QED
    BY <1>1, <1>2, <1>4, <1>5, <1>6 DEF Even

(* The first dereference puts the pointer where the original loop's is.    *)
LEMMA WalkBegins ==
    ASSUME NEW p \in Pointers, Aligned(p), NEW old \in Slot, NEW slot, slot = InitSlot(p, old),
           NEW reg, reg.base = DerefLoopResult(slot).base, reg.off = DerefLoopResult(slot).off,
           reg.bound = DerefLoopResult(slot).off
                         + IF p.remote THEN OBJ_SIZE - (p.addr % OBJ_SIZE) ELSE StackBound
    PROVE  WalkAt(p, reg, 0)
  <1>1. /\ p.addr \in Nat /\ p.step \in Nat /\ p.remote \in BOOLEAN
        /\ p.addr % OBJ_SIZE \in 0 .. OBJ_SIZE - 1 /\ OBJ_SIZE \in Nat
    BY AddressParts
  <1>2. p.addr + 0 * p.step = p.addr
    BY <1>1
  <1>3. CASE p.remote
    <2>1. slot = [old EXCEPT !.active = TRUE, !.carm_ptr = TRUE,
                      !.obj_index = p.addr \div OBJ_SIZE, !.region_addr = NoRegion,
                      !.start_obj_index = p.addr \div OBJ_SIZE,
                      !.start_obj_offset = p.addr % OBJ_SIZE,
                      !.stride = Stride(p.step)]
      BY <1>3 DEF InitSlot
    <2>2. /\ slot.carm_ptr /\ slot.obj_index = p.addr \div OBJ_SIZE
          /\ slot.start_obj_index = p.addr \div OBJ_SIZE
          /\ slot.start_obj_offset = p.addr % OBJ_SIZE
      BY <2>1 DEF Slot
    <2>3. /\ DerefLoopResult(slot).base = p.addr \div OBJ_SIZE
          /\ DerefLoopResult(slot).off = p.addr % OBJ_SIZE
      BY <2>2 DEF DerefLoopResult
    <2>4. PICK r \in 0 .. OBJ_SIZE - 1 : r = p.addr % OBJ_SIZE
      BY <1>1
    <2>5. reg.bound = r + (OBJ_SIZE - r) /\ reg.off = r /\ reg.base = p.addr \div OBJ_SIZE
      BY <1>3, <2>3, <2>4
    <2>6. reg.bound = OBJ_SIZE
      BY <1>1, <2>5
    <2>7. Even(p, reg.off)
      BY <1>3, <2>4, <2>5 DEF Aligned
    <2> QED
      BY <1>2, <1>3, <2>4, <2>5, <2>6, <2>7 DEF WalkAt
  <1>4. CASE ~p.remote
    <2>1. slot = [old EXCEPT !.active = TRUE, !.carm_ptr = FALSE, !.obj_index = 0,
                             !.region_addr = NoRegion, !.stack_addr = p.addr]
      BY <1>4 DEF InitSlot
    <2>2. /\ ~slot.carm_ptr /\ slot.obj_index = 0 /\ slot.stack_addr = p.addr
      BY <2>1 DEF Slot
    <2>3. /\ DerefLoopResult(slot).base = Stack
          /\ DerefLoopResult(slot).off = p.addr + 0 * OBJ_SIZE
      BY <2>2 DEF DerefLoopResult
    <2>4. p.addr + 0 * OBJ_SIZE = p.addr
      BY <1>1
    <2>5. reg.base = Stack /\ reg.off = p.addr /\ reg.bound = p.addr + StackBound
      BY <1>4, <2>3, <2>4
    <2> QED
      BY <1>2, <1>4, <2>5 DEF WalkAt
  <1> QED
    BY <1>3, <1>4

(* The check takes it to where the next iteration of the original loop     *)
(* looks.                                                                  *)
LEMMA WalkAdvances ==
    ASSUME NEW p \in Pointers, Aligned(p), NEW reg \in Reg, NEW slot \in Slot,
           NEW i \in Nat, i + 1 <= MaxTrips, Holding(p, reg, slot, i), WalkAt(p, reg, i),
           NEW new, new = NewReg(reg, p, slot)
    PROVE  WalkAt(p, new, i + 1)
  <1>1. /\ p.addr \in Nat /\ p.step \in Nat /\ p.remote \in BOOLEAN
        /\ p.addr \div OBJ_SIZE \in Nat /\ OBJ_SIZE \in Nat \ {0} /\ Stride(p.step) \in Nat
    BY AddressParts
  <1>2. PICK s \in Nat : s = p.step
    BY <1>1
  <1>3. PICK U \in Nat \ {0} : U = OBJ_SIZE
    BY <1>1
  <1>4. PICK a \in Nat : a = p.addr + i * p.step
    <2>1. i * p.step \in Nat
      BY <1>1, TimesNat
    <2> QED
      BY <1>1, <2>1
  <1>5. p.addr + (i + 1) * p.step = a + s
    <2>1. PICK b \in Nat : b = p.addr
      BY <1>1
    <2>2. (b + i * s) + s = b + (i + 1) * s
      BY OneMore
    <2> QED
      BY <1>2, <1>4, <2>1, <2>2
  <1>6. PICK off \in Nat : off = reg.off
    BY DEF Reg
  <1>7. ~Crosses(reg, p) => new = [reg EXCEPT !.off = off + s]
    BY <1>2, <1>6 DEF NewReg
  <1>8. CASE p.remote
    <2>1. /\ reg.base = a \div U /\ off = a % U /\ reg.bound = U /\ Even(p, off)
      BY <1>3, <1>4, <1>6, <1>8 DEF WalkAt
    <2>2. off \in 0 .. U - 1 /\ a \div U \in Nat
      BY <2>1, Parts
    <2>3. Crosses(reg, p) <=> off + s >= U
      BY <1>2, <1>6, <2>1 DEF Crosses
    <2>4. SUFFICES /\ new.base = (a + s) \div U /\ new.off = (a + s) % U /\ new.bound = U
                   /\ Even(p, new.off)
      BY <1>3, <1>5, <1>8 DEF WalkAt
    <2>5. CASE Crosses(reg, p)
      <3>1. PICK d \in Nat : d = Stride(p.step)
        BY <1>1
      <3>2. off + s = d * U /\ d > 0 /\ Even(p, 0)
        BY <1>2, <1>3, <2>1, <2>2, <2>3, <2>5, <3>1, AlignedCross
      <3>3. (a + s) \div U = (a \div U) + d /\ (a + s) % U = 0
        <4>1. (a % U) + s = d * U
          BY <2>1, <3>2
        <4> QED
          BY <4>1, MeetBorder
      <3>4. /\ slot.carm_ptr /\ slot.obj_index = reg.base + d
            /\ slot.start_obj_index = p.addr \div OBJ_SIZE
        BY <1>8, <3>1 DEF Holding
      <3>5. slot.obj_index # slot.start_obj_index
        <4>1. PICK c \in 0 .. i : reg.base = (p.addr \div OBJ_SIZE) + c * d
          BY <1>8, <3>1 DEF Holding
        <4>2. PICK st \in Nat : st = p.addr \div OBJ_SIZE
          BY <1>1
        <4>3. PICK x \in Nat : x = c * d
          BY TimesNat
        <4>4. slot.obj_index = st + x + d /\ slot.start_obj_index = st
          BY <3>4, <4>1, <4>2, <4>3
        <4> QED
          BY <3>2, <4>4
      <3>6. /\ DerefLoopResult(slot).base = slot.obj_index /\ DerefLoopResult(slot).off = 0
        BY <3>4, <3>5 DEF DerefLoopResult
      <3>7. new = [reg EXCEPT !.base = slot.obj_index, !.off = 0, !.bound = 0 + U]
        BY <1>3, <2>5, <3>6 DEF NewReg
      <3>8. new.base = slot.obj_index /\ new.off = 0 /\ new.bound = 0 + U
        BY <3>7 DEF Reg
      <3> QED
        BY <2>1, <3>2, <3>3, <3>4, <3>8
    <2>6. CASE ~Crosses(reg, p)
      <3>1. new.base = reg.base /\ new.off = off + s /\ new.bound = reg.bound
        BY <1>7, <2>6 DEF Reg
      <3>2. off + s < U
        BY <2>2, <2>3, <2>6
      <3>3. (a + s) \div U = a \div U /\ (a + s) % U = off + s
        BY <2>1, <3>2, StayInObject
      <3>4. Even(p, off + s)
        BY <1>2, <1>3, <2>1, <2>2, <3>2, AlignedStay
      <3> QED
        BY <2>1, <3>1, <3>3, <3>4
    <2> QED
      BY <2>5, <2>6
  <1>9. CASE ~p.remote
    <2>1. reg.base = Stack /\ off = a /\ reg.bound = p.addr + StackBound
      BY <1>4, <1>6, <1>9 DEF WalkAt
    <2>2. PICK m \in Nat : MaxTrips = i + 1 + m
      BY LoopsAssumption
    <2>3. MaxTrips * s < StackBound
      BY <1>2, <1>9 DEF Aligned
    <2>4. MaxTrips * s = (i + 1) * s + m * s
      BY <2>2
    <2>5. PICK x \in Nat : x = (i + 1) * s
      BY TimesNat
    <2>6. m * s \in Nat
      BY TimesNat
    <2>7. PICK y \in Nat : y = p.addr
      BY <1>1
    <2>8. a + s = y + x
      BY <1>2, <1>5, <2>5, <2>7
    <2>9. StackBound \in Int
      BY LoopsAssumption DEF StackBound
    <2>10. x < StackBound
      BY <2>3, <2>4, <2>5, <2>6, <2>9
    <2>11. ~Crosses(reg, p)
      BY <1>2, <1>6, <2>1, <2>7, <2>8, <2>9, <2>10 DEF Crosses
    <2>12. new.base = reg.base /\ new.off = off + s /\ new.bound = reg.bound
      BY <1>7, <2>11 DEF Reg
    <2> QED
      BY <1>5, <1>9, <2>1, <2>12 DEF WalkAt
  <1> QED
    BY <1>8, <1>9

(* A step of the innermost loop leaves the walks of the others alone. *)
LEMMA WalkTop ==
    ASSUME LoopsInv, WalkInv, nest # <<>>, NEW l \in Loop, SetTop(l),
           l.at = "header" => l.i = 0,
           \A j \in 1 .. Len(l.regs) : WalkAt(l.ptrs[j], l.regs[j], Steps(l, j))
    PROVE  WalkInv'
  <1>T. PICK T \in Nat : T = Len(nest)
    BY NestTypes DEF LoopsInv
  <1>1. nest \in Seq(Loop)
    BY DEF LoopsInv, NestInv
  <1>2. /\ Len(nest') = T /\ nest'[T] = l
        /\ \A n \in 1 .. T : n # T => nest'[n] = nest[n]
    BY <1>T, <1>1, NestTop
  <1> SUFFICES ASSUME NEW n \in 1 .. T
               PROVE  /\ nest'[n].at = "header" => nest'[n].i = 0
                      /\ \A j \in 1 .. Len(nest'[n].regs) :
                            WalkAt(nest'[n].ptrs[j], nest'[n].regs[j], Steps(nest'[n], j))
    BY <1>2 DEF WalkInv
  <1>3. CASE n = T
    BY <1>2, <1>3
  <1>4. CASE n # T
    BY <1>T, <1>2, <1>4 DEF WalkInv
  <1> QED
    BY <1>3, <1>4

(* Only the innermost loop steps; its pointers are where they were. *)
LEMMA WalkRests ==
    ASSUME LoopsInv, WalkInv, nest # <<>>, NEW l \in Loop, SetTop(l), l.at # "header",
           l.regs = Top.regs, l.ptrs = Top.ptrs, l.i = Top.i, Top.at # "check",
           l.at = "check" => l.k = 1
    PROVE  WalkInv'
  <1>1. Top = nest[Len(nest)] /\ Len(nest) \in 1 .. Len(nest) /\ Top \in Loop /\ LoopOK(Top)
    BY NestTypes DEF LoopsInv
  <1>2. \A j \in 1 .. Len(l.regs) : j \in Nat /\ 1 <= j
    BY <1>1, LoopTypes
  <1>3. ASSUME NEW j \in 1 .. Len(l.regs)
        PROVE  WalkAt(l.ptrs[j], l.regs[j], Steps(l, j))
    <2>1. Steps(l, j) = l.i /\ Steps(Top, j) = l.i
      BY <1>2 DEF Steps
    <2>2. WalkAt(Top.ptrs[j], Top.regs[j], Steps(Top, j))
      BY <1>1 DEF WalkInv
    <2> QED
      BY <2>1, <2>2
  <1> QED
    BY <1>3, WalkTop

(* The walks after the check. *)
LEMMA WalkCheck ==
    ASSUME AlignedWalks, LoopsInv, WalkInv, Check
    PROVE  WalkInv'
  <1>T. PICK T \in Nat : T = Len(nest)
    BY NestTypes DEF LoopsInv
  <1>1. /\ nest # <<>> /\ Top.at = "check" /\ Top \in Loop /\ LoopOK(Top)
        /\ Top = nest[T] /\ T \in 1 .. T /\ Top.k \in Nat
    <2>1. nest # <<>> /\ Top.at = "check"
      BY DEF Check
    <2>2. Top \in Loop /\ LoopOK(Top) /\ Top = nest[T] /\ T \in 1 .. T
      BY <1>T, <2>1, NestTypes DEF LoopsInv
    <2> QED
      BY <2>1, <2>2 DEF Loop
  <1>L. PICK L \in Loop : L = Top
    BY <1>1
  <1>k. PICK k \in Nat : k = L.k
    BY <1>1, <1>L
  <1>p. PICK p \in Pointers : p = L.ptrs[k]
    BY <1>1, <1>L, <1>k, CheckStart
  <1>r. PICK reg \in Reg : reg = L.regs[k]
    BY <1>1, <1>L, <1>k, CheckStart
  <1>i. PICK i \in Nat : i = L.i
    BY <1>1, <1>L, CheckStart
  <1>2. /\ k \in 1 .. Len(L.ptrs) /\ k \in 1 .. Len(L.regs) /\ i + 1 <= MaxTrips
        /\ reg.id \in LoopIds /\ loopstate[reg.id] \in Slot /\ loopstate[reg.id].active
        /\ HoldOK(L, k, loopstate[reg.id])
        /\ p.remote => \E c \in 0 .. i : reg.base = (p.addr \div OBJ_SIZE) + c * Stride(p.step)
        /\ ~p.remote => reg.base = Stack
    BY <1>1, <1>L, <1>k, <1>p, <1>r, <1>i, CheckStart
  <1>s. PICK slot \in Slot : slot = loopstate[reg.id]
    BY <1>2
  <1>3. Holding(p, reg, slot, i)
    BY <1>p, <1>r, <1>s, <1>2 DEF HoldOK, Holding
  <1>4. PICK new : new = NewReg(reg, p, slot)
    OBVIOUS
  <1>5. PICK s : s = NewSlot(reg, p, slot)
    OBVIOUS
  <1>6. PICK pp : pp = NewPins(reg, p, slot)
    OBVIOUS
  <1>7. PICK l : l = Checked(L, k, new)
    OBVIOUS
  <1>8. pins \in [Objects -> Nat]
    BY DEF LoopsInv, TypeOK
  <1>9. SetTop(l)
    BY <1>L, <1>k, <1>p, <1>r, <1>s, <1>4, <1>7 DEF Check, NewReg, Checked
  <1>10. new \in Reg /\ new.id = reg.id
    BY <1>2, <1>3, <1>4, <1>5, <1>6, <1>8, Advance
  <1>11. /\ l \in Loop /\ LoopOK(l) /\ l.at # "exit" /\ l.outer = L.outer
         /\ l.ptrs = L.ptrs /\ Len(l.regs) = Len(L.regs) /\ Len(L.regs) = Len(L.ptrs)
         /\ \A j \in 1 .. Len(L.regs) :
               /\ l.regs[j] = IF j = k THEN new ELSE L.regs[j]
               /\ l.regs[j].id = L.regs[j].id
               /\ Steps(l, j) = IF j <= k THEN L.i + 1 ELSE L.i
               /\ Steps(L, j) = IF j < k THEN L.i + 1 ELSE L.i
    <2>1. LoopOK(L) /\ L.at = "check" /\ new.id = L.regs[k].id /\ new \in Reg
      BY <1>1, <1>L, <1>r, <1>10
    <2> QED
      BY <1>k, <1>7, <2>1, CheckedLoop
  <1>12. l.at # "header"
    BY <1>7 DEF Checked, Loop
  <1>13. \A j \in 1 .. Len(L.regs) : WalkAt(L.ptrs[j], L.regs[j], Steps(L, j))
    BY <1>T, <1>1, <1>L DEF WalkInv
  <1>14. ASSUME NEW j \in 1 .. Len(l.regs)
         PROVE  WalkAt(l.ptrs[j], l.regs[j], Steps(l, j))
    <2>1. j \in 1 .. Len(L.regs) /\ j \in Nat
      BY <1>11, <1>1, <1>L, LoopTypes
    <2>2. CASE j = k
      <3>1. Steps(L, j) = i /\ Steps(l, j) = i + 1 /\ l.regs[j] = new /\ l.ptrs[j] = p
        BY <1>2, <1>i, <1>p, <1>11, <2>1, <2>2
      <3>2. WalkAt(p, reg, i)
        BY <1>p, <1>r, <1>13, <2>1, <2>2, <3>1
      <3>3. Aligned(p)
        BY DEF AlignedWalks
      <3>4. WalkAt(p, new, i + 1)
        BY <1>2, <1>3, <1>4, <3>2, <3>3, WalkAdvances
      <3> QED
        BY <3>1, <3>4
    <2>3. CASE j # k
      <3>1. Steps(L, j) = Steps(l, j) /\ l.regs[j] = L.regs[j] /\ l.ptrs[j] = L.ptrs[j]
        BY <1>2, <1>11, <2>1, <2>3
      <3> QED
        BY <1>13, <2>1, <3>1
    <2> QED
      BY <2>2, <2>3
  <1> QED
    BY <1>1, <1>9, <1>11, <1>12, <1>14, WalkTop

(* The walks after the header. *)
LEMMA WalkHeader ==
    ASSUME AlignedWalks, LoopsInv, WalkInv, Header
    PROVE  WalkInv'
  <1>T. PICK T \in Nat : T = Len(nest)
    BY NestTypes DEF LoopsInv
  <1>0. nest # <<>> /\ Top.at = "header"
    BY DEF Header
  <1>1. /\ Top \in Loop /\ LoopOK(Top) /\ Top = nest[T] /\ T \in 1 .. T
        /\ loop_id_cnt \in LoopIds /\ loop_id_cnt \in Nat
        /\ Top.k \in 1 .. Len(Top.ptrs) /\ Top.ptrs[Top.k] \in Pointers
    BY <1>0, <1>T, HeaderStart
  <1>L. PICK L \in Loop : L = Top
    BY <1>1
  <1>p. PICK p \in Pointers : p = L.ptrs[L.k]
    BY <1>1, <1>L
  <1>o. PICK old \in Slot : old = loopstate[loop_id_cnt]
    BY <1>1 DEF LoopsInv, TypeOK
  <1>s. PICK slot : slot = InitSlot(p, old)
    OBVIOUS
  <1>2. PICK ptr : ptr = DerefLoopResult(slot)
    OBVIOUS
  <1>3. PICK b : b = InitResult(p) % (2 ^ LOOP_ID_POS)
    OBVIOUS
  <1>4. PICK reg : reg = [id |-> InitResult(p) \div (2 ^ LOOP_ID_POS),
                          base |-> ptr.base, off |-> ptr.off, bound |-> ptr.off + b]
    OBVIOUS
  <1>5. PICK l : l = Started(L, reg)
    OBVIOUS
  <1>6. SetTop(l)
    BY <1>L, <1>p, <1>o, <1>s, <1>2, <1>3, <1>4, <1>5 DEF Header, Started
  <1>7. /\ slot \in Slot /\ (slot.carm_ptr => slot.obj_index \in Objects)
    BY <1>s, InitSlotHolds
  <1>8. /\ InitResult(p) \div (2 ^ LOOP_ID_POS) = loop_id_cnt /\ b \in Nat
        /\ b = IF p.remote THEN OBJ_SIZE - (p.addr % OBJ_SIZE) ELSE StackBound
    <2>1. /\ InitResult(p) \div (2 ^ LOOP_ID_POS) = loop_id_cnt /\ StackBound \in Nat
          /\ b = IF p.remote THEN OBJ_SIZE - (p.addr % OBJ_SIZE) ELSE StackBound
      BY <1>1, <1>3, InitResultParts
    <2>2. OBJ_SIZE \in Nat /\ p.addr % OBJ_SIZE \in 0 .. OBJ_SIZE - 1
      BY AddressParts
    <2> QED
      BY <2>1, <2>2
  <1>9. reg \in Reg
    <2>1. ptr.base \in Objects \cup {Stack} /\ ptr.off \in Nat
      BY <1>7, <1>2, DerefResult
    <2>2. PICK cnt \in LoopIds : cnt = InitResult(p) \div (2 ^ LOOP_ID_POS)
      BY <1>1, <1>8
    <2>3. ptr.off + b \in Nat
      BY <1>8, <2>1
    <2> QED
      BY <1>4, <2>1, <2>2, <2>3 DEF Reg
  <1>10. WalkAt(p, reg, 0)
    <2>1. Aligned(p)
      BY DEF AlignedWalks
    <2>2. /\ reg.base = DerefLoopResult(slot).base /\ reg.off = DerefLoopResult(slot).off
          /\ reg.bound = DerefLoopResult(slot).off
                           + IF p.remote THEN OBJ_SIZE - (p.addr % OBJ_SIZE) ELSE StackBound
      BY <1>2, <1>4, <1>8
    <2> QED
      BY <1>s, <2>1, <2>2, WalkBegins
  <1>11. /\ l \in Loop /\ LoopOK(l) /\ l.at \in {"header", "body"} /\ l.i = L.i
         /\ l.ptrs = L.ptrs /\ Len(L.regs) \in Nat /\ Len(l.regs) = Len(L.regs) + 1
         /\ Len(L.regs) = L.k - 1 /\ L.k \in 1 .. Len(L.ptrs) /\ Len(L.ptrs) \in Nat
         /\ l.regs[Len(L.regs) + 1] = reg
         /\ \A j \in 1 .. Len(L.regs) : l.regs[j] = L.regs[j]
    <2>1. LoopOK(L) /\ L.at = "header"
      BY <1>0, <1>1, <1>L
    <2> QED
      BY <1>5, <1>9, <2>1, StartedLoop
  <1>12. /\ L.i = 0
         /\ \A j \in 1 .. Len(L.regs) : WalkAt(L.ptrs[j], L.regs[j], Steps(L, j))
    BY <1>0, <1>T, <1>1, <1>L DEF WalkInv
  <1>13. ASSUME NEW j \in 1 .. Len(l.regs)
         PROVE  WalkAt(l.ptrs[j], l.regs[j], Steps(l, j))
    <2>1. Steps(l, j) = 0 /\ Steps(L, j) = 0
      BY <1>0, <1>L, <1>11, <1>12 DEF Steps
    <2>2. CASE j = Len(L.regs) + 1
      <3>1. l.regs[j] = reg /\ l.ptrs[j] = p
        BY <1>p, <1>11, <2>2
      <3> QED
        BY <1>10, <2>1, <3>1
    <2>3. CASE j \in 1 .. Len(L.regs)
      BY <1>11, <1>12, <2>1, <2>3
    <2> QED
      BY <1>11, <2>2, <2>3
  <1>14. l.at = "header" => l.i = 0
    BY <1>11, <1>12
  <1> QED
    BY <1>0, <1>6, <1>11, <1>13, <1>14, WalkTop

(* The walks in the exit block. *)
LEMMA WalkInvalidate ==
    ASSUME LoopsInv, WalkInv, Invalidate
    PROVE  WalkInv'
  <1>T. PICK T \in Nat : T = Len(nest)
    BY NestTypes DEF LoopsInv
  <1>0. /\ nest # <<>> /\ Top.at = "exit"
    BY DEF Invalidate
  <1>1. Top \in Loop /\ Top.k \in Nat /\ T \in 1 .. T /\ Top = nest[T] /\ nest \in Seq(Loop)
    BY <1>0, <1>T, InvalidateStart DEF Loop, LoopsInv, NestInv
  <1>2. CASE Top.k = Len(Top.ptrs)
    <2>1. PICK M \in Nat : M = T - 1
      BY <1>1
    <2>2. nest' = SubSeq(nest, 1, M) /\ M <= Len(nest)
      BY <1>2, <1>T, <2>1 DEF Invalidate
    <2>3. Len(nest') = M /\ \A n \in 1 .. M : nest'[n] = nest[n]
      BY <1>1, <2>2
    <2>4. \A n \in 1 .. M : n \in 1 .. T
      BY <2>1
    <2> QED
      BY <1>T, <2>3, <2>4 DEF WalkInv
  <1>3. CASE Top.k # Len(Top.ptrs)
    <2>1. PICK L \in Loop : L = Top
      BY <1>1
    <2>2. PICK k \in Nat : k = L.k + 1
      BY <1>1, <2>1
    <2>3. PICK l : l = [L EXCEPT !.k = k]
      OBVIOUS
    <2>4. /\ l \in Loop /\ l.at = L.at /\ l.regs = L.regs /\ l.ptrs = L.ptrs /\ l.i = L.i
      BY <2>3 DEF Loop
    <2>5. SetTop(l)
      BY <1>0, <1>1, <1>3, <1>T, <2>1, <2>2, <2>3 DEF SetTop, Invalidate
    <2> QED
      BY <1>0, <2>1, <2>4, <2>5, WalkRests
  <1> QED
    BY <1>2, <1>3

(* Every step keeps the walks where they belong. *)
LEMMA NextWalkInv ==
    ASSUME AlignedWalks, LoopsInv, WalkInv, [Next]_vars
    PROVE  WalkInv'
  <1>1. ASSUME NEW N \in 1 .. MaxPointers, NEW ps \in [1 .. N -> Pointers], Enter(ps)
        PROVE  WalkInv'
    <2>1. N \in Nat \ {0}
      OBVIOUS
    <2>2. PICK T \in Nat : T = Len(nest)
      BY NestTypes DEF LoopsInv
    <2>3. PICK new : new = [at |-> "header", k |-> 1, i |-> 0, ptrs |-> ps, regs |-> <<>>,
               outer |-> PointersOpen]
      OBVIOUS
    <2>4. /\ Len(nest') = T + 1 /\ nest'[T + 1] = new
          /\ \A n \in 1 .. T : nest'[n] = nest[n]
      BY <1>1, <2>1, <2>2, <2>3, EnterNest
    <2>5. new.i = 0 /\ Len(new.regs) = 0
      BY <2>3
    <2> SUFFICES ASSUME NEW n \in 1 .. T + 1
                 PROVE  /\ nest'[n].at = "header" => nest'[n].i = 0
                        /\ \A j \in 1 .. Len(nest'[n].regs) :
                              WalkAt(nest'[n].ptrs[j], nest'[n].regs[j], Steps(nest'[n], j))
      BY <2>4 DEF WalkInv
    <2>6. CASE n = T + 1
      BY <2>4, <2>5, <2>6
    <2>7. CASE n \in 1 .. T
      BY <2>2, <2>4, <2>7 DEF WalkInv
    <2> QED
      BY <2>6, <2>7
  <1>2. CASE Header
    BY <1>2, WalkHeader
  <1>3. CASE BackEdge \/ Exit
    <2>1. PICK at \in {"check", "exit"} :
             nest # <<>> /\ Top.at = "body" /\ SetTop([Top EXCEPT !.at = at, !.k = 1])
      BY <1>3 DEF BackEdge, Exit
    <2>2. Top \in Loop
      BY <2>1, NestTypes DEF LoopsInv
    <2>3. PICK L \in Loop : L = Top
      BY <2>2
    <2>4. PICK l : l = [L EXCEPT !.at = at, !.k = 1]
      OBVIOUS
    <2>5. /\ l \in Loop /\ l.at = at /\ l.k = 1 /\ l.regs = L.regs /\ l.ptrs = L.ptrs /\ l.i = L.i
      BY <2>4 DEF Loop
    <2>6. SetTop(l)
      BY <2>1, <2>3, <2>4
    <2> QED
      BY <2>1, <2>3, <2>5, <2>6, WalkRests
  <1>4. CASE Check
    BY <1>4, WalkCheck
  <1>5. CASE Invalidate
    BY <1>5, WalkInvalidate
  <1>6. CASE UNCHANGED vars
    BY <1>6 DEF vars, WalkInv
  <1> QED
    BY <1>1, <1>2, <1>3, <1>4, <1>5, <1>6 DEF Next

(* When every element size divides an object and every walk starts at a    *)
(* multiple of it, or walks over whole objects, each chunked pointer is in *)
(* every iteration where the getelementptr of the original loop would be   *)
(* (the header, check and body that carm_loop_transform emits).            *)
THEOREM WalksAgree == AlignedWalks => (Spec => []WalkAgrees)
  <1> SUFFICES ASSUME AlignedWalks PROVE Spec => []WalkAgrees
    OBVIOUS
  <1>1. Init => WalkInv
    BY DEF Init, WalkInv
  <1>2. LoopsInv /\ WalkInv /\ [Next]_vars => WalkInv'
    BY NextWalkInv
  <1>3. ASSUME LoopsInv, WalkInv PROVE WalkAgrees
    <2> SUFFICES ASSUME NEW n \in 1 .. Len(nest), nest[n].at = "body",
                        NEW j \in 1 .. Len(nest[n].ptrs)
                 PROVE  LET p == nest[n].ptrs[j]
                            reg == nest[n].regs[j]
                            addr == p.addr + nest[n].i * p.step
                        IN  IF p.remote
                            THEN reg.base = addr \div OBJ_SIZE /\ reg.off = addr % OBJ_SIZE
                            ELSE reg.base = Stack /\ reg.off = addr
      BY DEF WalkAgrees
    <2>1. nest[n] \in Loop /\ LoopOK(nest[n])
      BY <1>3, NestTypes DEF LoopsInv
    <2>2. j \in 1 .. Len(nest[n].regs)
      BY <2>1, LoopTypes
    <2>3. Steps(nest[n], j) = nest[n].i
      BY DEF Steps
    <2>4. WalkAt(nest[n].ptrs[j], nest[n].regs[j], nest[n].i)
      BY <1>3, <2>2, <2>3 DEF WalkInv
    <2> QED
      BY <2>4 DEF WalkAt
  <1>4. LoopsInv /\ WalkInv => WalkAgrees
    BY <1>3
  <1> QED
    BY <1>1, <1>2, <1>4, LoopsInductive, PTL DEF Spec
=============================================================================
