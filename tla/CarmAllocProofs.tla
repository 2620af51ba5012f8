--------------------------- MODULE CarmAllocProofs --------------------------
(***************************************************************************)
(* Proofs about CarmAlloc: carm_free never counts more freed bytes of an   *)
(* object than it has, the object list does not outgrow its arrays, and as *)
(* long as the program has asked for no more than the object list holds,   *)
(* an index it uses keeps its object and the object reports to it.         *)
(***************************************************************************)
EXTENDS CarmAlloc, FiniteSetTheorems, TLAPS

-----------------------------------------------------------------------------
(* Addresses and objects *)

(* The objects follow each other. *)
LEMMA Scale ==
    ASSUME NEW U \in Nat \ {0}, NEW i \in Nat, NEW j \in Nat
    PROVE  /\ i * U \in Nat
           /\ (i + 1) * U = i * U + U
           /\ i <= j => i * U <= j * U
           /\ i < j => i * U + U <= j * U
  <1>1. i * U \in Nat /\ j * U \in Nat /\ (i + 1) * U = i * U + U
    OBVIOUS
  <1>2. i <= j => i * U <= j * U
    OBVIOUS
  <1>3. i + 1 <= j => (i + 1) * U <= j * U
    OBVIOUS
  <1> QED
    BY <1>1, <1>2, <1>3

(* An address is the start of its object and the offset in it. *)
LEMMA Parts ==
    ASSUME NEW addr \in Nat
    PROVE  /\ ObjIndex(addr) \in Nat
           /\ Offset(addr) \in 0 .. OBJ_SIZE - 1
           /\ addr = ObjIndex(addr) * OBJ_SIZE + Offset(addr)
  <1>1. OBJ_SIZE \in Nat \ {0}
    BY AllocAssumption
  <1> QED
    BY <1>1 DEF ObjIndex, Offset

(* An object is OBJ_SIZE bytes, and no two share one. *)
LEMMA Objects ==
    ASSUME NEW o \in Nat
    PROVE  /\ ObjectBytes(o) = o * OBJ_SIZE .. o * OBJ_SIZE + OBJ_SIZE - 1
           /\ o * OBJ_SIZE \in Nat
           /\ IsFiniteSet(ObjectBytes(o))
           /\ Cardinality(ObjectBytes(o)) = OBJ_SIZE
  <1>1. OBJ_SIZE \in Nat \ {0}
    BY AllocAssumption
  <1>2. o * OBJ_SIZE \in Nat /\ (o + 1) * OBJ_SIZE = o * OBJ_SIZE + OBJ_SIZE
    BY <1>1, Scale
  <1>3. ObjectBytes(o) = o * OBJ_SIZE .. o * OBJ_SIZE + OBJ_SIZE - 1
    BY <1>1, <1>2 DEF ObjectBytes
  <1> DEFINE first == o * OBJ_SIZE
  <1>4. /\ IsFiniteSet(first .. first + OBJ_SIZE - 1)
        /\ Cardinality(first .. first + OBJ_SIZE - 1) =
             IF first > first + OBJ_SIZE - 1 THEN 0 ELSE first + OBJ_SIZE - 1 - first + 1
    <2> HIDE DEF first
    <2>1. first \in Nat
      BY <1>2 DEF first
    <2> QED
      BY <1>1, <2>1, FS_Interval
  <1>5. (IF first > first + OBJ_SIZE - 1 THEN 0 ELSE first + OBJ_SIZE - 1 - first + 1) = OBJ_SIZE
    <2> HIDE DEF first
    <2>1. first \in Nat
      BY <1>2 DEF first
    <2> QED
      BY <1>1, <2>1
  <1> QED
    BY <1>2, <1>3, <1>4, <1>5

(* The address space ends where the last object the bump pointer may reach *)
(* does, and a block is never empty.                                       *)
LEMMA Constants ==
    /\ OBJ_SIZE \in Nat \ {0} /\ CARM_ALLOC_SIZE_MULTIPLE \in Nat \ {0}
    /\ NumObjects \in Nat /\ MaxObjects \in Nat /\ TOTAL_OBJECTS \in Nat
    /\ NumObjects + MaxObjects <= TOTAL_OBJECTS
    /\ MaxObjects * OBJ_SIZE \in Nat
    /\ TOTAL_OBJECTS * OBJ_SIZE \in Nat
    /\ MaxObjects * OBJ_SIZE <= TOTAL_OBJECTS * OBJ_SIZE
    /\ Null \notin Nat
  <1>1. /\ OBJ_SIZE \in Nat \ {0} /\ CARM_ALLOC_SIZE_MULTIPLE \in Nat \ {0}
        /\ NumObjects \in Nat /\ MaxObjects \in Nat /\ TOTAL_OBJECTS \in Nat
        /\ NumObjects + MaxObjects <= TOTAL_OBJECTS
        /\ Null \notin Nat
    BY AllocAssumption
  <1>2. MaxObjects <= TOTAL_OBJECTS
    BY <1>1
  <1> QED
    BY <1>1, <1>2, Scale

(* A block is never empty: enforce_size_constraints rounds a size up       *)
(* to at least one unit.                                                   *)
LEMMA BlockSize ==
    ASSUME NEW size \in Sizes
    PROVE  enforce_size_constraints(size) \in Nat \ {0}
  <1>1. size \in Nat /\ CARM_ALLOC_SIZE_MULTIPLE \in Nat \ {0}
    BY AllocAssumption
  <1>2. size % CARM_ALLOC_SIZE_MULTIPLE \in 0 .. CARM_ALLOC_SIZE_MULTIPLE - 1
    BY <1>1
  <1> QED
    BY <1>1, <1>2 DEF enforce_size_constraints

-----------------------------------------------------------------------------
(* What the invariant says of single objects and blocks *)

(* The slots are the first natural numbers. *)
LEMMA SlotIsNat == Slots \subseteq Nat /\ IsFiniteSet(Slots)
  <1>1. TOTAL_OBJECTS \in Nat
    BY Constants
  <1> QED
    BY <1>1, FS_Interval DEF Slots

(* The occupied bytes of an object can be counted; so can its live bytes,  *)
(* which are among them.                                                   *)
LEMMA OccupiedIsFinite ==
    ASSUME NEW o \in Slots
    PROVE  /\ IsFiniteSet(Occupied(o)) /\ Cardinality(Occupied(o)) \in Nat
           /\ LiveBytes(o) \subseteq Occupied(o)
           /\ IsFiniteSet(LiveBytes(o)) /\ Cardinality(LiveBytes(o)) \in Nat
           /\ Cardinality(LiveBytes(o)) <= Cardinality(Occupied(o))
  <1>1. IsFiniteSet(ObjectBytes(o))
    BY SlotIsNat, Objects
  <1>2. Occupied(o) \subseteq ObjectBytes(o)
    BY DEF Occupied
  <1>3. LiveBytes(o) \subseteq Occupied(o)
    BY DEF Occupied, LiveBytes, ObjectBytes
  <1>4. IsFiniteSet(Occupied(o))
    BY <1>1, <1>2, FS_Subset
  <1> QED
    BY <1>3, <1>4, FS_Subset, FS_CardinalityType

(* A step that frees nothing and occupies nothing new keeps the counts. *)
LEMMA Shrinks ==
    ASSUME TypeOK, CountInv, UNCHANGED free_list_map,
           ASSUME NEW o \in Slots PROVE Occupied(o)' \subseteq Occupied(o)
    PROVE  CountInv'
  <1> SUFFICES ASSUME NEW o \in Slots
               PROVE  free_list_map[o]' + Cardinality(Occupied(o)') <= OBJ_SIZE
    BY DEF CountInv, Slots
  <1>1. IsFiniteSet(Occupied(o)) /\ Cardinality(Occupied(o)) \in Nat
    BY OccupiedIsFinite
  <1>2. Occupied(o)' \subseteq Occupied(o)
    OBVIOUS
  <1> DEFINE before == Occupied(o)
             after == Occupied(o)'
  <1>3. Cardinality(after) \in Nat /\ Cardinality(after) <= Cardinality(before)
    <2> HIDE DEF before, after
    <2>1. IsFiniteSet(before) /\ after \subseteq before
      BY <1>1, <1>2 DEF before, after
    <2> QED
      BY <2>1, FS_Subset, FS_CardinalityType
  <1>4. free_list_map[o] \in Nat /\ free_list_map[o]' = free_list_map[o]
    BY DEF TypeOK
  <1>5. free_list_map[o] + Cardinality(before) <= OBJ_SIZE
    BY DEF CountInv
  <1> HIDE DEF before, after
  <1>6. free_list_map[o] + Cardinality(after) <= OBJ_SIZE
    BY <1>1, <1>3, <1>4, <1>5, Constants DEF before
  <1> QED
    BY <1>4, <1>6 DEF after

(* An object that is freed as a whole is one the bump pointer has passed. *)
LEMMA FullIsPassed ==
    ASSUME TypeOK, BlocksInv, CountInv
    PROVE  /\ Full \subseteq 0 .. MaxObjects - 1
           /\ Full \subseteq 0 .. ObjIndex(aspace_start) - 1
           /\ IsFiniteSet(Full) /\ Cardinality(Full) \in Nat
  <1>1. ASSUME NEW o \in Full PROVE o < MaxObjects /\ o < ObjIndex(aspace_start)
    <2>1. o \in Slots /\ free_list_map[o] = OBJ_SIZE /\ o \in Nat
      BY <1>1, SlotIsNat DEF Full
    <2>2. IsFiniteSet(Occupied(o)) /\ Cardinality(Occupied(o)) \in Nat
      BY <2>1, OccupiedIsFinite
    <2>3. free_list_map[o] + Cardinality(Occupied(o)) <= OBJ_SIZE
      BY <2>1 DEF CountInv
    <2>4. Cardinality(Occupied(o)) = 0
      BY <2>1, <2>2, <2>3, Constants
    <2>5. Occupied(o) = {}
      BY <2>2, <2>4, FS_EmptySet
    <2>6. o * OBJ_SIZE \in ObjectBytes(o) /\ o * OBJ_SIZE \in Nat
      BY <2>1, Objects, Constants
    <2>7. ~(aspace_start <= o * OBJ_SIZE)
      BY <2>5, <2>6 DEF Occupied
    <2>8. aspace_start \in Nat /\ aspace_start <= MaxObjects * OBJ_SIZE
      BY Constants DEF TypeOK, Addresses, BlocksInv
    <2>9. ~(MaxObjects * OBJ_SIZE <= o * OBJ_SIZE)
      BY <2>6, <2>7, <2>8, Constants
    <2>10. MaxObjects <= o => MaxObjects * OBJ_SIZE <= o * OBJ_SIZE
      BY <2>1, Constants, Scale
    <2>11. o < ObjIndex(aspace_start)
      <3>1. /\ o * OBJ_SIZE + OBJ_SIZE = (o + 1) * OBJ_SIZE
            /\ ObjectBytes(o) = o * OBJ_SIZE .. o * OBJ_SIZE + OBJ_SIZE - 1
        BY <2>1, Constants, Scale, Objects
      <3>2. o * OBJ_SIZE + OBJ_SIZE - 1 \in ObjectBytes(o)
        BY <2>6, <3>1, Constants
      <3>3. ~(aspace_start <= o * OBJ_SIZE + OBJ_SIZE - 1)
        BY <2>5, <3>2 DEF Occupied
      <3>4. PICK e \in Nat : e = ObjIndex(aspace_start)
        BY <2>8, Parts
      <3>5. /\ aspace_start < (e + 1) * OBJ_SIZE
            /\ (e + 1) * OBJ_SIZE \in Nat /\ (o + 1) * OBJ_SIZE \in Nat
        <4>1. /\ Offset(aspace_start) \in 0 .. OBJ_SIZE - 1
              /\ aspace_start = e * OBJ_SIZE + Offset(aspace_start)
          BY <2>8, <3>4, Parts
        <4>2. e * OBJ_SIZE \in Nat /\ (e + 1) * OBJ_SIZE = e * OBJ_SIZE + OBJ_SIZE
          BY <3>4, Constants, Scale
        <4>3. (o + 1) * OBJ_SIZE \in Nat
          BY <2>6, <3>1, Constants
        <4> QED
          BY <2>8, <4>1, <4>2, <4>3, Constants
      <3>6. ~((e + 1) * OBJ_SIZE <= (o + 1) * OBJ_SIZE)
        BY <2>6, <2>8, <3>1, <3>3, <3>5, Constants
      <3>7. e + 1 <= o + 1 => (e + 1) * OBJ_SIZE <= (o + 1) * OBJ_SIZE
        BY <2>1, <3>4, Constants, Scale
      <3> QED
        BY <2>1, <3>4, <3>6, <3>7
    <2> QED
      BY <2>1, <2>9, <2>10, <2>11, Constants
  <1>2. Full \subseteq Slots
    BY DEF Full
  <1>3. Full \subseteq 0 .. MaxObjects - 1
    BY <1>1, <1>2, SlotIsNat, Constants
  <1>4. Full \subseteq 0 .. ObjIndex(aspace_start) - 1
    <2>1. aspace_start \in Nat
      BY Constants DEF TypeOK, Addresses
    <2>2. ObjIndex(aspace_start) \in Nat
      BY <2>1, Parts
    <2> QED
      BY <1>1, <1>2, <2>2, SlotIsNat
  <1> QED
    BY <1>2, <1>3, <1>4, SlotIsNat, FS_Subset, FS_CardinalityType

-----------------------------------------------------------------------------
(* The invariant is inductive *)

(* Touching objects creates some and caches addresses. *)
LEMMA TouchType ==
    ASSUME TypeOK, NEW S, Touch(S)
    PROVE  /\ ptrs' \in [Slots -> Slots \cup {Null}]
           /\ obj_index' \in [Slots -> Slots \cup {Null}]
           /\ cached' \in [Slots -> Slots \cup {Null}]
  <1>1. ptrs' \in [Slots -> Slots \cup {Null}]
    BY DEF TypeOK, Touch
  <1> QED
    BY <1>1 DEF TypeOK, Touch

(* A new block starts at the bump pointer, behind all others. *)
LEMMA NewBlock ==
    ASSUME AllocInv, NEW size \in Sizes, TakeBlock(size)
    PROVE  LET n == enforce_size_constraints(size)
           IN  /\ n \in Nat \ {0}
               /\ aspace_start \in Addresses /\ aspace_start \in Nat
               /\ aspace_start \notin live
               /\ aspace_start' = aspace_start + n
               /\ aspace_start' \in Addresses
               /\ aspace_start' <= MaxObjects * OBJ_SIZE
               /\ allocation_map' \in [Addresses -> Nat]
               /\ allocation_map'[aspace_start] = n
               /\ \A a \in live : allocation_map[a]' = allocation_map[a]
               /\ \A a \in live : a \in Nat /\ allocation_map[a] \in Nat
               /\ \A a \in live : a \in Addresses
  <1> DEFINE n == enforce_size_constraints(size)
  <1>1. n \in Nat \ {0}
    BY BlockSize
  <1>2. /\ aspace_start + n <= MaxObjects * OBJ_SIZE
        /\ allocation_map' = [allocation_map EXCEPT ![aspace_start] = n]
        /\ aspace_start' = aspace_start + n
    BY DEF TakeBlock, BumpBound
  <1> HIDE DEF n
  <1>3. /\ aspace_start \in Addresses /\ aspace_start \in Nat
        /\ allocation_map \in [Addresses -> Nat]
        /\ live \subseteq Addresses
    BY Constants DEF AllocInv, TypeOK, Addresses
  <1>4. \A a \in live : a \in Addresses /\ a \in Nat /\ allocation_map[a] \in Nat
    BY <1>3, Constants DEF Addresses
  <1>5. aspace_start \notin live
    BY <1>3, <1>4 DEF AllocInv, BlocksInv
  <1>6. aspace_start + n \in Addresses
    BY <1>1, <1>2, <1>3, Constants, SMTT(30) DEF Addresses
  <1>7. aspace_start' = aspace_start + n /\ aspace_start' \in Addresses
    BY <1>2, <1>6
  <1>8. aspace_start' <= MaxObjects * OBJ_SIZE
    BY <1>2
  <1>9. allocation_map' \in [Addresses -> Nat] /\ allocation_map'[aspace_start] = n
    BY <1>1, <1>2, <1>3
  <1>10. \A a \in live : allocation_map[a]' = allocation_map[a]
    BY <1>2, <1>3, <1>4, <1>5
  <1> QED
    BY <1>1, <1>3, <1>4, <1>5, <1>7, <1>8, <1>9, <1>10 DEF n

(* Where the loop of carm_free starts: at the block that is freed. *)
LEMMA FreeStarts ==
    ASSUME TypeOK, BlocksInv, NEW addr \in live, cur' = FreeLocals(addr)
    PROVE  /\ cur' \in FreeInProgress
           /\ Position' = addr
           /\ Rest' = allocation_map[addr]
  <1>1. addr \in Addresses /\ addr \in Nat /\ allocation_map[addr] \in Nat
    BY Constants DEF TypeOK, Addresses
  <1>2. allocation_map[addr] > 0 /\ addr + allocation_map[addr] <= aspace_start
    BY DEF BlocksInv
  <1>3. aspace_start \in Nat /\ aspace_start <= MaxObjects * OBJ_SIZE
    BY Constants DEF TypeOK, Addresses, BlocksInv
  <1>4. /\ ObjIndex(addr) \in Nat /\ Offset(addr) \in 0 .. OBJ_SIZE - 1
        /\ addr = ObjIndex(addr) * OBJ_SIZE + Offset(addr)
        /\ ObjIndex(addr) * OBJ_SIZE \in Nat
    BY <1>1, Parts, Objects
  <1>5. ObjIndex(addr) < MaxObjects
    <2>1. MaxObjects <= ObjIndex(addr) => MaxObjects * OBJ_SIZE <= ObjIndex(addr) * OBJ_SIZE
      BY <1>4, Constants, Scale
    <2> QED
      BY <1>1, <1>2, <1>3, <1>4, <2>1, Constants
  <1>6. ObjIndex(addr) \in Slots
    BY <1>4, <1>5, Constants DEF Slots
  <1>7. cur' \in FreeInProgress
    BY <1>1, <1>4, <1>6, Constants DEF FreeLocals, FreeInProgress
  <1>8. Position' = ObjIndex(addr) * OBJ_SIZE + (OBJ_SIZE - (OBJ_SIZE - Offset(addr)))
    BY DEF Position, FreeLocals
  <1>9. Rest' = allocation_map[addr] - 0
    BY DEF Rest, FreeLocals
  <1> QED
    BY <1>1, <1>4, <1>7, <1>8, <1>9, Constants

(* A step that counts no bytes as freed: it may put a block at the bump    *)
(* pointer, and give blocks of the program to carm_free.                   *)
LEMMA Uncounted ==
    ASSUME AllocInv, cur = Null,
           UNCHANGED <<free_list_map, total_obj_cnt, aborted>>,
           overrun' \subseteq Slots,
           ptrs' \in [Slots -> Slots \cup {Null}],
           obj_index' \in [Slots -> Slots \cup {Null}],
           cached' \in [Slots -> Slots \cup {Null}],
           aspace_start' \in Addresses, aspace_start <= aspace_start',
           aspace_start' <= MaxObjects * OBJ_SIZE,
           allocation_map' \in [Addresses -> Nat],
           \A a \in live : allocation_map'[a] = allocation_map[a],
           live' \subseteq live \cup {aspace_start},
           aspace_start \in live' =>
               /\ allocation_map'[aspace_start] > 0
               /\ aspace_start + allocation_map'[aspace_start] <= aspace_start',
           \/ cur' = Null
           \/ \E addr \in live : addr \notin live' /\ cur' = FreeLocals(addr)
    PROVE  AllocInv'
  <1>1. /\ aspace_start \in Addresses /\ aspace_start \in Nat /\ aspace_start' \in Nat
        /\ \A a \in live : a \in Addresses /\ a \in Nat /\ allocation_map[a] \in Nat
    BY Constants DEF AllocInv, TypeOK, Addresses
  <1>2. \A a \in live : allocation_map[a] > 0 /\ a + allocation_map[a] <= aspace_start
    BY DEF AllocInv, BlocksInv
  <1>3. \A a, b \in live : a < b => a + allocation_map[a] <= b
    BY DEF AllocInv, BlocksInv
  <1>4. TypeOK'
    <2>1. cur' = Null \/ cur' \in FreeInProgress
      BY FreeStarts DEF AllocInv
    <2> QED
      BY <1>1, <2>1 DEF AllocInv, TypeOK
  <1>5. BlocksInv'
    <2>1. ASSUME NEW a \in live'
          PROVE  allocation_map'[a] > 0 /\ a + allocation_map'[a] <= aspace_start'
      <3>1. CASE a \in live
        BY <1>1, <1>2, <3>1
      <3>2. CASE a = aspace_start
        BY <1>1, <3>2
      <3> QED
        BY <3>1, <3>2
    <2>2. ASSUME NEW a \in live', NEW b \in live', a < b
          PROVE  a + allocation_map'[a] <= b
      <3>1. a \in live
        BY <1>1, <1>2, <2>2
      <3>2. CASE b \in live
        BY <1>3, <2>2, <3>1, <3>2
      <3>3. CASE b = aspace_start
        BY <1>1, <1>2, <3>1, <3>3
      <3> QED
        BY <3>2, <3>3
    <2>3. ASSUME cur' # Null
          PROVE  /\ Rest' > 0
                 /\ Position' + Rest' <= aspace_start'
                 /\ \A a \in live' :
                       a + allocation_map'[a] <= Position' \/ Position' + Rest' <= a
      <3>1. PICK addr \in live : addr \notin live' /\ cur' = FreeLocals(addr)
        BY <2>3
      <3>2. Position' = addr /\ Rest' = allocation_map[addr]
        BY <3>1, FreeStarts DEF AllocInv
      <3>3. ASSUME NEW a \in live'
            PROVE  a + allocation_map'[a] <= addr \/ addr + allocation_map[addr] <= a
        <4>1. CASE a = aspace_start
          BY <1>2, <4>1
        <4>2. CASE a \in live /\ a < addr
          BY <1>3, <4>2
        <4>3. CASE a \in live /\ addr < a
          BY <1>3, <4>3
        <4> QED
          BY <1>1, <3>1, <4>1, <4>2, <4>3
      <3>4. allocation_map[addr] > 0 /\ addr + allocation_map[addr] <= aspace_start'
        BY <1>1, <1>2
      <3> QED
        BY <3>2, <3>3, <3>4
    <2> QED
      BY <2>1, <2>2, <2>3 DEF BlocksInv
  <1>6. ASSUME NEW o \in Slots PROVE Occupied(o)' \subseteq Occupied(o)
    <2> SUFFICES ASSUME NEW b \in Occupied(o)' PROVE b \in Occupied(o)
      OBVIOUS
    <2>1. /\ b \in ObjectBytes(o)
          /\ \/ aspace_start' <= b
             \/ \E a \in live' : a <= b /\ b < a + allocation_map'[a]
             \/ cur' # Null /\ Position' <= b /\ b < Position' + Rest'
      BY DEF Occupied
    <2>2. b \in Nat
      <3>1. o * OBJ_SIZE \in Nat /\ b \in o * OBJ_SIZE .. o * OBJ_SIZE + OBJ_SIZE - 1
        BY <2>1, SlotIsNat, Objects
      <3> QED
        BY <3>1
    <2>3. CASE aspace_start <= b
      BY <2>1, <2>3 DEF Occupied
    <2>4. ASSUME NEW a \in live, a <= b, b < a + allocation_map[a] PROVE b \in Occupied(o)
      BY <2>1, <2>4 DEF Occupied
    <2>5. ASSUME NEW a \in live', a <= b, b < a + allocation_map'[a] PROVE b \in Occupied(o)
      <3>1. CASE a \in live
        BY <2>4, <2>5, <3>1
      <3>2. CASE a = aspace_start
        BY <2>3, <2>5, <3>2
      <3> QED
        BY <3>1, <3>2
    <2>6. ASSUME cur' # Null, Position' <= b, b < Position' + Rest' PROVE b \in Occupied(o)
      <3>1. PICK addr \in live : addr \notin live' /\ cur' = FreeLocals(addr)
        BY <2>6
      <3>2. Position' = addr /\ Rest' = allocation_map[addr]
        BY <3>1, FreeStarts DEF AllocInv
      <3> QED
        BY <2>4, <2>6, <3>2
    <2>7. CASE aspace_start' <= b
      BY <1>1, <2>2, <2>3, <2>7
    <2> QED
      BY <2>1, <2>5, <2>6, <2>7
  <1>7. CountInv'
    BY <1>6, Shrinks DEF AllocInv
  <1>8. RecycleInv' /\ ~aborted'
    BY DEF AllocInv, RecycleInv, Full, Slots
  <1> QED
    BY <1>4, <1>5, <1>7, <1>8 DEF AllocInv

(* Nothing is handed out before the first call. *)
LEMMA InitAllocInv == Init => AllocInv
  <1> SUFFICES ASSUME Init PROVE AllocInv
    OBVIOUS
  <1>1. 0 \in Addresses
    BY Constants DEF Addresses
  <1>2. TypeOK
    <2>1. NumObjects \in NumObjects .. TOTAL_OBJECTS
      BY Constants
    <2> QED
      BY <1>1, <2>1 DEF Init, TypeOK
  <1>3. BlocksInv
    BY Constants DEF Init, BlocksInv
  <1>4. CountInv
    <2> SUFFICES ASSUME NEW o \in Slots
                 PROVE  free_list_map[o] + Cardinality(Occupied(o)) <= OBJ_SIZE
      BY DEF CountInv
    <2>1. /\ o \in Nat /\ IsFiniteSet(ObjectBytes(o)) /\ Cardinality(ObjectBytes(o)) = OBJ_SIZE
      BY SlotIsNat, Objects
    <2>2. Occupied(o) \subseteq ObjectBytes(o)
      BY DEF Occupied
    <2>3. Cardinality(Occupied(o)) <= OBJ_SIZE
      BY <2>1, <2>2, FS_Subset
    <2>4. Cardinality(Occupied(o)) \in Nat
      BY OccupiedIsFinite
    <2>5. free_list_map[o] = 0
      BY DEF Init
    <2> QED
      BY <2>3, <2>4, <2>5, Constants
  <1>5. IsFiniteSet(Full) /\ Cardinality(Full) \in Nat
    BY <1>2, <1>3, <1>4, FullIsPassed
  <1>6. total_obj_cnt = NumObjects
    BY DEF Init
  <1>7. RecycleInv
    BY <1>5, <1>6, Constants DEF RecycleInv
  <1> QED
    BY <1>2, <1>3, <1>4, <1>7 DEF Init, AllocInv

(* carm_remote_malloc: the new block is the unused space at the bump       *)
(* pointer.                                                                *)
LEMMA MallocInv ==
    ASSUME AllocInv, NEW size \in Sizes, carm_remote_malloc(size) PROVE AllocInv'
  <1>1. /\ cur = Null /\ TakeBlock(size) /\ live' = live \cup {aspace_start}
        /\ UNCHANGED <<free_list_map, heapVars, total_obj_cnt, cur, aborted, overrun>>
    BY DEF carm_remote_malloc, Running
  <1>2. /\ ptrs' \in [Slots -> Slots \cup {Null}]
        /\ obj_index' \in [Slots -> Slots \cup {Null}]
        /\ cached' \in [Slots -> Slots \cup {Null}]
    BY <1>1 DEF heapVars, AllocInv, TypeOK
  <1> DEFINE n == enforce_size_constraints(size)
  <1>3. /\ n \in Nat \ {0} /\ aspace_start \in Nat
        /\ aspace_start' = aspace_start + n
        /\ aspace_start' \in Addresses
        /\ aspace_start' <= MaxObjects * OBJ_SIZE
        /\ allocation_map' \in [Addresses -> Nat]
        /\ allocation_map'[aspace_start] = n
        /\ \A a \in live : allocation_map'[a] = allocation_map[a]
    BY <1>1, NewBlock
  <1> HIDE DEF n
  <1>4. aspace_start <= aspace_start' /\ n > 0 /\ aspace_start + n <= aspace_start'
    BY <1>3
  <1>5. overrun' \subseteq Slots
    BY <1>1 DEF AllocInv, TypeOK
  <1> QED
    BY <1>1, <1>2, <1>3, <1>4, <1>5, Uncounted

(* carm_calloc: the same, with the objects of the block touched. *)
LEMMA CallocInv ==
    ASSUME AllocInv, NEW size \in Sizes, carm_calloc(size) PROVE AllocInv'
  <1>1. /\ cur = Null /\ TakeBlock(size) /\ live' = live \cup {aspace_start}
        /\ Touch(Span(aspace_start, enforce_size_constraints(size)))
        /\ UNCHANGED <<free_list_map, total_obj_cnt, cur, aborted, overrun>>
    BY DEF carm_calloc, Running
  <1>2. /\ ptrs' \in [Slots -> Slots \cup {Null}]
        /\ obj_index' \in [Slots -> Slots \cup {Null}]
        /\ cached' \in [Slots -> Slots \cup {Null}]
    BY <1>1, TouchType DEF AllocInv
  <1> DEFINE n == enforce_size_constraints(size)
  <1>3. /\ n \in Nat \ {0} /\ aspace_start \in Nat
        /\ aspace_start' = aspace_start + n
        /\ aspace_start' \in Addresses
        /\ aspace_start' <= MaxObjects * OBJ_SIZE
        /\ allocation_map' \in [Addresses -> Nat]
        /\ allocation_map'[aspace_start] = n
        /\ \A a \in live : allocation_map'[a] = allocation_map[a]
    BY <1>1, NewBlock
  <1> HIDE DEF n
  <1>4. aspace_start <= aspace_start' /\ n > 0 /\ aspace_start + n <= aspace_start'
    BY <1>3
  <1>5. overrun' \subseteq Slots
    BY <1>1 DEF AllocInv, TypeOK
  <1> QED
    BY <1>1, <1>2, <1>3, <1>4, <1>5, Uncounted

(* carm_free: the block leaves the program and becomes what the loop has   *)
(* still to come to.                                                       *)
LEMMA FreeInv ==
    ASSUME AllocInv, NEW addr \in live, carm_free(addr) PROVE AllocInv'
  <1>1. /\ cur = Null /\ live' = live \ {addr} /\ cur' = FreeLocals(addr)
        /\ UNCHANGED <<aspace_start, allocation_map, free_list_map, heapVars,
                       total_obj_cnt, aborted, overrun>>
    BY DEF carm_free, Running
  <1>2. /\ ptrs' \in [Slots -> Slots \cup {Null}]
        /\ obj_index' \in [Slots -> Slots \cup {Null}]
        /\ cached' \in [Slots -> Slots \cup {Null}]
    BY <1>1 DEF heapVars, AllocInv, TypeOK
  <1>3. /\ aspace_start' \in Addresses /\ aspace_start <= aspace_start'
        /\ aspace_start' <= MaxObjects * OBJ_SIZE
        /\ allocation_map' \in [Addresses -> Nat]
        /\ \A a \in live : allocation_map'[a] = allocation_map[a]
    BY <1>1, Constants DEF AllocInv, TypeOK, BlocksInv, Addresses
  <1>4. aspace_start \notin live
    BY <1>3, Constants DEF AllocInv, BlocksInv, TypeOK, Addresses
  <1>5. overrun' \subseteq Slots
    BY <1>1 DEF AllocInv, TypeOK
  <1> QED
    BY <1>1, <1>2, <1>3, <1>4, <1>5, Uncounted

(* carm_realloc: a new block for the copy, and the old one is freed. *)
LEMMA ReallocInv ==
    ASSUME AllocInv, NEW addr \in live, NEW size \in Sizes, carm_realloc(addr, size)
    PROVE  AllocInv'
  <1>1. /\ cur = Null /\ TakeBlock(size) /\ live' = (live \ {addr}) \cup {aspace_start}
        /\ Touch(Span(addr, allocation_map[addr]) \cup Span(aspace_start, allocation_map[addr]))
        /\ cur' = FreeLocals(addr)
        /\ UNCHANGED <<free_list_map, total_obj_cnt, aborted>>
        /\ overrun' \subseteq Slots
    BY DEF carm_realloc, AllocInv, TypeOK, Running
  <1>2. /\ ptrs' \in [Slots -> Slots \cup {Null}]
        /\ obj_index' \in [Slots -> Slots \cup {Null}]
        /\ cached' \in [Slots -> Slots \cup {Null}]
    BY <1>1, TouchType DEF AllocInv
  <1> DEFINE n == enforce_size_constraints(size)
  <1>3. /\ n \in Nat \ {0} /\ aspace_start \in Nat
        /\ aspace_start \notin live
        /\ aspace_start' = aspace_start + n
        /\ aspace_start' \in Addresses
        /\ aspace_start' <= MaxObjects * OBJ_SIZE
        /\ allocation_map' \in [Addresses -> Nat]
        /\ allocation_map'[aspace_start] = n
        /\ \A a \in live : allocation_map'[a] = allocation_map[a]
    BY <1>1, NewBlock
  <1> HIDE DEF n
  <1>4. aspace_start <= aspace_start' /\ n > 0 /\ aspace_start + n <= aspace_start'
    BY <1>3
  <1>5. addr \notin live' /\ live' \subseteq live \cup {aspace_start}
    BY <1>1, <1>3
  <1> QED
    BY <1>1, <1>2, <1>3, <1>4, <1>5, Uncounted

(* An access to a block makes its object present. *)
LEMMA UseInv ==
    ASSUME AllocInv, NEW addr \in live, NEW o \in Slots, Use(addr, o) PROVE AllocInv'
  <1>1. /\ cur = Null /\ Touch({o})
        /\ UNCHANGED <<aspace_start, allocation_map, free_list_map, total_obj_cnt,
                       live, cur, aborted, overrun>>
    BY DEF Use, Running
  <1>2. /\ ptrs' \in [Slots -> Slots \cup {Null}]
        /\ obj_index' \in [Slots -> Slots \cup {Null}]
        /\ cached' \in [Slots -> Slots \cup {Null}]
    BY <1>1, TouchType DEF AllocInv
  <1> QED
    BY <1>1, <1>2
       DEF AllocInv, TypeOK, BlocksInv, CountInv, RecycleInv, Occupied, Full, Position, Rest,
           FreeInProgress, Addresses, Slots, ObjectBytes

(* The evacuator clears one cached word. *)
LEMMA EvacuateInv ==
    ASSUME AllocInv, NEW p \in Slots, Evacuate(p) PROVE AllocInv'
  <1>1. cached' \in [Slots -> Slots \cup {Null}]
    BY DEF Evacuate, AllocInv, TypeOK
  <1> QED
    BY <1>1
       DEF Evacuate, AllocInv, TypeOK, BlocksInv, CountInv, RecycleInv, Occupied, Full, Position,
           Rest, FreeInProgress, Addresses, Slots, ObjectBytes

(* The chunk that an iteration of carm_free returns: a part of the block,  *)
(* within the object that the loop is at.                                  *)
LEMMA Chunk ==
    ASSUME AllocInv, cur # Null
    PROVE  LET o == cur.obj_index
               more == cur.freed_size + cur.chunk_size < cur.size
           IN  /\ cur \in FreeInProgress
               /\ o \in Slots /\ o \in Nat /\ o < MaxObjects
               /\ Position \in Nat /\ Rest \in Nat /\ ChunkBytes \in Nat \ {0}
               /\ Position + ChunkBytes <= Position + Rest
               /\ more => /\ ChunkBytes = cur.chunk_size
                          /\ ChunkBytes < Rest
                          /\ Position + ChunkBytes = (o + 1) * OBJ_SIZE
               /\ Position .. Position + ChunkBytes - 1 \subseteq ObjectBytes(o)
  <1> DEFINE o == cur.obj_index
             more == cur.freed_size + cur.chunk_size < cur.size
  <1>1. cur \in FreeInProgress
    BY DEF AllocInv, TypeOK
  <1>2. o \in Slots /\ o \in Nat /\ cur.size \in Nat /\ cur.freed_size \in Nat
        /\ cur.chunk_size \in 1 .. OBJ_SIZE
    BY <1>1, SlotIsNat DEF FreeInProgress
  <1>3. Rest > 0 /\ Position + Rest <= aspace_start
    BY DEF AllocInv, BlocksInv
  <1>4. Rest = cur.size - cur.freed_size /\ Rest \in Nat
    BY <1>2, <1>3 DEF Rest
  <1>5. /\ o * OBJ_SIZE \in Nat /\ (o + 1) * OBJ_SIZE = o * OBJ_SIZE + OBJ_SIZE
        /\ ObjectBytes(o) = o * OBJ_SIZE .. o * OBJ_SIZE + OBJ_SIZE - 1
    BY <1>2, Constants, Scale, Objects
  <1> DEFINE first == o * OBJ_SIZE
  <1>6. Position = first + (OBJ_SIZE - cur.chunk_size)
    BY DEF Position
  <1>7. ChunkBytes = IF more THEN cur.chunk_size ELSE cur.size - cur.freed_size
    BY DEF ChunkBytes
  <1>8. /\ more => ChunkBytes = cur.chunk_size /\ ChunkBytes < Rest
        /\ ~more => ChunkBytes = Rest /\ ChunkBytes <= cur.chunk_size
    BY <1>2, <1>4, <1>7, Constants
  <1>9. ChunkBytes \in Nat \ {0} /\ ChunkBytes <= Rest /\ ChunkBytes <= cur.chunk_size
    BY <1>2, <1>3, <1>4, <1>8, Constants
  <1> HIDE DEF first, more, o
  <1>10. /\ Position \in Nat /\ first <= Position
         /\ Position + cur.chunk_size = first + OBJ_SIZE
    BY <1>2, <1>5, <1>6, Constants DEF first
  <1>11. first < MaxObjects * OBJ_SIZE
    <2>1. aspace_start \in Nat /\ aspace_start <= MaxObjects * OBJ_SIZE
      BY Constants DEF AllocInv, TypeOK, BlocksInv, Addresses
    <2>2. first \in Nat /\ MaxObjects * OBJ_SIZE \in Nat
      BY <1>5, Constants DEF first
    <2> HIDE DEF first
    <2> QED
      BY <1>3, <1>4, <1>10, <2>1, <2>2
  <1>12. o < MaxObjects
    <2>1. MaxObjects <= o => MaxObjects * OBJ_SIZE <= o * OBJ_SIZE
      BY <1>2, Constants, Scale
    <2> QED
      BY <1>2, <1>5, <1>11, <2>1, Constants DEF first
  <1>13. Position .. Position + ChunkBytes - 1 \subseteq first .. first + OBJ_SIZE - 1
    BY <1>2, <1>5, <1>9, <1>10, Constants DEF first
  <1>14. more => Position + ChunkBytes = (o + 1) * OBJ_SIZE
    BY <1>5, <1>8, <1>10 DEF first
  <1>15. Position + ChunkBytes <= Position + Rest
    BY <1>4, <1>9, <1>10
  <1> QED
    BY <1>1, <1>2, <1>4, <1>5, <1>8, <1>9, <1>10, <1>12, <1>13, <1>14, <1>15
       DEF first, more, o

(* The locals of carm_free behind an iteration: it is over, or it goes on  *)
(* with the next object.                                                   *)
LEMMA NextChunk ==
    ASSUME AllocInv, FreeObject, cur' # Null
    PROVE  /\ cur' \in FreeInProgress
           /\ Position' = Position + ChunkBytes
           /\ Rest' = Rest - ChunkBytes
           /\ ChunkBytes < Rest
  <1> DEFINE o == cur.obj_index
             more == cur.freed_size + cur.chunk_size < cur.size
  <1>1. cur # Null /\ more
        /\ cur' = [cur EXCEPT !.obj_index = @ + 1,
                              !.freed_size = @ + cur.chunk_size,
                              !.chunk_size = OBJ_SIZE]
    BY DEF FreeObject
  <1>2. /\ cur \in FreeInProgress
        /\ o \in Slots /\ o \in Nat /\ o < MaxObjects
        /\ Position \in Nat /\ Rest \in Nat /\ ChunkBytes \in Nat \ {0}
        /\ ChunkBytes = cur.chunk_size
        /\ ChunkBytes < Rest
        /\ Position + ChunkBytes = (o + 1) * OBJ_SIZE
    BY <1>1, Chunk
  <1>3. cur.size \in Nat /\ cur.freed_size \in Nat /\ cur.chunk_size \in 1 .. OBJ_SIZE
    BY <1>2 DEF FreeInProgress
  <1>4. /\ cur'.obj_index = o + 1 /\ cur'.size = cur.size
        /\ cur'.freed_size = cur.freed_size + cur.chunk_size
        /\ cur'.chunk_size = OBJ_SIZE
    BY <1>1, <1>2 DEF FreeInProgress
  <1> HIDE DEF o, more
  <1>5. (o + 1) * OBJ_SIZE \in Nat
    BY <1>2, Constants, Scale
  <1>6. Position' = (o + 1) * OBJ_SIZE + (OBJ_SIZE - OBJ_SIZE)
    BY <1>4 DEF Position
  <1>7. Position' = Position + ChunkBytes
    BY <1>2, <1>5, <1>6, Constants
  <1>8. Rest' = cur.size - (cur.freed_size + cur.chunk_size)
    BY <1>4 DEF Rest
  <1>9. Rest' = Rest - ChunkBytes
    BY <1>2, <1>3, <1>8 DEF Rest
  <1>10. o + 1 < MaxObjects
    <2>1. Position + Rest <= aspace_start
      BY <1>1 DEF AllocInv, BlocksInv
    <2>2. aspace_start \in Nat /\ aspace_start <= MaxObjects * OBJ_SIZE
      BY Constants DEF AllocInv, TypeOK, BlocksInv, Addresses
    <2>3. (o + 1) * OBJ_SIZE < MaxObjects * OBJ_SIZE
      BY <1>2, <1>5, <2>1, <2>2, Constants
    <2>4. MaxObjects <= o + 1 => MaxObjects * OBJ_SIZE <= (o + 1) * OBJ_SIZE
      <3>1. o + 1 \in Nat
        BY <1>2
      <3> QED
        BY <3>1, Constants, Scale
    <2> QED
      BY <1>2, <1>5, <2>3, <2>4, Constants
  <1>11. o + 1 \in Slots
    BY <1>2, <1>10, Constants DEF Slots
  <1>12. cur' \in FreeInProgress
    <2>1. cur' = [obj_index |-> o + 1, size |-> cur.size,
                  freed_size |-> cur.freed_size + cur.chunk_size, chunk_size |-> OBJ_SIZE]
      BY <1>1, <1>2 DEF FreeInProgress, o
    <2>2. cur.freed_size + cur.chunk_size \in Nat /\ OBJ_SIZE \in 1 .. OBJ_SIZE
      BY <1>3, Constants
    <2> QED
      BY <1>3, <1>11, <2>1, <2>2 DEF FreeInProgress
  <1> QED
    BY <1>2, <1>7, <1>9, <1>12

(* The chunk was occupied, and is not any more: what is counted as freed   *)
(* fits into the object.                                                   *)
LEMMA ChunkIsFreed ==
    ASSUME AllocInv, FreeObject, NEW o, o = cur.obj_index
    PROVE  /\ o \in Slots /\ free_list_map[o] \in Nat
           /\ ChunkBytes \in Nat \ {0}
           /\ free_list_map[o] + ChunkBytes + Cardinality(Occupied(o)') <= OBJ_SIZE
           /\ Cardinality(Occupied(o)') \in Nat
           /\ \A p \in Slots : Occupied(p)' \subseteq Occupied(p)
  <1> DEFINE chunk == Position .. Position + ChunkBytes - 1
  <1>1. cur # Null /\ UNCHANGED <<aspace_start, allocation_map, live>>
    BY DEF FreeObject
  <1>2. /\ cur \in FreeInProgress /\ o \in Slots /\ o \in Nat
        /\ Position \in Nat /\ Rest \in Nat /\ ChunkBytes \in Nat \ {0}
        /\ Position + ChunkBytes <= Position + Rest
        /\ chunk \subseteq ObjectBytes(o)
    BY <1>1, Chunk
  <1>3. free_list_map[o] \in Nat
    BY <1>2 DEF AllocInv, TypeOK
  <1>4. /\ Position + Rest <= aspace_start /\ aspace_start \in Nat
        /\ \A a \in live : /\ a + allocation_map[a] <= Position \/ Position + Rest <= a
                           /\ a \in Nat /\ allocation_map[a] \in Nat
    BY <1>1, Constants DEF AllocInv, TypeOK, BlocksInv, Addresses
  <1>5. chunk \subseteq Occupied(o)
    <2> SUFFICES ASSUME NEW b \in chunk PROVE b \in Occupied(o)
      OBVIOUS
    <2>1. b \in ObjectBytes(o) /\ b \in Nat /\ Position <= b /\ b < Position + ChunkBytes
      BY <1>2
    <2>2. b < Position + Rest
      BY <1>2, <2>1
    <2> QED
      BY <1>1, <2>1, <2>2 DEF Occupied
  <1>6. ASSUME NEW p \in Slots, NEW b, b \in Occupied(p)'
        PROVE  b \in Occupied(p) /\ b \notin chunk
    <2>1. /\ b \in ObjectBytes(p)
          /\ \/ aspace_start <= b
             \/ \E a \in live : a <= b /\ b < a + allocation_map[a]
             \/ cur' # Null /\ Position' <= b /\ b < Position' + Rest'
      BY <1>1, <1>6 DEF Occupied
    <2>2. b \in Nat
      <3>1. p * OBJ_SIZE \in Nat /\ b \in p * OBJ_SIZE .. p * OBJ_SIZE + OBJ_SIZE - 1
        BY <2>1, SlotIsNat, Objects
      <3> QED
        BY <3>1
    <2>3. CASE aspace_start <= b
      <3>1. b \notin chunk
        BY <1>2, <1>4, <2>2, <2>3
      <3> QED
        BY <2>1, <2>3, <3>1 DEF Occupied
    <2>4. CASE \E a \in live : a <= b /\ b < a + allocation_map[a]
      <3>1. b \notin chunk
        BY <1>2, <1>4, <2>2, <2>4
      <3> QED
        BY <2>1, <2>4, <3>1 DEF Occupied
    <2>5. CASE cur' # Null /\ Position' <= b /\ b < Position' + Rest'
      <3>1. /\ Position' = Position + ChunkBytes /\ Rest' = Rest - ChunkBytes
            /\ ChunkBytes < Rest
        BY <2>5, NextChunk
      <3>2. Position <= b /\ b < Position + Rest /\ b \notin chunk
        BY <1>2, <2>2, <2>5, <3>1
      <3> QED
        BY <1>1, <2>1, <3>2 DEF Occupied
    <2> QED
      BY <2>1, <2>3, <2>4, <2>5
  <1>7. free_list_map[o] + Cardinality(Occupied(o)) <= OBJ_SIZE
    BY <1>2 DEF AllocInv, CountInv
  <1> DEFINE before == Occupied(o)
             after == Occupied(o)'
  <1>8. IsFiniteSet(before) /\ Cardinality(before) \in Nat
    BY <1>2, OccupiedIsFinite
  <1>9. after \subseteq before \ chunk
    BY <1>2, <1>6
  <1>10. before \cap chunk = chunk
    BY <1>5
  <1>11. Cardinality(chunk) = ChunkBytes
    <2> DEFINE pos == Position
               len == ChunkBytes
    <2>1. pos \in Nat /\ len \in Nat \ {0}
      BY <1>2
    <2> HIDE DEF pos, len
    <2>2. Cardinality(pos .. pos + len - 1) = IF pos > pos + len - 1 THEN 0 ELSE pos + len - 1 - pos + 1
      BY <2>1, FS_Interval
    <2>3. Cardinality(pos .. pos + len - 1) = len
      BY <2>1, <2>2
    <2> QED
      BY <2>3 DEF pos, len
  <1> HIDE DEF before, after, chunk
  <1>12. /\ IsFiniteSet(before \ chunk)
         /\ Cardinality(before \ chunk) = Cardinality(before) - ChunkBytes
    <2>1. /\ IsFiniteSet(before \ chunk)
          /\ Cardinality(before \ chunk) = Cardinality(before) - Cardinality(before \cap chunk)
      BY <1>8, FS_Difference
    <2>2. Cardinality(before \cap chunk) = ChunkBytes
      BY <1>10, <1>11
    <2> QED
      BY <2>1, <2>2
  <1>13. /\ Cardinality(after) \in Nat
         /\ Cardinality(after) <= Cardinality(before) - ChunkBytes
    BY <1>9, <1>12, FS_Subset, FS_CardinalityType
  <1>14. free_list_map[o] + ChunkBytes + Cardinality(after) <= OBJ_SIZE
    <2>1. free_list_map[o] + Cardinality(before) <= OBJ_SIZE
      BY <1>7 DEF before
    <2> QED
      BY <1>2, <1>3, <1>8, <1>13, <2>1, Constants
  <1>15. \A p \in Slots : Occupied(p)' \subseteq Occupied(p)
    BY <1>6
  <1> QED
    BY <1>2, <1>3, <1>13, <1>14, <1>15 DEF after

(* An iteration of carm_free does not abort; it counts the chunk, and      *)
(* recycles the object when all of it is freed.                            *)
LEMMA FreeObjectCases ==
    ASSUME AllocInv, FreeObject, NEW o, o = cur.obj_index
    PROVE  /\ aborted' = FALSE
           /\ o \in Slots \ Full
           /\ free_list_map' = [free_list_map EXCEPT ![o] = free_list_map[o] + ChunkBytes]
           /\ UNCHANGED <<aspace_start, allocation_map, cached, live, overrun>>
           /\ \/ /\ o \in Full' /\ ptrs[o] # Null
                 /\ update_object_list(o)
                 /\ total_obj_cnt < TOTAL_OBJECTS
                 /\ Full' = Full \cup {o}
              \/ /\ UNCHANGED <<ptrs, obj_index, total_obj_cnt>>
                 /\ Full \subseteq Full'
           /\ IsFiniteSet(Full') /\ Cardinality(Full') \in Nat
           /\ total_obj_cnt' <= NumObjects + Cardinality(Full')
           /\ total_obj_cnt' <= TOTAL_OBJECTS
  <1> DEFINE freed == free_list_map[o] + ChunkBytes
             before == Full
             after == Full'
  <1>1. /\ o \in Slots /\ free_list_map[o] \in Nat
        /\ ChunkBytes \in Nat \ {0}
        /\ free_list_map[o] + ChunkBytes + Cardinality(Occupied(o)') <= OBJ_SIZE
        /\ Cardinality(Occupied(o)') \in Nat
    BY ChunkIsFreed
  <1>2. /\ cur # Null
        /\ free_list_map' = [free_list_map EXCEPT ![o] = freed]
        /\ IF freed = OBJ_SIZE /\ ptrs[o] # Null
           THEN update_object_list(o)
           ELSE UNCHANGED <<ptrs, obj_index, total_obj_cnt>>
        /\ aborted' = (freed > OBJ_SIZE)
        /\ UNCHANGED <<aspace_start, allocation_map, cached, live, overrun>>
    BY DEF FreeObject
  <1>3. freed \in Nat /\ freed <= OBJ_SIZE /\ free_list_map[o] < freed
    BY <1>1, Constants
  <1>4. o \notin Full
    BY <1>1, <1>3, Constants DEF Full
  <1>5. /\ o < MaxObjects /\ o \in Nat
    BY <1>2, Chunk
  <1>6. /\ before \subseteq 0 .. MaxObjects - 1
        /\ IsFiniteSet(before) /\ Cardinality(before) \in Nat
    BY FullIsPassed DEF AllocInv
  <1>7. free_list_map \in [Slots -> Nat]
    BY DEF AllocInv, TypeOK
  <1>8. Full' = {p \in Slots : free_list_map'[p] = OBJ_SIZE}
    BY DEF Full, Slots
  <1>9. Full' = IF freed = OBJ_SIZE THEN Full \cup {o} ELSE Full
    <2> HIDE DEF freed
    <2>1. ASSUME NEW p \in Slots
          PROVE  free_list_map'[p] = IF p = o THEN freed ELSE free_list_map[p]
      BY <1>2, <1>7
    <2> QED
      BY <1>1, <1>4, <1>8, <2>1 DEF Full
  <1>10. total_obj_cnt \in Nat /\ total_obj_cnt <= NumObjects + Cardinality(before)
    BY Constants DEF AllocInv, TypeOK, RecycleInv
  <1>11. /\ IsFiniteSet(before \cup {o})
         /\ Cardinality(before \cup {o}) = Cardinality(before) + 1
         /\ Cardinality(before \cup {o}) <= MaxObjects
    <2>1. before \cup {o} \subseteq 0 .. MaxObjects - 1
      <3> HIDE DEF before
      <3>1. o \in 0 .. MaxObjects - 1
        BY <1>5, Constants
      <3> QED
        BY <1>6, <3>1
    <2>2. o \notin before
      BY <1>4
    <2> HIDE DEF before
    <2>3. /\ IsFiniteSet(before \cup {o})
          /\ Cardinality(before \cup {o}) = Cardinality(before) + 1
      BY <1>6, <2>2, FS_AddElement
    <2>4. /\ IsFiniteSet(0 .. MaxObjects - 1)
          /\ Cardinality(0 .. MaxObjects - 1) = MaxObjects
      <3>1. MaxObjects - 1 \in Int
        BY Constants
      <3>2. Cardinality(0 .. MaxObjects - 1) =
              IF 0 > MaxObjects - 1 THEN 0 ELSE MaxObjects - 1 - 0 + 1
        BY <3>1, FS_Interval
      <3> QED
        BY <3>1, <3>2, FS_Interval, Constants
    <2>5. Cardinality(before \cup {o}) <= Cardinality(0 .. MaxObjects - 1)
      BY <2>1, <2>4, FS_Subset
    <2> QED
      BY <2>3, <2>4, <2>5
  <1>12. aborted' = FALSE
    <2>1. ~(freed > OBJ_SIZE)
      <3> HIDE DEF freed
      <3> QED
        BY <1>3, Constants
    <2>2. (freed > OBJ_SIZE) = FALSE
      BY <2>1
    <2> QED
      BY <1>2, <2>2
  <1>13. CASE freed = OBJ_SIZE /\ ptrs[o] # Null
    <2>1. Full' = before \cup {o} /\ update_object_list(o)
      BY <1>2, <1>9, <1>13
    <2>2. total_obj_cnt' = total_obj_cnt + 1
      BY <2>1 DEF update_object_list
    <2>3. /\ total_obj_cnt < TOTAL_OBJECTS
          /\ total_obj_cnt' <= NumObjects + Cardinality(before \cup {o})
          /\ total_obj_cnt' <= TOTAL_OBJECTS
      <3> HIDE DEF before
      <3> QED
        BY <1>6, <1>10, <1>11, <2>2, Constants
    <2> QED
      BY <1>1, <1>2, <1>4, <1>6, <1>11, <1>12, <1>13, <2>1, <2>3
  <1>14. CASE ~(freed = OBJ_SIZE /\ ptrs[o] # Null)
    <2>1. UNCHANGED <<ptrs, obj_index, total_obj_cnt>>
      BY <1>2, <1>14
    <2>2. /\ before \subseteq after
          /\ IsFiniteSet(after) /\ Cardinality(after) \in Nat
          /\ Cardinality(before) <= Cardinality(after)
      <3>1. before \subseteq after /\ (after = before \/ after = before \cup {o})
        BY <1>9
      <3> HIDE DEF before, after
      <3>2. IsFiniteSet(after)
        BY <1>6, <1>11, <3>1
      <3> QED
        BY <1>6, <3>1, <3>2, FS_Subset, FS_CardinalityType
    <2>3. total_obj_cnt' <= NumObjects + Cardinality(after) /\ total_obj_cnt' <= TOTAL_OBJECTS
      <3>1. total_obj_cnt <= TOTAL_OBJECTS
        BY DEF AllocInv, TypeOK
      <3> HIDE DEF before, after
      <3> QED
        BY <1>6, <1>10, <2>1, <2>2, <3>1, Constants
    <2> QED
      BY <1>1, <1>2, <1>4, <1>12, <2>1, <2>2, <2>3
  <1> QED
    BY <1>13, <1>14

(* One iteration of the loop of carm_free: what it counts as freed is no   *)
(* longer occupied, and an object that is freed as a whole for the first   *)
(* time pays for the one object that recycling adds to the list.           *)
LEMMA FreeObjectInv ==
    ASSUME AllocInv, FreeObject PROVE AllocInv'
  <1>1. PICK o : o = cur.obj_index
    OBVIOUS
  <1>2. /\ o \in Slots /\ free_list_map[o] \in Nat
        /\ ChunkBytes \in Nat \ {0}
        /\ free_list_map[o] + ChunkBytes + Cardinality(Occupied(o)') <= OBJ_SIZE
        /\ Cardinality(Occupied(o)') \in Nat
        /\ \A p \in Slots : Occupied(p)' \subseteq Occupied(p)
    BY <1>1, ChunkIsFreed
  <1>3. /\ aborted' = FALSE
        /\ free_list_map' = [free_list_map EXCEPT ![o] = free_list_map[o] + ChunkBytes]
        /\ UNCHANGED <<aspace_start, allocation_map, cached, live, overrun>>
        /\ \/ /\ ptrs[o] # Null /\ update_object_list(o)
              /\ total_obj_cnt < TOTAL_OBJECTS
           \/ UNCHANGED <<ptrs, obj_index, total_obj_cnt>>
        /\ total_obj_cnt' <= NumObjects + Cardinality(Full')
        /\ total_obj_cnt' <= TOTAL_OBJECTS
    BY <1>1, FreeObjectCases
  <1>4. TypeOK'
    <2>1. total_obj_cnt \in NumObjects .. TOTAL_OBJECTS /\ total_obj_cnt \in Nat
      BY Constants DEF AllocInv, TypeOK
    <2>2. /\ ptrs \in [Slots -> Slots \cup {Null}]
          /\ obj_index \in [Slots -> Slots \cup {Null}]
          /\ cached \in [Slots -> Slots \cup {Null}]
          /\ free_list_map \in [Slots -> Nat]
      BY DEF AllocInv, TypeOK
    <2>3. /\ ptrs' \in [Slots -> Slots \cup {Null}]
          /\ obj_index' \in [Slots -> Slots \cup {Null}]
          /\ total_obj_cnt' \in NumObjects .. TOTAL_OBJECTS
      <3>1. CASE ptrs[o] # Null /\ update_object_list(o) /\ total_obj_cnt < TOTAL_OBJECTS
        <4>1. total_obj_cnt \in Slots
          BY <2>1, <3>1, Constants DEF Slots
        <4>2. total_obj_cnt' \in NumObjects .. TOTAL_OBJECTS
          BY <2>1, <3>1, Constants DEF update_object_list
        <4> QED
          BY <1>2, <2>2, <3>1, <4>1, <4>2 DEF update_object_list
      <3>2. CASE UNCHANGED <<ptrs, obj_index, total_obj_cnt>>
        BY <2>1, <2>2, <3>2
      <3> QED
        BY <1>3, <3>1, <3>2
    <2>4. free_list_map' \in [Slots -> Nat]
      BY <1>2, <1>3, <2>2
    <2>5. cur' = Null \/ cur' \in FreeInProgress
      BY NextChunk
    <2>6. cached' \in [Slots -> Slots \cup {Null}] /\ aborted' \in BOOLEAN
      BY <1>3, <2>2
    <2> QED
      BY <1>3, <2>3, <2>4, <2>5, <2>6 DEF AllocInv, TypeOK
  <1>5. BlocksInv'
    <2>1. ASSUME cur' # Null
          PROVE  /\ Rest' > 0
                 /\ Position' + Rest' <= aspace_start
                 /\ \A a \in live :
                       a + allocation_map[a] <= Position' \/ Position' + Rest' <= a
      <3>1. cur # Null
        BY DEF FreeObject
      <3>2. /\ Position' = Position + ChunkBytes /\ Rest' = Rest - ChunkBytes
            /\ ChunkBytes < Rest
        BY <2>1, NextChunk
      <3>3. Position \in Nat /\ Rest \in Nat /\ ChunkBytes \in Nat \ {0}
        BY <3>1, Chunk
      <3>4. /\ Position + Rest <= aspace_start /\ aspace_start \in Nat
            /\ \A a \in live : /\ a + allocation_map[a] <= Position \/ Position + Rest <= a
                               /\ a \in Nat /\ allocation_map[a] \in Nat
        BY <3>1, Constants DEF AllocInv, TypeOK, BlocksInv, Addresses
      <3>5. Position' + Rest' = Position + Rest /\ Position < Position' /\ Rest' > 0
        BY <3>2, <3>3
      <3>6. ASSUME NEW a \in live
            PROVE  a + allocation_map[a] <= Position' \/ Position' + Rest' <= a
        BY <3>2, <3>3, <3>4, <3>5
      <3> QED
        BY <3>4, <3>5, <3>6
    <2> QED
      BY <1>3, <2>1 DEF AllocInv, BlocksInv
  <1>6. CountInv'
    <2> SUFFICES ASSUME NEW p \in Slots
                 PROVE  free_list_map'[p] + Cardinality(Occupied(p)') <= OBJ_SIZE
      BY DEF CountInv, Slots
    <2>1. free_list_map \in [Slots -> Nat]
      BY DEF AllocInv, TypeOK
    <2>2. CASE p = o
      BY <1>2, <1>3, <2>1, <2>2
    <2>3. CASE p # o
      <3>1. free_list_map'[p] = free_list_map[p] /\ free_list_map[p] \in Nat
        BY <1>3, <2>1, <2>3
      <3>2. /\ IsFiniteSet(Occupied(p)) /\ Cardinality(Occupied(p)) \in Nat
            /\ Occupied(p)' \subseteq Occupied(p)
        BY <1>2, OccupiedIsFinite
      <3> DEFINE before == Occupied(p)
                 after == Occupied(p)'
      <3>3. free_list_map[p] + Cardinality(before) <= OBJ_SIZE
        BY DEF AllocInv, CountInv
      <3>4. Cardinality(after) \in Nat /\ Cardinality(after) <= Cardinality(before)
        <4>1. IsFiniteSet(before) /\ after \subseteq before
          BY <3>2
        <4> HIDE DEF before, after
        <4> QED
          BY <4>1, FS_Subset, FS_CardinalityType
      <3>5. Cardinality(before) \in Nat
        BY <3>2
      <3> HIDE DEF before, after
      <3>6. free_list_map'[p] + Cardinality(after) <= OBJ_SIZE
        BY <3>1, <3>3, <3>4, <3>5, Constants
      <3> QED
        BY <3>6 DEF after
    <2> QED
      BY <2>2, <2>3
  <1>7. RecycleInv'
    BY <1>3 DEF RecycleInv
  <1> QED
    BY <1>3, <1>4, <1>5, <1>6, <1>7 DEF AllocInv

-----------------------------------------------------------------------------
(* A program that asks for no more than the object list holds *)

(* Bytes below the end of the object list lie in objects of the list. *)
LEMMA SpanWithin ==
    ASSUME NEW addr \in Nat, NEW n \in Nat \ {0}, NEW total \in Nat,
           addr + n <= total * OBJ_SIZE, NEW o \in Span(addr, n)
    PROVE  o < total
  <1>1. addr + n - 1 \in Nat
    OBVIOUS
  <1>2. /\ ObjIndex(addr + n - 1) \in Nat
        /\ Offset(addr + n - 1) \in 0 .. OBJ_SIZE - 1
        /\ addr + n - 1 = ObjIndex(addr + n - 1) * OBJ_SIZE + Offset(addr + n - 1)
        /\ ObjIndex(addr) \in Nat
    BY <1>1, Parts
  <1>3. PICK last \in Nat : last = ObjIndex(addr + n - 1)
    BY <1>2
  <1>4. last * OBJ_SIZE \in Nat /\ total * OBJ_SIZE \in Nat
    BY <1>3, Objects
  <1>5. last * OBJ_SIZE < total * OBJ_SIZE
    BY <1>2, <1>3, <1>4, Constants
  <1>6. total <= last => total * OBJ_SIZE <= last * OBJ_SIZE
    BY <1>3, Constants, Scale
  <1>7. last < total
    BY <1>3, <1>4, <1>5, <1>6
  <1> QED
    BY <1>2, <1>3, <1>7 DEF Span

(* Objects behind a nonempty slot exist. *)
LEMMA SlotTypes ==
    ASSUME AllocInv
    PROVE  /\ ptrs \in [Slots -> Slots \cup {Null}]
           /\ obj_index \in [Slots -> Slots \cup {Null}]
           /\ cached \in [Slots -> Slots \cup {Null}]
           /\ Null \notin Slots
           /\ total_obj_cnt \in Nat /\ aspace_start \in Nat
  <1>1. /\ ptrs \in [Slots -> Slots \cup {Null}]
        /\ obj_index \in [Slots -> Slots \cup {Null}]
        /\ cached \in [Slots -> Slots \cup {Null}]
    BY DEF AllocInv, TypeOK
  <1>2. Null \notin Slots
    BY SlotIsNat, Constants
  <1>3. total_obj_cnt \in Nat /\ aspace_start \in Nat
    BY Constants DEF AllocInv, TypeOK, Addresses
  <1> QED
    BY <1>1, <1>2, <1>3

(* Touching objects of the list changes no object that is there. *)
LEMMA TouchOwn ==
    ASSUME AllocInv, OwnInv, NEW S, Touch(S),
           overrun \subseteq overrun',
           \A o \in S \cap Slots : o < total_obj_cnt \/ o \in overrun',
           UNCHANGED <<free_list_map, total_obj_cnt>>,
           aspace_start' <= total_obj_cnt * OBJ_SIZE
    PROVE  OwnInv'
  <1>1. /\ ptrs \in [Slots -> Slots \cup {Null}]
        /\ obj_index \in [Slots -> Slots \cup {Null}]
        /\ cached \in [Slots -> Slots \cup {Null}]
        /\ Null \notin Slots
        /\ total_obj_cnt \in Nat
    BY SlotTypes
  <1>2. /\ \A o \in Slots : ptrs'[o] = IF o \in S /\ ptrs[o] = Null THEN o ELSE ptrs[o]
        /\ \A p \in Slots : obj_index'[p] = IF p \in S /\ ptrs[p] = Null THEN p ELSE obj_index[p]
        /\ \A o \in Slots : cached'[o] = IF o \in S /\ cached[o] = Null THEN ptrs'[o] ELSE cached[o]
    BY DEF Touch
  <1>3. Full' = Full
    BY DEF Full, Slots
  <1>4. ASSUME NEW o \in Slots, total_obj_cnt <= o, o \notin overrun'
        PROVE  ptrs'[o] = Null /\ cached'[o] = Null
    <2>1. o \notin S
      BY <1>1, <1>4, SlotIsNat
    <2> QED
      BY <1>2, <1>4, <2>1 DEF OwnInv
  <1>5. ASSUME NEW o \in Slots, ptrs'[o] # Null PROVE ptrs'[ptrs'[o]] # Null
    <2>1. CASE ptrs[o] # Null
      <3>1. ptrs'[o] = ptrs[o] /\ ptrs[o] \in Slots
        BY <1>1, <1>2, <2>1
      <3>2. ptrs[ptrs[o]] # Null
        BY <2>1 DEF OwnInv
      <3> QED
        BY <1>2, <3>1, <3>2
    <2>2. CASE ptrs[o] = Null
      <3>1. ptrs'[o] = o
        BY <1>2, <1>5, <2>2
      <3> QED
        BY <1>5, <3>1
    <2> QED
      BY <2>1, <2>2
  <1>6. ASSUME NEW o \in Slots \ Full
        PROVE  /\ ptrs'[o] # Null => obj_index'[ptrs'[o]] = o
               /\ cached'[o] \in {Null, ptrs'[o]} \/ o \in overrun'
    <2>1. /\ ptrs[o] # Null => obj_index[ptrs[o]] = o
          /\ cached[o] \in {Null, ptrs[o]} \/ o \in overrun'
      BY DEF OwnInv
    <2>2. CASE ptrs[o] # Null
      <3>1. ptrs'[o] = ptrs[o] /\ ptrs[o] \in Slots
        BY <1>1, <1>2, <2>2
      <3>2. ptrs[ptrs[o]] # Null
        BY <2>2 DEF OwnInv
      <3>3. obj_index'[ptrs[o]] = obj_index[ptrs[o]]
        BY <1>2, <3>1, <3>2
      <3> QED
        BY <1>2, <2>1, <2>2, <3>1, <3>3
    <2>3. CASE ptrs[o] = Null
      <3>1. ptrs'[o] # Null => o \in S /\ ptrs'[o] = o
        BY <1>2, <2>3
      <3>2. ptrs'[o] # Null => obj_index'[ptrs'[o]] = o
        BY <1>2, <2>3, <3>1
      <3> QED
        BY <1>2, <2>1, <2>3, <3>2
    <2> QED
      BY <2>2, <2>3
  <1> QED
    BY <1>3, <1>4, <1>5, <1>6 DEF OwnInv, Slots

(* Recycling puts an object in an empty slot, behind all addresses. *)
LEMMA RecycleOwn ==
    ASSUME AllocInv, OwnInv, FreeObject
    PROVE  OwnInv'
  <1>1. PICK o : o = cur.obj_index
    OBVIOUS
  <1>2. /\ o \in Slots \ Full
        /\ UNCHANGED <<aspace_start, allocation_map, cached, live, overrun>>
        /\ \/ /\ o \in Full' /\ ptrs[o] # Null
              /\ update_object_list(o)
              /\ total_obj_cnt < TOTAL_OBJECTS
              /\ Full' = Full \cup {o}
           \/ /\ UNCHANGED <<ptrs, obj_index, total_obj_cnt>>
              /\ Full \subseteq Full'
    BY <1>1, FreeObjectCases
  <1>3. /\ ptrs \in [Slots -> Slots \cup {Null}]
        /\ obj_index \in [Slots -> Slots \cup {Null}]
        /\ cached \in [Slots -> Slots \cup {Null}]
        /\ Null \notin Slots
        /\ total_obj_cnt \in Nat /\ aspace_start \in Nat
    BY SlotTypes
  <1>4. CASE UNCHANGED <<ptrs, obj_index, total_obj_cnt>> /\ Full \subseteq Full'
    BY <1>2, <1>4 DEF OwnInv, Slots
  <1>5. CASE /\ ptrs[o] # Null /\ update_object_list(o)
             /\ total_obj_cnt < TOTAL_OBJECTS /\ Full' = Full \cup {o}
    <2>1. PICK t \in Nat : t = total_obj_cnt
      BY <1>3
    <2>2. PICK p \in Slots : p = ptrs[o]
      BY <1>2, <1>3, <1>5
    <2>3. t \in Slots
      BY <1>5, <2>1, Constants DEF Slots
    <2>4. /\ ptrs' = [ptrs EXCEPT ![t] = p]
          /\ obj_index' = [obj_index EXCEPT ![p] = t]
          /\ total_obj_cnt' = t + 1
          /\ cached' = cached
      BY <1>2, <1>5, <2>1, <2>2 DEF update_object_list
    <2>5. cached[t] = Null \/ t \in overrun
      BY <2>1, <2>3 DEF OwnInv
    <2>6. obj_index[p] = o /\ ptrs[p] # Null
      BY <1>2, <1>5, <2>2 DEF OwnInv
    <2>7. ASSUME NEW q \in Slots PROVE ptrs'[q] = IF q = t THEN p ELSE ptrs[q]
      BY <1>3, <2>4
    <2>8. ASSUME NEW q \in Slots \ overrun, t + 1 <= q PROVE ptrs'[q] = Null /\ cached'[q] = Null
      <3>1. q # t /\ t <= q
        BY <2>1, <2>8, SlotIsNat
      <3> QED
        BY <2>1, <2>4, <2>7, <3>1 DEF OwnInv
    <2>9. ASSUME NEW q \in Slots, ptrs'[q] # Null PROVE ptrs'[ptrs'[q]] # Null
      <3>1. CASE q = t
        <4>1. ptrs'[q] = p /\ p # Null
          BY <1>3, <2>2, <2>7, <3>1
        <4>2. ptrs'[p] # Null
          BY <2>6, <2>7, <4>1
        <4> QED
          BY <4>1, <4>2
      <3>2. CASE q # t
        <4>1. ptrs'[q] = ptrs[q] /\ ptrs[q] \in Slots /\ ptrs[ptrs[q]] # Null
          BY <1>3, <2>7, <2>9, <3>2 DEF OwnInv
        <4> QED
          BY <1>3, <2>2, <2>7, <4>1
      <3> QED
        BY <3>1, <3>2
    <2>10. ASSUME NEW q \in Slots \ Full'
           PROVE  /\ ptrs'[q] # Null => obj_index'[ptrs'[q]] = q
                  /\ cached'[q] \in {Null, ptrs'[q]} \/ q \in overrun
      <3>1. q \in Slots /\ q \notin Full /\ q # o
        BY <1>5, <2>10 DEF Slots
      <3>2. CASE q = t
        <4>1. ptrs'[q] = p /\ obj_index'[p] = t /\ (cached'[q] = Null \/ q \in overrun)
          BY <1>3, <2>4, <2>5, <2>7, <3>1, <3>2
        <4> QED
          BY <3>2, <4>1
      <3>3. CASE q # t
        <4>1. /\ ptrs[q] # Null => obj_index[ptrs[q]] = q
              /\ cached[q] \in {Null, ptrs[q]} \/ q \in overrun
          BY <3>1 DEF OwnInv
        <4>2. ptrs'[q] = ptrs[q]
          BY <2>7, <3>1, <3>3
        <4>3. ptrs[q] # Null => ptrs[q] \in Slots /\ ptrs[q] # p
          BY <1>3, <2>6, <3>1, <4>1
        <4>4. ptrs[q] # Null => obj_index'[ptrs[q]] = q
          BY <1>3, <2>4, <4>1, <4>3
        <4> QED
          BY <2>4, <4>1, <4>2, <4>4
      <3> QED
        BY <3>2, <3>3
    <2>11. aspace_start' <= (t + 1) * OBJ_SIZE
      <3>1. aspace_start <= t * OBJ_SIZE /\ aspace_start' = aspace_start
        BY <1>2, <2>1 DEF OwnInv
      <3>2. t * OBJ_SIZE \in Nat /\ (t + 1) * OBJ_SIZE = t * OBJ_SIZE + OBJ_SIZE
        BY Constants, Scale
      <3>3. aspace_start <= t * OBJ_SIZE + OBJ_SIZE
        BY <1>3, <3>1, <3>2, Constants
      <3> QED
        BY <3>1, <3>2, <3>3
    <2> QED
      BY <1>2, <2>4, <2>8, <2>9, <2>10, <2>11 DEF OwnInv, Slots
  <1> QED
    BY <1>2, <1>4, <1>5

(* Before the first call no object exists. *)
LEMMA InitOwn == Init => OwnInv
  <1> SUFFICES ASSUME Init PROVE OwnInv
    OBVIOUS
  <1>1. NumObjects * OBJ_SIZE \in Nat
    BY Constants, Scale
  <1>2. 0 <= NumObjects * OBJ_SIZE
    BY <1>1
  <1> QED
    BY <1>2 DEF Init, OwnInv

(* A step of the program or of the evacuator keeps OwnInv. *)
LEMMA OwnStep ==
    ASSUME ~CountLive, AllocInv, OwnInv, [Next]_vars
    PROVE  OwnInv'
  <1>1. /\ total_obj_cnt \in Nat /\ aspace_start \in Nat
        /\ aspace_start <= total_obj_cnt * OBJ_SIZE
        /\ total_obj_cnt * OBJ_SIZE \in Nat
    BY SlotTypes, Objects DEF OwnInv
  <1>2. ASSUME NEW n, WithinCapacity(n) PROVE aspace_start + n <= total_obj_cnt * OBJ_SIZE
    BY <1>2 DEF WithinCapacity
  <1>3. ASSUME NEW a \in live
        PROVE  /\ a \in Nat /\ allocation_map[a] \in Nat \ {0}
               /\ a + allocation_map[a] <= total_obj_cnt * OBJ_SIZE
    BY <1>1, Constants DEF AllocInv, BlocksInv, TypeOK, Addresses
  <1>4. ASSUME NEW size \in Sizes, carm_remote_malloc(size) PROVE OwnInv'
    <2>1. aspace_start' = aspace_start + enforce_size_constraints(size)
      BY <1>4 DEF carm_remote_malloc, TakeBlock
    <2>2. aspace_start' <= total_obj_cnt * OBJ_SIZE
      BY <1>2, <1>4, <2>1 DEF carm_remote_malloc
    <2>3. UNCHANGED <<free_list_map, heapVars, total_obj_cnt, overrun>>
      BY <1>4 DEF carm_remote_malloc
    <2> QED
      BY <2>2, <2>3 DEF OwnInv, Full, heapVars, Slots
  <1>5. ASSUME NEW size \in Sizes, carm_calloc(size) PROVE OwnInv'
    <2> DEFINE n == enforce_size_constraints(size)
    <2>1. aspace_start' = aspace_start + n /\ Touch(Span(aspace_start, n))
          /\ UNCHANGED <<free_list_map, total_obj_cnt, overrun>>
          /\ WithinCapacity(n)
      BY <1>5 DEF carm_calloc, TakeBlock
    <2>2. n \in Nat \ {0}
      BY BlockSize
    <2> HIDE DEF n
    <2>3. aspace_start + n <= total_obj_cnt * OBJ_SIZE
      BY <1>2, <2>1
    <2>4. \A o \in Span(aspace_start, n) \cap Slots : o < total_obj_cnt
      BY <1>1, <2>2, <2>3, SpanWithin
    <2>5. aspace_start' <= total_obj_cnt * OBJ_SIZE
      BY <2>1, <2>3
    <2> QED
      BY <2>1, <2>4, <2>5, TouchOwn
  <1>6. ASSUME NEW a \in live, carm_free(a) PROVE OwnInv'
    <2>1. UNCHANGED <<aspace_start, free_list_map, heapVars, total_obj_cnt, overrun>>
      BY <1>6 DEF carm_free
    <2> QED
      BY <2>1 DEF OwnInv, Full, heapVars, Slots
  <1>7. ASSUME NEW a \in live, NEW size \in Sizes, carm_realloc(a, size) PROVE OwnInv'
    <2> DEFINE n == enforce_size_constraints(size)
               old == allocation_map[a]
    <2>1. /\ aspace_start' = aspace_start + n
          /\ Touch(Span(a, old) \cup Span(aspace_start, old))
          /\ UNCHANGED <<free_list_map, total_obj_cnt>>
          /\ WithinCapacity(n)
          /\ overrun' = overrun \cup {o \in Slots : o \in Span(aspace_start, old)
                                                  /\ total_obj_cnt <= o}
      BY <1>7 DEF carm_realloc, TakeBlock
    <2>2. n \in Nat \ {0}
      BY BlockSize
    <2>3. a \in Nat /\ old \in Nat \ {0} /\ a + old <= total_obj_cnt * OBJ_SIZE
      BY <1>3
    <2> HIDE DEF n, old
    <2>4. aspace_start + n <= total_obj_cnt * OBJ_SIZE
      BY <1>2, <2>1
    <2>5. \A o \in Span(a, old) : o < total_obj_cnt
      BY <1>1, <2>3, SpanWithin
    <2>6. \A o \in Span(aspace_start, old) \cap Slots : o < total_obj_cnt \/ o \in overrun'
      <3> SUFFICES ASSUME NEW o \in Span(aspace_start, old) \cap Slots, o \notin overrun'
                   PROVE  o < total_obj_cnt
        OBVIOUS
      <3>1. ~(total_obj_cnt <= o) /\ o \in Nat
        BY <2>1, SlotIsNat
      <3> QED
        BY <1>1, <3>1
    <2>7. \A o \in (Span(a, old) \cup Span(aspace_start, old)) \cap Slots :
             o < total_obj_cnt \/ o \in overrun'
      BY <2>5, <2>6
    <2>8. overrun \subseteq overrun'
      BY <2>1
    <2>9. aspace_start' <= total_obj_cnt * OBJ_SIZE
      BY <2>1, <2>4
    <2> QED
      BY <2>1, <2>7, <2>8, <2>9, TouchOwn
  <1>8. CASE FreeObject
    BY <1>8, RecycleOwn
  <1>9. ASSUME NEW a \in live, NEW o \in Slots, Use(a, o) PROVE OwnInv'
    <2>1. /\ o \in Span(a, allocation_map[a]) /\ Touch({o})
          /\ UNCHANGED <<aspace_start, free_list_map, total_obj_cnt, overrun>>
      BY <1>9 DEF Use
    <2>2. o < total_obj_cnt
      BY <1>1, <1>3, <2>1, SpanWithin
    <2>3. \A q \in {o} \cap Slots : q < total_obj_cnt
      BY <2>2
    <2> QED
      BY <1>1, <2>1, <2>3, TouchOwn
  <1>10. ASSUME NEW p \in Slots, Evacuate(p) PROVE OwnInv'
    <2>1. /\ UNCHANGED <<aspace_start, free_list_map, ptrs, obj_index, total_obj_cnt, overrun>>
          /\ cached' = [cached EXCEPT ![obj_index[p]] = Null]
      BY <1>10 DEF Evacuate
    <2>2. \A o \in Slots : cached'[o] \in {Null, cached[o]}
      BY <2>1, SlotTypes
    <2> QED
      BY <2>1, <2>2 DEF OwnInv, Full, Slots
  <1>11. CASE UNCHANGED vars
    BY <1>11 DEF vars, heapVars, OwnInv, Full, Slots
  <1> QED
    BY <1>4, <1>5, <1>6, <1>7, <1>8, <1>9, <1>10, <1>11 DEF Next

-----------------------------------------------------------------------------
(* The theorems *)

(* Blocks do not overlap, an object's freed and occupied bytes fit into it, *)
(* and an object is recycled at most once, for every size of object, block  *)
(* and working set.                                                         *)
THEOREM AllocInductive == Spec => []AllocInv
  <1>1. Init => AllocInv
    BY InitAllocInv
  <1>2. AllocInv /\ [Next]_vars => AllocInv'
    <2> SUFFICES ASSUME AllocInv, [Next]_vars PROVE AllocInv'
      OBVIOUS
    <2>1. CASE UNCHANGED vars
      BY <2>1
         DEF vars, heapVars, AllocInv, TypeOK, BlocksInv, CountInv, RecycleInv, Occupied, Full,
             Position, Rest, FreeInProgress, Addresses, Slots, ObjectBytes
    <2>2. CASE Next
      BY <2>2, MallocInv, CallocInv, FreeInv, ReallocInv, FreeObjectInv, UseInv, EvacuateInv
         DEF Next
    <2> QED
      BY <2>1, <2>2
  <1> QED
    BY <1>1, <1>2, PTL DEF Spec

(* The variables of the remote heap have their types as long as the bump   *)
(* pointer passes at most MaxObjects objects, a bound the code does not    *)
(* check; in particular the loop of carm_free never has an empty chunk.    *)
THEOREM AllocTypeCorrect == Spec => []TypeOK
  BY AllocInductive, PTL DEF AllocInv

(* Recycling adds at most one slot to the object list for each object that *)
(* the bump pointer has passed, so the end of the list is bounded by what  *)
(* the program has asked for in all.                                       *)
THEOREM ListIsBounded == Spec => []ListBound
  <1>1. AllocInv => ListBound
    <2> SUFFICES ASSUME AllocInv PROVE ListBound
      OBVIOUS
    <2>1. PICK e \in Nat : e = ObjIndex(aspace_start)
      BY Parts, Constants DEF AllocInv, TypeOK, Addresses
    <2>2. /\ Full \subseteq 0 .. e - 1
          /\ IsFiniteSet(Full) /\ Cardinality(Full) \in Nat
      BY <2>1, FullIsPassed DEF AllocInv
    <2>3. IsFiniteSet(0 .. e - 1) /\ Cardinality(0 .. e - 1) = e
      <3>1. e - 1 \in Int
        BY <2>1
      <3>2. Cardinality(0 .. e - 1) = IF 0 > e - 1 THEN 0 ELSE e - 1 - 0 + 1
        BY <3>1, FS_Interval
      <3> QED
        BY <2>1, <3>1, <3>2, FS_Interval
    <2>4. Cardinality(Full) <= e
      BY <2>2, <2>3, FS_Subset
    <2>5. total_obj_cnt \in Nat /\ total_obj_cnt <= NumObjects + Cardinality(Full)
      BY Constants DEF AllocInv, TypeOK, RecycleInv
    <2> QED
      BY <2>1, <2>2, <2>4, <2>5, Constants DEF ListBound
  <1> QED
    BY <1>1, AllocInductive, PTL

(* carm_free does not abort: the freed and the live bytes of an object are *)
(* never more than it has.                                                 *)
THEOREM FreedBytesFit == Spec => []FreeListBound
  <1>1. AllocInv => FreeListBound
    <2> SUFFICES ASSUME AllocInv, NEW o \in Slots
                 PROVE  free_list_map[o] + Cardinality(LiveBytes(o)) <= OBJ_SIZE
      BY DEF FreeListBound, AllocInv
    <2>1. /\ Cardinality(Occupied(o)) \in Nat /\ Cardinality(LiveBytes(o)) \in Nat
          /\ Cardinality(LiveBytes(o)) <= Cardinality(Occupied(o))
      BY OccupiedIsFinite
    <2>2. free_list_map[o] + Cardinality(Occupied(o)) <= OBJ_SIZE /\ free_list_map[o] \in Nat
      BY DEF AllocInv, CountInv, TypeOK
    <2> QED
      BY <2>1, <2>2, Constants
  <1> QED
    BY <1>1, AllocInductive, PTL

(* The object list and the slots agree as long as the program asks for no  *)
(* more than the list holds.                                               *)
THEOREM OwnInductive == ~CountLive => (Spec => []OwnInv)
  <1> SUFFICES ASSUME ~CountLive PROVE Spec => []OwnInv
    OBVIOUS
  <1>1. Init => OwnInv
    BY InitOwn
  <1>2. AllocInv /\ OwnInv /\ [Next]_vars => OwnInv'
    BY OwnStep
  <1> QED
    BY <1>1, <1>2, AllocInductive, PTL DEF Spec

(* An object with live bytes is not freed as a whole. *)
LEMMA LiveIsNotFull ==
    ASSUME AllocInv, NEW o \in Slots, LiveBytes(o) # {}
    PROVE  o \notin Full
  <1>1. /\ IsFiniteSet(LiveBytes(o)) /\ Cardinality(LiveBytes(o)) \in Nat
        /\ Cardinality(Occupied(o)) \in Nat
        /\ Cardinality(LiveBytes(o)) <= Cardinality(Occupied(o))
    BY OccupiedIsFinite
  <1>2. Cardinality(LiveBytes(o)) # 0
    BY <1>1, FS_EmptySet
  <1>3. free_list_map[o] + Cardinality(Occupied(o)) <= OBJ_SIZE /\ free_list_map[o] \in Nat
    BY DEF AllocInv, CountInv, TypeOK
  <1>4. free_list_map[o] # OBJ_SIZE
    BY <1>1, <1>2, <1>3, Constants
  <1> QED
    BY <1>4 DEF Full

(* The object behind an index that is in use reports to that index, so the *)
(* evacuator reaches the word its guards look at.                          *)
THEOREM IndexOwnsObject == ~CountLive => (Spec => []LiveIndexOwnsObject)
  <1> SUFFICES ASSUME ~CountLive PROVE Spec => []LiveIndexOwnsObject
    OBVIOUS
  <1>1. AllocInv /\ OwnInv => LiveIndexOwnsObject
    BY LiveIsNotFull DEF LiveIndexOwnsObject, OwnInv
  <1> QED
    BY <1>1, AllocInductive, OwnInductive, PTL

(* Recycling never replaces the object of an index that is in use. *)
THEOREM LiveObjectsStay == ~CountLive => (Spec => LiveObjectStays)
  <1> SUFFICES ASSUME ~CountLive PROVE Spec => LiveObjectStays
    OBVIOUS
  <1> DEFINE Stays == \A o \in Slots : LiveBytes(o) # {} /\ ptrs[o] # Null => ptrs'[o] = ptrs[o]
  <1>1. AllocInv /\ OwnInv /\ [Next]_vars => [Stays]_vars
    <2> SUFFICES ASSUME AllocInv, OwnInv, Next, NEW o \in Slots, LiveBytes(o) # {}, ptrs[o] # Null
                 PROVE  ptrs'[o] = ptrs[o]
      BY DEF vars
    <2>1. ASSUME NEW S, Touch(S) PROVE ptrs'[o] = ptrs[o]
      BY <2>1 DEF Touch
    <2>2. CASE FreeObject
      <3>1. PICK p : p = cur.obj_index
        OBVIOUS
      <3>2. \/ update_object_list(p)
            \/ UNCHANGED ptrs
        BY <2>2, <3>1, FreeObjectCases
      <3>3. o # total_obj_cnt
        <4>1. PICK b \in ObjectBytes(o), a \in live : a <= b /\ b < a + allocation_map[a]
          BY DEF LiveBytes, ObjectBytes
        <4>2. /\ o \in Nat /\ o * OBJ_SIZE \in Nat /\ b \in Nat /\ o * OBJ_SIZE <= b
          <5>1. o \in Nat /\ o * OBJ_SIZE \in Nat
            BY SlotIsNat, Objects
          <5>2. (o + 1) * OBJ_SIZE \in Nat
            BY <5>1, Constants, Scale
          <5> QED
            BY <4>1, <5>1, <5>2 DEF ObjectBytes
        <4>3. /\ a \in Nat /\ allocation_map[a] \in Nat
              /\ a + allocation_map[a] <= aspace_start /\ aspace_start \in Nat
          BY Constants DEF AllocInv, BlocksInv, TypeOK, Addresses
        <4>4. o * OBJ_SIZE < aspace_start
          BY <4>1, <4>2, <4>3
        <4>5. aspace_start <= total_obj_cnt * OBJ_SIZE
          BY DEF OwnInv
        <4>6. CASE o = total_obj_cnt
          BY <4>2, <4>3, <4>4, <4>5, <4>6
        <4> QED
          BY <4>6
      <3>4. ptrs \in [Slots -> Slots \cup {Null}]
        BY SlotTypes
      <3> QED
        BY <3>2, <3>3, <3>4 DEF update_object_list
    <2>3. CASE UNCHANGED ptrs
      BY <2>3
    <2> QED
      BY <2>1, <2>2, <2>3
         DEF Next, carm_remote_malloc, carm_calloc, carm_free, carm_realloc, Use, Evacuate,
             heapVars
  <1> QED
    BY <1>1, AllocInductive, OwnInductive, PTL DEF Spec, LiveObjectStays
=============================================================================
