--------------------------- MODULE CarmLibcProofs ---------------------------
(***************************************************************************)
(* Proofs about CarmLibc: for every size of the objects and the memories,  *)
(* the functions that walk a far buffer object by object leave what libc   *)
(* would leave in a flat memory, and return what it would return.          *)
(***************************************************************************)
EXTENDS CarmLibc, WellFoundedInduction, TLAPS

-----------------------------------------------------------------------------
(* Numbers *)

(* A set of natural numbers that is not empty has a least element. *)
LEMMA LeastNumber ==
    ASSUME NEW M \in SUBSET Nat, M # {}
    PROVE  Min(M) \in M /\ \A k \in M : Min(M) <= k
  <1>1. \E m \in M : \A k \in M : ~(<<k, m>> \in OpToRel(<, Nat))
    BY NatLessThanWellFounded, WFMin
  <1>2. PICK m \in M : \A k \in M : ~(<<k, m>> \in OpToRel(<, Nat))
    BY <1>1
  <1>3. ASSUME NEW k \in M PROVE m <= k
    <2>1. k < m => <<k, m>> \in OpToRel(<, Nat)
      BY DEF OpToRel
    <2>2. ~(k < m)
      BY <1>2, <2>1
    <2> QED
      BY <2>2
  <1>4. \E x \in M : \A y \in M : x <= y
    BY <1>3
  <1> QED
    BY <1>4, Zenon DEF Min

(* It is the only one. *)
LEMMA MinIs ==
    ASSUME NEW M \in SUBSET Nat, NEW m \in M, \A k \in M : m <= k
    PROVE  Min(M) = m
  <1>1. PICK n : n = Min(M)
    OBVIOUS
  <1>2. n \in M /\ \A k \in M : n <= k
    BY <1>1, LeastNumber
  <1> QED
    BY <1>1, <1>2

(* The constants have the values LibcAssumption gives them. *)
LEMMA Sizes ==
    /\ OBJ_SIZE \in Nat \ {0} /\ NumObjects \in Nat \ {0} /\ LocalSize \in Nat
    /\ HeapSize \in Nat \ {0}
    /\ Bytes \subseteq Nat /\ NUL \in Bytes /\ NUL = 0
    /\ CursorMod \in Nat \ {0} /\ SizeMod \in Nat \ {0} /\ CursorMod <= SizeMod
    /\ ByteMod \in Nat \ {0} /\ Ints \subseteq Int
  <1>1. OBJ_SIZE \in Nat \ {0} /\ NumObjects \in Nat \ {0}
    BY LibcAssumption
  <1>2. NumObjects * OBJ_SIZE \in Nat \ {0}
    BY <1>1
  <1>3. ByteMod \in Nat \ {0} /\ CursorMod \in Nat /\ CursorMod > OBJ_SIZE
        /\ SizeMod \in Nat /\ SizeMod >= CursorMod /\ Ints \subseteq Int /\ LocalSize \in Nat
    BY LibcAssumption
  <1>4. Bytes \subseteq Nat /\ NUL \in Bytes /\ NUL = 0
    BY <1>3 DEF Bytes, NUL
  <1> QED
    BY <1>1, <1>2, <1>3, <1>4 DEF HeapSize

(* The conversion of an int to a byte, which is none of a byte. *)
LEMMA AsByteIs ==
    ASSUME NEW c \in Int
    PROVE  /\ AsByte(c) \in Bytes
           /\ c \in Bytes => AsByte(c) = c
  <1>1. ByteMod \in Nat \ {0}
    BY Sizes
  <1>2. c % ByteMod \in 0 .. ByteMod - 1
    BY <1>1
  <1>3. c \in 0 .. ByteMod - 1 => c % ByteMod = c
    BY <1>1
  <1> QED
    BY <1>2, <1>3 DEF AsByte, Bytes

(* Below half of their range, an int and a uint64_t hold a number as it is; *)
(* an int holds -1, too.                                                   *)
LEMMA SignedIs ==
    ASSUME NEW k \in Int, -1 <= k, k < CursorMod \div 2
    PROVE  /\ Signed(k) = k
           /\ k >= 0 => Signed(k) % SizeMod = k
  <1>1. /\ CursorMod \in Nat \ {0} /\ SizeMod \in Nat \ {0} /\ CursorMod <= SizeMod
        /\ CursorMod \div 2 \in Nat /\ 2 * (CursorMod \div 2) <= CursorMod
    BY Sizes
  <1>2. CASE k >= 0
    <2>1. k < CursorMod /\ k < SizeMod /\ k \in Nat
      BY <1>1, <1>2
    <2>2. k % CursorMod = k /\ k % SizeMod = k
      BY <1>1, <2>1
    <2> QED
      BY <2>2 DEF Signed
  <1>3. CASE k = -1
    <2>1. PICK u : u = k % CursorMod
      OBVIOUS
    <2>2. u = CursorMod - 1
      BY <1>1, <1>3, <2>1
    <2>3. ~(u < CursorMod \div 2) /\ u - CursorMod = k
      BY <1>1, <1>3, <2>2
    <2> QED
      BY <1>3, <2>1, <2>3 DEF Signed
  <1> QED
    BY <1>2, <1>3

(* Multiples of the size of an object. *)
LEMMA Multiples ==
    ASSUME NEW i \in Nat, NEW j \in Nat
    PROVE  /\ i * OBJ_SIZE \in Nat
           /\ (i + 1) * OBJ_SIZE = i * OBJ_SIZE + OBJ_SIZE
           /\ i <= j => i * OBJ_SIZE <= j * OBJ_SIZE
           /\ i < j => i * OBJ_SIZE + OBJ_SIZE <= j * OBJ_SIZE
  <1>1. OBJ_SIZE \in Nat \ {0}
    BY Sizes
  <1>2. i * OBJ_SIZE \in Nat /\ j * OBJ_SIZE \in Nat /\ (i + 1) * OBJ_SIZE = i * OBJ_SIZE + OBJ_SIZE
    BY <1>1
  <1>3. i <= j => i * OBJ_SIZE <= j * OBJ_SIZE
    BY <1>1
  <1>4. i + 1 <= j => (i + 1) * OBJ_SIZE <= j * OBJ_SIZE
    BY <1>1
  <1> QED
    BY <1>2, <1>3, <1>4

-----------------------------------------------------------------------------
(* Pointers *)

Places == [far : BOOLEAN, addr : Nat]

Limit(p) == IF p.far THEN HeapSize ELSE LocalSize

(* A pointer moved on points into the same kind of memory, k bytes further. *)
LEMMA PlusIs ==
    ASSUME NEW p \in Places, NEW k \in Int
    PROVE  /\ Plus(p, k).far = p.far
           /\ Plus(p, k).addr = p.addr + k
           /\ Plus(p, k) = [far |-> p.far, addr |-> p.addr + k]
           /\ p.addr + k \in Nat => Plus(p, k) \in Places
  BY DEF Places, Plus

(* A pointer is its kind and its address. *)
LEMMA SamePlace ==
    ASSUME NEW p \in Places, NEW q \in Places, p.far = q.far, p.addr = q.addr
    PROVE  p = q
  BY DEF Places

(* Moving on by nothing changes no pointer. *)
LEMMA PlusZero ==
    ASSUME NEW p \in Places PROVE Plus(p, 0) = p
  <1>1. PICK k : k = 0
    OBVIOUS
  <1>2. p.addr \in Nat /\ k \in Int /\ p.addr + k = p.addr
    BY <1>1 DEF Places
  <1>3. Plus(p, k) \in Places /\ Plus(p, k).far = p.far /\ Plus(p, k).addr = p.addr
    BY <1>2, PlusIs
  <1> QED
    BY <1>1, <1>3, SamePlace

(* Two moves of a pointer are one. *)
LEMMA PlusPlus ==
    ASSUME NEW p \in Places, NEW a \in Nat, NEW b \in Int, a + b \in Nat
    PROVE  Plus(Plus(p, a), b) = Plus(p, a + b)
  <1>1. PICK q : q = Plus(p, a)
    OBVIOUS
  <1>2. q \in Places /\ q.far = p.far /\ q.addr = p.addr + a
    BY <1>1, PlusIs DEF Places
  <1>3. p.addr \in Nat
    BY DEF Places
  <1>4. Plus(q, b) = [far |-> q.far, addr |-> q.addr + b]
    BY <1>2, PlusIs
  <1>5. Plus(p, a + b) = [far |-> p.far, addr |-> p.addr + (a + b)]
    BY PlusIs
  <1>6. q.addr + b = p.addr + (a + b)
    BY <1>2, <1>3
  <1> QED
    BY <1>1, <1>2, <1>4, <1>5, <1>6

(* One of the two memories: the kinds in S with n addresses. *)
LEMMA MemoryPlaces ==
    ASSUME NEW S \in SUBSET BOOLEAN, NEW n \in Nat
    PROVE  /\ [far : S, addr : 0 .. n - 1] \subseteq Places
           /\ \A p \in Places : p \in [far : S, addr : 0 .. n - 1] <=> p.far \in S /\ p.addr < n
  BY DEF Places

(* A place is an address of the program if it lies below the limit of its memory. *)
LEMMA InPointers ==
    /\ Pointers \subseteq Places
    /\ \A p \in Places : p \in Pointers <=> p.addr < Limit(p)
  <1>1. HeapSize \in Nat /\ LocalSize \in Nat
    BY Sizes
  <1> DEFINE Heap == [far : {TRUE}, addr : 0 .. HeapSize - 1]
             Near == [far : {FALSE}, addr : 0 .. LocalSize - 1]
  <1>2. Pointers = Heap \cup Near
    BY DEF Pointers
  <1>3. Heap \subseteq Places /\ Near \subseteq Places
    BY <1>1, MemoryPlaces
  <1>4. {TRUE} \in SUBSET BOOLEAN /\ {FALSE} \in SUBSET BOOLEAN
    OBVIOUS
  <1>5. ASSUME NEW p \in Places
        PROVE  /\ p \in Heap <=> p.far \in {TRUE} /\ p.addr < HeapSize
               /\ p \in Near <=> p.far \in {FALSE} /\ p.addr < LocalSize
    BY <1>1, <1>4, MemoryPlaces
  <1>6. ASSUME NEW p \in Places
        PROVE  p.far \in BOOLEAN
    BY DEF Places
  <1> HIDE DEF Heap, Near
  <1>7. ASSUME NEW p \in Places PROVE p \in Pointers <=> p.addr < Limit(p)
    <2>1. CASE p.far = TRUE
      BY <1>2, <1>5, <2>1 DEF Limit
    <2>2. CASE p.far = FALSE
      BY <1>2, <1>5, <2>2 DEF Limit
    <2> QED
      BY <1>6, <2>1, <2>2
  <1> QED
    BY <1>2, <1>3, <1>7

Memories == [Pointers -> Bytes]

(* Whatever is read is a byte. *)
LEMMA ByteType ==
    ASSUME NEW m \in Memories, NEW p
    PROVE  Byte(m, p) \in Bytes /\ Byte(m, p) \in Nat
  BY Sizes DEF Byte, Memories

(* There is room for n bytes at p if the last one is in the memory. *)
LEMMA RoomIs ==
    ASSUME NEW p \in Places, NEW n \in Nat, Room(p, n), NEW k \in 0 .. n - 1
    PROVE  Plus(p, k) \in Pointers
  <1>1. Plus(p, k) \in Places /\ Plus(p, k).addr = p.addr + k /\ Plus(p, k).far = p.far
    BY PlusIs DEF Places
  <1>2. p.addr + n <= Limit(p)
    BY DEF Room, Limit
  <1>3. p.addr + k < Limit(p)
    BY <1>2, Sizes DEF Limit, Places
  <1> QED
    BY <1>1, <1>3, InPointers DEF Limit

-----------------------------------------------------------------------------
(* Objects *)

CarmPtrs == [obj_index : Nat, offset : 0 .. OBJ_SIZE - 1]

(* The address a Carm_Ptr of libc_support.cpp stands for. *)
LEMMA DerefIs ==
    ASSUME NEW q \in CarmPtrs
    PROVE  /\ q.obj_index \in Nat /\ q.offset \in 0 .. OBJ_SIZE - 1
           /\ _ptrDeref(q) \in Places
           /\ _ptrDeref(q).far = TRUE
           /\ _ptrDeref(q).addr = q.obj_index * OBJ_SIZE + q.offset
  <1>1. q.obj_index \in Nat /\ q.offset \in 0 .. OBJ_SIZE - 1
    BY DEF CarmPtrs
  <1>2. q.obj_index * OBJ_SIZE + q.offset \in Nat
    BY <1>1, Sizes
  <1> QED
    BY <1>1, <1>2 DEF _ptrDeref, Places

(* An address is the start of its object and the offset in it. *)
LEMMA Quotient ==
    ASSUME NEW a \in Nat
    PROVE  /\ a \div OBJ_SIZE \in Nat
           /\ a % OBJ_SIZE \in 0 .. OBJ_SIZE - 1
           /\ a = (a \div OBJ_SIZE) * OBJ_SIZE + (a % OBJ_SIZE)
  <1>1. OBJ_SIZE \in Nat \ {0}
    BY Sizes
  <1> QED
    BY <1>1

(* The Carm_Ptr of a far pointer is the same place. *)
LEMMA CarmPtrIs ==
    ASSUME NEW p \in Places, p.far
    PROVE  Carm_Ptr(p) \in CarmPtrs /\ _ptrDeref(Carm_Ptr(p)) = p
  <1>1. p.addr \in Nat /\ p.far = TRUE /\ OBJ_SIZE \in Nat \ {0}
    BY Sizes DEF Places
  <1>2. PICK i : i = p.addr \div OBJ_SIZE
    OBVIOUS
  <1>3. PICK f : f = p.addr % OBJ_SIZE
    OBVIOUS
  <1>4. i \in Nat /\ f \in 0 .. OBJ_SIZE - 1 /\ p.addr = i * OBJ_SIZE + f
    BY <1>1, <1>2, <1>3, Quotient
  <1>5. PICK q : q = Carm_Ptr(p)
    OBVIOUS
  <1>6. q.obj_index = i /\ q.offset = f /\ q \in CarmPtrs
    BY <1>2, <1>3, <1>4, <1>5 DEF Carm_Ptr, CarmPtrs
  <1>7. _ptrDeref(q) \in Places /\ _ptrDeref(q).far = p.far /\ _ptrDeref(q).addr = p.addr
    BY <1>1, <1>4, <1>6, DerefIs
  <1> QED
    BY <1>5, <1>6, <1>7, SamePlace

(* The next object begins where the rest of this one ends. *)
LEMMA NextObjectIs ==
    ASSUME NEW q \in CarmPtrs
    PROVE  /\ Chunk(q) \in 1 .. OBJ_SIZE
           /\ NextObject(q) \in CarmPtrs
           /\ _ptrDeref(NextObject(q)) = Plus(_ptrDeref(q), Chunk(q))
  <1>1. OBJ_SIZE \in Nat \ {0} /\ q.obj_index \in Nat /\ q.offset \in 0 .. OBJ_SIZE - 1
    BY Sizes, DerefIs
  <1>2. PICK r : r = NextObject(q)
    OBVIOUS
  <1>3. r \in CarmPtrs /\ r.obj_index = q.obj_index + 1 /\ r.offset = 0
    BY <1>1, <1>2 DEF NextObject, CarmPtrs
  <1>4. Chunk(q) \in 1 .. OBJ_SIZE /\ Chunk(q) = OBJ_SIZE - q.offset
    BY <1>1 DEF Chunk
  <1>5. PICK a : a = q.obj_index * OBJ_SIZE
    OBVIOUS
  <1>6. a \in Nat /\ (q.obj_index + 1) * OBJ_SIZE = a + OBJ_SIZE
    BY <1>1, <1>5, Multiples
  <1>7. PICK d : d = _ptrDeref(q)
    OBVIOUS
  <1>8. d \in Places /\ d.far = TRUE /\ d.addr = a + q.offset
    BY <1>5, <1>7, DerefIs
  <1>12. r.obj_index * OBJ_SIZE + r.offset = a + OBJ_SIZE
    BY <1>1, <1>3, <1>6
  <1>9. _ptrDeref(r) \in Places /\ _ptrDeref(r).far = TRUE /\ _ptrDeref(r).addr = a + OBJ_SIZE
    BY <1>3, <1>12, DerefIs
  <1>10. d.addr + Chunk(q) = a + OBJ_SIZE
    BY <1>1, <1>4, <1>6, <1>8
  <1>11. /\ Plus(d, Chunk(q)) \in Places /\ Plus(d, Chunk(q)).far = TRUE
         /\ Plus(d, Chunk(q)).addr = a + OBJ_SIZE
    BY <1>1, <1>4, <1>6, <1>8, <1>10, PlusIs
  <1> QED
    BY <1>2, <1>3, <1>4, <1>7, <1>9, <1>11, SamePlace

(* An object that begins in a multiple of an object before the end of it   *)
(* does not reach behind it.                                               *)
LEMMA RestOfObject ==
    ASSUME NEW q \in CarmPtrs, NEW n \in Nat, _ptrDeref(q).addr < n * OBJ_SIZE
    PROVE  _ptrDeref(q).addr + Chunk(q) <= n * OBJ_SIZE
  <1>1. OBJ_SIZE \in Nat \ {0} /\ q.obj_index \in Nat /\ q.offset \in 0 .. OBJ_SIZE - 1
    BY Sizes, DerefIs
  <1>2. PICK a : a = q.obj_index * OBJ_SIZE
    OBVIOUS
  <1>3. PICK b : b = n * OBJ_SIZE
    OBVIOUS
  <1>4. /\ a \in Nat /\ b \in Nat
        /\ n <= q.obj_index => b <= a
        /\ q.obj_index < n => a + OBJ_SIZE <= b
    BY <1>1, <1>2, <1>3, Multiples
  <1>5. _ptrDeref(q).addr = a + q.offset
    BY <1>2, DerefIs
  <1>6. a + OBJ_SIZE <= b
    BY <1>1, <1>3, <1>4, <1>5
  <1> QED
    BY <1>1, <1>3, <1>4, <1>5, <1>6 DEF Chunk

(* The rest of an object ends inside of the heap. *)
LEMMA RestInHeap ==
    ASSUME NEW q \in CarmPtrs, _ptrDeref(q).addr < HeapSize
    PROVE  _ptrDeref(q).addr + Chunk(q) <= HeapSize
  BY RestOfObject, Sizes DEF HeapSize

(* A loop's Carm_Ptr starts at its buffer and moves on with its cursor. *)
LEMMA PtrStarts ==
    ASSUME NEW p \in Places, p.far, NEW q, q = Carm_Ptr(p)
    PROVE  q \in CarmPtrs /\ _ptrDeref(q) = Plus(p, 0)
  <1>1. q \in CarmPtrs /\ _ptrDeref(q) = p
    BY CarmPtrIs
  <1>2. p.addr \in Nat /\ p.addr + 0 = p.addr
    BY DEF Places
  <1>3. Plus(p, 0) = p
    BY PlusZero
  <1> QED
    BY <1>1, <1>3

(* The Carm_Ptr of a loop moves on to the next object as its cursor does. *)
LEMMA PtrMoves ==
    ASSUME NEW p \in Places, NEW q \in CarmPtrs, NEW c \in Nat, _ptrDeref(q) = Plus(p, c)
    PROVE  /\ NextObject(q) \in CarmPtrs
           /\ _ptrDeref(NextObject(q)) = Plus(p, c + Chunk(q))
  <1>1. Chunk(q) \in Nat
    BY NextObjectIs, Sizes
  <1>2. Plus(Plus(p, c), Chunk(q)) = Plus(p, c + Chunk(q))
    BY <1>1, PlusPlus
  <1> QED
    BY <1>2, NextObjectIs

-----------------------------------------------------------------------------
(* Copies and fills *)

(* A place within a buffer, by its address. *)
LEMMA WithinIs ==
    ASSUME NEW p \in Places, NEW d \in Places, NEW c \in Nat, NEW n \in Nat
    PROVE  /\ Within(p, d, n) <=>
                p.far = d.far /\ d.addr <= p.addr /\ p.addr < d.addr + n
           /\ Within(p, Plus(d, c), n) <=>
                p.far = d.far /\ d.addr + c <= p.addr /\ p.addr < d.addr + c + n
  <1>1. p.addr \in Nat /\ d.addr \in Nat
    BY DEF Places
  <1>2. PICK e : e = Plus(d, c)
    OBVIOUS
  <1>3. e.far = d.far /\ e.addr = d.addr + c
    BY <1>2, PlusIs
  <1>4. Within(p, d, n) <=> p.far = d.far /\ d.addr <= p.addr /\ p.addr < d.addr + n
    BY <1>1 DEF Within
  <1>5. Within(p, e, n) <=> p.far = d.far /\ d.addr + c <= p.addr /\ p.addr < d.addr + c + n
    BY <1>1, <1>3 DEF Within
  <1> QED
    BY <1>2, <1>4, <1>5

(* A copy leaves a memory. *)
LEMMA MovedType ==
    ASSUME NEW m \in Memories, NEW d, NEW s, NEW n
    PROVE  Moved(m, d, s, n) \in Memories
  <1>1. ASSUME NEW p \in Pointers
        PROVE  (IF Within(p, d, n) THEN Byte(m, Plus(s, p.addr - d.addr)) ELSE m[p]) \in Bytes
    BY ByteType DEF Memories
  <1> QED
    BY <1>1, Zenon DEF Moved, Memories

(* The byte a copy leaves at an address. *)
LEMMA MovedAt ==
    ASSUME NEW m \in Memories, NEW d, NEW s, NEW n, NEW p \in Pointers
    PROVE  Moved(m, d, s, n)[p] =
             IF Within(p, d, n) THEN Byte(m, Plus(s, p.addr - d.addr)) ELSE m[p]
  BY Zenon DEF Moved

(* Two memories with the same bytes are the same. *)
LEMMA SameMemory ==
    ASSUME NEW m \in Memories, NEW w \in Memories, \A p \in Pointers : m[p] = w[p]
    PROVE  m = w
  BY DEF Memories

(* A copy of no bytes changes nothing. *)
LEMMA MovedNothing ==
    ASSUME NEW m \in Memories, NEW d \in Places, NEW s
    PROVE  Moved(m, d, s, 0) = m
  <1>1. ASSUME NEW p \in Pointers PROVE Moved(m, d, s, 0)[p] = m[p]
    <2>1. p \in Places /\ p.addr \in Nat /\ d.addr \in Nat
      BY InPointers DEF Places
    <2>2. ~Within(p, d, 0)
      BY <2>1, WithinIs
    <2> QED
      BY <2>2, MovedAt
  <1> QED
    BY <1>1, MovedType, SameMemory

(* A buffer is copied by copying the first c bytes and then the next k, if *)
(* the buffers do not overlap.                                             *)
LEMMA MovedOn ==
    ASSUME NEW m \in Memories, NEW d \in Places, NEW s \in Places,
           NEW c \in Nat, NEW k \in Nat, NEW n \in Nat, c + k <= n, Disjoint(d, s, n)
    PROVE  Moved(Moved(m, d, s, c), Plus(d, c), Plus(s, c), k) = Moved(m, d, s, c + k)
  <1> DEFINE w == Moved(m, d, s, c)
  <1>1. w \in Memories
    BY MovedType
  <1>2. d.addr \in Nat /\ s.addr \in Nat /\ c + k \in Nat
    BY DEF Places
  <1>3. ASSUME NEW p \in Pointers
        PROVE  Moved(w, Plus(d, c), Plus(s, c), k)[p] = Moved(m, d, s, c + k)[p]
    <2>1. p \in Places /\ p.addr \in Nat
      BY InPointers DEF Places
    <2>2. /\ Within(p, d, c) <=> p.far = d.far /\ d.addr <= p.addr /\ p.addr < d.addr + c
          /\ Within(p, d, c + k) <=> p.far = d.far /\ d.addr <= p.addr /\ p.addr < d.addr + (c + k)
          /\ Within(p, Plus(d, c), k) <=>
               p.far = d.far /\ d.addr + c <= p.addr /\ p.addr < d.addr + c + k
      BY <1>2, <2>1, WithinIs
    <2>3. CASE Within(p, Plus(d, c), k)
      <3>1. PICK j : j = p.addr - d.addr
        OBVIOUS
      <3>2. j \in Nat /\ c <= j /\ j < c + k /\ Within(p, d, c + k)
        BY <1>2, <2>1, <2>2, <2>3, <3>1
      <3>3. Plus(d, c).addr = d.addr + c
        BY PlusIs
      <3>4. p.addr - Plus(d, c).addr = j - c /\ j - c \in Int /\ c + (j - c) = j
        BY <1>2, <2>1, <3>1, <3>2, <3>3
      <3>5. Plus(Plus(s, c), p.addr - Plus(d, c).addr) = Plus(s, j)
        BY <3>2, <3>4, PlusPlus
      <3>6. PICK q : q = Plus(s, j)
        OBVIOUS
      <3>7. q \in Places /\ q.far = s.far /\ q.addr = s.addr + j
        BY <1>2, <3>2, <3>6, PlusIs
      <3>8. ~Within(q, d, c)
        BY <1>2, <3>2, <3>7, WithinIs DEF Disjoint
      <3>9. Byte(w, q) = Byte(m, q)
        BY <3>8, MovedAt DEF Byte
      <3> HIDE DEF w
      <3>10. Moved(w, Plus(d, c), Plus(s, c), k)[p] = Byte(w, q)
        BY <1>1, <2>3, <3>5, <3>6, MovedAt
      <3>11. Moved(m, d, s, c + k)[p] = Byte(m, q)
        BY <3>1, <3>2, <3>6, MovedAt
      <3> QED
        BY <3>9, <3>10, <3>11
    <2>4. CASE ~Within(p, Plus(d, c), k)
      <3>1. Within(p, d, c) <=> Within(p, d, c + k)
        BY <1>2, <2>1, <2>2, <2>4
      <3>2. w[p] = Moved(m, d, s, c + k)[p]
        BY <3>1, MovedAt
      <3> HIDE DEF w
      <3>3. Moved(w, Plus(d, c), Plus(s, c), k)[p] = w[p]
        BY <1>1, <2>4, MovedAt
      <3> QED
        BY <3>2, <3>3
    <2> QED
      BY <2>3, <2>4
  <1>4. Moved(w, Plus(d, c), Plus(s, c), k) \in Memories /\ Moved(m, d, s, c + k) \in Memories
    BY <1>1, MovedType
  <1> HIDE DEF w
  <1>5. Moved(w, Plus(d, c), Plus(s, c), k) = Moved(m, d, s, c + k)
    BY <1>3, <1>4, SameMemory
  <1> QED
    BY <1>5 DEF w

(* The bytes memset leaves. *)
LEMMA FilledIs ==
    ASSUME NEW m \in Memories, NEW d, NEW b \in Int, NEW n
    PROVE  /\ Filled(m, d, b, n) \in Memories
           /\ \A p \in Pointers : Filled(m, d, b, n)[p] = IF Within(p, d, n) THEN AsByte(b) ELSE m[p]
  <1>1. \A p \in Pointers : (IF Within(p, d, n) THEN AsByte(b) ELSE m[p]) \in Bytes
    BY AsByteIs DEF Memories
  <1> QED
    BY <1>1, Zenon DEF Filled, Memories

(* A memset of no bytes changes nothing. *)
LEMMA FilledNothing ==
    ASSUME NEW m \in Memories, NEW d \in Places, NEW b \in Int
    PROVE  Filled(m, d, b, 0) = m
  <1>1. ASSUME NEW p \in Pointers PROVE Filled(m, d, b, 0)[p] = m[p]
    <2>1. p \in Places /\ p.addr \in Nat /\ d.addr \in Nat
      BY InPointers DEF Places
    <2>2. ~Within(p, d, 0)
      BY <2>1, WithinIs
    <2> QED
      BY <2>2, FilledIs
  <1> QED
    BY <1>1, FilledIs, SameMemory

(* A buffer is filled by filling the first c bytes and then the next k. *)
LEMMA FilledOn ==
    ASSUME NEW m \in Memories, NEW d \in Places, NEW b \in Int, NEW c \in Nat, NEW k \in Nat
    PROVE  Filled(Filled(m, d, b, c), Plus(d, c), b, k) = Filled(m, d, b, c + k)
  <1>1. PICK w : w = Filled(m, d, b, c)
    OBVIOUS
  <1>2. w \in Memories /\ \A p \in Pointers : w[p] = IF Within(p, d, c) THEN AsByte(b) ELSE m[p]
    BY <1>1, FilledIs
  <1>3. ASSUME NEW p \in Pointers
        PROVE  Filled(w, Plus(d, c), b, k)[p] = Filled(m, d, b, c + k)[p]
    <2>1. p \in Places /\ p.addr \in Nat /\ d.addr \in Nat /\ c + k \in Nat
      BY InPointers DEF Places
    <2>2. Within(p, d, c + k) <=> Within(p, d, c) \/ Within(p, Plus(d, c), k)
      <3>1. /\ Within(p, d, c) <=> p.far = d.far /\ d.addr <= p.addr /\ p.addr < d.addr + c
            /\ Within(p, d, c + k) <=> p.far = d.far /\ d.addr <= p.addr /\ p.addr < d.addr + (c + k)
            /\ Within(p, Plus(d, c), k) <=>
                 p.far = d.far /\ d.addr + c <= p.addr /\ p.addr < d.addr + c + k
        BY <2>1, WithinIs
      <3> QED
        BY <2>1, <3>1
    <2>3. Filled(w, Plus(d, c), b, k)[p] = IF Within(p, Plus(d, c), k) THEN AsByte(b) ELSE w[p]
      BY <1>2, FilledIs
    <2>4. Filled(m, d, b, c + k)[p] = IF Within(p, d, c + k) THEN AsByte(b) ELSE m[p]
      BY FilledIs
    <2> QED
      BY <1>2, <2>2, <2>3, <2>4
  <1>4. Filled(w, Plus(d, c), b, k) \in Memories /\ Filled(m, d, b, c + k) \in Memories
    BY <1>2, FilledIs
  <1>5. Filled(w, Plus(d, c), b, k) = Filled(m, d, b, c + k)
    BY <1>3, <1>4, SameMemory
  <1> QED
    BY <1>1, <1>5

-----------------------------------------------------------------------------
(* Comparisons and searches *)

(* The positions of two buffers where they differ. *)
Differ(m, d, s, n) == {k \in 0 .. n - 1 : Byte(m, Plus(d, k)) # Byte(m, Plus(s, k))}

(* Two buffers that differ have a first byte in which they do. *)
LEMMA FirstDifference ==
    ASSUME NEW m \in Memories, NEW d, NEW s, NEW n \in Nat, ~Same(m, d, s, n)
    PROVE  \E i \in 0 .. n - 1 : i \in Differ(m, d, s, n) /\ Same(m, d, s, i)
  <1>1. Differ(m, d, s, n) # {} /\ Differ(m, d, s, n) \in SUBSET Nat
    BY DEF Same, Differ
  <1>2. PICK i : i = Min(Differ(m, d, s, n))
    OBVIOUS
  <1>3. i \in Differ(m, d, s, n) /\ \A k \in Differ(m, d, s, n) : i <= k
    BY <1>1, <1>2, LeastNumber
  <1>4. i \in 0 .. n - 1
    BY <1>3 DEF Differ
  <1>5. ASSUME NEW k \in 0 .. i - 1 PROVE Byte(m, Plus(d, k)) = Byte(m, Plus(s, k))
    <2>1. k \in 0 .. n - 1 /\ ~(i <= k)
      BY <1>4
    <2> QED
      BY <1>3, <2>1 DEF Differ
  <1> QED
    BY <1>3, <1>4, <1>5 DEF Same

Sign(a, b) == IF a < b THEN -1 ELSE 1

(* memcmp looks at the first difference. *)
LEMMA ComparedIs ==
    ASSUME NEW m \in Memories, NEW d, NEW s, NEW n \in Nat
    PROVE  /\ Same(m, d, s, n) => Compared(m, d, s, n) = 0
           /\ \A i \in Differ(m, d, s, n) : Same(m, d, s, i) =>
                Compared(m, d, s, n) = Sign(Byte(m, Plus(d, i)), Byte(m, Plus(s, i)))
  <1>1. Compared(m, d, s, n) =
          LET diff == Differ(m, d, s, n)
          IN  IF diff = {} THEN 0
              ELSE IF Byte(m, Plus(d, Min(diff))) < Byte(m, Plus(s, Min(diff))) THEN -1 ELSE 1
    BY Zenon DEF Compared, Differ
  <1>2. ASSUME Same(m, d, s, n) PROVE Compared(m, d, s, n) = 0
    <2>1. Differ(m, d, s, n) = {}
      BY <1>2 DEF Differ, Same
    <2> QED
      BY <1>1, <2>1
  <1>3. ASSUME NEW i \in Differ(m, d, s, n), Same(m, d, s, i)
        PROVE  Compared(m, d, s, n) = Sign(Byte(m, Plus(d, i)), Byte(m, Plus(s, i)))
    <2>1. Differ(m, d, s, n) \in SUBSET Nat /\ i \in Nat
      BY DEF Differ
    <2>2. ASSUME NEW k \in Differ(m, d, s, n) PROVE i <= k
      <3>1. k \in Nat /\ Byte(m, Plus(d, k)) # Byte(m, Plus(s, k))
        BY DEF Differ
      <3>2. ~(k \in 0 .. i - 1)
        BY <1>3, <3>1 DEF Same
      <3> QED
        BY <2>1, <3>1, <3>2
    <2>3. Min(Differ(m, d, s, n)) = i
      BY <2>1, <2>2, MinIs
    <2>4. Differ(m, d, s, n) # {}
      OBVIOUS
    <2> QED
      BY <1>1, <2>3, <2>4 DEF Sign
  <1> QED
    BY <1>2, <1>3

(* memcmp is zero if and only if the buffers are the same. *)
LEMMA ComparedZero ==
    ASSUME NEW m \in Memories, NEW d, NEW s, NEW n \in Nat
    PROVE  Compared(m, d, s, n) = 0 <=> Same(m, d, s, n)
  <1>1. ASSUME ~Same(m, d, s, n) PROVE Compared(m, d, s, n) # 0
    <2>1. PICK i \in Differ(m, d, s, n) : Same(m, d, s, i)
      BY <1>1, FirstDifference
    <2> QED
      BY <2>1, ComparedIs DEF Sign
  <1> QED
    BY <1>1, ComparedIs

(* The difference of a part that is not the same is that of the whole. *)
LEMMA ComparedPart ==
    ASSUME NEW m \in Memories, NEW d, NEW s, NEW a \in Nat, NEW b \in Nat, a <= b,
           ~Same(m, d, s, a)
    PROVE  Compared(m, d, s, b) = Compared(m, d, s, a)
  <1>1. PICK i \in Differ(m, d, s, a) : Same(m, d, s, i)
    BY FirstDifference
  <1>2. i \in Differ(m, d, s, b)
    BY DEF Differ
  <1> QED
    BY <1>1, <1>2, ComparedIs

(* Behind a common part, buffers are the same if they are as a whole. *)
LEMMA SameOn ==
    ASSUME NEW m \in Memories, NEW d \in Places, NEW s \in Places,
           NEW c \in Nat, NEW k \in Nat, Same(m, d, s, c)
    PROVE  Same(m, Plus(d, c), Plus(s, c), k) <=> Same(m, d, s, c + k)
  <1>1. ASSUME NEW j \in Nat
        PROVE  Plus(Plus(d, c), j) = Plus(d, c + j) /\ Plus(Plus(s, c), j) = Plus(s, c + j)
    BY PlusPlus
  <1>2. ASSUME Same(m, Plus(d, c), Plus(s, c), k), NEW i \in 0 .. (c + k) - 1
        PROVE  Byte(m, Plus(d, i)) = Byte(m, Plus(s, i))
    <2>1. CASE i < c
      BY <2>1 DEF Same
    <2>2. CASE c <= i
      <3>1. PICK j \in 0 .. k - 1 : i = c + j
        <4>1. i - c \in 0 .. k - 1 /\ i = c + (i - c)
          BY <2>2
        <4> QED
          BY <4>1
      <3> QED
        BY <1>1, <1>2, <3>1 DEF Same
    <2> QED
      BY <2>1, <2>2
  <1>3. ASSUME Same(m, d, s, c + k), NEW j \in 0 .. k - 1
        PROVE  Byte(m, Plus(Plus(d, c), j)) = Byte(m, Plus(Plus(s, c), j))
    <2>1. c + j \in 0 .. (c + k) - 1
      OBVIOUS
    <2> QED
      BY <1>1, <1>3, <2>1 DEF Same
  <1> QED
    BY <1>2, <1>3 DEF Same

(* A comparison goes on where all has been the same. *)
LEMMA ComparedOn ==
    ASSUME NEW m \in Memories, NEW d \in Places, NEW s \in Places,
           NEW c \in Nat, NEW k \in Nat, NEW n \in Nat, c + k <= n, Same(m, d, s, c),
           NEW r, r = Compared(m, Plus(d, c), Plus(s, c), k)
    PROVE  /\ r = 0 => Same(m, d, s, c + k)
           /\ r # 0 => Compared(m, d, s, n) = r
  <1>1. PICK e : e = Plus(d, c)
    OBVIOUS
  <1>2. PICK t : t = Plus(s, c)
    OBVIOUS
  <1>3. r = 0 <=> Same(m, e, t, k)
    BY <1>1, <1>2, ComparedZero
  <1>4. Same(m, e, t, k) <=> Same(m, d, s, c + k)
    BY <1>1, <1>2, SameOn
  <1>5. ASSUME r # 0 PROVE Compared(m, d, s, n) = r
    <2>1. PICK j \in 0 .. k - 1 : j \in Differ(m, e, t, k) /\ Same(m, e, t, j)
      BY <1>3, <1>5, FirstDifference
    <2>2. PICK i \in Nat : i = c + j
      OBVIOUS
    <2>3. Plus(e, j) = Plus(d, i) /\ Plus(t, j) = Plus(s, i)
      <3>1. j \in Nat /\ j \in Int /\ c + j \in Nat
        OBVIOUS
      <3>2. Plus(Plus(d, c), j) = Plus(d, c + j) /\ Plus(Plus(s, c), j) = Plus(s, c + j)
        BY <3>1, PlusPlus
      <3> QED
        BY <1>1, <1>2, <2>2, <3>2
    <2>4. i \in Differ(m, d, s, n)
      BY <2>1, <2>2, <2>3 DEF Differ
    <2>5. Same(m, d, s, i)
      BY <1>1, <1>2, <2>1, <2>2, SameOn
    <2>6. r = Sign(Byte(m, Plus(e, j)), Byte(m, Plus(t, j)))
      BY <1>1, <1>2, <2>1, ComparedIs
    <2> QED
      BY <2>3, <2>4, <2>5, <2>6, ComparedIs
  <1> QED
    BY <1>3, <1>4, <1>5

(* A search goes on where nothing has been found. *)
LEMMA FoundOn ==
    ASSUME NEW m \in Memories, NEW p \in Places, NEW b, NEW a \in Nat, NEW k \in Nat,
           Found(m, p, b, a) = {}
    PROVE  /\ Found(m, Plus(p, a), b, k) = {} => Found(m, p, b, a + k) = {}
           /\ Found(m, Plus(p, a), b, k) # {} =>
                \E h \in 0 .. k - 1 :
                    /\ h = Min(Found(m, Plus(p, a), b, k))
                    /\ Byte(m, Plus(p, a + h)) = b
                    /\ Found(m, p, b, a + h) = {}
  <1> DEFINE hits == Found(m, Plus(p, a), b, k)
  <1>1. ASSUME NEW j \in Nat PROVE Plus(Plus(p, a), j) = Plus(p, a + j)
    BY PlusPlus
  <1>2. hits = {j \in 0 .. k - 1 : Byte(m, Plus(p, a + j)) = b}
    <2>1. ASSUME NEW j \in 0 .. k - 1 PROVE Byte(m, Plus(Plus(p, a), j)) = Byte(m, Plus(p, a + j))
      BY <1>1
    <2> QED
      BY <2>1 DEF Found
  <1> HIDE DEF hits
  <1>3. ASSUME NEW i \in Nat, i <= k, \A j \in 0 .. i - 1 : j \notin hits
        PROVE  Found(m, p, b, a + i) = {}
    <2> SUFFICES ASSUME NEW x \in 0 .. (a + i) - 1, Byte(m, Plus(p, x)) = b PROVE FALSE
      BY DEF Found
    <2>1. ~(x < a)
      BY DEF Found
    <2>2. PICK j \in 0 .. i - 1 : x = a + j
      <3>1. x - a \in 0 .. i - 1 /\ x = a + (x - a)
        BY <2>1
      <3> QED
        BY <3>1
    <2> QED
      BY <1>2, <1>3, <2>2
  <1>4. hits = {} => Found(m, p, b, a + k) = {}
    BY <1>3
  <1>5. ASSUME hits # {}
        PROVE  \E h \in 0 .. k - 1 :
                    /\ h = Min(hits)
                    /\ Byte(m, Plus(p, a + h)) = b
                    /\ Found(m, p, b, a + h) = {}
    <2>1. hits \in SUBSET Nat
      BY <1>2
    <2>2. PICK i : i = Min(hits)
      OBVIOUS
    <2>3. i \in hits /\ \A j \in hits : i <= j
      BY <1>5, <2>1, <2>2, LeastNumber
    <2>4. i \in 0 .. k - 1 /\ Byte(m, Plus(p, a + i)) = b
      BY <1>2, <2>3
    <2>5. Found(m, p, b, a + i) = {}
      BY <1>3, <2>3, <2>4
    <2> QED
      BY <2>2, <2>4, <2>5
  <1> QED
    BY <1>4, <1>5 DEF hits

(* The first hit of a search in a longer buffer. *)
LEMMA FoundFirst ==
    ASSUME NEW m, NEW p, NEW b, NEW i \in Nat, NEW n \in Nat, i < n,
           Byte(m, Plus(p, i)) = b, Found(m, p, b, i) = {}
    PROVE  Found(m, p, b, n) # {} /\ Min(Found(m, p, b, n)) = i
  <1>1. i \in Found(m, p, b, n) /\ Found(m, p, b, n) \in SUBSET Nat
    BY DEF Found
  <1>2. ASSUME NEW k \in Found(m, p, b, n) PROVE i <= k
    BY DEF Found
  <1> QED
    BY <1>1, <1>2, MinIs

(* The length of a string that ends in its memory. *)
LEMMA LengthIs ==
    ASSUME NEW m, NEW p \in Pointers, IsString(m, p)
    PROVE  /\ Length(m, p) \in Nat
           /\ p.addr + Length(m, p) < Limit(p)
           /\ Byte(m, Plus(p, Length(m, p))) = NUL
           /\ Found(m, p, NUL, Length(m, p)) = {}
  <1>1. p.addr \in Nat /\ Limit(p) \in Nat /\ Limit(p) <= HeapSize + LocalSize
        /\ HeapSize + LocalSize \in Nat
    BY InPointers, Sizes DEF Places, Limit
  <1>2. PICK n : n = HeapSize + LocalSize
    OBVIOUS
  <1>3. PICK i \in 0 .. (Limit(p) - p.addr) - 1 : Byte(m, Plus(p, i)) = NUL
    BY DEF IsString, Limit, Found
  <1>4. i \in Found(m, p, NUL, n) /\ Found(m, p, NUL, n) \in SUBSET Nat
    BY <1>1, <1>2, <1>3 DEF Found
  <1>5. PICK x : x = Length(m, p)
    OBVIOUS
  <1>6. x = Min(Found(m, p, NUL, n))
    BY <1>2, <1>5 DEF Length
  <1>7. x \in Found(m, p, NUL, n) /\ \A k \in Found(m, p, NUL, n) : x <= k
    BY <1>4, <1>6, LeastNumber
  <1>8. x \in 0 .. n - 1 /\ Byte(m, Plus(p, x)) = NUL /\ x <= i
    BY <1>4, <1>7 DEF Found
  <1>9. Found(m, p, NUL, x) = {}
    <2> SUFFICES ASSUME NEW k \in 0 .. x - 1, Byte(m, Plus(p, k)) = NUL PROVE FALSE
      BY DEF Found
    <2>1. k \in Found(m, p, NUL, n)
      BY <1>1, <1>2, <1>8 DEF Found
    <2> QED
      BY <1>7, <1>8, <2>1
  <1> QED
    BY <1>1, <1>3, <1>5, <1>8, <1>9

(* A string's length is the position of its first NUL. *)
LEMMA LengthFirst ==
    ASSUME NEW m, NEW p \in Pointers, IsString(m, p), NEW i \in Nat,
           Byte(m, Plus(p, i)) = NUL, Found(m, p, NUL, i) = {}
    PROVE  Length(m, p) = i
  <1>1. PICK x : x = Length(m, p)
    OBVIOUS
  <1>2. x \in Nat /\ Byte(m, Plus(p, x)) = NUL /\ Found(m, p, NUL, x) = {}
    BY <1>1, LengthIs
  <1>3. ~(x < i) /\ ~(i < x)
    BY <1>2 DEF Found
  <1> QED
    BY <1>1, <1>2, <1>3

-----------------------------------------------------------------------------
(* What the program asks for *)

CopyFns == {"memcpy", "read"} \cup StringCopies

(* There is room for n bytes if they end below the limit of their memory. *)
LEMMA RoomLimit ==
    ASSUME NEW p \in Places, NEW n \in Nat
    PROVE  Room(p, n) <=> p.addr + n <= Limit(p)
  BY DEF Room, Limit

(* There is room for a string and its NUL where it is. *)
LEMMA StringRoom ==
    ASSUME NEW m, NEW p \in Pointers, IsString(m, p)
    PROVE  Length(m, p) + 1 \in Nat /\ Room(p, Length(m, p) + 1)
  <1>1. PICK n : n = Length(m, p)
    OBVIOUS
  <1>2. n \in Nat /\ p.addr + n < Limit(p) /\ p \in Places /\ p.addr \in Nat /\ Limit(p) \in Nat
    BY <1>1, LengthIs, InPointers, Sizes DEF Places, Limit
  <1>3. n + 1 \in Nat /\ p.addr + (n + 1) <= Limit(p)
    BY <1>2
  <1> QED
    BY <1>1, <1>2, <1>3, RoomLimit

(* The int of a call, and its length. *)
LEMMA ArgumentTypes ==
    ASSUME NEW n \in 0 .. HeapSize, NEW fn, NEW c \in Arguments(fn, n)
    PROVE  n \in Nat /\ c \in Int /\ (fn = "read" => -1 <= c /\ c <= n)
  BY Sizes DEF Arguments

(* Buffers of copies lie in one memory each and do not overlap. *)
LEMMA CopyArguments ==
    ASSUME CallInv, Faithful, call.fn \in CopyFns \cap Fns
    PROVE  /\ Asked \in Nat
           /\ Room(call.dst, Asked) /\ Room(call.src, Asked)
           /\ Disjoint(call.dst, call.src, Asked)
           /\ call.fn \in StringCopies => IsString(entry, call.src)
  <1>1. /\ call.dst \in Pointers /\ call.src \in Pointers
        /\ call.n \in 0 .. HeapSize /\ call.c \in Arguments(call.fn, call.n)
        /\ Legal(entry, call.fn, call.dst, call.src, call.n, call.c)
    BY DEF CallInv
  <1>2. CASE call.fn = "memcpy"
    BY <1>1, <1>2, Sizes DEF Legal, Asked, StringCopies
  <1>4. CASE call.fn = "read"
    <2>1. /\ Room(call.dst, call.n) /\ Room(call.src, call.n)
          /\ Disjoint(call.dst, call.src, call.n)
      BY <1>1, <1>4 DEF Legal, StringCopies
    <2>2. Asked = Received(call)
      BY <1>4 DEF Asked, StringCopies
    <2>3. Received(call) \in Nat /\ Received(call) <= call.n
      BY <1>1, <1>4, ArgumentTypes DEF Received
    <2>4. PICK k \in Nat : k = Received(call)
      BY <2>3
    <2>5. /\ call.dst.addr \in Nat /\ call.src.addr \in Nat /\ call.n \in Nat
          /\ HeapSize \in Nat /\ LocalSize \in Nat
      BY <1>1, InPointers, ArgumentTypes, Sizes DEF Places
    <2>6. Room(call.dst, k) /\ Room(call.src, k) /\ Disjoint(call.dst, call.src, k)
      BY <2>1, <2>3, <2>4, <2>5 DEF Room, Disjoint
    <2> QED
      BY <1>4, <2>2, <2>4, <2>6 DEF StringCopies
  <1>3. CASE call.fn \in StringCopies
    <2>1. /\ IsString(entry, call.src)
          /\ Room(call.dst, Length(entry, call.src) + 1)
          /\ Disjoint(call.dst, call.src, Length(entry, call.src) + 1)
      BY <1>1, <1>3 DEF Legal, StringCopies
    <2>2. Asked = Length(entry, call.src) + 1
      BY <1>3 DEF Asked
    <2> QED
      BY <1>1, <2>1, <2>2, StringRoom
  <1> QED
    BY <1>2, <1>3, <1>4 DEF CopyFns

(* What the caller of a string function owes: a string at each pointer. *)
LEMMA StringArguments ==
    ASSUME CallInv, call.fn \in Fns, call.fn \in StringCopies \cup {"strlen", "strcmp", "strtoul"}
    PROVE  /\ IsString(entry, call.src)
           /\ call.fn = "strcmp" => IsString(entry, call.dst)
  BY DEF CallInv, Legal, StringCopies

(* What the caller of a buffer function owes: room behind each pointer. *)
LEMMA BufferArguments ==
    ASSUME CallInv, Faithful, call.fn \in Fns
    PROVE  /\ call.fn = "memset" => call.src = call.dst /\ Room(call.dst, call.n)
           /\ call.fn = "memcmp" => Room(call.dst, call.n) /\ Room(call.src, call.n)
           /\ call.fn = "memchr" =>
                /\ Room(call.src, call.n)
                /\ \/ ~call.src.far
                   \/ (call.src.addr + call.n) % OBJ_SIZE = 0 /\ call.c \in Bytes
           /\ call.fn = "strtoul" =>
                ~call.src.far \/ Length(entry, call.src) < Chunk(Carm_Ptr(call.src))
  BY DEF CallInv, Faithful, Legal, StringCopies

(* Room for n bytes at a far pointer is room in the heap. *)
LEMMA FarRoom ==
    ASSUME NEW p \in Pointers, p.far, NEW n \in Nat, Room(p, n)
    PROVE  p.addr + n <= HeapSize /\ n <= HeapSize
  BY InPointers, Sizes, RoomLimit DEF Limit, Places

(* An int holds what read() answers. *)
LEMMA ReadAnswer ==
    ASSUME CallInv, Faithful, call.fn = "read", call.fn \in Fns
    PROVE  call.c \in Int /\ Signed(call.c) = call.c
  <1>1. call.n \in 0 .. HeapSize /\ call.c \in Arguments(call.fn, call.n)
    BY DEF CallInv
  <1>2. call.c \in Int /\ -1 <= call.c /\ call.c <= call.n
    BY <1>1, ArgumentTypes
  <1>3. call.c < CursorMod \div 2
    BY <1>1, <1>2, Sizes DEF Faithful
  <1> QED
    BY <1>2, <1>3, SignedIs

(* An int holds the size of a string, and so does the uint64_t it becomes. *)
LEMMA StringSize ==
    ASSUME CallInv, Faithful, call.fn \in Fns, call.fn \in StringCopies \cup {"strcmp"}
    PROVE  Signed(Length(entry, call.src) + 1) % SizeMod = Length(entry, call.src) + 1
  <1>1. call.src \in Pointers /\ IsString(entry, call.src)
    BY StringArguments DEF CallInv
  <1>2. PICK n : n = Length(entry, call.src)
    OBVIOUS
  <1>3. n \in Nat /\ call.src.addr + n < Limit(call.src) /\ call.src.addr \in Nat
    BY <1>1, <1>2, LengthIs, InPointers DEF Places
  <1>4. n + 1 \in Nat /\ n + 1 < CursorMod \div 2
    BY <1>3, Sizes DEF Limit, Faithful
  <1>5. Signed(n + 1) % SizeMod = n + 1
    BY <1>4, SignedIs
  <1> QED
    BY <1>2, <1>5

-----------------------------------------------------------------------------
(* What libc would do *)

(* What the C library says of a copy. *)
LEMMA CopyReference ==
    ASSUME CallInv, Faithful, call.fn \in CopyFns \cap Fns
    PROVE  /\ MemoryOf(call, entry) = Moved(entry, call.dst, call.src, Asked)
           /\ ResultOf(call, entry) = CopyResult
  <1>1. CASE call.fn = "memcpy"
    BY <1>1 DEF MemoryOf, ResultOf, Asked, CopyResult, StringCopies
  <1>2. CASE call.fn = "read"
    <2>1. Signed(call.c) = call.c
      BY <1>2, ReadAnswer
    <2> QED
      BY <1>2, <2>1 DEF MemoryOf, ResultOf, Asked, CopyResult, StringCopies
  <1>3. CASE call.fn \in StringCopies
    BY <1>3 DEF MemoryOf, ResultOf, Asked, CopyResult, StringCopies
  <1> QED
    BY <1>1, <1>2, <1>3 DEF CopyFns

(* What the C library says of memset. *)
LEMMA SetReference ==
    ASSUME call.fn = "memset"
    PROVE  /\ MemoryOf(call, entry) = Filled(entry, call.dst, call.c, call.n)
           /\ ResultOf(call, entry) = call.dst.addr
  BY DEF MemoryOf, ResultOf, StringCopies

(* Functions that only read leave the memory as it was. *)
LEMMA ReadReference ==
    ASSUME call.fn \in {"memcmp", "strcmp", "strlen", "memchr", "strtoul"}
    PROVE  MemoryOf(call, entry) = entry
  BY DEF MemoryOf, StringCopies

(* What the C library says of the results of functions that only read. *)
LEMMA ResultReference ==
    /\ call.fn = "memcmp" =>
         ResultOf(call, entry) = Compared(entry, call.dst, call.src, call.n)
    /\ call.fn = "strcmp" =>
         ResultOf(call, entry) =
            Compared(entry, call.dst, call.src,
                     1 + Smaller(Length(entry, call.dst), Length(entry, call.src)))
    /\ call.fn = "strlen" => ResultOf(call, entry) = Length(entry, call.src)
    /\ call.fn = "memchr" =>
         ResultOf(call, entry) =
            IF Found(entry, call.src, AsByte(call.c), call.n) = {} THEN Null
            ELSE call.src.addr + Min(Found(entry, call.src, AsByte(call.c), call.n))
    /\ call.fn = "strtoul" =>
         ResultOf(call, entry) = Number(entry, call.src, Length(entry, call.src))
  BY DEF ResultOf, StringCopies

-----------------------------------------------------------------------------
(* The end of a call *)

(* A loop that returns what libc would return, with the memory as libc     *)
(* would leave it, keeps the invariant.                                    *)
LEMMA Returns ==
    ASSUME LibcInv, pc \in Loops, NEW r, Return(r), mem' \in Memories,
           mem' = MemoryOf(call, entry), r = ResultOf(call, entry)
    PROVE  LibcInv'
  <1>1. pc' = "done" /\ cursor' = 0 /\ call' = call /\ entry' = entry /\ result' = r
    BY DEF Return
  <1>2. CallInv'
    BY <1>1 DEF LibcInv, CallInv, Loops, Memories
  <1>3. CopyInv' /\ SetInv' /\ CompareInv' /\ ScanInv' /\ SearchInv' /\ EntryInv'
    BY <1>1 DEF CopyInv, SetInv, CompareInv, ScanInv, SearchInv, EntryInv
  <1>4. AgreesWithLibc'
    BY <1>1 DEF AgreesWithLibc
  <1> QED
    BY <1>2, <1>3, <1>4 DEF LibcInv

(* The types of a call that is in one of its loops. *)
LEMMA LoopCall ==
    ASSUME LibcInv, pc \in Loops
    PROVE  /\ call.fn \in Fns
           /\ mem \in Memories /\ entry \in Memories /\ cursor \in Nat
           /\ call.dst \in Pointers /\ call.src \in Pointers
           /\ call.dst \in Places /\ call.src \in Places
           /\ call.n \in Nat /\ call.c \in Int
  BY InPointers, ArgumentTypes DEF LibcInv, CallInv, Memories

(* So does a step to a loop whose own invariant holds. *)
LEMMA GoesOn ==
    ASSUME LibcInv, pc \in Loops, pc' \in Loops, UNCHANGED <<call, entry>>,
           mem' \in Memories, cursor' \in Nat,
           pc' \in {"read", "memcpy", "memset", "memcmp", "strlen", "memchr"} => cursor' = 0
    PROVE  CallInv' /\ AgreesWithLibc' /\ Asked' = Asked /\ FarSide' = FarSide
  <1>1. call' = call /\ entry' = entry
    OBVIOUS
  <1>2. pc' \notin {"idle", "done"}
    BY DEF Loops
  <1>3. CallInv'
    BY <1>1, <1>2 DEF LibcInv, CallInv, Memories
  <1>4. AgreesWithLibc'
    BY <1>2 DEF AgreesWithLibc
  <1> QED
    BY <1>1, <1>3, <1>4 DEF Asked, FarSide

-----------------------------------------------------------------------------
(* Cursors *)

(* A cursor below 2^32 does not wrap. *)
LEMMA AdvanceIs ==
    ASSUME cursor \in Nat, NEW n \in Nat, cursor + n < CursorMod
    PROVE  Advance(n) = cursor + n
  <1>1. PICK k \in Nat : k = cursor + n
    OBVIOUS
  <1>2. CursorMod \in Nat \ {0} /\ k < CursorMod
    BY <1>1, Sizes
  <1>3. k % CursorMod = k
    BY <1>2
  <1> QED
    BY <1>1, <1>3 DEF Advance

(* The part of an object that belongs to the buffer. *)
LEMMA PartIs ==
    ASSUME cursor \in Nat, size \in Nat, cursor < size, NEW n \in Nat \ {0},
           cursor + n < CursorMod
    PROVE  /\ Advance(n) = cursor + n
           /\ Part(n) \in Nat /\ Part(n) <= n
           /\ cursor + Part(n) <= size
           /\ More(n) => Part(n) = n /\ cursor + n < size
           /\ ~More(n) => cursor + Part(n) = size /\ size <= cursor + n
           /\ cursor + Part(n) = Smaller(cursor + n, size)
  <1>1. Advance(n) = cursor + n
    BY AdvanceIs
  <1>2. More(n) <=> cursor + n < size
    BY <1>1 DEF More
  <1>3. CASE More(n)
    BY <1>1, <1>2, <1>3 DEF Part, Smaller
  <1>4. CASE ~More(n)
    BY <1>1, <1>2, <1>4 DEF Part, Smaller
  <1> QED
    BY <1>3, <1>4

(* In a loop over one far buffer, the far pointer is at the cursor too. *)
LEMMA NowIs ==
    ASSUME call.dst.far # call.src.far, call.dst.far \in BOOLEAN, call.src.far \in BOOLEAN,
           PtrAt(FarSide)
    PROVE  DstNow = Plus(call.dst, cursor) /\ SrcNow = Plus(call.src, cursor)
  <1>1. CASE call.dst.far
    BY <1>1 DEF DstNow, SrcNow, FarSide, PtrAt
  <1>2. CASE ~call.dst.far
    BY <1>2 DEF DstNow, SrcNow, FarSide, PtrAt
  <1> QED
    BY <1>1, <1>2

-----------------------------------------------------------------------------
(* Copies *)

(* A copy starts with nothing copied. *)
LEMMA MemcpyKeeps ==
    ASSUME LibcInv, Faithful, carm_memcpy PROVE LibcInv'
  <1>1. pc = "memcpy" /\ pc \in Loops
    BY DEF carm_memcpy, Loops
  <1>2. /\ call.fn \in Fns
        /\ mem \in Memories /\ entry \in Memories
        /\ call.dst \in Pointers /\ call.src \in Pointers
        /\ call.dst \in Places /\ call.src \in Places
    BY <1>1, LoopCall
  <1>3. /\ call.fn \in CopyFns \cap Fns /\ size = Asked
        /\ mem = Moved(entry, call.dst, call.src, cursor) /\ cursor = 0
    BY <1>1, <1>2 DEF LibcInv, CopyInv, CallInv, CopyFns
  <1>4. mem = entry
    BY <1>2, <1>3, MovedNothing
  <1>5. Asked \in Nat
    BY <1>3, CopyArguments DEF LibcInv
  <1>6. CASE mem' = Moved(mem, call.dst, call.src, size) /\ Return(CopyResult)
    <2>1. mem' = MemoryOf(call, entry) /\ CopyResult = ResultOf(call, entry)
      BY <1>3, <1>4, <1>6, CopyReference DEF LibcInv
    <2>2. mem' \in Memories
      BY <1>2, <1>6, MovedType
    <2> QED
      BY <1>1, <1>6, <2>1, <2>2, Returns
  <1>7. CASE BothFar /\ EnterLoop("copyBoth", call.dst)
    <2>1. /\ pc' = "copyBoth" /\ cursor' = 0
          /\ UNCHANGED <<mem, call, size, entry>>
      BY <1>7 DEF EnterLoop
    <2>2. CallInv' /\ AgreesWithLibc' /\ Asked' = Asked
      BY <1>1, <1>2, <2>1, GoesOn DEF Loops
    <2>3. CopyInv'
      BY <1>3, <1>5, <1>7, <2>1, <2>2 DEF CopyInv, BothFar, CopyFns
    <2> QED
      BY <2>1, <2>2, <2>3 DEF LibcInv, SetInv, CompareInv, ScanInv, SearchInv, EntryInv
  <1>8. CASE call.dst.far # call.src.far /\ EnterLoop("copyOne", FarSide)
    <2>1. /\ pc' = "copyOne" /\ cursor' = 0 /\ ptr' = Carm_Ptr(FarSide)
          /\ UNCHANGED <<mem, call, size, entry>>
      BY <1>8 DEF EnterLoop
    <2>2. CallInv' /\ AgreesWithLibc' /\ Asked' = Asked /\ FarSide' = FarSide
      BY <1>1, <1>2, <2>1, GoesOn DEF Loops
    <2>3. FarSide \in Places /\ FarSide.far
      BY <1>2, <1>8 DEF FarSide, Places
    <2>4. PtrAt(FarSide)'
      BY <2>1, <2>2, <2>3, PtrStarts DEF PtrAt, CarmPtrs
    <2>5. CopyInv'
      BY <1>3, <1>5, <1>8, <2>1, <2>2, <2>4 DEF CopyInv, CopyFns
    <2> QED
      BY <2>1, <2>2, <2>5 DEF LibcInv, SetInv, CompareInv, ScanInv, SearchInv, EntryInv
  <1> QED
    BY <1>6, <1>7, <1>8 DEF carm_memcpy

(* The next part of a copy between the memories. *)
LEMMA CopyOneKeeps ==
    ASSUME LibcInv, Faithful, CopyOne PROVE LibcInv'
  <1>1. pc = "copyOne" /\ pc \in Loops
    BY DEF CopyOne, Loops
  <1>2. /\ call.fn \in Fns
        /\ mem \in Memories /\ entry \in Memories /\ cursor \in Nat
        /\ call.dst \in Pointers /\ call.src \in Pointers
        /\ call.dst \in Places /\ call.src \in Places
    BY <1>1, LoopCall
  <1>3. /\ call.fn \in CopyFns \cap Fns /\ size = Asked /\ cursor <= size
        /\ mem = Moved(entry, call.dst, call.src, cursor)
        /\ call.dst.far # call.src.far /\ PtrAt(FarSide)
    BY <1>1, <1>2 DEF LibcInv, CopyInv, CopyFns
  <1>4. /\ Asked \in Nat /\ Room(call.dst, Asked) /\ Room(call.src, Asked)
        /\ Disjoint(call.dst, call.src, Asked)
    BY <1>3, CopyArguments DEF LibcInv
  <1>5. PICK q : q = ptr
    OBVIOUS
  <1>6. PICK n : n = Chunk(q)
    OBVIOUS
  <1>7. FarSide \in Places /\ FarSide \in Pointers /\ FarSide.far
        /\ Room(FarSide, Asked) /\ call.dst.far \in BOOLEAN /\ call.src.far \in BOOLEAN
    BY <1>2, <1>3, <1>4 DEF FarSide, Places
  <1>8. /\ q \in CarmPtrs /\ _ptrDeref(q) = Plus(FarSide, cursor)
        /\ n \in 1 .. OBJ_SIZE
    BY <1>3, <1>5, <1>6, NextObjectIs DEF PtrAt, CarmPtrs
  <1>9. OBJ_SIZE \in Nat /\ HeapSize \in Nat /\ CursorMod \in Nat
        /\ HeapSize + OBJ_SIZE <= CursorMod /\ size <= HeapSize
    BY <1>3, <1>4, <1>7, FarRoom, Sizes DEF Faithful
  <1>10. DstNow = Plus(call.dst, cursor) /\ SrcNow = Plus(call.src, cursor)
    BY <1>3, <1>7, NowIs
  <1>11. CASE LoopOver /\ UNCHANGED mem /\ Return(CopyResult)
    <2>1. cursor = size
      BY <1>2, <1>3, <1>4, <1>11 DEF LoopOver
    <2>2. mem' = MemoryOf(call, entry) /\ CopyResult = ResultOf(call, entry)
      BY <1>3, <1>11, <2>1, CopyReference DEF LibcInv
    <2> QED
      BY <1>1, <1>2, <1>11, <2>2, Returns
  <1>12. ASSUME ~LoopOver, mem' = Moved(mem, DstNow, SrcNow, Part(n)),
                IF ~More(n) THEN Return(CopyResult)
                ELSE /\ cursor' = Advance(n)
                     /\ ptr' = NextObject(q)
                     /\ UNCHANGED <<pc, call, size, result, entry>>
         PROVE  LibcInv'
    <2>1. cursor < size /\ n \in Nat \ {0} /\ cursor + n < CursorMod /\ size \in Nat
      BY <1>2, <1>3, <1>4, <1>8, <1>9, <1>12 DEF LoopOver
    <2>2. PICK k : k = Part(n)
      OBVIOUS
    <2>3. /\ Advance(n) = cursor + n
          /\ k \in Nat /\ cursor + k <= size
          /\ More(n) => k = n /\ cursor + n < size
          /\ ~More(n) => cursor + k = size
      BY <1>2, <2>1, <2>2, PartIs
    <2>4. mem' = Moved(entry, call.dst, call.src, cursor + k)
      BY <1>2, <1>3, <1>4, <1>10, <1>12, <2>1, <2>2, <2>3, MovedOn
    <2>5. mem' \in Memories
      BY <1>2, <2>4, MovedType
    <2>6. CASE ~More(n)
      <3>1. mem' = MemoryOf(call, entry) /\ CopyResult = ResultOf(call, entry)
        BY <1>3, <2>3, <2>4, <2>6, CopyReference DEF LibcInv
      <3> QED
        BY <1>1, <1>12, <2>5, <2>6, <3>1, Returns
    <2>7. CASE More(n)
      <3>1. /\ pc' = pc /\ size' = size /\ cursor' = cursor + n /\ cursor' \in Nat
            /\ cursor' <= size /\ ptr' = NextObject(q)
            /\ UNCHANGED <<call, entry>>
        BY <1>2, <1>12, <2>1, <2>3, <2>7
      <3>2. CallInv' /\ AgreesWithLibc' /\ Asked' = Asked /\ FarSide' = FarSide
        BY <1>1, <2>5, <3>1, GoesOn
      <3>3. ptr' \in CarmPtrs /\ _ptrDeref(ptr') = Plus(FarSide, cursor')
        BY <1>2, <1>6, <1>7, <1>8, <3>1, PtrMoves
      <3>4. PtrAt(FarSide)'
        BY <1>7, <3>2, <3>3 DEF PtrAt, CarmPtrs
      <3>5. CopyInv'
        BY <1>1, <1>3, <2>3, <2>4, <2>7, <3>1, <3>2, <3>4 DEF CopyInv, CopyFns
      <3> QED
        BY <1>1, <3>1, <3>2, <3>5 DEF LibcInv, SetInv, CompareInv, ScanInv, SearchInv, EntryInv
    <2> QED
      BY <2>6, <2>7
  <1> QED
    BY <1>5, <1>6, <1>11, <1>12 DEF CopyOne

(* What two far buffers have in one object each from the cursor on. *)
LEMMA CommonChunkIs ==
    ASSUME call.dst \in Places, call.src \in Places, BothFar, cursor \in Nat
    PROVE  /\ CommonChunk \in 1 .. OBJ_SIZE
           /\ call.dst.addr + cursor < HeapSize =>
                call.dst.addr + (cursor + CommonChunk) <= HeapSize
  <1>1. PICK d : d = Plus(call.dst, cursor)
    OBVIOUS
  <1>2. PICK s : s = Plus(call.src, cursor)
    OBVIOUS
  <1>3. /\ d \in Places /\ d.far /\ d.addr = call.dst.addr + cursor
        /\ s \in Places /\ s.far
        /\ call.dst.addr \in Nat
    <2>1. /\ call.dst.addr \in Nat /\ call.src.addr \in Nat /\ cursor \in Int
          /\ call.dst.addr + cursor \in Nat /\ call.src.addr + cursor \in Nat
      BY DEF Places
    <2>2. d \in Places /\ d.far = call.dst.far /\ d.addr = call.dst.addr + cursor
      BY <1>1, <2>1, PlusIs
    <2>3. s \in Places /\ s.far = call.src.far
      BY <1>2, <2>1, PlusIs
    <2> QED
      BY <2>1, <2>2, <2>3 DEF BothFar
  <1>4. PICK a : a = Chunk(Carm_Ptr(d))
    OBVIOUS
  <1>5. PICK b : b = Chunk(Carm_Ptr(s))
    OBVIOUS
  <1>6. a \in 1 .. OBJ_SIZE /\ b \in 1 .. OBJ_SIZE /\ OBJ_SIZE \in Nat /\ HeapSize \in Nat
    BY <1>3, <1>4, <1>5, CarmPtrIs, NextObjectIs, Sizes
  <1>7. CommonChunk = Smaller(a, b)
    BY <1>1, <1>2, <1>4, <1>5 DEF CommonChunk
  <1>8. CommonChunk \in 1 .. OBJ_SIZE /\ CommonChunk <= a
    BY <1>6, <1>7 DEF Smaller
  <1>9. d.addr < HeapSize => d.addr + a <= HeapSize
    BY <1>3, <1>4, CarmPtrIs, RestInHeap
  <1> QED
    BY <1>3, <1>6, <1>8, <1>9

(* The next part of a copy between far buffers. *)
LEMMA CopyBothKeeps ==
    ASSUME LibcInv, Faithful, CopyBoth PROVE LibcInv'
  <1>1. pc = "copyBoth" /\ pc \in Loops
    BY DEF CopyBoth, Loops
  <1>2. /\ call.fn \in Fns
        /\ mem \in Memories /\ entry \in Memories /\ cursor \in Nat
        /\ call.dst \in Pointers /\ call.src \in Pointers
        /\ call.dst \in Places /\ call.src \in Places
    BY <1>1, LoopCall
  <1>3. /\ call.fn \in CopyFns \cap Fns /\ size = Asked /\ cursor <= size
        /\ mem = Moved(entry, call.dst, call.src, cursor)
        /\ BothFar
    BY <1>1, <1>2 DEF LibcInv, CopyInv, CopyFns
  <1>4. /\ Asked \in Nat /\ Room(call.dst, Asked) /\ Room(call.src, Asked)
        /\ Disjoint(call.dst, call.src, Asked)
    BY <1>3, CopyArguments DEF LibcInv
  <1>5. PICK n : n = CommonChunk
    OBVIOUS
  <1>6. n \in 1 .. OBJ_SIZE
    BY <1>2, <1>3, <1>5, CommonChunkIs
  <1>7. OBJ_SIZE \in Nat /\ HeapSize \in Nat /\ CursorMod \in Nat
        /\ HeapSize + OBJ_SIZE <= CursorMod /\ size <= HeapSize
    BY <1>2, <1>3, <1>4, FarRoom, Sizes DEF Faithful, BothFar
  <1>8. CASE LoopOver /\ UNCHANGED mem /\ Return(CopyResult)
    <2>1. cursor = size
      BY <1>2, <1>3, <1>4, <1>8 DEF LoopOver
    <2>2. mem' = MemoryOf(call, entry) /\ CopyResult = ResultOf(call, entry)
      BY <1>3, <1>8, <2>1, CopyReference DEF LibcInv
    <2> QED
      BY <1>1, <1>2, <1>8, <2>2, Returns
  <1>9. ASSUME ~LoopOver,
               mem' = Moved(mem, Plus(call.dst, cursor), Plus(call.src, cursor), Part(n)),
               IF ~More(n) THEN Return(CopyResult)
               ELSE /\ cursor' = Advance(n)
                    /\ UNCHANGED <<pc, call, size, ptr, result, entry>>
        PROVE  LibcInv'
    <2>1. cursor < size /\ n \in Nat \ {0} /\ cursor + n < CursorMod /\ size \in Nat
      BY <1>2, <1>3, <1>4, <1>6, <1>7, <1>9 DEF LoopOver
    <2>2. PICK k : k = Part(n)
      OBVIOUS
    <2>3. /\ Advance(n) = cursor + n
          /\ k \in Nat /\ cursor + k <= size
          /\ More(n) => k = n /\ cursor + n < size
          /\ ~More(n) => cursor + k = size
      BY <1>2, <2>1, <2>2, PartIs
    <2>4. mem' = Moved(entry, call.dst, call.src, cursor + k)
      BY <1>2, <1>3, <1>4, <1>9, <2>1, <2>2, <2>3, MovedOn
    <2>5. mem' \in Memories
      BY <1>2, <2>4, MovedType
    <2>6. CASE ~More(n)
      <3>1. mem' = MemoryOf(call, entry) /\ CopyResult = ResultOf(call, entry)
        BY <1>3, <2>3, <2>4, <2>6, CopyReference DEF LibcInv
      <3> QED
        BY <1>1, <1>9, <2>5, <2>6, <3>1, Returns
    <2>7. CASE More(n)
      <3>1. /\ pc' = pc /\ size' = size /\ cursor' = cursor + n /\ cursor' \in Nat
            /\ cursor' <= size
            /\ UNCHANGED <<call, entry>>
        BY <1>2, <1>9, <2>1, <2>3, <2>7
      <3>2. CallInv' /\ AgreesWithLibc' /\ Asked' = Asked
        BY <1>1, <2>5, <3>1, GoesOn
      <3>3. CopyInv'
        BY <1>1, <1>3, <2>3, <2>4, <2>7, <3>1, <3>2 DEF CopyInv, CopyFns, BothFar
      <3> QED
        BY <1>1, <3>1, <3>2, <3>3 DEF LibcInv, SetInv, CompareInv, ScanInv, SearchInv, EntryInv
    <2> QED
      BY <2>6, <2>7
  <1> QED
    BY <1>5, <1>8, <1>9 DEF CopyBoth

(* A read into far memory copies what it has received, if it is anything. *)
LEMMA ReadKeeps ==
    ASSUME LibcInv, Faithful, carm_read PROVE LibcInv'
  <1>1. pc = "read" /\ pc \in Loops
    BY DEF carm_read, Loops
  <1>2. /\ call.fn \in Fns
        /\ mem \in Memories /\ entry \in Memories
        /\ call.dst \in Pointers /\ call.src \in Pointers
        /\ call.dst \in Places /\ call.src \in Places
    BY <1>1, LoopCall
  <1>3. call.fn = "read" /\ call.fn \in CopyFns \cap Fns /\ mem = entry /\ cursor = 0
    BY <1>1, <1>2 DEF LibcInv, CallInv, EntryInv, CopyFns
  <1>4. call.c \in Int /\ Signed(call.c) = call.c
    BY <1>2, <1>3, ReadAnswer DEF LibcInv
  <1>5. /\ MemoryOf(call, entry) = Moved(entry, call.dst, call.src, Received(call))
        /\ ResultOf(call, entry) = CopyResult /\ CopyResult = call.c
    BY <1>3, <1>4, CopyReference DEF LibcInv, Asked, CopyResult, StringCopies
  <1>6. CASE mem' = Moved(mem, call.dst, call.src, Received(call)) /\ Return(call.c)
    <2>1. mem' \in Memories
      BY <1>2, <1>6, MovedType
    <2> QED
      BY <1>1, <1>3, <1>5, <1>6, <2>1, Returns
  <1>7. CASE Signed(call.c) <= 0 /\ UNCHANGED mem /\ Return(CopyResult)
    <2>1. Received(call) = 0
      BY <1>4, <1>7 DEF Received
    <2>2. Moved(entry, call.dst, call.src, 0) = entry
      BY <1>2, MovedNothing
    <2> QED
      BY <1>1, <1>2, <1>3, <1>5, <1>7, <2>1, <2>2, Returns
  <1>8. CASE /\ Signed(call.c) > 0
             /\ pc' = "memcpy"
             /\ size' = Signed(call.c)
             /\ UNCHANGED <<mem, call, cursor, ptr, result, entry>>
    <2>1. CallInv' /\ AgreesWithLibc' /\ Asked' = Asked
      BY <1>1, <1>2, <1>3, <1>8, GoesOn DEF Loops
    <2>2. size' = Asked /\ size' \in Nat
      BY <1>3, <1>4, <1>8 DEF Asked, Received, StringCopies
    <2>3. Moved(entry, call.dst, call.src, 0) = entry
      BY <1>2, MovedNothing
    <2>4. CopyInv'
      BY <1>3, <1>8, <2>1, <2>2, <2>3 DEF CopyInv
    <2> QED
      BY <1>8, <2>1, <2>4 DEF LibcInv, SetInv, CompareInv, ScanInv, SearchInv, EntryInv
  <1> QED
    BY <1>6, <1>7, <1>8 DEF carm_read

-----------------------------------------------------------------------------
(* Fills *)

(* A fill starts with nothing filled. *)
LEMMA MemsetKeeps ==
    ASSUME LibcInv, Faithful, carm_memset PROVE LibcInv'
  <1>1. pc = "memset" /\ pc \in Loops
    BY DEF carm_memset, Loops
  <1>2. /\ call.fn \in Fns
        /\ mem \in Memories /\ entry \in Memories
        /\ call.dst \in Pointers /\ call.dst \in Places
        /\ call.n \in Nat /\ call.c \in Int
    BY <1>1, LoopCall
  <1>3. /\ call.fn = "memset" /\ size = call.n /\ cursor = 0
        /\ mem = Filled(entry, call.dst, call.c, Smaller(cursor, size))
    BY <1>1 DEF LibcInv, SetInv, CallInv
  <1>4. Smaller(cursor, size) = 0
    BY <1>2, <1>3 DEF Smaller
  <1>5. mem = entry
    BY <1>2, <1>3, <1>4, FilledNothing
  <1>6. CASE mem' = Filled(mem, call.dst, call.c, size) /\ Return(call.dst.addr)
    <2>1. mem' = MemoryOf(call, entry) /\ call.dst.addr = ResultOf(call, entry)
      BY <1>3, <1>5, <1>6, SetReference
    <2>2. mem' \in Memories
      BY <1>2, <1>6, FilledIs
    <2> QED
      BY <1>1, <1>6, <2>1, <2>2, Returns
  <1>7. CASE call.dst.far /\ EnterLoop("set", call.dst)
    <2>1. /\ pc' = "set" /\ cursor' = 0 /\ ptr' = Carm_Ptr(call.dst)
          /\ UNCHANGED <<mem, call, size, entry>>
      BY <1>7 DEF EnterLoop
    <2>2. CallInv' /\ AgreesWithLibc'
      BY <1>1, <1>2, <2>1, GoesOn DEF Loops
    <2>3. PtrAt(call.dst)'
      BY <1>2, <1>7, <2>1, PtrStarts DEF PtrAt, CarmPtrs
    <2>4. call.dst.addr + 0 <= HeapSize
      BY <1>2, <1>7, InPointers, Sizes DEF Limit, Places
    <2>5. SetInv'
      BY <1>3, <2>1, <2>3, <2>4 DEF SetInv
    <2> QED
      BY <2>1, <2>2, <2>5 DEF LibcInv, CopyInv, CompareInv, ScanInv, SearchInv, EntryInv
  <1> QED
    BY <1>6, <1>7 DEF carm_memset

(* The next part of a fill; the cursor may pass the end of the buffer, but *)
(* not that of the object. *)
LEMMA SetChunkKeeps ==
    ASSUME LibcInv, Faithful, SetChunk PROVE LibcInv'
  <1>1. pc = "set" /\ pc \in Loops
    BY DEF SetChunk, Loops
  <1>2. /\ call.fn \in Fns
        /\ mem \in Memories /\ entry \in Memories /\ cursor \in Nat
        /\ call.dst \in Pointers /\ call.dst \in Places
        /\ call.n \in Nat /\ call.c \in Int
    BY <1>1, LoopCall
  <1>3. /\ call.fn = "memset" /\ size = call.n
        /\ mem = Filled(entry, call.dst, call.c, Smaller(cursor, size))
        /\ PtrAt(call.dst) /\ call.dst.addr + cursor <= HeapSize
    BY <1>1 DEF LibcInv, SetInv
  <1>4. Room(call.dst, size) /\ call.dst.far
    BY <1>2, <1>3, BufferArguments DEF LibcInv, PtrAt
  <1>5. CASE LoopOver /\ UNCHANGED mem /\ Return(call.dst.addr)
    <2>1. Smaller(cursor, size) = size
      BY <1>2, <1>3, <1>5 DEF LoopOver, Smaller
    <2>2. mem' = MemoryOf(call, entry) /\ call.dst.addr = ResultOf(call, entry)
      BY <1>3, <1>5, <2>1, SetReference
    <2> QED
      BY <1>1, <1>2, <1>5, <2>2, Returns
  <1>6. PICK q : q = ptr
    OBVIOUS
  <1>7. PICK n : n = Chunk(q)
    OBVIOUS
  <1>8. ASSUME ~LoopOver, mem' = Filled(mem, _ptrDeref(q), call.c, Part(n)),
               cursor' = Advance(n), ptr' = NextObject(q),
               UNCHANGED <<pc, call, size, result, entry>>
        PROVE  LibcInv'
    <2>1. /\ q \in CarmPtrs /\ _ptrDeref(q) = Plus(call.dst, cursor)
          /\ n \in 1 .. OBJ_SIZE
      BY <1>3, <1>6, <1>7, NextObjectIs DEF PtrAt, CarmPtrs
    <2>2. OBJ_SIZE \in Nat /\ HeapSize \in Nat /\ CursorMod \in Nat
          /\ HeapSize + OBJ_SIZE <= CursorMod /\ size <= HeapSize
          /\ call.dst.addr + size <= HeapSize /\ call.dst.addr \in Nat
      BY <1>2, <1>3, <1>4, FarRoom, Sizes DEF Faithful, Places
    <2>3. cursor < size /\ n \in Nat \ {0} /\ cursor + n < CursorMod /\ size \in Nat
      BY <1>2, <1>3, <1>8, <2>1, <2>2 DEF LoopOver
    <2>4. PICK k : k = Part(n)
      OBVIOUS
    <2>5. Advance(n) = cursor + n /\ k \in Nat /\ cursor + k = Smaller(cursor + n, size)
      BY <1>2, <2>3, <2>4, PartIs
    <2>6. Smaller(cursor, size) = cursor
      BY <1>2, <2>3 DEF Smaller
    <2>7. mem' = Filled(entry, call.dst, call.c, Smaller(cursor + n, size))
      BY <1>2, <1>3, <1>8, <2>1, <2>4, <2>5, <2>6, FilledOn
    <2>8. mem' \in Memories
      BY <1>2, <2>7, FilledIs
    <2>9. cursor' = cursor + n /\ cursor' \in Nat
      BY <1>2, <1>8, <2>3, <2>5
    <2>10. CallInv' /\ AgreesWithLibc'
      BY <1>1, <1>8, <2>8, <2>9, GoesOn
    <2>11. ptr' \in CarmPtrs /\ _ptrDeref(ptr') = Plus(call.dst, cursor')
      BY <1>2, <1>7, <1>8, <2>1, <2>9, PtrMoves
    <2>12. PtrAt(call.dst)'
      BY <1>4, <1>8, <2>11 DEF PtrAt, CarmPtrs
    <2>13. call.dst.addr + (cursor + n) <= HeapSize
      <3>1. Plus(call.dst, cursor).addr = call.dst.addr + cursor
        BY <1>2, PlusIs
      <3>2. call.dst.addr + cursor < HeapSize
        BY <1>2, <2>2, <2>3
      <3>3. call.dst.addr + cursor + n <= HeapSize
        BY <1>7, <2>1, <3>1, <3>2, RestInHeap
      <3> QED
        BY <1>2, <2>2, <2>3, <3>3
    <2>14. SetInv'
      BY <1>1, <1>3, <1>8, <2>7, <2>9, <2>12, <2>13 DEF SetInv
    <2> QED
      BY <1>1, <1>8, <2>10, <2>14 DEF LibcInv, CopyInv, CompareInv, ScanInv, SearchInv, EntryInv
  <1> QED
    BY <1>5, <1>6, <1>7, <1>8 DEF SetChunk

-----------------------------------------------------------------------------
(* Comparisons *)

(* The bytes that decide a comparison. *)
Common ==
    IF call.fn = "memcmp" THEN call.n
    ELSE 1 + Smaller(Length(entry, call.dst), Length(entry, call.src))

(* carm_strcmp compares as many bytes as its second string has; where the  *)
(* first is shorter, its NUL is a difference before they are over.         *)
LEMMA CompareArguments ==
    ASSUME CallInv, Faithful, entry \in Memories, call.fn \in Fns,
           call.fn \in {"memcmp", "strcmp"}
    PROVE  /\ Asked \in Nat /\ Common \in Nat
           /\ Room(call.dst, Common) /\ Room(call.src, Common)
           /\ ResultOf(call, entry) = Compared(entry, call.dst, call.src, Asked)
           /\ \A c \in Nat : c < Asked /\ Same(entry, call.dst, call.src, c) => c < Common
  <1>1. call.dst \in Pointers /\ call.src \in Pointers /\ call.n \in Nat
    BY DEF CallInv
  <1>2. CASE call.fn = "memcmp"
    <2>1. Asked = call.n /\ Common = call.n
      BY <1>2 DEF Asked, Common, StringCopies
    <2> QED
      BY <1>1, <1>2, <2>1, BufferArguments, ResultReference
  <1>3. CASE call.fn = "strcmp"
    <2>1. IsString(entry, call.src) /\ IsString(entry, call.dst)
      BY <1>3, StringArguments
    <2>2. PICK a : a = Length(entry, call.dst)
      OBVIOUS
    <2>3. PICK b : b = Length(entry, call.src)
      OBVIOUS
    <2>4. /\ a \in Nat /\ Byte(entry, Plus(call.dst, a)) = NUL
          /\ call.dst.addr + a < Limit(call.dst)
          /\ b \in Nat /\ Found(entry, call.src, NUL, b) = {}
          /\ call.src.addr + b < Limit(call.src)
      BY <1>1, <2>1, <2>2, <2>3, LengthIs
    <2>5. Asked = b + 1 /\ Common = 1 + Smaller(a, b)
      BY <1>3, <2>2, <2>3 DEF Asked, Common
    <2>6. Asked \in Nat /\ Common \in Nat /\ Common <= a + 1 /\ Common <= b + 1
          /\ (b <= a => Common = Asked) /\ (a < b => Common = a + 1)
      BY <2>4, <2>5 DEF Smaller
    <2>7. ASSUME NEW c \in Nat, a < b, a < c PROVE ~Same(entry, call.dst, call.src, c)
      <3>1. Byte(entry, Plus(call.src, a)) # NUL
        BY <2>4, <2>7 DEF Found
      <3> QED
        BY <2>4, <2>7, <3>1 DEF Same
    <2>8. ASSUME NEW c \in Nat, c < Asked, Same(entry, call.dst, call.src, c) PROVE c < Common
      BY <2>4, <2>5, <2>6, <2>7, <2>8
    <2>9. Room(call.dst, Common) /\ Room(call.src, Common)
      <3>1. /\ call.dst \in Places /\ call.dst.addr \in Nat /\ Limit(call.dst) \in Nat
            /\ call.src \in Places /\ call.src.addr \in Nat /\ Limit(call.src) \in Nat
        BY <1>1, InPointers, Sizes DEF Places, Limit
      <3>2. call.dst.addr + Common <= Limit(call.dst) /\ call.src.addr + Common <= Limit(call.src)
        BY <2>4, <2>6, <3>1
      <3> QED
        BY <2>6, <3>1, <3>2, RoomLimit
    <2>10. Compared(entry, call.dst, call.src, Common) = Compared(entry, call.dst, call.src, Asked)
      <3>1. CASE b <= a
        BY <2>6, <3>1
      <3>2. CASE a < b
        <4>1. ~Same(entry, call.dst, call.src, Common) /\ Common <= Asked
          BY <2>4, <2>5, <2>6, <2>7, <3>2
        <4> QED
          BY <2>6, <4>1, ComparedPart
      <3> QED
        BY <2>4, <3>1, <3>2
    <2>11. ResultOf(call, entry) = Compared(entry, call.dst, call.src, Common)
      BY <1>3, <2>2, <2>3, <2>5, ResultReference
    <2> QED
      BY <2>6, <2>8, <2>9, <2>10, <2>11
  <1> QED
    BY <1>2, <1>3

(* A comparison starts with nothing compared. *)
LEMMA MemcmpKeeps ==
    ASSUME LibcInv, Faithful, carm_memcmp PROVE LibcInv'
  <1>1. pc = "memcmp" /\ pc \in Loops
    BY DEF carm_memcmp, Loops
  <1>2. /\ call.fn \in Fns
        /\ mem \in Memories /\ entry \in Memories
        /\ call.dst \in Pointers /\ call.src \in Pointers
        /\ call.dst \in Places /\ call.src \in Places
    BY <1>1, LoopCall
  <1>3. /\ call.fn \in {"memcmp", "strcmp"} /\ size = Asked /\ mem = entry /\ cursor = 0
    BY <1>1 DEF LibcInv, CompareInv, CallInv
  <1>4. Asked \in Nat /\ ResultOf(call, entry) = Compared(entry, call.dst, call.src, Asked)
    BY <1>2, <1>3, CompareArguments DEF LibcInv
  <1>5. Smaller(0, size) = 0 /\ Same(entry, call.dst, call.src, 0)
    BY <1>3, <1>4 DEF Smaller, Same
  <1>6. CASE Return(Compared(mem, call.dst, call.src, size)) /\ UNCHANGED mem
    <2>1. mem' = MemoryOf(call, entry)
      BY <1>3, <1>6, ReadReference
    <2> QED
      BY <1>1, <1>2, <1>3, <1>4, <1>6, <2>1, Returns
  <1>7. CASE BothFar /\ EnterLoop("compareBoth", call.dst)
    <2>1. /\ pc' = "compareBoth" /\ cursor' = 0
          /\ UNCHANGED <<mem, call, size, entry>>
      BY <1>7 DEF EnterLoop
    <2>2. CallInv' /\ AgreesWithLibc' /\ Asked' = Asked
      BY <1>1, <1>2, <2>1, GoesOn DEF Loops
    <2>3. call.dst.addr + 0 <= HeapSize
      BY <1>2, <1>7, InPointers, Sizes DEF Limit, Places, BothFar
    <2>4. CompareInv'
      BY <1>3, <1>5, <1>7, <2>1, <2>2, <2>3 DEF CompareInv, BothFar
    <2> QED
      BY <2>1, <2>2, <2>4 DEF LibcInv, SetInv, CopyInv, ScanInv, SearchInv, EntryInv
  <1>8. CASE call.dst.far # call.src.far /\ EnterLoop("compareOne", FarSide)
    <2>1. /\ pc' = "compareOne" /\ cursor' = 0 /\ ptr' = Carm_Ptr(FarSide)
          /\ UNCHANGED <<mem, call, size, entry>>
      BY <1>8 DEF EnterLoop
    <2>2. CallInv' /\ AgreesWithLibc' /\ Asked' = Asked /\ FarSide' = FarSide
      BY <1>1, <1>2, <2>1, GoesOn DEF Loops
    <2>3. FarSide \in Places /\ FarSide.far
      BY <1>2, <1>8 DEF FarSide, Places
    <2>4. PtrAt(FarSide)'
      BY <2>1, <2>2, <2>3, PtrStarts DEF PtrAt, CarmPtrs
    <2>5. CompareInv'
      BY <1>3, <1>4, <1>5, <1>8, <2>1, <2>2, <2>4 DEF CompareInv
    <2> QED
      BY <2>1, <2>2, <2>5 DEF LibcInv, SetInv, CopyInv, ScanInv, SearchInv, EntryInv
  <1> QED
    BY <1>6, <1>7, <1>8 DEF carm_memcmp

(* The next part of a comparison between the memories. *)
LEMMA CompareOneKeeps ==
    ASSUME LibcInv, Faithful, CompareOne PROVE LibcInv'
  <1>1. pc = "compareOne" /\ pc \in Loops /\ mem' = mem
    BY DEF CompareOne, Loops
  <1>2. /\ call.fn \in Fns
        /\ mem \in Memories /\ entry \in Memories /\ cursor \in Nat
        /\ call.dst \in Pointers /\ call.src \in Pointers
        /\ call.dst \in Places /\ call.src \in Places
    BY <1>1, LoopCall
  <1>3. /\ call.fn \in {"memcmp", "strcmp"} /\ size = Asked /\ mem = entry /\ cursor <= size
        /\ Same(entry, call.dst, call.src, Smaller(cursor, size))
        /\ call.dst.far # call.src.far /\ PtrAt(FarSide)
    BY <1>1 DEF LibcInv, CompareInv
  <1>4. /\ Asked \in Nat /\ Common \in Nat /\ Room(call.dst, Common) /\ Room(call.src, Common)
        /\ ResultOf(call, entry) = Compared(entry, call.dst, call.src, Asked)
        /\ \A c \in Nat : c < Asked /\ Same(entry, call.dst, call.src, c) => c < Common
    BY <1>2, <1>3, CompareArguments DEF LibcInv
  <1>5. Smaller(cursor, size) = cursor /\ MemoryOf(call, entry) = entry
    BY <1>2, <1>3, <1>4, ReadReference DEF Smaller
  <1>6. PICK q : q = ptr
    OBVIOUS
  <1>7. PICK n : n = Chunk(q)
    OBVIOUS
  <1>8. CASE LoopOver /\ Return(0)
    <2>1. cursor = size
      BY <1>2, <1>3, <1>4, <1>8 DEF LoopOver
    <2>2. ResultOf(call, entry) = 0
      BY <1>2, <1>3, <1>4, <1>5, <2>1, ComparedZero
    <2> QED
      BY <1>1, <1>2, <1>3, <1>5, <1>8, <2>2, Returns
  <1>9. ASSUME ~LoopOver,
               NEW r, r = Compared(mem, DstNow, SrcNow, Part(n)),
               IF r # 0 \/ ~More(n) THEN Return(r)
               ELSE /\ cursor' = Advance(n)
                    /\ ptr' = NextObject(q)
                    /\ UNCHANGED <<pc, call, size, result, entry>>
        PROVE  LibcInv'
    <2>1. FarSide \in Places /\ FarSide \in Pointers /\ FarSide.far
          /\ Room(FarSide, Common) /\ call.dst.far \in BOOLEAN /\ call.src.far \in BOOLEAN
      BY <1>2, <1>3, <1>4 DEF FarSide, Places
    <2>2. /\ q \in CarmPtrs /\ _ptrDeref(q) = Plus(FarSide, cursor)
          /\ n \in 1 .. OBJ_SIZE
      BY <1>3, <1>6, <1>7, NextObjectIs DEF PtrAt, CarmPtrs
    <2>3. OBJ_SIZE \in Nat /\ HeapSize \in Nat /\ CursorMod \in Nat
          /\ HeapSize + OBJ_SIZE <= CursorMod /\ Common <= HeapSize
      BY <1>4, <2>1, FarRoom, Sizes DEF Faithful
    <2>4. cursor < size /\ cursor < Common
      BY <1>2, <1>3, <1>4, <1>5, <1>9 DEF LoopOver
    <2>5. n \in Nat \ {0} /\ cursor + n < CursorMod /\ size \in Nat
      BY <1>2, <1>3, <1>4, <2>2, <2>3, <2>4
    <2>6. DstNow = Plus(call.dst, cursor) /\ SrcNow = Plus(call.src, cursor)
      BY <1>3, <2>1, NowIs
    <2>7. PICK k : k = Part(n)
      OBVIOUS
    <2>8. /\ Advance(n) = cursor + n
          /\ k \in Nat /\ cursor + k <= size
          /\ More(n) => k = n /\ cursor + n < size
          /\ ~More(n) => cursor + k = size
      BY <1>2, <2>4, <2>5, <2>7, PartIs
    <2>9. /\ r = 0 => Same(entry, call.dst, call.src, cursor + k)
          /\ r # 0 => Compared(entry, call.dst, call.src, size) = r
      BY <1>2, <1>3, <1>5, <1>9, <2>5, <2>6, <2>7, <2>8, ComparedOn
    <2>10. CASE r # 0 \/ ~More(n)
      <3>1. Compared(entry, call.dst, call.src, size) = r
        BY <1>2, <2>5, <2>8, <2>9, <2>10, ComparedZero
      <3> QED
        BY <1>1, <1>2, <1>3, <1>4, <1>5, <1>9, <2>10, <3>1, Returns
    <2>11. CASE r = 0 /\ More(n)
      <3>1. /\ pc' = pc /\ size' = size /\ cursor' = cursor + n /\ cursor' \in Nat
            /\ cursor' <= size /\ ptr' = NextObject(q)
            /\ UNCHANGED <<call, entry>>
        BY <1>2, <1>9, <2>5, <2>8, <2>11
      <3>2. CallInv' /\ AgreesWithLibc' /\ Asked' = Asked /\ FarSide' = FarSide
        BY <1>1, <1>2, <3>1, GoesOn
      <3>3. ptr' \in CarmPtrs /\ _ptrDeref(ptr') = Plus(FarSide, cursor')
        BY <1>2, <1>7, <2>1, <2>2, <3>1, PtrMoves
      <3>4. PtrAt(FarSide)'
        BY <2>1, <3>2, <3>3 DEF PtrAt, CarmPtrs
      <3>5. Same(entry, call.dst, call.src, Smaller(cursor + n, size))
        BY <2>5, <2>8, <2>9, <2>11 DEF Smaller
      <3>6. CompareInv'
        BY <1>1, <1>3, <3>1, <3>2, <3>4, <3>5 DEF CompareInv
      <3> QED
        BY <1>1, <3>1, <3>2, <3>6 DEF LibcInv, SetInv, CopyInv, ScanInv, SearchInv, EntryInv
    <2> QED
      BY <2>10, <2>11
  <1> QED
    BY <1>6, <1>7, <1>8, <1>9 DEF CompareOne

(* The next part of a comparison of far buffers. *)
LEMMA CompareBothKeeps ==
    ASSUME LibcInv, Faithful, CompareBoth PROVE LibcInv'
  <1>1. pc = "compareBoth" /\ pc \in Loops /\ mem' = mem
    BY DEF CompareBoth, Loops
  <1>2. /\ call.fn \in Fns
        /\ mem \in Memories /\ entry \in Memories /\ cursor \in Nat
        /\ call.dst \in Pointers /\ call.src \in Pointers
        /\ call.dst \in Places /\ call.src \in Places
    BY <1>1, LoopCall
  <1>3. /\ call.fn \in {"memcmp", "strcmp"} /\ size = Asked /\ mem = entry
        /\ Same(entry, call.dst, call.src, Smaller(cursor, size))
        /\ BothFar
    BY <1>1 DEF LibcInv, CompareInv
  <1>4. /\ Asked \in Nat /\ Common \in Nat /\ Room(call.dst, Common) /\ Room(call.src, Common)
        /\ ResultOf(call, entry) = Compared(entry, call.dst, call.src, Asked)
        /\ \A c \in Nat : c < Asked /\ Same(entry, call.dst, call.src, c) => c < Common
    BY <1>2, <1>3, CompareArguments DEF LibcInv
  <1>5. MemoryOf(call, entry) = entry
    BY <1>3, ReadReference
  <1>6. PICK n : n = CommonChunk
    OBVIOUS
  <1>7. CASE LoopOver /\ Return(0)
    <2>1. Smaller(cursor, size) = size
      BY <1>2, <1>3, <1>4, <1>7 DEF LoopOver, Smaller
    <2>2. ResultOf(call, entry) = 0
      BY <1>2, <1>3, <1>4, <2>1, ComparedZero
    <2> QED
      BY <1>1, <1>2, <1>3, <1>5, <1>7, <2>2, Returns
  <1>8. ASSUME ~LoopOver,
               NEW r, r = Compared(mem, Plus(call.dst, cursor), Plus(call.src, cursor), Part(n)),
               IF r # 0 THEN Return(r)
               ELSE /\ cursor' = Advance(n)
                    /\ UNCHANGED <<pc, call, size, ptr, result, entry>>
        PROVE  LibcInv'
    <2>1. n \in 1 .. OBJ_SIZE
          /\ (call.dst.addr + cursor < HeapSize => call.dst.addr + (cursor + n) <= HeapSize)
      BY <1>2, <1>3, <1>6, CommonChunkIs
    <2>2. OBJ_SIZE \in Nat /\ HeapSize \in Nat /\ CursorMod \in Nat
          /\ HeapSize + OBJ_SIZE <= CursorMod /\ Common <= HeapSize
          /\ call.dst.addr + Common <= HeapSize /\ call.dst.addr \in Nat
      BY <1>2, <1>3, <1>4, FarRoom, Sizes DEF Faithful, BothFar, Places
    <2>3. cursor < size /\ Smaller(cursor, size) = cursor
      BY <1>2, <1>3, <1>4, <1>8 DEF LoopOver, Smaller
    <2>4. cursor < Common
      BY <1>2, <1>3, <1>4, <2>3
    <2>5. n \in Nat \ {0} /\ cursor + n < CursorMod /\ size \in Nat
      BY <1>2, <1>3, <1>4, <2>1, <2>2, <2>4
    <2>6. PICK k : k = Part(n)
      OBVIOUS
    <2>7. /\ Advance(n) = cursor + n
          /\ k \in Nat /\ cursor + k <= size /\ cursor + k = Smaller(cursor + n, size)
      BY <1>2, <2>3, <2>5, <2>6, PartIs
    <2>8. /\ r = 0 => Same(entry, call.dst, call.src, cursor + k)
          /\ r # 0 => Compared(entry, call.dst, call.src, size) = r
      BY <1>2, <1>3, <1>8, <2>3, <2>5, <2>6, <2>7, ComparedOn
    <2>9. CASE r # 0
      BY <1>1, <1>2, <1>3, <1>4, <1>5, <1>8, <2>8, <2>9, Returns
    <2>10. CASE r = 0
      <3>1. /\ pc' = pc /\ size' = size /\ cursor' = cursor + n /\ cursor' \in Nat
            /\ UNCHANGED <<call, entry>>
        BY <1>2, <1>8, <2>5, <2>7, <2>10
      <3>2. CallInv' /\ AgreesWithLibc' /\ Asked' = Asked
        BY <1>1, <1>2, <3>1, GoesOn
      <3>3. Same(entry, call.dst, call.src, Smaller(cursor', size))
        BY <2>7, <2>8, <2>10, <3>1
      <3>4. call.dst.addr + cursor' <= HeapSize
        <4>1. call.dst.addr + cursor < HeapSize
          BY <1>2, <1>4, <2>2, <2>4
        <4> QED
          BY <2>1, <3>1, <4>1
      <3>5. CompareInv'
        BY <1>1, <1>3, <3>1, <3>2, <3>3, <3>4 DEF CompareInv, BothFar
      <3> QED
        BY <1>1, <3>1, <3>2, <3>5 DEF LibcInv, SetInv, CopyInv, ScanInv, SearchInv, EntryInv
    <2> QED
      BY <2>9, <2>10
  <1> QED
    BY <1>6, <1>7, <1>8 DEF CompareBoth

-----------------------------------------------------------------------------
(* Strings, searches and numbers *)

(* The length is returned, or becomes the size of a copy or a comparison   *)
(* that starts with nothing done.                                          *)
LEMMA MeasuredKeeps ==
    ASSUME LibcInv, Faithful, pc \in {"strlen", "scan"}, UNCHANGED mem,
           NEW len, len = Length(entry, call.src), Measured(len)
    PROVE  LibcInv'
  <1>1. pc \in Loops
    BY DEF Loops
  <1>2. /\ call.fn \in Fns
        /\ mem \in Memories /\ entry \in Memories
        /\ call.dst \in Pointers /\ call.dst \in Places
    BY <1>1, LoopCall
  <1>3. call.fn \in StringCopies \cup {"strlen", "strcmp"} /\ mem = entry
    BY DEF LibcInv, ScanInv
  <1>4. len \in Nat
    BY <1>2, <1>3, StringArguments, LengthIs DEF LibcInv, CallInv
  <1>5. CASE call.fn = "strlen" /\ Return(len)
    <2>1. mem' = MemoryOf(call, entry) /\ len = ResultOf(call, entry)
      BY <1>3, <1>5, ReadReference, ResultReference
    <2> QED
      BY <1>1, <1>2, <1>5, <2>1, Returns
  <1>6. CASE /\ call.fn # "strlen"
             /\ pc' = IF call.fn = "strcmp" THEN "memcmp" ELSE "memcpy"
             /\ size' = IF call.dst.far \/ call.src.far THEN Signed(len + 1) % SizeMod
                        ELSE len + 1
             /\ cursor' = 0
             /\ ptr' = NoPtr
             /\ UNCHANGED <<call, result, entry>>
    <2>6. size' = len + 1
      BY <1>2, <1>3, <1>6, StringSize DEF LibcInv
    <2>1. pc' \in Loops /\ pc' \in {"memcpy", "memcmp"}
      BY <1>6 DEF Loops
    <2>2. CallInv' /\ AgreesWithLibc' /\ Asked' = Asked
      BY <1>1, <1>2, <1>6, <2>1, GoesOn
    <2>3. size' = Asked
      BY <1>3, <1>6, <2>6 DEF Asked
    <2>4. CASE call.fn = "strcmp"
      <3>1. pc' = "memcmp"
        BY <1>6, <2>4
      <3>2. Smaller(0, size') = 0 /\ Same(entry, call.dst, call.src, 0)
        BY <1>4, <2>6 DEF Smaller, Same
      <3>3. CompareInv'
        BY <1>3, <1>6, <2>2, <2>3, <2>4, <3>1, <3>2 DEF CompareInv
      <3> QED
        BY <2>2, <3>1, <3>3 DEF LibcInv, SetInv, CopyInv, ScanInv, SearchInv, EntryInv
    <2>5. CASE call.fn # "strcmp"
      <3>1. pc' = "memcpy" /\ call.fn \in StringCopies
        BY <1>3, <1>6, <2>5
      <3>2. Moved(entry, call.dst, call.src, 0) = entry
        BY <1>2, MovedNothing
      <3>3. CopyInv'
        BY <1>3, <1>4, <1>6, <2>2, <2>3, <2>6, <3>1, <3>2 DEF CopyInv
      <3> QED
        BY <2>2, <3>1, <3>3 DEF LibcInv, SetInv, CompareInv, ScanInv, SearchInv, EntryInv
    <2> QED
      BY <2>4, <2>5
  <1> QED
    BY <1>5, <1>6 DEF Measured

(* carm_strlen of libc_support.cpp. *)
LEMMA StrlenKeeps ==
    ASSUME LibcInv, Faithful, carm_strlen PROVE LibcInv'
  <1>1. pc = "strlen" /\ pc \in Loops
    BY DEF carm_strlen, Loops
  <1>2. /\ call.fn \in Fns
        /\ mem \in Memories /\ entry \in Memories
        /\ call.src \in Pointers /\ call.src \in Places
    BY <1>1, LoopCall
  <1>3. /\ call.fn \in StringCopies \cup {"strlen", "strcmp"} /\ mem = entry
    BY <1>1 DEF LibcInv, ScanInv
  <1>4. CASE Measured(Length(mem, call.src)) /\ UNCHANGED mem
    BY <1>1, <1>3, <1>4, MeasuredKeeps
  <1>5. CASE call.src.far /\ EnterLoop("scan", call.src)
    <2>1. /\ pc' = "scan" /\ cursor' = 0 /\ ptr' = Carm_Ptr(call.src)
          /\ UNCHANGED <<mem, call, size, entry>>
      BY <1>5 DEF EnterLoop
    <2>2. CallInv' /\ AgreesWithLibc'
      BY <1>1, <1>2, <2>1, GoesOn DEF Loops
    <2>3. PtrAt(call.src)'
      BY <1>2, <1>5, <2>1, PtrStarts DEF PtrAt, CarmPtrs
    <2>4. Found(entry, call.src, NUL, 0) = {}
      BY DEF Found
    <2>5. ScanInv'
      BY <1>3, <2>1, <2>3, <2>4 DEF ScanInv
    <2> QED
      BY <2>1, <2>2, <2>5 DEF LibcInv, CopyInv, SetInv, CompareInv, SearchInv, EntryInv
  <1> QED
    BY <1>4, <1>5 DEF carm_strlen

(* The next object of a string; the first NUL in it is the first of all. *)
LEMMA ScanKeeps ==
    ASSUME LibcInv, Faithful, ScanString PROVE LibcInv'
  <1>1. pc = "scan" /\ pc \in Loops /\ mem' = mem
    BY DEF ScanString, Loops
  <1>2. /\ call.fn \in Fns
        /\ mem \in Memories /\ entry \in Memories /\ cursor \in Nat
        /\ call.src \in Pointers /\ call.src \in Places
    BY <1>1, LoopCall
  <1>3. /\ call.fn \in StringCopies \cup {"strlen", "strcmp"} /\ mem = entry
        /\ Found(entry, call.src, NUL, cursor) = {} /\ PtrAt(call.src)
    BY <1>1 DEF LibcInv, ScanInv
  <1>4. PICK q : q = ptr
    OBVIOUS
  <1>5. PICK n : n = Chunk(q)
    OBVIOUS
  <1>6. PICK zeros : zeros = Found(mem, _ptrDeref(q), NUL, n)
    OBVIOUS
  <1>7. /\ q \in CarmPtrs /\ _ptrDeref(q) = Plus(call.src, cursor) /\ n \in Nat
    BY <1>3, <1>4, <1>5, NextObjectIs, Sizes DEF PtrAt, CarmPtrs
  <1>8. /\ zeros = {} => Found(entry, call.src, NUL, cursor + n) = {}
        /\ zeros # {} =>
             \E h \in 0 .. n - 1 :
                /\ h = Min(zeros)
                /\ Byte(entry, Plus(call.src, cursor + h)) = NUL
                /\ Found(entry, call.src, NUL, cursor + h) = {}
    <2>1. zeros = Found(entry, Plus(call.src, cursor), NUL, n)
      BY <1>3, <1>6, <1>7
    <2>2. Found(entry, call.src, NUL, cursor) = {}
      BY <1>3
    <2>3. NUL \in Bytes
      BY Sizes
    <2> QED
      BY <1>2, <1>7, <2>1, <2>2, <2>3, FoundOn
  <1>9. CASE zeros # {} /\ Measured(cursor + Min(zeros))
    <2>1. IsString(entry, call.src)
      BY <1>2, <1>3, StringArguments DEF LibcInv
    <2>2. PICK h \in 0 .. n - 1 :
             /\ h = Min(zeros)
             /\ Byte(entry, Plus(call.src, cursor + h)) = NUL
             /\ Found(entry, call.src, NUL, cursor + h) = {}
      BY <1>8, <1>9
    <2>3. PICK len \in Nat : len = cursor + h
      BY <1>2
    <2>4. len = Length(entry, call.src)
      BY <1>2, <2>1, <2>2, <2>3, LengthFirst
    <2>5. Measured(len)
      BY <1>9, <2>2, <2>3
    <2> QED
      BY <1>1, <2>4, <2>5, MeasuredKeeps
  <1>10. CASE /\ zeros = {}
              /\ cursor' = cursor + n
              /\ ptr' = NextObject(q)
              /\ UNCHANGED <<pc, call, size, result, entry>>
    <2>1. cursor' \in Nat
      BY <1>2, <1>7, <1>10
    <2>2. CallInv' /\ AgreesWithLibc'
      BY <1>1, <1>2, <1>10, <2>1, GoesOn
    <2>3. ptr' \in CarmPtrs /\ _ptrDeref(ptr') = Plus(call.src, cursor')
      BY <1>2, <1>5, <1>7, <1>10, PtrMoves
    <2>4. PtrAt(call.src)'
      BY <1>3, <1>10, <2>3 DEF PtrAt, CarmPtrs
    <2>5. ScanInv'
      BY <1>1, <1>3, <1>8, <1>10, <2>4 DEF ScanInv
    <2> QED
      BY <1>1, <1>10, <2>2, <2>5 DEF LibcInv, CopyInv, SetInv, CompareInv, SearchInv, EntryInv
  <1> QED
    BY <1>4, <1>5, <1>6, <1>9, <1>10 DEF ScanString

(* carm_memchr of libc_support.cpp. *)
LEMMA MemchrKeeps ==
    ASSUME LibcInv, Faithful, carm_memchr PROVE LibcInv'
  <1>1. pc = "memchr" /\ pc \in Loops
    BY DEF carm_memchr, Loops
  <1>2. /\ call.fn \in Fns
        /\ mem \in Memories /\ entry \in Memories /\ call.n \in Nat
        /\ call.src \in Pointers /\ call.src \in Places
    BY <1>1, LoopCall
  <1>3. call.fn = "memchr" /\ size = call.n /\ mem = entry
    BY <1>1 DEF LibcInv, SearchInv
  <1>4. CASE /\ LET hits == Found(mem, call.src, AsByte(call.c), size)
                IN  Return(IF hits = {} THEN Null ELSE call.src.addr + Min(hits))
             /\ UNCHANGED mem
    <2>1. PICK r : r = IF Found(mem, call.src, AsByte(call.c), size) = {} THEN Null
                       ELSE call.src.addr + Min(Found(mem, call.src, AsByte(call.c), size))
      OBVIOUS
    <2>2. Return(r)
      BY <1>4, <2>1
    <2>3. r = ResultOf(call, entry) /\ mem' = MemoryOf(call, entry)
      BY <1>3, <1>4, <2>1, ReadReference, ResultReference
    <2> QED
      BY <1>1, <1>2, <1>4, <2>2, <2>3, Returns
  <1>5. CASE call.src.far /\ EnterLoop("search", call.src)
    <2>1. /\ pc' = "search" /\ cursor' = 0 /\ ptr' = Carm_Ptr(call.src)
          /\ UNCHANGED <<mem, call, size, entry>>
      BY <1>5 DEF EnterLoop
    <2>2. CallInv' /\ AgreesWithLibc'
      BY <1>1, <1>2, <2>1, GoesOn DEF Loops
    <2>3. PtrAt(call.src)'
      BY <1>2, <1>5, <2>1, PtrStarts DEF PtrAt, CarmPtrs
    <2>4. Found(entry, call.src, call.c, 0) = {}
      BY DEF Found
    <2>5. SearchInv'
      BY <1>2, <1>3, <2>1, <2>3, <2>4 DEF SearchInv
    <2> QED
      BY <2>1, <2>2, <2>5 DEF LibcInv, CopyInv, SetInv, CompareInv, ScanInv, EntryInv
  <1> QED
    BY <1>4, <1>5 DEF carm_memchr

(* A buffer that ends with an object ends not before the object does. *)
LEMMA EndsWithObject ==
    ASSUME NEW p \in Places, NEW c \in Nat, NEW n \in Nat, c < n,
           (p.addr + n) % OBJ_SIZE = 0,
           NEW q \in CarmPtrs, _ptrDeref(q) = Plus(p, c)
    PROVE  c + Chunk(q) <= n
  <1>1. PICK e \in Nat : e = p.addr + n
    BY DEF Places
  <1>2. PICK i : i = e \div OBJ_SIZE
    OBVIOUS
  <1>3. i \in Nat /\ e = i * OBJ_SIZE
    <2>1. e = (e \div OBJ_SIZE) * OBJ_SIZE + (e % OBJ_SIZE) /\ e \div OBJ_SIZE \in Nat
      BY Quotient
    <2>2. i * OBJ_SIZE \in Nat
      BY <1>2, <2>1, Sizes
    <2> QED
      BY <1>1, <1>2, <2>1, <2>2
  <1>4. p.addr \in Nat /\ _ptrDeref(q).addr = p.addr + c
    BY PlusIs DEF Places
  <1>5. _ptrDeref(q).addr < i * OBJ_SIZE
    BY <1>1, <1>3, <1>4
  <1>6. _ptrDeref(q).addr + Chunk(q) <= i * OBJ_SIZE
    BY <1>3, <1>5, RestOfObject
  <1>7. Chunk(q) \in Nat
    BY NextObjectIs, Sizes
  <1>8. p.addr + c + Chunk(q) <= p.addr + n
    BY <1>1, <1>3, <1>4, <1>6
  <1> QED
    BY <1>4, <1>7, <1>8

(* The next object of a buffer that ends with one. *)
LEMMA SearchKeeps ==
    ASSUME LibcInv, Faithful, SearchChunk PROVE LibcInv'
  <1>1. pc = "search" /\ pc \in Loops /\ mem' = mem
    BY DEF SearchChunk, Loops
  <1>2. /\ call.fn \in Fns
        /\ mem \in Memories /\ entry \in Memories /\ cursor \in Nat
        /\ call.n \in Nat /\ call.c \in Int
        /\ call.src \in Pointers /\ call.src \in Places
    BY <1>1, LoopCall
  <1>3. /\ call.fn = "memchr" /\ size = call.n /\ mem = entry /\ cursor <= size
        /\ Found(entry, call.src, call.c, cursor) = {} /\ PtrAt(call.src)
    BY <1>1 DEF LibcInv, SearchInv
  <1>4. /\ call.src.far /\ (call.src.addr + size) % OBJ_SIZE = 0
        /\ AsByte(call.c) = call.c
    BY <1>2, <1>3, BufferArguments, AsByteIs DEF LibcInv, PtrAt
  <1>5. PICK q : q = ptr
    OBVIOUS
  <1>6. PICK n : n = Chunk(q)
    OBVIOUS
  <1>7. PICK hits : hits = Found(mem, _ptrDeref(q), call.c, n)
    OBVIOUS
  <1>8. /\ q \in CarmPtrs /\ _ptrDeref(q) = Plus(call.src, cursor) /\ n \in Nat
    BY <1>3, <1>5, <1>6, NextObjectIs, Sizes DEF PtrAt, CarmPtrs
  <1>9. /\ hits = {} => Found(entry, call.src, call.c, cursor + n) = {}
        /\ hits # {} =>
             \E h \in 0 .. n - 1 :
                /\ h = Min(hits)
                /\ Byte(entry, Plus(call.src, cursor + h)) = call.c
                /\ Found(entry, call.src, call.c, cursor + h) = {}
    <2>1. hits = Found(entry, Plus(call.src, cursor), call.c, n)
      BY <1>3, <1>7, <1>8
    <2>2. Found(entry, call.src, call.c, cursor) = {}
      BY <1>3
    <2> QED
      BY <1>2, <1>8, <2>1, <2>2, FoundOn
  <1>10. ~LoopOver => cursor + n <= size
    <2> SUFFICES ASSUME ~LoopOver PROVE cursor + n <= size
      OBVIOUS
    <2>1. cursor < size
      BY <1>2, <1>3 DEF LoopOver
    <2> QED
      BY <1>2, <1>3, <1>4, <1>6, <1>8, <2>1, EndsWithObject
  <1>11. MemoryOf(call, entry) = entry
    BY <1>3, ReadReference
  <1>12. CASE LoopOver /\ Return(Null)
    <2>1. cursor = call.n
      BY <1>2, <1>3, <1>12 DEF LoopOver
    <2>2. ResultOf(call, entry) = Null
      BY <1>3, <1>4, <2>1, ResultReference
    <2> QED
      BY <1>1, <1>2, <1>3, <1>11, <1>12, <2>2, Returns
  <1>13. CASE ~LoopOver /\ hits # {} /\ Return(call.src.addr + cursor + Min(hits))
    <2>1. PICK h \in 0 .. n - 1 :
             /\ h = Min(hits)
             /\ Byte(entry, Plus(call.src, cursor + h)) = call.c
             /\ Found(entry, call.src, call.c, cursor + h) = {}
      BY <1>9, <1>13
    <2>2. PICK i \in Nat : i = cursor + h
      BY <1>2
    <2>3. i < call.n
      BY <1>2, <1>3, <1>8, <1>10, <1>13, <2>1, <2>2
    <2>4. /\ Found(entry, call.src, call.c, call.n) # {}
          /\ Min(Found(entry, call.src, call.c, call.n)) = i
      BY <1>2, <2>1, <2>2, <2>3, FoundFirst
    <2>5. ResultOf(call, entry) = call.src.addr + i
      BY <1>3, <1>4, <2>4, ResultReference
    <2>6. call.src.addr + cursor + Min(hits) = call.src.addr + i
      BY <1>2, <2>1, <2>2 DEF Places
    <2> QED
      BY <1>1, <1>2, <1>3, <1>11, <1>13, <2>5, <2>6, Returns
  <1>14. CASE /\ ~LoopOver /\ hits = {}
              /\ cursor' = cursor + n
              /\ ptr' = NextObject(q)
              /\ UNCHANGED <<pc, call, size, result, entry>>
    <2>1. cursor' \in Nat /\ cursor' <= size
      BY <1>2, <1>8, <1>10, <1>14
    <2>2. CallInv' /\ AgreesWithLibc'
      BY <1>1, <1>2, <1>14, <2>1, GoesOn
    <2>3. ptr' \in CarmPtrs /\ _ptrDeref(ptr') = Plus(call.src, cursor')
      BY <1>2, <1>6, <1>8, <1>14, PtrMoves
    <2>4. PtrAt(call.src)'
      BY <1>4, <1>14, <2>3 DEF PtrAt, CarmPtrs
    <2>5. SearchInv'
      BY <1>1, <1>3, <1>9, <1>14, <2>1, <2>4 DEF SearchInv
    <2> QED
      BY <1>1, <1>14, <2>2, <2>5 DEF LibcInv, CopyInv, SetInv, CompareInv, ScanInv, EntryInv
  <1> QED
    BY <1>5, <1>6, <1>7, <1>12, <1>13, <1>14 DEF SearchChunk

(* A number that ends in its object is read there. *)
LEMMA StrtoulKeeps ==
    ASSUME LibcInv, Faithful, carm_strtoul PROVE LibcInv'
  <1>1. pc = "strtoul" /\ pc \in Loops /\ mem' = mem
    BY DEF carm_strtoul, Loops
  <1>2. /\ call.fn \in Fns
        /\ mem \in Memories /\ entry \in Memories
        /\ call.src \in Pointers
    BY <1>1, LoopCall
  <1>3. call.fn = "strtoul" /\ mem = entry
    BY <1>1 DEF LibcInv, EntryInv
  <1>4. PICK n : n = Length(mem, call.src)
    OBVIOUS
  <1>5. PICK k : k = IF call.src.far THEN Chunk(Carm_Ptr(call.src)) ELSE n + 1
    OBVIOUS
  <1>6. n \in Nat
    BY <1>2, <1>3, <1>4, StringArguments, LengthIs DEF LibcInv
  <1>7. n < k
    BY <1>2, <1>3, <1>4, <1>5, <1>6, BufferArguments DEF LibcInv
  <1>8. Smaller(n, k) = n
    BY <1>7 DEF Smaller
  <1>9. Return(Number(mem, call.src, n))
    <2>1. LET v == Number(mem, call.src, Smaller(n, k))
          IN  IF n < k THEN Return(v)
              ELSE \E r \in {v} \cup {10 * v + b : b \in Bytes \ {NUL}} : Return(r)
      BY <1>4, <1>5, Zenon DEF carm_strtoul
    <2> QED
      BY <1>7, <1>8, <2>1
  <1>10. Number(mem, call.src, n) = ResultOf(call, entry) /\ mem' = MemoryOf(call, entry)
    BY <1>1, <1>3, <1>4, ReadReference, ResultReference
  <1> QED
    BY <1>1, <1>2, <1>9, <1>10, Returns

-----------------------------------------------------------------------------
(* The program *)

(* A call starts with the memory it finds. *)
LEMMA CallKeeps ==
    ASSUME LibcInv, Faithful, Call PROVE LibcInv'
  <1>1. /\ pc = "idle"
        /\ UNCHANGED <<mem, cursor, ptr, result, entry>>
    BY DEF Call
  <1>17. PICK fn \in Fns, d \in Pointers, s \in Pointers, n \in 0 .. HeapSize :
        \E c \in Arguments(fn, n) :
          /\ Legal(mem, fn, d, s, n, c)
          /\ call' = [fn |-> fn, dst |-> d, src |-> s, n |-> n, c |-> c]
          /\ pc' = FirstFunction(fn)
          /\ size' = n
    BY DEF Call
  <1>2. PICK c \in Arguments(fn, n) :
          /\ Legal(mem, fn, d, s, n, c)
          /\ call' = [fn |-> fn, dst |-> d, src |-> s, n |-> n, c |-> c]
          /\ pc' = FirstFunction(fn)
          /\ size' = n
    BY <1>17
  <1>3. mem = entry /\ cursor = 0 /\ mem \in Memories /\ entry' = entry /\ mem' = mem
        /\ cursor' = 0
    BY <1>1 DEF LibcInv, CallInv, Memories
  <1>4. /\ call'.fn = fn /\ call'.dst = d /\ call'.src = s /\ call'.n = n /\ call'.c = c
        /\ n \in Nat /\ c \in Int /\ d \in Places
    BY <1>2, InPointers, ArgumentTypes
  <1>5. fn \in {"memcpy", "read", "memset", "memcmp", "strlen", "strcmp", "memchr", "strtoul"}
                 \cup StringCopies
    BY DEF Faithful
  <1>6. pc' = IF fn = "memcpy" THEN "memcpy"
              ELSE IF fn \in StringCopies \cup {"strcmp"} THEN "strlen" ELSE fn
    BY <1>2, <1>5 DEF FirstFunction, Copies, StringCopies
  <1>7. pc' \in Loops /\ pc' \notin {"idle", "done"}
    BY <1>5, <1>6 DEF Loops, StringCopies
  <1>8. CallInv'
    BY <1>2, <1>3, <1>4, <1>7 DEF CallInv, Memories
  <1>9. AgreesWithLibc'
    BY <1>7 DEF AgreesWithLibc
  <1>10. /\ Moved(entry, d, s, 0) = entry /\ Filled(entry, d, c, 0) = entry
         /\ Same(entry, d, s, 0) /\ Found(entry, s, NUL, 0) = {} /\ Found(entry, s, c, 0) = {}
         /\ Smaller(0, n) = 0
    BY <1>3, <1>4, MovedNothing, FilledNothing DEF Same, Found, Smaller
  <1>11. CopyInv'
    <2>1. CASE pc' = "memcpy"
      <3>1. fn = "memcpy"
        BY <1>5, <1>6, <2>1 DEF StringCopies
      <3>2. Asked' = n
        BY <1>4, <3>1 DEF Asked, StringCopies
      <3> QED
        BY <1>2, <1>3, <1>4, <1>10, <2>1, <3>1, <3>2 DEF CopyInv
    <2>2. CASE pc' # "memcpy"
      BY <1>5, <1>6, <2>2 DEF CopyInv, StringCopies
    <2> QED
      BY <2>1, <2>2
  <1>12. SetInv'
    <2>1. CASE pc' = "memset"
      <3>1. fn = "memset"
        BY <1>5, <1>6, <2>1 DEF StringCopies
      <3> QED
        BY <1>2, <1>3, <1>4, <1>10, <2>1, <3>1 DEF SetInv
    <2>2. CASE pc' # "memset"
      BY <1>5, <1>6, <2>2 DEF SetInv, StringCopies
    <2> QED
      BY <2>1, <2>2
  <1>13. CompareInv'
    <2>1. CASE pc' = "memcmp"
      <3>1. fn = "memcmp"
        BY <1>5, <1>6, <2>1 DEF StringCopies
      <3>2. Asked' = n
        BY <1>4, <3>1 DEF Asked, StringCopies
      <3> QED
        BY <1>2, <1>3, <1>4, <1>10, <2>1, <3>1, <3>2 DEF CompareInv
    <2>2. CASE pc' # "memcmp"
      BY <1>5, <1>6, <2>2 DEF CompareInv, StringCopies
    <2> QED
      BY <2>1, <2>2
  <1>14. ScanInv'
    <2>1. CASE pc' = "strlen"
      <3>1. fn \in StringCopies \cup {"strlen", "strcmp"}
        BY <1>5, <1>6, <2>1 DEF StringCopies
      <3> QED
        BY <1>3, <1>4, <1>10, <2>1, <3>1 DEF ScanInv
    <2>2. CASE pc' # "strlen"
      BY <1>5, <1>6, <2>2 DEF ScanInv, StringCopies
    <2> QED
      BY <2>1, <2>2
  <1>15. SearchInv'
    <2>1. CASE pc' = "memchr"
      <3>1. fn = "memchr"
        BY <1>5, <1>6, <2>1 DEF StringCopies
      <3> QED
        BY <1>2, <1>3, <1>4, <1>10, <2>1, <3>1 DEF SearchInv
    <2>2. CASE pc' # "memchr"
      BY <1>5, <1>6, <2>2 DEF SearchInv, StringCopies
    <2> QED
      BY <2>1, <2>2
  <1>16. EntryInv'
    BY <1>3, <1>4, <1>5, <1>6 DEF EntryInv, StringCopies
  <1> QED
    BY <1>8, <1>9, <1>11, <1>12, <1>13, <1>14, <1>15, <1>16 DEF LibcInv

(* The program goes on behind a call. *)
LEMMA ResumeKeeps ==
    ASSUME LibcInv, Faithful, Resume PROVE LibcInv'
  <1>1. pc = "done" /\ pc' = "idle" /\ call' = NoCall /\ entry' = mem /\ mem' = mem
        /\ cursor' = cursor
    BY DEF Resume
  <1>2. call'.fn \notin Fns
    BY <1>1 DEF NoCall, Faithful, StringCopies
  <1>3. CallInv'
    BY <1>1, <1>2 DEF LibcInv, CallInv, Loops
  <1> QED
    BY <1>1, <1>3 DEF LibcInv, CopyInv, SetInv, CompareInv, ScanInv, SearchInv, EntryInv,
                      AgreesWithLibc

(* Every step of a function keeps the invariant. *)
LEMMA StepKeeps ==
    ASSUME LibcInv, Faithful, Step PROVE LibcInv'
  BY ReadKeeps, MemcpyKeeps, CopyOneKeeps, CopyBothKeeps, MemsetKeeps, SetChunkKeeps,
     MemcmpKeeps, CompareOneKeeps, CompareBothKeeps, StrlenKeeps, ScanKeeps,
     MemchrKeeps, SearchKeeps, StrtoulKeeps DEF Step

(* Before the first call the invariant holds. *)
LEMMA InitLibc ==
    ASSUME Init, Faithful PROVE LibcInv
  <1>1. call.fn \notin Fns
    BY DEF Init, NoCall, Faithful, StringCopies
  <1> QED
    BY <1>1 DEF Init, LibcInv, CallInv, CopyInv, SetInv, CompareInv, ScanInv, SearchInv,
                EntryInv, AgreesWithLibc, Loops

(* Nothing but the destination is written: a byte is as it was or as libc  *)
(* will leave it.                                                          *)
LEMMA OnlyDestination ==
    ASSUME LibcInv, Faithful PROVE OnlyDestinationWritten
  <1> SUFFICES ASSUME call.fn \in Fns, NEW p \in Pointers, mem[p] # entry[p]
               PROVE  entry[p] # MemoryOf(call, entry)[p]
    BY DEF OnlyDestinationWritten
  <1>1. CASE pc = "done"
    BY <1>1 DEF LibcInv, AgreesWithLibc
  <1>2. CASE pc \in Loops
    <2>1. /\ mem \in Memories /\ entry \in Memories /\ cursor \in Nat
          /\ call.dst \in Places /\ call.dst.addr \in Nat /\ p \in Places /\ p.addr \in Nat
          /\ call.n \in Nat /\ call.c \in Int
      BY <1>2, LoopCall, InPointers DEF Places
    <2>2. mem[p] = MemoryOf(call, entry)[p]
      <3>1. CASE pc \in {"memcpy", "copyOne", "copyBoth"}
        <4>1. /\ call.fn \in CopyFns \cap Fns /\ size = Asked /\ cursor <= size
              /\ mem = Moved(entry, call.dst, call.src, cursor)
          BY <3>1 DEF LibcInv, CopyInv, CopyFns
        <4>2. size \in Nat
          BY <4>1, CopyArguments DEF LibcInv
        <4>3. Within(p, call.dst, cursor)
          BY <2>1, <4>1, MovedAt
        <4>4. Within(p, call.dst, size)
          BY <2>1, <4>1, <4>2, <4>3, WithinIs
        <4> QED
          BY <2>1, <4>1, <4>3, <4>4, CopyReference, MovedAt DEF LibcInv
      <3>2. CASE pc \in {"memset", "set"}
        <4>1. /\ call.fn = "memset" /\ size = call.n
              /\ mem = Filled(entry, call.dst, call.c, Smaller(cursor, size))
          BY <3>2 DEF LibcInv, SetInv
        <4>2. Smaller(cursor, size) \in Nat /\ Smaller(cursor, size) <= size /\ size \in Nat
          BY <2>1, <4>1 DEF Smaller
        <4>3. Within(p, call.dst, Smaller(cursor, size))
          BY <2>1, <4>1, FilledIs
        <4>4. Within(p, call.dst, size)
          BY <2>1, <4>2, <4>3, WithinIs
        <4> QED
          BY <2>1, <4>1, <4>3, <4>4, SetReference, FilledIs
      <3>3. CASE pc \notin {"memcpy", "copyOne", "copyBoth", "memset", "set"}
        BY <1>2, <3>3 DEF LibcInv, CompareInv, ScanInv, SearchInv, EntryInv, Loops
      <3> QED
        BY <3>1, <3>2, <3>3
    <2> QED
      BY <2>2
  <1> QED
    BY <1>1, <1>2 DEF LibcInv, CallInv

-----------------------------------------------------------------------------
(* The theorems *)

(* What every loop of libc_support.cpp has done so far is what libc would  *)
(* have done with the bytes its cursor has passed, for every size of the   *)
(* objects and every position of the buffers in them.                      *)
THEOREM LibcInductive == Faithful => (Spec => []LibcInv)
  <1> SUFFICES ASSUME Faithful PROVE Spec => []LibcInv
    OBVIOUS
  <1>1. Init => LibcInv
    BY InitLibc
  <1>2. LibcInv /\ [Next]_vars => LibcInv'
    <2> SUFFICES ASSUME LibcInv, [Next]_vars PROVE LibcInv'
      OBVIOUS
    <2>1. CASE UNCHANGED vars
      BY <2>1 DEF vars, LibcInv, CallInv, CopyInv, SetInv, CompareInv, ScanInv, SearchInv,
                  EntryInv, AgreesWithLibc, PtrAt, FarSide, BothFar, Asked
    <2> QED
      BY <2>1, CallKeeps, StepKeeps, ResumeKeeps DEF Next
  <1> QED
    BY <1>1, <1>2, PTL DEF Spec

(* A call on far buffers leaves the memory, and returns the value, that    *)
(* libc would over a flat memory.                                          *)
THEOREM LibcAgrees == Faithful => (Spec => []AgreesWithLibc)
  <1> SUFFICES ASSUME Faithful PROVE Spec => []AgreesWithLibc
    OBVIOUS
  <1>1. LibcInv => AgreesWithLibc
    BY DEF LibcInv
  <1> QED
    BY <1>1, LibcInductive, PTL

(* No chunk writes outside of the destination of its call. *)
THEOREM LibcStaysInside == Faithful => (Spec => []OnlyDestinationWritten)
  <1> SUFFICES ASSUME Faithful PROVE Spec => []OnlyDestinationWritten
    OBVIOUS
  <1>1. LibcInv => OnlyDestinationWritten
    BY OnlyDestination
  <1> QED
    BY <1>1, LibcInductive, PTL
=============================================================================
