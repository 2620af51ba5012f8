----------------------------- MODULE CarmAlloc ------------------------------
(***************************************************************************)
(* The remote heap of libc_support.cpp: a bump allocator over an address   *)
(* space cut into objects, a per-object count of freed bytes, and the      *)
(* recycling of wholly freed objects at the end of the object list.        *)
(*                                                                         *)
(* An address is an offset from START_ADDR.  An AIFM object is named by    *)
(* the index it was created for: allocate_object runs only on a null slot, *)
(* and a slot never becomes null again.  One application thread; the       *)
(* evacuator interleaves with the loop of carm_free.  Memory from malloc   *)
(* of the size of ptrs_ and free_list_map is fresh, hence zero.            *)
(***************************************************************************)
EXTENDS Integers, FiniteSets

CONSTANTS
    OBJ_SIZE,
    CARM_ALLOC_SIZE_MULTIPLE,
    NumObjects,     \* num_objects: objects in the working set
    TOTAL_OBJECTS,  \* slots of ptrs_, free_list_map and carm_obj_state
    MaxObjects,     \* bound: objects the bump pointer may pass
    Sizes,          \* sizes the program asks for
    CountLive,      \* what the program keeps within the working set: the memory
                    \* it owns (TRUE), or all it has ever asked for (FALSE)
    Null

ASSUME AllocAssumption ==
    /\ OBJ_SIZE \in Nat \ {0}
    /\ CARM_ALLOC_SIZE_MULTIPLE \in Nat \ {0}
    /\ NumObjects \in Nat /\ MaxObjects \in Nat /\ TOTAL_OBJECTS \in Nat
    /\ NumObjects + MaxObjects <= TOTAL_OBJECTS
    /\ Sizes \subseteq Nat
    /\ CountLive \in BOOLEAN
    /\ Null \notin Nat

VARIABLES
    aspace_start,   \* next address to hand out
    allocation_map, \* size of the block at an address; 0 when there is none
    free_list_map,  \* freed bytes of each object
    ptrs,           \* ptrs_: the AIFM object in each slot, or Null
    obj_index,      \* the index each AIFM object reports to, or Null
    cached,         \* AIFM object whose address carm_obj_state holds, or Null
    total_obj_cnt,  \* end of the object list
    live,           \* addresses of the blocks the program owns
    cur,            \* locals of the carm_free in progress, or Null
    aborted,        \* has carm_free called abort()?
    overrun         \* history: the indices behind the object list that the copy
                    \* of a shrinking carm_realloc has touched

heapVars == <<ptrs, obj_index, cached>>
vars == <<aspace_start, allocation_map, free_list_map, heapVars, total_obj_cnt,
          live, cur, aborted, overrun>>

Slots == 0 .. TOTAL_OBJECTS - 1
Addresses == 0 .. TOTAL_OBJECTS * OBJ_SIZE

-----------------------------------------------------------------------------
enforce_size_constraints(size) ==
    LET rem == size % CARM_ALLOC_SIZE_MULTIPLE
    IN  IF size < CARM_ALLOC_SIZE_MULTIPLE THEN CARM_ALLOC_SIZE_MULTIPLE
        ELSE IF rem # 0 THEN (size - rem) + CARM_ALLOC_SIZE_MULTIPLE ELSE size

(* get_carm_ptr: object index and offset of an address. *)
ObjIndex(addr) == addr \div OBJ_SIZE
Offset(addr) == addr % OBJ_SIZE

(* The objects that n bytes at addr lie in. *)
Span(addr, n) == ObjIndex(addr) .. ObjIndex(addr + n - 1)

Init ==
    /\ aspace_start = 0
    /\ allocation_map = [a \in Addresses |-> 0]
    /\ free_list_map = [o \in Slots |-> 0]
    /\ ptrs = [o \in Slots |-> Null]
    /\ obj_index = [p \in Slots |-> Null]
    /\ cached = [o \in Slots |-> Null]
    /\ total_obj_cnt = NumObjects
    /\ live = {}
    /\ cur = Null
    /\ aborted = FALSE
    /\ overrun = {}

Running == cur = Null /\ ~aborted

(* Bytes of object o that belong to blocks of the program. *)
LiveBytes(o) ==
    {b \in o * OBJ_SIZE .. (o + 1) * OBJ_SIZE - 1 :
        \E a \in live : a <= b /\ b < a + allocation_map[a]}

(* The program's demand when it asks for n bytes: it touches no object     *)
(* beyond the end of the object list; or, with CountLive, the objects it   *)
(* owns bytes of are no more than the working set has.                     *)
WithinCapacity(n) ==
    IF CountLive
    THEN Cardinality({o \in Slots : LiveBytes(o) # {}} \cup Span(aspace_start, n)) <= NumObjects
    ELSE aspace_start + n <= total_obj_cnt * OBJ_SIZE

-----------------------------------------------------------------------------
(* The guarded accesses to the objects in S: a guard that finds no word in *)
(* carm_obj_state takes the slow path, which creates the object of an      *)
(* empty slot and caches its address.                                      *)
Touch(S) ==
    /\ ptrs' = [o \in Slots |-> IF o \in S /\ ptrs[o] = Null THEN o ELSE ptrs[o]]
    /\ obj_index' = [p \in Slots |-> IF p \in S /\ ptrs[p] = Null THEN p ELSE obj_index[p]]
    /\ cached' = [o \in Slots |-> IF o \in S /\ cached[o] = Null THEN ptrs'[o] ELSE cached[o]]

(* Bounds of the model, not of the code, which compares neither the bump   *)
(* pointer nor the end of a copy with TOTAL_OBJECTS.                       *)
BumpBound(n) == aspace_start + n <= MaxObjects * OBJ_SIZE
CopyBound(n) == aspace_start + n <= TOTAL_OBJECTS * OBJ_SIZE

(* A new block at the bump pointer; used by all three allocation calls. *)
TakeBlock(size) ==
    /\ BumpBound(enforce_size_constraints(size))
    /\ allocation_map' = [allocation_map EXCEPT ![aspace_start] = enforce_size_constraints(size)]
    /\ aspace_start' = aspace_start + enforce_size_constraints(size)

carm_remote_malloc(size) ==
    /\ Running
    /\ WithinCapacity(enforce_size_constraints(size))
    /\ TakeBlock(size)
    /\ live' = live \cup {aspace_start}
    /\ UNCHANGED <<free_list_map, heapVars, total_obj_cnt, cur, aborted, overrun>>

(* carm_calloc clears the block, which touches all of it. *)
carm_calloc(size) ==
    /\ Running
    /\ WithinCapacity(enforce_size_constraints(size))
    /\ TakeBlock(size)
    /\ live' = live \cup {aspace_start}
    /\ Touch(Span(aspace_start, enforce_size_constraints(size)))
    /\ UNCHANGED <<free_list_map, total_obj_cnt, cur, aborted, overrun>>

(* Mutant: the first chunk is a whole object. *)
FreeLocalsWhole(addr) ==
    [obj_index  |-> ObjIndex(addr),
     size       |-> allocation_map[addr],
     freed_size |-> 0,
     chunk_size |-> OBJ_SIZE]

(* Mutant: the first chunk is the part before the block. *)
FreeLocalsBefore(addr) ==
    [obj_index  |-> ObjIndex(addr),
     size       |-> allocation_map[addr],
     freed_size |-> 0,
     chunk_size |-> Offset(addr)]

(* The locals of carm_free when its loop starts. *)
FreeLocals(addr) ==
    [obj_index  |-> ObjIndex(addr),
     size       |-> allocation_map[addr],
     freed_size |-> 0,
     chunk_size |-> OBJ_SIZE - Offset(addr)]

carm_free(addr) ==
    /\ Running
    /\ addr \in live
    /\ live' = live \ {addr}
    /\ cur' = FreeLocals(addr)
    /\ UNCHANGED <<aspace_start, allocation_map, free_list_map, heapVars,
                   total_obj_cnt, aborted, overrun>>

(* carm_realloc: a new block, a copy of the size of the OLD one, which     *)
(* runs over the end of a smaller block, and the free of the old one.      *)
(* realloc(p, 0) is carm_free.                                             *)
carm_realloc(addr, size) ==
    /\ Running
    /\ addr \in live
    /\ size > 0
    /\ LET old == allocation_map[addr]
           new == enforce_size_constraints(size)
       IN  /\ CopyBound(old)
           /\ WithinCapacity(new)
           /\ Touch(Span(addr, old) \cup Span(aspace_start, old))
           /\ overrun' = overrun \cup {o \in Slots : o \in Span(aspace_start, old)
                                                   /\ total_obj_cnt <= o}
    /\ TakeBlock(size)
    /\ live' = (live \ {addr}) \cup {aspace_start}
    /\ cur' = FreeLocals(addr)
    /\ UNCHANGED <<free_list_map, total_obj_cnt, aborted>>

(* Mutant: the recycled object keeps reporting to its old index. *)
update_object_list_silent(old_index) ==
    /\ ptrs' = [ptrs EXCEPT ![total_obj_cnt] = ptrs[old_index]]
    /\ total_obj_cnt' = total_obj_cnt + 1
    /\ UNCHANGED obj_index

(* Mutant: the last slot is taken for the first one past the end. *)
update_object_list_last(old_index) ==
    /\ ptrs' = [ptrs EXCEPT ![total_obj_cnt - 1] = ptrs[old_index]]
    /\ obj_index' = [obj_index EXCEPT ![ptrs[old_index]] = total_obj_cnt - 1]
    /\ total_obj_cnt' = total_obj_cnt + 1

(* Mutant: the count is raised before and after the store. *)
update_object_list_twice(old_index) ==
    /\ ptrs' = [ptrs EXCEPT ![total_obj_cnt + 1] = ptrs[old_index]]
    /\ obj_index' = [obj_index EXCEPT ![ptrs[old_index]] = total_obj_cnt + 1]
    /\ total_obj_cnt' = total_obj_cnt + 2

(* add freed objects to end of list *)
update_object_list(old_index) ==
    /\ ptrs' = [ptrs EXCEPT ![total_obj_cnt] = ptrs[old_index]]
    /\ obj_index' = [obj_index EXCEPT ![ptrs[old_index]] = total_obj_cnt]
    /\ total_obj_cnt' = total_obj_cnt + 1

(* Bytes of the block that the current iteration of carm_free returns. *)
ChunkBytes ==
    IF cur.freed_size + cur.chunk_size < cur.size THEN cur.chunk_size
    ELSE cur.size - cur.freed_size

(* One iteration of the loop of carm_free. *)
FreeObject ==
    /\ cur # Null
    /\ LET o == cur.obj_index
           freed == free_list_map[o] + ChunkBytes
           more == cur.freed_size + cur.chunk_size < cur.size
       IN  /\ free_list_map' = [free_list_map EXCEPT ![o] = freed]
           /\ IF freed = OBJ_SIZE /\ ptrs[o] # Null
              THEN update_object_list(o)
              ELSE UNCHANGED <<ptrs, obj_index, total_obj_cnt>>
           /\ aborted' = (freed > OBJ_SIZE)
           /\ cur' = IF more /\ freed <= OBJ_SIZE /\ (freed = OBJ_SIZE => ptrs[o] # Null)
                     THEN [cur EXCEPT !.obj_index = @ + 1,
                                      !.freed_size = @ + cur.chunk_size,
                                      !.chunk_size = OBJ_SIZE]
                     ELSE Null
    /\ UNCHANGED <<aspace_start, allocation_map, cached, live, overrun>>

(* The program accesses an object of a block it owns. *)
Use(addr, o) ==
    /\ Running
    /\ addr \in live
    /\ o \in Span(addr, allocation_map[addr])
    /\ Touch({o})
    /\ UNCHANGED <<aspace_start, allocation_map, free_list_map, total_obj_cnt,
                   live, cur, aborted, overrun>>

(* The evacuator moves AIFM object p and calls update_cache_object: the    *)
(* word at the index p reports to is no longer accepted by a guard.        *)
Evacuate(p) ==
    /\ obj_index[p] # Null
    /\ cached' = [cached EXCEPT ![obj_index[p]] = Null]
    /\ UNCHANGED <<aspace_start, allocation_map, free_list_map, ptrs, obj_index,
                   total_obj_cnt, live, cur, aborted, overrun>>

Next ==
    \/ \E s \in Sizes : carm_remote_malloc(s)
    \/ \E s \in Sizes : carm_calloc(s)
    \/ \E a \in live : carm_free(a)
    \/ \E a \in live, s \in Sizes : carm_realloc(a, s)
    \/ FreeObject
    \/ \E a \in live, o \in Slots : Use(a, o)
    \/ \E p \in Slots : Evacuate(p)

Spec == Init /\ [][Next]_vars

-----------------------------------------------------------------------------
(* Properties *)

FreeInProgress ==
    [obj_index : Slots, size : Nat, freed_size : Nat, chunk_size : 1 .. OBJ_SIZE]

(* Type invariant; a chunk is never empty, so the exit(0) of carm_free is  *)
(* not taken.                                                              *)
TypeOK ==
    /\ aspace_start \in Addresses
    /\ allocation_map \in [Addresses -> Nat]
    /\ free_list_map \in [Slots -> Nat]
    /\ ptrs \in [Slots -> Slots \cup {Null}]
    /\ obj_index \in [Slots -> Slots \cup {Null}]
    /\ cached \in [Slots -> Slots \cup {Null}]
    /\ total_obj_cnt \in NumObjects .. TOTAL_OBJECTS
    /\ live \in SUBSET Addresses
    /\ cur = Null \/ cur \in FreeInProgress
    /\ aborted \in BOOLEAN
    /\ overrun \subseteq Slots

(* An object's freed and live bytes fit into it, so carm_free never comes  *)
(* to its "Should not happen carm free having size > OBJ size" and never   *)
(* gives away an object that a block still lies in.                        *)
FreeListBound ==
    /\ ~aborted
    /\ \A o \in Slots : free_list_map[o] + Cardinality(LiveBytes(o)) <= OBJ_SIZE

(* The object behind an index the program uses reports to that index, so   *)
(* update_cache_object reaches the word its guards look at; and that word  *)
(* never holds the address of another object, except at an index behind    *)
(* the list that the copy of a shrinking carm_realloc had touched before   *)
(* the list came to it: there it does.                                     *)
LiveIndexOwnsObject ==
    \A o \in Slots : LiveBytes(o) # {} =>
        /\ ptrs[o] # Null => obj_index[ptrs[o]] = o
        /\ cached[o] \in {Null, ptrs[o]} \/ o \in overrun

(* The list grows by no more slots than the bump pointer has passed        *)
(* objects, whatever is freed in whatever pieces: update_object_list,      *)
(* which does not look at TOTAL_OBJECTS, writes behind the end of ptrs_    *)
(* only for a program that has asked for TOTAL_OBJECTS - num_objects       *)
(* objects.                                                                *)
ListBound == total_obj_cnt <= NumObjects + ObjIndex(aspace_start)

(* update_object_list appends to the list: recycling never replaces the    *)
(* object of an index that the program has written to and still uses.      *)
LiveObjectStays ==
    [][\A o \in Slots : LiveBytes(o) # {} /\ ptrs[o] # Null => ptrs'[o] = ptrs[o]]_vars

-----------------------------------------------------------------------------
(* The inductive invariant *)

ObjectBytes(o) == o * OBJ_SIZE .. (o + 1) * OBJ_SIZE - 1

(* Where the loop of carm_free is, and how much of the block it has left.  *)
Position == cur.obj_index * OBJ_SIZE + (OBJ_SIZE - cur.chunk_size)
Rest == cur.size - cur.freed_size

(* The bytes of object o that carm_free has not counted and never will if  *)
(* nothing is freed: they were never handed out, the program owns them, or *)
(* the loop of carm_free has still to come to them.                        *)
Occupied(o) ==
    {b \in ObjectBytes(o) :
        \/ aspace_start <= b
        \/ \E a \in live : a <= b /\ b < a + allocation_map[a]
        \/ cur # Null /\ Position <= b /\ b < Position + Rest}

(* The blocks of the program and the one that is being freed lie below the *)
(* bump pointer and do not overlap.                                        *)
BlocksInv ==
    /\ aspace_start <= MaxObjects * OBJ_SIZE
    /\ \A a \in live : allocation_map[a] > 0 /\ a + allocation_map[a] <= aspace_start
    /\ \A a, b \in live : a < b => a + allocation_map[a] <= b
    /\ cur # Null =>
        /\ Rest > 0
        /\ Position + Rest <= aspace_start
        /\ \A a \in live : a + allocation_map[a] <= Position \/ Position + Rest <= a

CountInv == \A o \in Slots : free_list_map[o] + Cardinality(Occupied(o)) <= OBJ_SIZE

(* The objects that are freed as a whole; each is recycled at most once.   *)
Full == {o \in Slots : free_list_map[o] = OBJ_SIZE}

RecycleInv == total_obj_cnt <= NumObjects + Cardinality(Full)

AllocInv == TypeOK /\ ~aborted /\ BlocksInv /\ CountInv /\ RecycleInv

(* What holds when the program's demand is all it has ever asked for: the  *)
(* bump pointer stays within the object list; behind the list there is     *)
(* nothing but what a shrinking carm_realloc has touched; and an index     *)
(* loses its object only when the object is freed as a whole.              *)
OwnInv ==
    /\ aspace_start <= total_obj_cnt * OBJ_SIZE
    /\ \A o \in Slots \ overrun : total_obj_cnt <= o => ptrs[o] = Null /\ cached[o] = Null
    /\ \A o \in Slots : ptrs[o] # Null => ptrs[ptrs[o]] # Null
    /\ \A o \in Slots \ Full :
        /\ ptrs[o] # Null => obj_index[ptrs[o]] = o
        /\ cached[o] \in {Null, ptrs[o]} \/ o \in overrun
=============================================================================
