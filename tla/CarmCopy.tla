------------------------------ MODULE CarmCopy ------------------------------
(***************************************************************************)
(* carm_memcpy with two far pointers, over the dereference protocol of     *)
(* CarmDeref: _ptrDeref of the destination, _ptrDeref of the source, then  *)
(* memmove between the two addresses.  The program fills objects with      *)
(* ordinary stores and copies them, while the evacuator and the prefetcher *)
(* run.  One object is one chunk of the loop.                              *)
(***************************************************************************)
EXTENDS CarmDeref

CONSTANT Sources    \* objects the program stores into and copies from; the
                    \* others are the destinations

ASSUME CopyAssumption == Sources \subseteq Objects

VARIABLES
    dst,    \* destination object of the copy
    src,    \* source object of the copy
    stage,  \* which pointer is being dereferenced: "none", "dst" or "src"
    d       \* the word with the address _ptrDeref returned for the destination

copyVars == <<dst, src, stage, d>>
allVars == <<vars, copyVars>>

CopyInit ==
    /\ Init
    /\ dst = obj
    /\ src = obj
    /\ stage = "none"
    /\ d = FLUSH_CACHE

(* A store of the program; dst and src mean nothing outside of a copy and  *)
(* follow obj.                                                             *)
StoreIssue ==
    /\ Issue /\ op' = "store" /\ obj' \in Sources
    /\ dst' = obj' /\ src' = obj'
    /\ UNCHANGED <<stage, d>>

StoreAccess == stage = "none" /\ Access /\ UNCHANGED copyVars

(* Mutant: the destination is dereferenced for reading. *)
CopyStartRead ==
    /\ pc = "idle"
    /\ pc' = "guard"
    /\ op' = "load"
    /\ dst' \in Objects \ Sources
    /\ src' \in Sources
    /\ obj' = dst'
    /\ stage' = "dst"
    /\ UNCHANGED <<ptrs, obj_state, in_scope, val, reg, ret, meta, local, far, scope, gcVars, d>>

(* carm_memcpy reaches a chunk: the destination is dereferenced first. *)
CopyStart ==
    /\ pc = "idle"
    /\ pc' = "guard"
    /\ op' = "store"
    /\ dst' \in Objects \ Sources
    /\ src' \in Sources
    /\ obj' = dst'
    /\ stage' = "dst"
    /\ UNCHANGED <<ptrs, obj_state, in_scope, val, reg, ret, meta, local, far, scope, gcVars, d>>

(* Mutant: the address of the destination is not kept. *)
CopySourceStale ==
    /\ stage = "dst"
    /\ pc \in {"fast", "slow"}
    /\ stage' = "src"
    /\ pc' = "guard"
    /\ op' = "load"
    /\ obj' = src
    /\ UNCHANGED <<ptrs, obj_state, in_scope, val, reg, ret, meta, local, far, scope, gcVars,
                   dst, src, d>>

(* _ptrDeref of the destination has returned; the source is next. *)
CopySource ==
    /\ stage = "dst"
    /\ pc \in {"fast", "slow"}
    /\ d' = reg
    /\ stage' = "src"
    /\ pc' = "guard"
    /\ op' = "load"
    /\ obj' = src
    /\ UNCHANGED <<ptrs, obj_state, in_scope, val, reg, ret, meta, local, far, scope, gcVars,
                   dst, src>>

(* memmove between the two addresses. *)
CopyMove ==
    /\ stage = "src"
    /\ pc \in {"fast", "slow"}
    /\ local' = [local EXCEPT ![d.addr] = local[reg.addr]]
    /\ pc' = "idle"
    /\ op' = "none"
    /\ reg' = FLUSH_CACHE
    /\ d' = FLUSH_CACHE
    /\ stage' = "none"
    /\ dst' = obj /\ src' = obj
    /\ UNCHANGED <<ptrs, obj_state, in_scope, obj, val, ret, meta, far, scope, gcVars>>

PtrDeref == Guard \/ Release \/ Acquire \/ AllocateObject \/ Deref \/ Publish

CopyNext ==
    \/ StoreIssue \/ StoreAccess \/ CopyStart \/ CopySource \/ CopyMove
    \/ /\ PtrDeref \/ GcStart \/ GcStep \/ \E o \in Objects : Prefetch(o)
       /\ UNCHANGED copyVars

CopySpec == CopyInit /\ [][CopyNext]_allVars

-----------------------------------------------------------------------------
(* Properties *)

(* Type invariant of the copy. *)
CopyTypeOK ==
    /\ TypeOK
    /\ dst \in Objects /\ src \in Objects
    /\ stage \in {"none", "dst", "src", "chunk"}   \* "chunk" occurs in CarmPins
    /\ d \in Metadata
    /\ stage = "src" => d.addr \in Frames

(* The copy arrives: the memmove that ends it gives the destination, as    *)
(* the program sees it, the contents of the source, and changes no other   *)
(* object.                                                                 *)
CopyArrives ==
    [][CopyMove => Contents' = [Contents EXCEPT ![dst] = Contents[src]]]_allVars

(* The copy arrives whenever the source needs no slow path after the       *)
(* destination was dereferenced.                                           *)
CopyArrivesFast ==
    [][CopyMove /\ pc = "fast" => Contents' = [Contents EXCEPT ![dst] = Contents[src]]]_allVars

(* Both addresses stay good while one scope is open: with the source on    *)
(* the fast path the destination is where d says, will be written back,    *)
(* and is not moved before the thread leaves the scope.                    *)
DestinationCurrent ==
    stage = "src" /\ pc = "fast" =>
        /\ Current(d, dst)
        /\ kDirtyClear \notin meta[dst].bits
        /\ kEvacuationSet \in meta[dst].bits => phase = "mark" \/ (phase = "wait" /\ pending)

-----------------------------------------------------------------------------
(* The inductive invariant behind DestinationCurrent and CopyArrivesFast,  *)
(* on top of CoreInv.                                                      *)

(* The evacuator will not move the object before the thread leaves the     *)
(* scope that is open.                                                     *)
StaysInScope(o) ==
    kEvacuationSet \in meta[o].bits => phase = "mark" \/ (phase = "wait" /\ pending)

(* Which access each stage of the copy is at. *)
StageInv ==
    /\ pc = "idle" => stage = "none"
    /\ stage = "dst" => obj = dst /\ op = "store"
    /\ stage = "src" => obj = src /\ op = "load"

(* From the dereference of the destination to the guard of the source. *)
DestInv ==
    ~MarkRaces /\ stage = "src" /\ pc \in {"guard", "fast"} =>
        /\ Current(d, dst)
        /\ kDirtyClear \notin meta[dst].bits
        /\ StaysInScope(dst)
=============================================================================
