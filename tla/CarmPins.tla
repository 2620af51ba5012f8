------------------------------ MODULE CarmPins ------------------------------
(***************************************************************************)
(* A chunked loop over the dereference protocol.  carm_deref_loop_read and *)
(* carm_deref_loop_write of carm_loops.cpp give up the pin of the object   *)
(* the loop leaves, take the slow path to the next one, and pin its        *)
(* region.  The body then uses the address without guards, between guarded *)
(* stores whose slow paths leave the scope the chunk was dereferenced in.  *)
(* CarmLoops has the slots and the walk; here the evacuator runs at the    *)
(* same time.  Loops walk over the objects that are not Sources.           *)
(*                                                                         *)
(* What mark_region_not_evacutable does is AIFM's: an evacuation that      *)
(* starts later does not choose a pinned region.  One that has chosen it   *)
(* already goes on.                                                        *)
(***************************************************************************)
EXTENDS CarmCopy

CONSTANT NoObject    \* the object of a thread that is in no loop

ASSUME PinsAssumption == NoObject \notin Objects

VARIABLES
    pinned,   \* region_addr of the slot: the pinned frame, or none
    chunk,    \* the object the local pointer of the loop points into
    cptr,     \* the word with the address of that pointer
    mutable,  \* was the chunk dereferenced for writing?
    keeper    \* what keeps the object in its frame: its pin, the scope it was
              \* dereferenced in, or nothing

pinVars == <<pinned, chunk, cptr, mutable, keeper>>
everything == <<allVars, pinVars>>

InLoop == chunk # NoObject

NoChunk ==
    /\ pinned' = {}
    /\ chunk' = NoObject
    /\ cptr' = FLUSH_CACHE
    /\ mutable' = FALSE
    /\ keeper' = "none"

PinInit ==
    /\ CopyInit
    /\ pinned = {}
    /\ chunk = NoObject
    /\ cptr = FLUSH_CACHE
    /\ mutable = FALSE
    /\ keeper = "none"

(* carm_deref_loop_read or _write, from the preheader or from the back     *)
(* edge: the old region may be evacuated again, then the slow path starts. *)
ChunkDeref ==
    /\ pc = "idle"
    /\ pc' = "leave"
    /\ op' \in {"load", "store"}
    /\ \E o \in Objects \ Sources : obj' = o /\ dst' = o /\ src' = o
    /\ stage' = "chunk"
    /\ NoChunk
    /\ UNCHANGED <<ptrs, obj_state, in_scope, val, reg, ret, meta, local, far, scope, gcVars, d>>

(* Mutant: the region of the new object is not pinned. *)
ChunkNoPin ==
    /\ stage = "chunk"
    /\ pc = "slow"
    /\ chunk' = obj
    /\ cptr' = reg
    /\ mutable' = (op = "store")
    /\ keeper' = IF reg.addr \in held THEN "scope" ELSE "pin"
    /\ pc' = "idle"
    /\ op' = "none"
    /\ reg' = FLUSH_CACHE
    /\ stage' = "none"
    /\ UNCHANGED <<ptrs, obj_state, in_scope, obj, val, ret, meta, local, far, scope, gcVars,
                   dst, src, d, pinned>>

(* The slow path has returned: the region of the object is pinned.  One    *)
(* the evacuator has chosen before stays chosen.                           *)
ChunkPin ==
    /\ stage = "chunk"
    /\ pc = "slow"
    /\ pinned' = {reg.addr}
    /\ chunk' = obj
    /\ cptr' = reg
    /\ mutable' = (op = "store")
    /\ keeper' = IF reg.addr \in held THEN "scope" ELSE "pin"
    /\ pc' = "idle"
    /\ op' = "none"
    /\ reg' = FLUSH_CACHE
    /\ stage' = "none"
    /\ UNCHANGED <<ptrs, obj_state, in_scope, obj, val, ret, meta, local, far, scope, gcVars,
                   dst, src, d>>

(* An access of the loop body through the local pointer, without a guard. *)
ChunkStore ==
    /\ pc = "idle"
    /\ InLoop /\ mutable
    /\ \E v \in Values : local' = [local EXCEPT ![cptr.addr] = v]
    /\ UNCHANGED <<mutVars, meta, far, scope, gcVars, copyVars, pinVars>>

(* invalidate_loop_index at the exit of the loop. *)
LoopExit ==
    /\ pc = "idle"
    /\ InLoop
    /\ NoChunk
    /\ UNCHANGED allVars

(* A slow path leaves the scope the chunk was dereferenced in. *)
PinRelease ==
    /\ Release
    /\ keeper' = IF keeper = "scope" THEN "none" ELSE keeper
    /\ UNCHANGED <<copyVars, pinned, chunk, cptr, mutable>>

(* An evacuation does not choose pinned regions. *)
PinGcStart ==
    /\ GcStart
    /\ held' \cap pinned = {}
    /\ UNCHANGED <<copyVars, pinVars>>

PinNext ==
    \/ ChunkDeref \/ ChunkPin \/ ChunkStore \/ LoopExit \/ PinRelease \/ PinGcStart
    \/ /\ \/ StoreIssue \/ StoreAccess
          \/ ~InLoop /\ CopyStart   \* bound: no copy in the body of a loop
          \/ CopySource \/ CopyMove
       /\ UNCHANGED pinVars
    \/ /\ \/ Guard \/ Acquire \/ AllocateObject \/ Deref \/ Publish
          \/ GcStep \/ \E o \in Objects : Prefetch(o)
       /\ UNCHANGED <<copyVars, pinVars>>

PinSpec == PinInit /\ [][PinNext]_everything

-----------------------------------------------------------------------------
(* Properties *)

(* Type invariant of the loop over the protocol. *)
PinTypeOK ==
    /\ CopyTypeOK
    /\ pinned \in SUBSET Frames
    /\ chunk \in Objects \cup {NoObject}
    /\ cptr \in Metadata
    /\ mutable \in BOOLEAN
    /\ keeper \in {"none", "pin", "scope"}

(* The local pointer of a chunked loop stays good although the body takes  *)
(* slow paths: its object remains in the frame and is written back after   *)
(* the loop has stored into it.  That lasts to the end of the loop if the  *)
(* pin came before the evacuator chose the region, and otherwise to the    *)
(* next slow path.                                                         *)
ChunkStays ==
    InLoop /\ keeper # "none" =>
        /\ Current(cptr, chunk)
        /\ mutable => kDirtyClear \notin meta[chunk].bits

-----------------------------------------------------------------------------
(* The inductive invariant behind ChunkStays, on top of CoreInv. *)

(* A victim that is still where it was is in a region under evacuation. *)
HeldInv ==
    \A o \in Objects :
        /\ Present(o)
        /\ kEvacuationSet \in meta[o].bits \/ (phase = "mark" /\ gpc[o] = "todo")
        => meta[o].addr \in held

(* What keeps the object of the loop in its frame, and when. *)
KeeperInv ==
    /\ InLoop /\ keeper = "pin" => pinned = {cptr.addr} /\ cptr.addr \notin held
    /\ InLoop /\ keeper = "scope" =>
          pc \in {"idle", "guard", "leave", "fast"} /\ StaysInScope(chunk)

PinInv ==
    /\ CoreInv /\ StageInv /\ DestInv
    /\ PinTypeOK /\ HeldInv /\ KeeperInv /\ ChunkStays
=============================================================================
