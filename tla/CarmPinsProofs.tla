--------------------------- MODULE CarmPinsProofs ----------------------------
(***************************************************************************)
(* Proofs about CarmCopy and CarmPins: a raw address outlives the guard    *)
(* that produced it as long as a pin, or the scope it was dereferenced in, *)
(* keeps its object in place.                                              *)
(***************************************************************************)
EXTENDS CarmPins, CarmDerefProofs

-----------------------------------------------------------------------------
(* CoreInv: the protocol's own invariant is kept by the steps of           *)
(* carm_memcpy and of the chunked loop as well.                            *)

(* The copy asks for the address of its destination. *)
LEMMA CopyStartCore ==
    ASSUME CoreInv, CopyStart
    PROVE  CoreInv'
  <1>1. TypeOK'
    BY CopyAssumption DEF CoreInv, TypeOK, CopyStart, gcVars
  <1>2. FrameInv' /\ VictimInv' /\ ReportInv'
    BY DEF CoreInv, FrameInv, VictimInv, ReportInv, CopyStart, gcVars, Present, Current
  <1>3. ScopeInv'
    BY DEF CoreInv, ScopeInv, CopyStart, gcVars
  <1>4. RegInv' /\ WordInv'
    BY DEF CoreInv, RegInv, WordInv, CopyStart, gcVars
  <1>5. CacheCoherent'
    BY DEF CoreInv, CacheCoherent, CopyStart, gcVars, Present, Current
  <1> QED
    BY <1>1, <1>2, <1>3, <1>4, <1>5 DEF CoreInv

(* The copy turns to its source. *)
LEMMA CopySourceCore ==
    ASSUME CoreInv, src \in Objects, CopySource
    PROVE  CoreInv'
  <1>1. TypeOK'
    BY DEF CoreInv, TypeOK, CopySource, gcVars
  <1>2. FrameInv' /\ VictimInv' /\ ReportInv'
    BY DEF CoreInv, FrameInv, VictimInv, ReportInv, CopySource, gcVars, Present, Current
  <1>3. ScopeInv'
    BY DEF CoreInv, ScopeInv, CopySource, gcVars
  <1>4. RegInv' /\ WordInv'
    BY DEF CoreInv, RegInv, WordInv, CopySource, gcVars
  <1>5. CacheCoherent'
    BY DEF CoreInv, CacheCoherent, CopySource, gcVars, Present, Current
  <1> QED
    BY <1>1, <1>2, <1>3, <1>4, <1>5 DEF CoreInv

(* The memmove changes the contents of one frame, whatever object is in    *)
(* it.                                                                     *)
LEMMA CopyMoveCore ==
    ASSUME CoreInv, CopyMove
    PROVE  CoreInv'
  <1>1. TypeOK'
    <2>1. local[reg.addr] \in Values \cup {Undef}
      BY DEF CoreInv, TypeOK, WordInv, CopyMove
    <2>2. local' \in [Frames -> Values \cup {Undef}]
      BY <2>1 DEF CoreInv, TypeOK, CopyMove
    <2> QED
      BY <2>2, FlushNotFast DEF CoreInv, TypeOK, CopyMove, gcVars
  <1>2. FrameInv' /\ VictimInv' /\ ReportInv'
    BY DEF CoreInv, FrameInv, VictimInv, ReportInv, CopyMove, gcVars, Present, Current
  <1>3. ScopeInv'
    BY DEF CoreInv, ScopeInv, CopyMove, gcVars
  <1>4. RegInv' /\ WordInv'
    BY DEF CoreInv, RegInv, WordInv, CopyMove, gcVars
  <1>5. CacheCoherent'
    BY DEF CoreInv, CacheCoherent, CopyMove, gcVars, Present, Current
  <1> QED
    BY <1>1, <1>2, <1>3, <1>4, <1>5 DEF CoreInv

(* carm_deref_loop_read or _write starts its slow path. *)
LEMMA ChunkDerefCore ==
    ASSUME CoreInv, ChunkDeref
    PROVE  CoreInv'
  <1>1. TypeOK'
    BY DEF CoreInv, TypeOK, ChunkDeref, gcVars
  <1>2. FrameInv' /\ VictimInv' /\ ReportInv'
    BY DEF CoreInv, FrameInv, VictimInv, ReportInv, ChunkDeref, gcVars, Present, Current
  <1>3. ScopeInv'
    BY DEF CoreInv, ScopeInv, ChunkDeref, gcVars
  <1>4. RegInv' /\ WordInv'
    BY DEF CoreInv, RegInv, WordInv, ChunkDeref, gcVars
  <1>5. CacheCoherent'
    BY DEF CoreInv, CacheCoherent, ChunkDeref, gcVars, Present, Current
  <1> QED
    BY <1>1, <1>2, <1>3, <1>4, <1>5 DEF CoreInv

(* The region of the chunk is pinned. *)
LEMMA ChunkPinCore ==
    ASSUME CoreInv, ChunkPin
    PROVE  CoreInv'
  <1>1. TypeOK'
    BY FlushNotFast DEF CoreInv, TypeOK, ChunkPin, gcVars
  <1>2. FrameInv' /\ VictimInv' /\ ReportInv'
    BY DEF CoreInv, FrameInv, VictimInv, ReportInv, ChunkPin, gcVars, Present, Current
  <1>3. ScopeInv'
    BY DEF CoreInv, ScopeInv, ChunkPin, gcVars
  <1>4. RegInv' /\ WordInv'
    BY DEF CoreInv, RegInv, WordInv, ChunkPin, gcVars
  <1>5. CacheCoherent'
    BY DEF CoreInv, CacheCoherent, ChunkPin, gcVars, Present, Current
  <1> QED
    BY <1>1, <1>2, <1>3, <1>4, <1>5 DEF CoreInv

(* The loop body stores through its local pointer. *)
LEMMA ChunkStoreCore ==
    ASSUME CoreInv, ChunkStore
    PROVE  CoreInv'
  <1>1. TypeOK'
    <2>1. local' \in [Frames -> Values \cup {Undef}]
      BY DEF CoreInv, TypeOK, ChunkStore
    <2> QED
      BY <2>1 DEF CoreInv, TypeOK, ChunkStore, mutVars, gcVars
  <1>2. FrameInv' /\ VictimInv' /\ ReportInv'
    BY DEF CoreInv, FrameInv, VictimInv, ReportInv, ChunkStore, mutVars, gcVars, Present,
        Current
  <1>3. ScopeInv' /\ RegInv' /\ WordInv'
    BY DEF CoreInv, ScopeInv, RegInv, WordInv, ChunkStore, mutVars, gcVars, Present, Current
  <1>5. CacheCoherent'
    BY DEF CoreInv, CacheCoherent, ChunkStore, mutVars, gcVars, Present, Current
  <1> QED
    BY <1>1, <1>2, <1>3, <1>5 DEF CoreInv

(* The steps of the loop and of the copy that are not steps of CarmDeref. *)
NewStep == CopyStart \/ CopySource \/ CopyMove \/ ChunkDeref \/ ChunkPin \/ ChunkStore

(* Every other step is one of CarmDeref. *)
LEMMA PinNextCases ==
    ASSUME [PinNext]_everything
    PROVE  [Next]_vars \/ NewStep
  BY DEF PinNext, everything, allVars, StoreIssue, StoreAccess, LoopExit, PinRelease,
         PinGcStart, NewStep, Next, MutatorStep

(* The invariant of the protocol is kept by every step. *)
LEMMA PinNextCore ==
    ASSUME CoreInv, src \in Objects, [PinNext]_everything
    PROVE  CoreInv'
  <1>1. CASE [Next]_vars
    BY <1>1, NextCoreInv
  <1>2. CASE NewStep
    BY <1>2, CopyStartCore, CopySourceCore, CopyMoveCore, ChunkDerefCore, ChunkPinCore,
       ChunkStoreCore DEF NewStep
  <1> QED
    BY <1>1, <1>2, PinNextCases

-----------------------------------------------------------------------------
(* Objects that stay where they are. *)

(* The four bits of the metadata are different. *)
LEMMA BitsDiffer ==
    /\ kHotClear # kPresentClear /\ kHotClear # kEvacuationSet /\ kHotClear # kDirtyClear
    /\ kPresentClear # kEvacuationSet /\ kPresentClear # kDirtyClear
    /\ kEvacuationSet # kDirtyClear
  BY DEF kHotClear, kPresentClear, kEvacuationSet, kDirtyClear

(* A local object leaves its frame, or becomes clean, only in the last     *)
(* phase of an evacuation that has marked it, or on a dereference that     *)
(* finds the mark.                                                         *)
LEMMA StaysPut ==
    ASSUME CoreInv, NEW o \in Objects, Present(o), [Next]_vars,
           kEvacuationSet \in meta[o].bits => pc # "deref" /\ phase # "move"
    PROVE  /\ Present(o)'
           /\ meta'[o].addr = meta[o].addr
           /\ kDirtyClear \in meta'[o].bits => kDirtyClear \in meta[o].bits
  <1> USE DEF Present
  <1>0. /\ meta \in [Objects -> Metadata] /\ obj \in Objects
        /\ meta[o].bits \subseteq Bits
        /\ o \in ptrs /\ kPresentClear \notin meta[o].bits
    BY DEF CoreInv, TypeOK, Metadata
  <1>1. CASE \/ Issue \/ Guard \/ Release \/ Acquire \/ Publish \/ Access
             \/ GcStart \/ GcWait \/ GcScopesLeft \/ GcEnd \/ UNCHANGED vars
    <2>1. ptrs' = ptrs /\ meta' = meta
      BY <1>1 DEF Issue, Guard, Release, Acquire, Publish, Access, GcStart, GcWait,
                  GcScopesLeft, GcEnd, vars, mutVars
    <2> QED
      BY <1>0, <2>1
  <1>2. CASE AllocateObject
    BY <1>0, <1>2 DEF AllocateObject, CoreInv, ScopeInv
  <1>3. CASE DerefResident
    BY <1>0, <1>3 DEF DerefResident, Touched
  <1>4. CASE DerefRemote
    BY <1>0, <1>4 DEF DerefRemote
  <1>5. CASE DerefMigrate
    BY <1>0, <1>5 DEF DerefMigrate
  <1>6. CASE \E q \in Objects : Prefetch(q)
    BY <1>0, <1>6 DEF Prefetch, mutVars
  <1>7. ASSUME NEW q \in Objects, GcMark(q)
        PROVE  /\ Present(o)'
               /\ meta'[o].addr = meta[o].addr
               /\ kDirtyClear \in meta'[o].bits => kDirtyClear \in meta[o].bits
    BY <1>0, <1>7, BitsDiffer DEF GcMark, mutVars
  <1>8. ASSUME NEW q \in Objects,
               UpdateCacheLoad(q) \/ UpdateCacheStore(q) \/ GcSkip(q)
        PROVE  ptrs' = ptrs /\ meta' = meta
    BY <1>8 DEF UpdateCacheLoad, UpdateCacheStore, GcSkip, mutVars
  <1>9. ASSUME NEW q \in Objects, GcCopy(q) \/ GcWriteBack(q)
        PROVE  ptrs' = ptrs /\ meta'[o] = meta[o]
    BY <1>0, <1>9 DEF GcCopy, GcWriteBack, mutVars
  <1>10. CASE GcStep
    BY <1>0, <1>1, <1>7, <1>8, <1>9, <1>10 DEF GcStep, GcObject
  <1> QED
    BY <1>1, <1>2, <1>3, <1>4, <1>5, <1>6, <1>10 DEF Next, MutatorStep, Deref

(* The promise that an object stays while the scope is open outlasts every *)
(* step but the one that leaves the scope.                                 *)
LEMMA PromiseStays ==
    ASSUME CoreInv, NEW o \in Objects, Present(o), [Next]_vars,
           StaysInScope(o), pc # "enter", ~Release
    PROVE  StaysInScope(o)'
  <1>0. /\ meta \in [Objects -> Metadata] /\ obj \in Objects /\ o \in ptrs
        /\ scope
        /\ kEvacuationSet \in meta[o].bits => phase \notin {"idle", "move"}
    BY DEF CoreInv, TypeOK, ScopeInv, VictimInv, StaysInScope, Present
  <1>1. CASE \/ Issue \/ Guard \/ Acquire \/ Publish \/ Access \/ UNCHANGED vars
    BY <1>1 DEF Issue, Guard, Acquire, Publish, Access, vars, gcVars, StaysInScope
  <1>3. CASE AllocateObject
    BY <1>0, <1>3 DEF AllocateObject, gcVars, StaysInScope, CoreInv, ScopeInv
  <1>4. CASE Deref
    <2>1. CASE DerefResident
      BY <1>0, <2>1 DEF DerefResident, Touched, gcVars, StaysInScope
    <2>2. CASE DerefRemote
      BY <1>0, <2>2 DEF DerefRemote, Touched, gcVars, StaysInScope
    <2>3. CASE DerefMigrate
      BY <1>0, <2>3 DEF DerefMigrate, Touched, gcVars, StaysInScope
    <2> QED
      BY <1>4, <2>1, <2>2, <2>3 DEF Deref
  <1>5. CASE \E q \in Objects : Prefetch(q)
    BY <1>0, <1>5 DEF Prefetch, Present, gcVars, StaysInScope
  <1>6. CASE GcStart \/ GcWait \/ GcScopesLeft \/ GcEnd
    BY <1>0, <1>6 DEF GcStart, GcWait, GcScopesLeft, GcEnd, StaysInScope
  <1>7. ASSUME NEW q \in Objects, GcObject(q)
        PROVE  StaysInScope(o)'
    <2>1. CASE GcMark(q)
      BY <2>1 DEF GcMark, StaysInScope
    <2>2. CASE UpdateCacheLoad(q) \/ UpdateCacheStore(q) \/ GcSkip(q)
      BY <2>2 DEF UpdateCacheLoad, UpdateCacheStore, GcSkip, StaysInScope
    <2>3. CASE GcCopy(q) \/ GcWriteBack(q)
      BY <1>0, <2>3 DEF GcCopy, GcWriteBack, StaysInScope
    <2> QED
      BY <1>7, <2>1, <2>2, <2>3 DEF GcObject
  <1> QED
    BY <1>1, <1>3, <1>4, <1>5, <1>6, <1>7 DEF Next, MutatorStep, GcStep

-----------------------------------------------------------------------------
(* The parts of PinInv on top of CoreInv. *)

(* Victims lie in the regions under evacuation until they have been moved. *)
LEMMA HeldStep ==
    ASSUME CoreInv, HeldInv, [Next]_vars
    PROVE  HeldInv'
  <1> SUFFICES ASSUME NEW o \in Objects, Present(o)',
                      kEvacuationSet \in meta'[o].bits \/ (phase' = "mark" /\ gpc'[o] = "todo")
               PROVE  meta'[o].addr \in held'
    BY DEF HeldInv
  <1> USE DEF Present
  <1>0. meta \in [Objects -> Metadata] /\ gpc \in [Objects -> {"none", "todo", "load", "store", "done"}]
        /\ obj \in Objects
    BY DEF CoreInv, TypeOK
  <1>1. CASE \/ Issue \/ Guard \/ Release \/ Acquire \/ Publish \/ Access \/ UNCHANGED vars
    <2>1. UNCHANGED <<ptrs, meta, phase, gpc, held>>
      BY <1>1 DEF Issue, Guard, Release, Acquire, Publish, Access, vars, mutVars, gcVars
    <2> QED
      BY <2>1 DEF HeldInv
  <1>2. CASE AllocateObject
    BY <1>0, <1>2, BitsDiffer DEF AllocateObject, gcVars, HeldInv, CoreInv, ScopeInv, FrameInv
  <1>3. CASE DerefResident
    BY <1>0, <1>3 DEF DerefResident, Touched, gcVars, HeldInv
  <1>4. CASE DerefRemote
    BY <1>0, <1>4, BitsDiffer DEF DerefRemote, Touched, gcVars, HeldInv, CoreInv, VictimInv
  <1>5. CASE DerefMigrate
    BY <1>0, <1>5, BitsDiffer
      DEF DerefMigrate, Touched, gcVars, HeldInv, CoreInv, ScopeInv, VictimInv
  <1>6. CASE \E q \in Objects : Prefetch(q)
    BY <1>0, <1>6, BitsDiffer DEF Prefetch, mutVars, gcVars, HeldInv, CoreInv, VictimInv
  <1>7. CASE GcStart
    BY <1>0, <1>7 DEF GcStart, mutVars, HeldInv, CoreInv, VictimInv
  <1>8. CASE GcWait \/ GcScopesLeft
    BY <1>8 DEF GcWait, GcScopesLeft, mutVars, HeldInv
  <1>9. CASE GcEnd
    BY <1>9 DEF GcEnd, mutVars, CoreInv, VictimInv
  <1>10. ASSUME NEW q \in Objects, GcObject(q)
         PROVE  meta'[o].addr \in held'
    <2>1. CASE GcMark(q)
      BY <1>0, <2>1 DEF GcMark, mutVars, HeldInv
    <2>2. CASE UpdateCacheLoad(q)
      BY <1>0, <2>2 DEF UpdateCacheLoad, mutVars, HeldInv
    <2>3. CASE UpdateCacheStore(q)
      BY <1>0, <2>3 DEF UpdateCacheStore, HeldInv
    <2>4. CASE GcCopy(q)
      BY <1>0, <2>4, BitsDiffer DEF GcCopy, mutVars, HeldInv
    <2>5. CASE GcWriteBack(q)
      BY <1>0, <2>5 DEF GcWriteBack, mutVars, HeldInv
    <2>6. CASE GcSkip(q)
      BY <1>0, <2>6 DEF GcSkip, mutVars, HeldInv
    <2> QED
      BY <1>10, <2>1, <2>2, <2>3, <2>4, <2>5, <2>6 DEF GcObject
  <1> QED
    BY <1>1, <1>2, <1>3, <1>4, <1>5, <1>6, <1>7, <1>8, <1>9, <1>10
      DEF Next, MutatorStep, Deref, GcStep

(* No step of a copy or a loop touches a victim. *)
LEMMA PinHeldStep ==
    ASSUME CoreInv, HeldInv, [PinNext]_everything
    PROVE  HeldInv'
  <1>1. CASE NewStep
    <2>1. UNCHANGED <<ptrs, meta, phase, gpc, held>>
      BY <1>1 DEF NewStep, CopyStart, CopySource, CopyMove, ChunkDeref, ChunkPin, ChunkStore,
                  mutVars, gcVars
    <2> QED
      BY <2>1 DEF HeldInv, Present
  <1> QED
    BY <1>1, HeldStep, PinNextCases

(* The steps that concern no copy and no loop. *)
PlainStep ==
    \/ Guard \/ Acquire \/ AllocateObject \/ Deref \/ Publish
    \/ GcStep \/ \E o \in Objects : Prefetch(o)

(* The addresses a copy and a loop keep are metadata words of objects. *)
LEMMA PinTypeStep ==
    ASSUME CoreInv, PinTypeOK, [PinNext]_everything
    PROVE  PinTypeOK'
  <1>0. CoreInv' /\ reg \in Metadata /\ obj \in Objects /\ obj' \in Objects
    BY PinNextCore DEF CoreInv, TypeOK, PinTypeOK, CopyTypeOK
  <1>1. TypeOK'
    BY <1>0 DEF CoreInv
  <1> USE DEF PinTypeOK, CopyTypeOK
  <1>2. CASE CopyStart /\ UNCHANGED pinVars
    BY <1>1, <1>2, CopyAssumption DEF CopyStart, pinVars
  <1>3. CASE CopySource /\ UNCHANGED pinVars
    <2>1. reg.addr \in Frames
      BY <1>3 DEF CopySource, CoreInv, WordInv
    <2> QED
      BY <1>0, <1>1, <1>3, <2>1 DEF CopySource, pinVars
  <1>4. CASE CopyMove /\ UNCHANGED pinVars
    BY <1>0, <1>1, <1>4, FlushNotFast DEF CopyMove, pinVars
  <1>5. CASE StoreIssue /\ UNCHANGED pinVars
    BY <1>0, <1>1, <1>5 DEF StoreIssue, pinVars
  <1>6. CASE ChunkDeref
    BY <1>0, <1>1, <1>6, FlushNotFast DEF ChunkDeref, NoChunk
  <1>7. CASE ChunkPin
    <2>1. reg.addr \in Frames
      BY <1>7 DEF ChunkPin, CoreInv, WordInv
    <2> QED
      BY <1>0, <1>1, <1>7, <2>1 DEF ChunkPin
  <1>8. CASE ChunkStore
    BY <1>1, <1>8 DEF ChunkStore, copyVars, pinVars
  <1>9. CASE LoopExit
    BY <1>1, <1>9, FlushNotFast DEF LoopExit, NoChunk, allVars, copyVars
  <1>10. CASE PinRelease
    BY <1>1, <1>10 DEF PinRelease, copyVars
  <1>11. CASE UNCHANGED <<copyVars, pinVars>>
    BY <1>1, <1>11 DEF copyVars, pinVars
  <1> QED
    BY <1>2, <1>3, <1>4, <1>5, <1>6, <1>7, <1>8, <1>9, <1>10, <1>11
      DEF PinNext, everything, allVars, StoreAccess, PinGcStart

(* Each stage of a copy is at the access it says. *)
LEMMA StageStep ==
    ASSUME CoreInv, StageInv, [PinNext]_everything
    PROVE  StageInv'
  <1> USE DEF StageInv
  <1>1. CASE CopyStart \/ CopySource \/ CopyMove
    BY <1>1 DEF CopyStart, CopySource, CopyMove
  <1>2. CASE StoreIssue \/ StoreAccess
    BY <1>2 DEF StoreIssue, StoreAccess, Issue, Access, copyVars
  <1>3. CASE ChunkDeref \/ ChunkPin \/ ChunkStore
    BY <1>3 DEF ChunkDeref, ChunkPin, ChunkStore, mutVars, copyVars
  <1>4. CASE LoopExit \/ PinGcStart \/ PinRelease
    BY <1>4 DEF LoopExit, PinGcStart, PinRelease, allVars, vars, mutVars, copyVars, GcStart,
                Release
  <1>5. CASE PlainStep /\ UNCHANGED copyVars
    <2>1. CASE Guard \/ Acquire \/ AllocateObject \/ Publish
      BY <1>5, <2>1 DEF Guard, Acquire, AllocateObject, Publish, copyVars
    <2>2. CASE Deref
      BY <1>5, <2>2 DEF Deref, DerefResident, DerefRemote, DerefMigrate, copyVars
    <2>3. CASE GcStep \/ \E o \in Objects : Prefetch(o)
      <3>1. UNCHANGED <<pc, op, obj>>
        BY <2>3 DEF GcStep, GcObject, GcWait, GcScopesLeft, GcEnd, GcMark, UpdateCacheLoad,
                    UpdateCacheStore, GcCopy, GcWriteBack, GcSkip, Prefetch, mutVars
      <3> QED
        BY <1>5, <3>1 DEF copyVars
    <2> QED
      BY <1>5, <2>1, <2>2, <2>3 DEF PlainStep
  <1>6. CASE UNCHANGED everything
    BY <1>6 DEF everything, allVars, vars, mutVars, copyVars
  <1> QED
    BY <1>1, <1>2, <1>3, <1>4, <1>5, <1>6 DEF PinNext, PlainStep

(* The destination of a copy stays where it was dereferenced until the     *)
(* guard of the source has decided.                                        *)
LEMMA DestStep ==
    ASSUME CoreInv, StageInv, PinTypeOK, DestInv, [PinNext]_everything
    PROVE  DestInv'
  <1> SUFFICES ASSUME ~MarkRaces, stage' = "src", pc' \in {"guard", "fast"}
               PROVE  /\ Current(d, dst)'
                      /\ kDirtyClear \notin meta'[dst'].bits
                      /\ StaysInScope(dst)'
    BY DEF DestInv
  <1>1. CASE CopySource
    <2>1. /\ obj = dst /\ op = "store" /\ pc \in {"fast", "slow"}
          /\ d' = reg /\ dst' = dst
          /\ UNCHANGED <<ptrs, meta, phase, pending>>
      BY <1>1 DEF CopySource, StageInv, gcVars
    <2> QED
      BY <2>1 DEF CoreInv, RegInv, Current, Present, StaysInScope
  <1>2. CASE CopyStart \/ CopyMove \/ StoreIssue \/ ChunkDeref \/ ChunkPin \/ LoopExit
    BY <1>2 DEF CopyStart, CopyMove, StoreIssue, Issue, ChunkDeref, ChunkPin, LoopExit,
                StageInv, allVars, copyVars
  <1>3. CASE UNCHANGED <<stage, d, dst>> /\ [Next]_vars
    <2>1. pc \in {"guard", "fast"}
      BY <1>3 DEF StageInv, Next, MutatorStep, Issue, Guard, Release, Acquire, AllocateObject,
                  Deref, DerefResident, DerefRemote, DerefMigrate, Publish, Access, GcStart,
                  GcStep, GcObject, GcWait, GcScopesLeft, GcEnd, GcMark, UpdateCacheLoad,
                  UpdateCacheStore, GcCopy, GcWriteBack, GcSkip, Prefetch, mutVars, vars
    <2>2. /\ Current(d, dst) /\ kDirtyClear \notin meta[dst].bits /\ StaysInScope(dst)
          /\ dst \in Objects
      BY <1>3, <2>1 DEF DestInv, PinTypeOK, CopyTypeOK
    <2>3. Present(dst) /\ (kEvacuationSet \in meta[dst].bits => pc # "deref" /\ phase # "move")
      BY <2>1, <2>2 DEF Current, StaysInScope
    <2>4. /\ Present(dst)' /\ meta'[dst].addr = meta[dst].addr
          /\ kDirtyClear \notin meta'[dst].bits /\ StaysInScope(dst)'
      BY <1>3, <2>1, <2>2, <2>3, StaysPut, PromiseStays DEF Release
    <2> QED
      BY <1>3, <2>2, <2>4 DEF Current, Present, StaysInScope
  <1>4. CASE ChunkStore
    <2>1. UNCHANGED <<stage, d, dst, pc, ptrs, meta, phase, pending>>
      BY <1>4 DEF ChunkStore, mutVars, gcVars, copyVars
    <2> QED
      BY <2>1 DEF DestInv, Current, Present, StaysInScope
  <1> QED
    BY <1>1, <1>2, <1>3, <1>4, PinNextCases
      DEF PinNext, everything, allVars, copyVars, StoreAccess, PinGcStart, PinRelease, NewStep

(* What is kept of the chunk of a loop. *)
ChunkInv == PinTypeOK /\ HeldInv /\ KeeperInv /\ ChunkStays

(* A step of the protocol that is not the release of a scope leaves the    *)
(* chunk where it is: its pin keeps the evacuator away, or the open scope  *)
(* does.                                                                   *)
LEMMA ChunkPlainStep ==
    ASSUME CoreInv, ChunkInv, [Next]_vars, ~Release, held' \subseteq held,
           UNCHANGED pinVars
    PROVE  KeeperInv' /\ ChunkStays'
  <1> SUFFICES ASSUME InLoop
               PROVE  KeeperInv' /\ ChunkStays'
    BY DEF pinVars, InLoop, KeeperInv, ChunkStays
  <1>0. chunk \in Objects /\ UNCHANGED <<pinned, chunk, cptr, mutable, keeper>>
    BY DEF ChunkInv, PinTypeOK, InLoop, pinVars
  <1>1. CASE keeper = "pin"
    <2>1. /\ Current(cptr, chunk) /\ Present(chunk) /\ cptr.addr \notin held
          /\ kEvacuationSet \notin meta[chunk].bits
          /\ mutable => kDirtyClear \notin meta[chunk].bits
      BY <1>0, <1>1 DEF ChunkInv, KeeperInv, ChunkStays, HeldInv, Current
    <2>2. /\ Present(chunk)' /\ meta'[chunk].addr = meta[chunk].addr
          /\ kDirtyClear \in meta'[chunk].bits => kDirtyClear \in meta[chunk].bits
      BY <1>0, <2>1, StaysPut
    <2>3. ChunkStays'
      BY <1>0, <2>1, <2>2 DEF ChunkStays, Current, Present
    <2>4. KeeperInv'
      BY <1>0, <1>1, <2>1 DEF KeeperInv, ChunkInv
    <2> QED
      BY <2>3, <2>4
  <1>2. CASE keeper = "scope"
    <2>1. /\ Current(cptr, chunk) /\ Present(chunk) /\ StaysInScope(chunk)
          /\ pc \in {"idle", "guard", "leave", "fast"}
          /\ mutable => kDirtyClear \notin meta[chunk].bits
      BY <1>0, <1>2 DEF ChunkInv, KeeperInv, ChunkStays, Current
    <2>2. /\ Present(chunk)' /\ meta'[chunk].addr = meta[chunk].addr
          /\ kDirtyClear \in meta'[chunk].bits => kDirtyClear \in meta[chunk].bits
      BY <1>0, <2>1, StaysPut DEF StaysInScope
    <2>3. StaysInScope(chunk)'
      BY <1>0, <2>1, PromiseStays DEF StaysInScope
    <2>4. ChunkStays'
      BY <1>0, <2>1, <2>2 DEF ChunkStays, Current, Present
    <2>5. pc' \in {"idle", "guard", "leave", "fast"}
      BY <2>1 DEF Next, MutatorStep, Issue, Guard, Acquire, AllocateObject, Deref,
                  DerefResident, DerefRemote, DerefMigrate, Publish, Access, GcStart, GcStep,
                  GcObject, GcWait, GcScopesLeft, GcEnd, GcMark, UpdateCacheLoad,
                  UpdateCacheStore, GcCopy, GcWriteBack, GcSkip, Prefetch, mutVars, vars
    <2>6. KeeperInv'
      BY <1>0, <1>2, <2>3, <2>5 DEF KeeperInv
    <2> QED
      BY <2>4, <2>6
  <1>3. CASE keeper = "none"
    BY <1>0, <1>3 DEF KeeperInv, ChunkStays
  <1> QED
    BY <1>1, <1>2, <1>3 DEF ChunkInv, PinTypeOK

(* Leaving the scope leaves the chunk to its pin. *)
LEMMA ChunkReleaseStep ==
    ASSUME ChunkInv, PinRelease
    PROVE  KeeperInv' /\ ChunkStays'
  <1>1. /\ UNCHANGED <<pinned, chunk, cptr, mutable, held, ptrs, meta>>
        /\ keeper' # "scope" /\ (keeper' # "none" => keeper' = keeper)
    BY DEF PinRelease, Release, ChunkInv, PinTypeOK
  <1> QED
    BY <1>1 DEF ChunkInv, KeeperInv, ChunkStays, InLoop, Current, Present

(* An evacuation does not choose the pinned region. *)
LEMMA ChunkGcStartStep ==
    ASSUME CoreInv, ChunkInv, PinGcStart
    PROVE  KeeperInv' /\ ChunkStays'
  <1>1. /\ UNCHANGED <<pinned, chunk, cptr, mutable, keeper, ptrs, meta, pc>>
        /\ held' \cap pinned = {} /\ phase' = "mark"
    BY DEF PinGcStart, GcStart, mutVars, pinVars
  <1> QED
    BY <1>1 DEF ChunkInv, KeeperInv, ChunkStays, InLoop, Current, Present, StaysInScope

(* The chunk the loop has just entered is where the slow path says, and    *)
(* written back if the loop may write it.                                  *)
LEMMA ChunkPinStep ==
    ASSUME CoreInv, ChunkPin
    PROVE  KeeperInv' /\ ChunkStays'
  <1>1. /\ UNCHANGED <<held, ptrs, meta, phase, pending>>
        /\ pc = "slow" /\ pc' = "idle"
        /\ pinned' = {reg.addr} /\ chunk' = obj /\ cptr' = reg
        /\ mutable' = (op = "store")
        /\ keeper' = IF reg.addr \in held THEN "scope" ELSE "pin"
    BY DEF ChunkPin, gcVars
  <1>2. /\ Current(reg, obj)
        /\ op = "store" => kDirtyClear \notin meta[obj].bits
        /\ StaysInScope(obj)
    BY <1>1 DEF CoreInv, RegInv, StaysInScope
  <1> QED
    BY <1>1, <1>2 DEF KeeperInv, ChunkStays, InLoop, Current, Present, StaysInScope

(* No step takes the chunk of a loop from under its pin. *)
LEMMA ChunkStep ==
    ASSUME CoreInv, ChunkInv, [PinNext]_everything
    PROVE  KeeperInv' /\ ChunkStays'
  <1>1. CASE ChunkDeref \/ LoopExit
    BY <1>1 DEF ChunkDeref, LoopExit, NoChunk, InLoop, KeeperInv, ChunkStays
  <1>2. CASE ChunkPin
    BY <1>2, ChunkPinStep
  <1>3. CASE ChunkStore \/ ((CopyStart \/ CopySource \/ CopyMove) /\ UNCHANGED pinVars)
    <2>1. /\ UNCHANGED <<pinned, chunk, cptr, mutable, keeper, held, ptrs, meta, phase, pending>>
          /\ keeper = "scope" => pc' = pc \/ pc' \in {"idle", "guard"}
      BY <1>3 DEF ChunkStore, CopyStart, CopySource, CopyMove, mutVars, gcVars, pinVars
    <2> QED
      BY <2>1 DEF ChunkInv, KeeperInv, ChunkStays, InLoop, Current, Present, StaysInScope
  <1>4. CASE PinRelease \/ PinGcStart
    BY <1>4, ChunkReleaseStep, ChunkGcStartStep
  <1>5. CASE StoreIssue /\ UNCHANGED pinVars
    BY <1>5, ChunkPlainStep DEF StoreIssue, Issue, Release, Next, gcVars
  <1>6. CASE StoreAccess /\ UNCHANGED pinVars
    BY <1>6, ChunkPlainStep DEF StoreAccess, Access, Release, Next, MutatorStep, gcVars
  <1>7. CASE PlainStep /\ UNCHANGED pinVars
    <2>1. [Next]_vars
      BY <1>7 DEF PlainStep, Next, MutatorStep
    <2>2. held' \subseteq held
      BY <1>7 DEF PlainStep, Guard, Acquire, AllocateObject, Deref, DerefResident, DerefRemote,
                  DerefMigrate, Publish, GcStep, GcObject, GcWait, GcScopesLeft, GcEnd, GcMark,
                  UpdateCacheLoad, UpdateCacheStore, GcCopy, GcWriteBack, GcSkip, Prefetch,
                  gcVars
    <2>3. ~Release
      <3>1. CASE Guard \/ Acquire \/ AllocateObject \/ Deref \/ Publish
        BY <3>1 DEF Guard, Acquire, AllocateObject, Deref, DerefResident, DerefRemote,
                    DerefMigrate, Publish, Release
      <3>2. CASE GcStep \/ \E o \in Objects : Prefetch(o)
        <4>1. pc' = pc
          BY <3>2 DEF GcStep, GcObject, GcWait, GcScopesLeft, GcEnd, GcMark, UpdateCacheLoad,
                      UpdateCacheStore, GcCopy, GcWriteBack, GcSkip, Prefetch, mutVars
        <4> QED
          BY <4>1 DEF Release
      <3> QED
        BY <1>7, <3>1, <3>2 DEF PlainStep
    <2> QED
      BY <1>7, <2>1, <2>2, <2>3, ChunkPlainStep
  <1>8. CASE UNCHANGED everything
    BY <1>8 DEF everything, allVars, vars, mutVars, gcVars, pinVars, ChunkInv, KeeperInv,
                ChunkStays, InLoop, Current, Present, StaysInScope
  <1> QED
    BY <1>1, <1>2, <1>3, <1>4, <1>5, <1>6, <1>7, <1>8 DEF PinNext, PlainStep

-----------------------------------------------------------------------------
(* The inductive invariant and what it implies. *)

(* Before the program starts there is no copy and no loop. *)
LEMMA InitPinInv == PinInit => PinInv
  <1> SUFFICES ASSUME PinInit PROVE PinInv
    OBVIOUS
  <1>1. CoreInv
    BY InitIInv DEF PinInit, CopyInit, IInv
  <1>2. StageInv /\ DestInv
    BY DEF PinInit, CopyInit, Init, StageInv, DestInv
  <1>3. PinTypeOK
    BY <1>1, FlushNotFast DEF PinInit, CopyInit, CoreInv, TypeOK, PinTypeOK, CopyTypeOK
  <1>4. HeldInv
    BY DEF PinInit, CopyInit, Init, HeldInv, Present
  <1>5. KeeperInv /\ ChunkStays
    BY DEF PinInit, KeeperInv, ChunkStays, InLoop
  <1> QED
    BY <1>1, <1>2, <1>3, <1>4, <1>5 DEF PinInv

(* Nothing the program, the loops, the copies, the prefetcher or the       *)
(* evacuator does breaks it.                                               *)
LEMMA NextPinInv ==
    ASSUME PinInv, [PinNext]_everything
    PROVE  PinInv'
  <1> USE DEF PinInv
  <1>1. CoreInv'
    BY PinNextCore DEF PinTypeOK, CopyTypeOK
  <1>2. StageInv' /\ DestInv'
    BY StageStep, DestStep
  <1>3. PinTypeOK' /\ HeldInv'
    BY PinTypeStep, PinHeldStep
  <1>4. KeeperInv' /\ ChunkStays'
    BY ChunkStep DEF ChunkInv
  <1> QED
    BY <1>1, <1>2, <1>3, <1>4

(* The inductive invariant of loops and copies over the protocol: the      *)
(* protocol's own, which address each stage of a copy holds, and what      *)
(* keeps the chunk of a loop in place.                                     *)
THEOREM PinInductive == PinSpec => []PinInv
  BY InitPinInv, NextPinInv, PTL DEF PinSpec

(* Type correctness of the loop and the copy over the protocol; the        *)
(* address a copy keeps for its destination is always one of a frame.      *)
THEOREM PinTypeCorrect == PinSpec => []PinTypeOK
  <1>1. PinInv => PinTypeOK
    BY DEF PinInv
  <1> QED
    BY <1>1, PinInductive, PTL

(* The raw pointer carm_deref_loop_read or _write returns stays good for   *)
(* as long as its region is pinned, or the scope open, whatever the guarded *)
(* accesses of the loop body and the evacuator do.  This needs nothing of  *)
(* when the evacuator marks.                                               *)
THEOREM ChunksStay == PinSpec => []ChunkStays
  <1>1. PinInv => ChunkStays
    BY DEF PinInv
  <1> QED
    BY <1>1, PinInductive, PTL

(* carm_memcpy may use the address of its destination as long as the       *)
(* source has taken no slow path since.                                    *)
THEOREM DestinationsAreCurrent == ~MarkRaces => (PinSpec => []DestinationCurrent)
  <1> SUFFICES ASSUME ~MarkRaces PROVE PinSpec => []DestinationCurrent
    OBVIOUS
  <1>1. PinInv => DestinationCurrent
    BY DEF PinInv, DestInv, DestinationCurrent, StaysInScope
  <1> QED
    BY <1>1, PinInductive, PTL

(* The memmove of such a copy is the copy of the flat memory: it gives the *)
(* destination the contents of the source and changes nothing else.        *)
LEMMA MoveCopies ==
    ASSUME ~MarkRaces, PinInv, CopyMove, pc = "fast"
    PROVE  Contents' = [Contents EXCEPT ![dst] = Contents[src]]
  <1>1. /\ Present(dst) /\ d.addr = meta[dst].addr /\ dst \in Objects /\ src \in Objects
    BY DEF CopyMove, PinInv, PinTypeOK, CopyTypeOK, DestInv, Current
  <1>2. Present(src) /\ reg.addr = meta[src].addr
    BY DEF CopyMove, PinInv, StageInv, CoreInv, RegInv, Current
  <1>3. /\ local' = [local EXCEPT ![meta[dst].addr] = local[meta[src].addr]]
        /\ UNCHANGED <<ptrs, meta, far>>
    BY <1>1, <1>2 DEF CopyMove
  <1>4. \A o \in Objects : Present(o)' = Present(o)
    BY <1>3 DEF Present
  <1>5. /\ meta[dst].addr \in Frames
        /\ \A o \in Objects \ {dst} : Present(o) => meta[o].addr # meta[dst].addr
    BY <1>1 DEF PinInv, CoreInv, FrameInv
  <1>6. \A o \in Objects : Present(o) => meta[o].addr \in Frames
    BY DEF PinInv, CoreInv, FrameInv
  <1>7. \A o \in Objects : (IF Present(o)' THEN local'[meta'[o].addr] ELSE far'[o])
                            = (IF o = dst THEN Contents[src] ELSE Contents[o])
    BY <1>1, <1>2, <1>3, <1>4, <1>5, <1>6, ContentsValue DEF PinInv, CoreInv, TypeOK
  <1>8. Contents' = [o \in Objects |-> IF o = dst THEN Contents[src] ELSE Contents[o]]
    BY <1>7 DEF Contents
  <1> QED
    BY <1>8 DEF Contents

(* carm_memcpy between far objects copies, if the source needs no slow     *)
(* path after the destination.                                             *)
THEOREM FastCopiesArrive == ~MarkRaces => (PinSpec => CopyArrivesFast)
  <1> SUFFICES ASSUME ~MarkRaces PROVE PinSpec => CopyArrivesFast
    OBVIOUS
  <1>1. PinInv /\ [PinNext]_everything
          => [CopyMove /\ pc = "fast" => Contents' = [Contents EXCEPT ![dst] = Contents[src]]]_allVars
    BY MoveCopies
  <1> QED
    BY <1>1, PinInductive, PTL DEF PinSpec, CopyArrivesFast
=============================================================================
