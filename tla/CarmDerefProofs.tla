-------------------------- MODULE CarmDerefProofs ---------------------------
(***************************************************************************)
(* Proofs about CarmDeref: the inductive invariant, the safety properties  *)
(* it implies, and the refinement of FlatMemory.                           *)
(***************************************************************************)
EXTENDS CarmDeref, TLAPS

(* A word accepted for a store is accepted for a load. *)
LEMMA FastForLoad ==
    ASSUME NEW m, NEW k, FastFor(m, k)
    PROVE  FastFor(m, "load")
  BY DEF FastFor, Exceptions

(* The word FLUSH_CACHE sends every guard to the slow path. *)
LEMMA FlushNotFast == FLUSH_CACHE \in Metadata /\ ~FastFor(FLUSH_CACHE, "load")
  BY DEF FLUSH_CACHE, Metadata, FastFor, Exceptions, Bits

(* The initial state, with every cached word flushed, satisfies the        *)
(* inductive invariant.                                                    *)
LEMMA InitIInv == Init => IInv
  <1> SUFFICES ASSUME Init PROVE IInv
    OBVIOUS
  <1>0. FLUSH_CACHE \in Metadata /\ ~FastFor(FLUSH_CACHE, "load")
    BY DEF FLUSH_CACHE, Metadata, FastFor, Exceptions, Bits
  <1>0a. kPresentClear \in FLUSH_CACHE.bits
    BY DEF FLUSH_CACHE, Bits
  <1>1. TypeOK
    BY <1>0 DEF Init, TypeOK
  <1>2. ScopeInv
    BY DEF Init, ScopeInv
  <1>3. FrameInv
    BY <1>0a DEF Init, FrameInv, Present
  <1>4. VictimInv
    BY DEF Init, VictimInv, Present
  <1>5. ReportInv
    BY DEF Init, ReportInv
  <1>6. RegInv
    BY DEF Init, RegInv
  <1>7. CacheCoherent
    BY <1>0 DEF Init, CacheCoherent
  <1>8. CleanInv
    BY DEF Init, CleanInv, Present
  <1>9. WordInv
    BY <1>0 DEF Init, WordInv
  <1> QED
    BY <1>1, <1>2, <1>3, <1>4, <1>5, <1>6, <1>7, <1>8, <1>9 DEF IInv, CoreInv

-----------------------------------------------------------------------------
(* One lemma per action: it preserves the inductive invariant, and the part *)
(* about clean objects on top of it. *)

(* The program reaches a load or store. *)
LEMMA IssueStep ==
    ASSUME CoreInv, Issue
    PROVE  CoreInv' /\ (CleanInv => CleanInv')
  <1>1. TypeOK'
    BY DEF CoreInv, TypeOK, Issue, gcVars
  <1>2. FrameInv' /\ VictimInv' /\ ReportInv' /\ (CleanInv => CleanInv')
    BY DEF CoreInv, FrameInv, VictimInv, ReportInv, CleanInv, Issue, gcVars, Present, Current
  <1>3. ScopeInv'
    BY DEF CoreInv, ScopeInv, Issue, gcVars
  <1>4. RegInv'
    BY DEF RegInv, Issue
  <1>5. CacheCoherent'
    BY DEF CoreInv, CacheCoherent, Issue, gcVars, Present, Current
  <1>6. WordInv'
    BY DEF CoreInv, WordInv, Issue, gcVars
  <1> QED
    BY <1>1, <1>2, <1>3, <1>4, <1>5, <1>6 DEF CoreInv

(* The guard reads the cached word; what it accepts is current, so its     *)
(* object exists.                                                          *)
LEMMA GuardStep ==
    ASSUME CoreInv, Guard
    PROVE  CoreInv' /\ (CleanInv => CleanInv')
  <1>1. TypeOK'
    BY DEF CoreInv, TypeOK, Guard, gcVars
  <1>2. FrameInv' /\ VictimInv' /\ ReportInv' /\ (CleanInv => CleanInv')
    BY DEF CoreInv, FrameInv, VictimInv, ReportInv, CleanInv, Guard, gcVars, Present, Current
  <1>3. ScopeInv'
    <2>1. ASSUME pc' = "fast" PROVE in_scope
      <3>1. FastFor(obj_state[obj], "load")
        BY <2>1, FastForLoad DEF Guard
      <3>2. obj \in ptrs
        BY <3>1 DEF Guard, CoreInv, TypeOK, CacheCoherent, Current, Present, FrameInv
      <3> QED BY <3>2 DEF CoreInv, ScopeInv
    <2> QED BY <2>1 DEF Guard, CoreInv, TypeOK, ScopeInv, gcVars
  <1>4. RegInv'
    BY DEF CoreInv, TypeOK, VictimInv, CacheCoherent, ReportInv, RegInv, Guard, gcVars, Present,
        Current, FastFor, Exceptions
  <1>5. CacheCoherent'
    BY DEF CoreInv, CacheCoherent, Guard, gcVars, Present, Current
  <1>6. WordInv'
    BY DEF CoreInv, TypeOK, WordInv, Guard, gcVars, FastFor, Exceptions
  <1> QED
    BY <1>1, <1>2, <1>3, <1>4, <1>5, <1>6 DEF CoreInv

(* The slow path leaves the scope of the one before. *)
LEMMA ReleaseStep ==
    ASSUME CoreInv, Release
    PROVE  CoreInv' /\ (CleanInv => CleanInv')
  <1>1. TypeOK'
    BY DEF CoreInv, TypeOK, Release
  <1>2. FrameInv' /\ VictimInv' /\ ReportInv' /\ (CleanInv => CleanInv')
    BY DEF CoreInv, FrameInv, VictimInv, ReportInv, CleanInv, Release, Present, Current
  <1>3. ScopeInv'
    BY DEF CoreInv, ScopeInv, Release
  <1>4. RegInv'
    BY DEF RegInv, Release
  <1>5. CacheCoherent'
    BY DEF CoreInv, CacheCoherent, Release, Present, Current
  <1>6. WordInv'
    BY DEF CoreInv, WordInv, Release
  <1> QED
    BY <1>1, <1>2, <1>3, <1>4, <1>5, <1>6 DEF CoreInv

(* The slow path opens its own scope. *)
LEMMA AcquireStep ==
    ASSUME CoreInv, Acquire
    PROVE  CoreInv' /\ (CleanInv => CleanInv')
  <1>1. TypeOK'
    BY DEF CoreInv, TypeOK, Acquire, gcVars
  <1>2. FrameInv' /\ VictimInv' /\ ReportInv' /\ (CleanInv => CleanInv')
    BY DEF CoreInv, FrameInv, VictimInv, ReportInv, CleanInv, Acquire, gcVars, Present, Current
  <1>3. ScopeInv'
    BY DEF CoreInv, ScopeInv, Acquire, gcVars
  <1>4. RegInv'
    BY DEF RegInv, Acquire
  <1>5. CacheCoherent'
    BY DEF CoreInv, CacheCoherent, Acquire, gcVars, Present, Current
  <1>6. WordInv'
    BY DEF CoreInv, WordInv, Acquire, gcVars
  <1> QED
    BY <1>1, <1>2, <1>3, <1>4, <1>5, <1>6 DEF CoreInv

(* The first access to an object creates it in a free frame. *)
LEMMA AllocateObjectStep ==
    ASSUME CoreInv, AllocateObject
    PROVE  CoreInv' /\ (CleanInv => CleanInv')
  <1>1. TypeOK'
    BY DEF CoreInv, TypeOK, AllocateObject, gcVars, Metadata, FreeFrames, Bits
  <1>2. ScopeInv'
    BY DEF CoreInv, ScopeInv, AllocateObject, gcVars
  <1>3. FrameInv'
    BY DEF CoreInv, FrameInv, AllocateObject, gcVars, Present, FreeFrames
  <1>4. VictimInv'
    <2> USE DEF CoreInv
    <2>1. PICK f \in FreeFrames, b \in SUBSET {kHotClear, kDirtyClear} :
             meta' = [meta EXCEPT ![obj] = [bits |-> b, addr |-> f]]
      BY DEF AllocateObject
    <2>2. /\ obj \in Objects /\ obj \notin ptrs /\ gpc[obj] = "none"
          /\ ptrs' = ptrs \cup {obj}
          /\ gpc' = gpc /\ held' = held /\ phase' = phase
      BY DEF AllocateObject, TypeOK, ScopeInv, FrameInv, gcVars
    <2>3. /\ meta'[obj] = [bits |-> b, addr |-> f]
          /\ \A o \in Objects : o # obj => meta'[o] = meta[o]
      BY <2>1, <2>2 DEF TypeOK
    <2>4. \A o \in Objects : o # obj => (Present(o)' <=> Present(o))
      BY <2>2, <2>3 DEF Present
    <2>5. f \notin held
      BY DEF FreeFrames
    <2>6. kEvacuationSet \notin b /\ kPresentClear \notin b
      BY DEF kEvacuationSet, kHotClear, kDirtyClear, kPresentClear
    <2>7. /\ phase' = "idle" => held' = {} /\ \A o \in Objects : gpc'[o] = "none"
          /\ phase' = "wait" => \A o \in Objects : gpc'[o] \in {"none", "done"}
      BY <2>2 DEF VictimInv
    <2>8. ASSUME NEW o \in Objects, gpc'[o] # "none"
          PROVE  Present(o)' \/ (phase' = "move" /\ gpc'[o] # "todo")
      BY <2>2, <2>4, <2>8 DEF VictimInv
    <2>9. ASSUME NEW o \in ptrs', kEvacuationSet \in meta'[o].bits
          PROVE  /\ Present(o)'
                 /\ \/ phase' = "mark" /\ gpc'[o] \in {"load", "store", "done"}
                    \/ phase' = "wait" /\ gpc'[o] = "done"
                    \/ phase' = "move" /\ gpc'[o] = "todo"
      <3>1. o # obj /\ o \in ptrs /\ o \in Objects
        BY <2>2, <2>3, <2>6, <2>9 DEF TypeOK
      <3> QED
        BY <2>2, <2>3, <2>4, <2>9, <3>1 DEF VictimInv
    <2>10. ASSUME NEW o \in Objects, Present(o)', meta'[o].addr \in held'
           PROVE  kEvacuationSet \in meta'[o].bits \/ (phase' = "mark" /\ gpc'[o] = "todo")
      <3>1. o # obj
        BY <2>2, <2>3, <2>5, <2>10
      <3> QED
        BY <2>2, <2>3, <2>4, <2>10, <3>1 DEF VictimInv
    <2> QED
      BY <2>7, <2>8, <2>9, <2>10 DEF VictimInv
  <1>5. ReportInv'
    BY DEF CoreInv, TypeOK, ScopeInv, FrameInv, ReportInv, AllocateObject, gcVars, Present,
        Current
  <1>6. RegInv'
    BY DEF RegInv, AllocateObject
  <1>7. CacheCoherent'
    BY DEF CoreInv, ScopeInv, CacheCoherent, AllocateObject, gcVars, Present, Current
  <1>8. WordInv'
    BY DEF CoreInv, WordInv, AllocateObject, gcVars
  <1>9. CleanInv => CleanInv'
    BY DEF CoreInv, TypeOK, ScopeInv, FrameInv, CleanInv, AllocateObject, Present, FreeFrames
  <1> QED
    BY <1>1, <1>2, <1>3, <1>4, <1>5, <1>6, <1>7, <1>8, <1>9 DEF CoreInv

(* A dereference of an object that stays where it is. *)
LEMMA DerefResidentStep ==
    ASSUME CoreInv, DerefResident
    PROVE  CoreInv' /\ (CleanInv => CleanInv')
  <1>1. TypeOK'
    BY DEF CoreInv, TypeOK, DerefResident, gcVars, Metadata, Touched
  <1>2. ScopeInv'
    BY DEF CoreInv, ScopeInv, DerefResident, gcVars
  <1>3. FrameInv'
    BY DEF CoreInv, FrameInv, DerefResident, gcVars, Present
  <1>4. VictimInv'
    BY DEF CoreInv, VictimInv, DerefResident, gcVars, Present, Touched
  <1>5. ReportInv'
    BY DEF CoreInv, ReportInv, DerefResident, gcVars, Present, Current, Touched
  <1>6. RegInv'
    BY DEF CoreInv, TypeOK, FrameInv, RegInv, DerefResident, Present, Current, Touched
  <1>7. CacheCoherent'
    BY DEF CoreInv, CacheCoherent, DerefResident, gcVars, Present, Current
  <1>8. WordInv'
    BY DEF CoreInv, WordInv, DerefResident, gcVars
  <1>9. CleanInv => CleanInv'
    BY DEF CoreInv, CleanInv, DerefResident, Present, Touched
  <1> QED
    BY <1>1, <1>2, <1>3, <1>4, <1>5, <1>6, <1>7, <1>8, <1>9 DEF CoreInv

(* A dereference that swaps the object in. *)
LEMMA DerefRemoteStep ==
    ASSUME CoreInv, DerefRemote
    PROVE  CoreInv' /\ (CleanInv => CleanInv')
  <1>1. TypeOK'
    BY DEF CoreInv, TypeOK, DerefRemote, gcVars, Metadata, FreeFrames, Touched, Bits
  <1>2. ScopeInv'
    BY DEF CoreInv, ScopeInv, DerefRemote, gcVars
  <1>3. FrameInv'
    BY DEF CoreInv, ScopeInv, FrameInv, DerefRemote, gcVars, Present, FreeFrames
  <1>4. VictimInv'
    BY DEF CoreInv, VictimInv, DerefRemote, gcVars, Present, FreeFrames, Touched
  <1>5. ReportInv'
    BY DEF CoreInv, ReportInv, DerefRemote, gcVars, Present, Current, Touched
  <1>6. RegInv'
    BY DEF CoreInv, TypeOK, ScopeInv, RegInv, DerefRemote, Present, Current, Touched
  <1>7. CacheCoherent'
    BY DEF CoreInv, CacheCoherent, DerefRemote, gcVars, Present, Current
  <1>8. WordInv'
    BY DEF CoreInv, WordInv, DerefRemote, gcVars
  <1>9. CleanInv => CleanInv'
    BY DEF CoreInv, TypeOK, CleanInv, DerefRemote, Present, FreeFrames
  <1> QED
    BY <1>1, <1>2, <1>3, <1>4, <1>5, <1>6, <1>7, <1>8, <1>9 DEF CoreInv

(* A dereference that moves a victim out of its region. *)
LEMMA DerefMigrateStep ==
    ASSUME CoreInv, DerefMigrate
    PROVE  CoreInv' /\ (CleanInv => CleanInv')
  <1>1. TypeOK'
    BY DEF CoreInv, TypeOK, FrameInv, VictimInv, DerefMigrate, gcVars, Metadata, FreeFrames,
        Touched
  <1>2. ScopeInv'
    BY DEF CoreInv, ScopeInv, DerefMigrate, gcVars
  <1>3. FrameInv'
    BY DEF CoreInv, FrameInv, DerefMigrate, gcVars, Present, FreeFrames
  <1>4. VictimInv'
    BY DEF CoreInv, VictimInv, DerefMigrate, gcVars, Present, FreeFrames, Touched
  <1>5. ReportInv'
    BY DEF CoreInv, ReportInv, DerefMigrate, gcVars, Present, Current, FastFor, Exceptions
  <1>6. RegInv'
    BY DEF CoreInv, TypeOK, FrameInv, RegInv, DerefMigrate, Present, Current, Touched
  <1>7. CacheCoherent'
    BY DEF CoreInv, CacheCoherent, DerefMigrate, gcVars, Present, Current
  <1>8. WordInv'
    BY DEF CoreInv, WordInv, DerefMigrate, gcVars
  <1>9. CleanInv => CleanInv'
    BY DEF CoreInv, TypeOK, CleanInv, DerefMigrate, Present, FreeFrames, Touched
  <1> QED
    BY <1>1, <1>2, <1>3, <1>4, <1>5, <1>6, <1>7, <1>8, <1>9 DEF CoreInv

(* The slow path stores the word it was given. *)
LEMMA PublishStep ==
    ASSUME CoreInv, Publish
    PROVE  CoreInv' /\ (CleanInv => CleanInv')
  <1>1. TypeOK'
    BY DEF CoreInv, TypeOK, Publish, gcVars
  <1>2. FrameInv' /\ VictimInv' /\ (CleanInv => CleanInv')
    BY DEF CoreInv, FrameInv, VictimInv, CleanInv, Publish, gcVars, Present
  <1>3. ScopeInv'
    BY DEF CoreInv, ScopeInv, Publish, gcVars
  <1>4. ReportInv'
    BY DEF CoreInv, RegInv, ReportInv, Publish, gcVars, Present, Current
  <1>5. RegInv'
    BY DEF CoreInv, RegInv, Publish, gcVars, Present, Current
  <1>6. CacheCoherent'
    BY DEF CoreInv, TypeOK, RegInv, CacheCoherent, Publish, gcVars, Present, Current
  <1>7. WordInv'
    BY DEF CoreInv, TypeOK, FrameInv, RegInv, WordInv, Publish, gcVars, Current
  <1> QED
    BY <1>1, <1>2, <1>3, <1>4, <1>5, <1>6, <1>7 DEF CoreInv

(* The load or store; a store goes to an object that is not clean. *)
LEMMA AccessStep ==
    ASSUME CoreInv, Access
    PROVE  CoreInv' /\ (CleanInv => CleanInv')
  <1>1. TypeOK'
     <2>1. reg.addr \in Frames BY DEF CoreInv, WordInv, Access
     <2>2. ret' \in Values \cup {Undef} /\ local' \in [Frames -> Values \cup {Undef}]
       BY <2>1 DEF CoreInv, Access, TypeOK
     <2> QED BY <2>2, FlushNotFast DEF CoreInv, Access, TypeOK, gcVars
  <1>2. FrameInv' /\ VictimInv' /\ ReportInv'
    BY DEF CoreInv, FrameInv, VictimInv, ReportInv, Access, gcVars, Present, Current
  <1>3. ScopeInv'
    BY DEF CoreInv, ScopeInv, Access, gcVars
  <1>4. RegInv'
    BY DEF RegInv, Access
  <1>5. CacheCoherent'
    BY DEF CoreInv, CacheCoherent, Access, gcVars, Present, Current
  <1>6. WordInv'
    BY DEF CoreInv, WordInv, Access, gcVars
  <1>7. CleanInv => CleanInv'
     <2> SUFFICES ASSUME CleanInv, ~MarkRaces, NEW o \in Objects, Present(o), kDirtyClear \in meta[o].bits
          PROVE local'[meta[o].addr] = far[o]
       BY DEF CleanInv, Access, Present
     <2>1. local[meta[o].addr] = far[o] /\ meta[o].addr \in Frames
       BY DEF CoreInv, CleanInv, FrameInv
     <2>2. /\ reg.addr = meta[obj].addr /\ Present(obj)
           /\ op = "store" => kDirtyClear \notin meta[obj].bits
       BY DEF CoreInv, RegInv, Access, Current
     <2>3. op = "store" => meta[o].addr # reg.addr
       BY <2>2 DEF CoreInv, FrameInv, TypeOK
     <2> QED BY <2>1, <2>3 DEF Access, CoreInv, TypeOK
  <1> QED
    BY <1>1, <1>2, <1>3, <1>4, <1>5, <1>6, <1>7 DEF CoreInv

(* A prefetch of a remote object. *)
LEMMA PrefetchStep ==
    ASSUME CoreInv, NEW q \in Objects, Prefetch(q)
    PROVE  CoreInv' /\ (CleanInv => CleanInv')
  <1>1. TypeOK'
    BY DEF CoreInv, TypeOK, Prefetch, mutVars, gcVars, Metadata, FreeFrames, Bits
  <1>2. ScopeInv' /\ WordInv'
    BY DEF CoreInv, ScopeInv, WordInv, Prefetch, mutVars, gcVars
  <1>3. FrameInv'
    BY DEF CoreInv, FrameInv, Prefetch, mutVars, gcVars, Present, FreeFrames
  <1>4. VictimInv'
    BY DEF CoreInv, VictimInv, Prefetch, mutVars, gcVars, Present, FreeFrames, kHotClear,
        kEvacuationSet, kDirtyClear
  <1>5. ReportInv'
    BY DEF CoreInv, ReportInv, Prefetch, mutVars, gcVars, Present, Current, kHotClear,
        kEvacuationSet, kDirtyClear
  <1>6. RegInv'
    BY DEF CoreInv, RegInv, Prefetch, mutVars, gcVars, Present, Current
  <1>7. CacheCoherent'
    BY DEF CoreInv, CacheCoherent, Prefetch, mutVars, gcVars, Present, Current
  <1>8. CleanInv => CleanInv'
    BY DEF CoreInv, TypeOK, CleanInv, Prefetch, mutVars, Present, FreeFrames
  <1> QED
    BY <1>1, <1>2, <1>3, <1>4, <1>5, <1>6, <1>7, <1>8 DEF CoreInv

(* The evacuator picks its victims. *)
LEMMA GcStartStep ==
    ASSUME CoreInv, GcStart
    PROVE  CoreInv' /\ (CleanInv => CleanInv')
  <1>1. TypeOK'
    BY DEF CoreInv, TypeOK, FrameInv, GcStart, mutVars
  <1>2. WordInv' /\ (CleanInv => CleanInv')
    BY DEF CoreInv, WordInv, CleanInv, GcStart, mutVars, Present
  <1>3. ScopeInv'
    BY DEF CoreInv, ScopeInv, GcStart, mutVars
  <1>4. FrameInv'
    BY DEF CoreInv, FrameInv, GcStart, mutVars, Present
  <1>5. VictimInv'
    BY DEF CoreInv, FrameInv, VictimInv, GcStart, mutVars, Present
  <1>6. ReportInv'
    BY DEF CoreInv, VictimInv, ReportInv, GcStart, mutVars
  <1>7. RegInv'
    BY DEF CoreInv, RegInv, GcStart, mutVars, Present, Current
  <1>8. CacheCoherent'
    BY DEF CoreInv, CacheCoherent, GcStart, mutVars, Present, Current
  <1> QED
    BY <1>1, <1>2, <1>3, <1>4, <1>5, <1>6, <1>7, <1>8 DEF CoreInv

(* The evacuator marks a victim, not in the window before its word is      *)
(* stored.                                                                 *)
LEMMA GcMarkStep ==
    ASSUME CoreInv, NEW q \in Objects, GcMark(q)
    PROVE  CoreInv' /\ (CleanInv => CleanInv')
  <1>1. TypeOK'
    BY DEF CoreInv, TypeOK, WordInv, VictimInv, GcMark, mutVars, FastFor, Metadata, Bits
  <1>2. ScopeInv' /\ WordInv'
    BY DEF CoreInv, ScopeInv, WordInv, GcMark, mutVars
  <1>3. FrameInv'
    BY DEF CoreInv, FrameInv, GcMark, mutVars, Present
  <1>4. VictimInv'
    BY DEF CoreInv, TypeOK, VictimInv, GcMark, mutVars, Present, kPresentClear, kEvacuationSet
  <1>5. ReportInv'
    BY DEF CoreInv, TypeOK, ReportInv, GcMark, mutVars, Present, Current
  <1>6. RegInv'
    BY DEF CoreInv, RegInv, GcMark, mutVars, Present, Current, kPresentClear, kEvacuationSet,
        kDirtyClear
  <1>7. CacheCoherent'
    BY DEF CoreInv, CacheCoherent, GcMark, mutVars, Present, Current, kPresentClear,
        kEvacuationSet, kDirtyClear
  <1>8. CleanInv => CleanInv'
    BY DEF CoreInv, CleanInv, GcMark, mutVars, Present, kEvacuationSet, kDirtyClear
  <1> QED
    BY <1>1, <1>2, <1>3, <1>4, <1>5, <1>6, <1>7, <1>8 DEF CoreInv

(* update_cache_object loads the metadata word. *)
LEMMA UpdateCacheLoadStep ==
    ASSUME CoreInv, NEW q \in Objects, UpdateCacheLoad(q)
    PROVE  CoreInv' /\ (CleanInv => CleanInv')
  <1>1. TypeOK'
    BY DEF CoreInv, TypeOK, UpdateCacheLoad, mutVars
  <1>2. ScopeInv' /\ RegInv' /\ (CleanInv => CleanInv')
    BY DEF CoreInv, ScopeInv, RegInv, CleanInv, UpdateCacheLoad, mutVars, Present, Current
  <1>3. FrameInv'
    BY DEF CoreInv, FrameInv, UpdateCacheLoad, mutVars, Present
  <1>4. VictimInv'
    BY DEF CoreInv, VictimInv, UpdateCacheLoad, mutVars, Present
  <1>5. ReportInv'
    BY DEF CoreInv, TypeOK, FrameInv, ReportInv, UpdateCacheLoad, mutVars, Present, Current,
        FastFor, Exceptions
  <1>6. CacheCoherent'
    BY DEF CoreInv, CacheCoherent, UpdateCacheLoad, mutVars, Present, Current
  <1>7. WordInv'
    BY DEF CoreInv, FrameInv, WordInv, UpdateCacheLoad, mutVars, Present, FastFor, Exceptions
  <1> QED
    BY <1>1, <1>2, <1>3, <1>4, <1>5, <1>6, <1>7 DEF CoreInv

(* update_cache_object stores the word it has loaded. *)
LEMMA UpdateCacheStoreStep ==
    ASSUME CoreInv, NEW q \in Objects, UpdateCacheStore(q)
    PROVE  CoreInv' /\ (CleanInv => CleanInv')
  <1>1. TypeOK'
    BY DEF CoreInv, TypeOK, UpdateCacheStore, FLUSH_CACHE, Metadata
  <1>2. ScopeInv' /\ RegInv' /\ (CleanInv => CleanInv')
    BY DEF CoreInv, ScopeInv, RegInv, CleanInv, UpdateCacheStore, Present, Current
  <1>3. FrameInv'
    BY DEF CoreInv, FrameInv, UpdateCacheStore, Present
  <1>4. VictimInv'
    BY DEF CoreInv, VictimInv, UpdateCacheStore, Present
  <1>5. ReportInv'
    BY DEF CoreInv, TypeOK, ReportInv, UpdateCacheStore, Present, Current
  <1>6. CacheCoherent'
    BY DEF CoreInv, TypeOK, ReportInv, CacheCoherent, UpdateCacheStore, Present, Current
  <1>7. WordInv'
    BY FlushNotFast DEF CoreInv, WordInv, UpdateCacheStore, TypeOK
  <1> QED
    BY <1>1, <1>2, <1>3, <1>4, <1>5, <1>6, <1>7 DEF CoreInv

(* The evacuator starts to wait for the open scope. *)
LEMMA GcWaitStep ==
    ASSUME CoreInv, GcWait
    PROVE  CoreInv' /\ (CleanInv => CleanInv')
  <1>1. TypeOK'
    BY DEF CoreInv, TypeOK, GcWait, mutVars
  <1>2. FrameInv' /\ ReportInv' /\ WordInv' /\ (CleanInv => CleanInv')
    BY DEF CoreInv, FrameInv, ReportInv, WordInv, CleanInv, GcWait, mutVars, Present
  <1>3. ScopeInv'
    BY DEF CoreInv, ScopeInv, GcWait, mutVars
  <1>4. VictimInv'
    BY DEF CoreInv, TypeOK, VictimInv, GcWait, mutVars, Present
  <1>5. RegInv'
    BY DEF CoreInv, ScopeInv, RegInv, GcWait, mutVars, Present, Current
  <1>6. CacheCoherent'
    BY DEF CoreInv, CacheCoherent, GcWait, mutVars, Present, Current
  <1> QED
    BY <1>1, <1>2, <1>3, <1>4, <1>5, <1>6 DEF CoreInv

(* The scope it waited for has been left. *)
LEMMA GcScopesLeftStep ==
    ASSUME CoreInv, GcScopesLeft
    PROVE  CoreInv' /\ (CleanInv => CleanInv')
  <1>1. TypeOK'
    BY DEF CoreInv, TypeOK, GcScopesLeft, mutVars
  <1>2. WordInv' /\ (CleanInv => CleanInv')
    BY DEF CoreInv, WordInv, CleanInv, GcScopesLeft, mutVars, Present
  <1>3. ScopeInv'
    BY DEF CoreInv, ScopeInv, GcScopesLeft, mutVars
  <1>4. FrameInv'
    BY DEF CoreInv, FrameInv, GcScopesLeft, mutVars, Present
  <1>5. VictimInv'
    BY DEF CoreInv, TypeOK, VictimInv, GcScopesLeft, mutVars, Present
  <1>6. ReportInv'
    BY DEF CoreInv, VictimInv, ReportInv, GcScopesLeft, mutVars
  <1>7. RegInv'
    BY DEF CoreInv, RegInv, GcScopesLeft, mutVars, Present, Current
  <1>8. CacheCoherent'
    BY DEF CoreInv, CacheCoherent, GcScopesLeft, mutVars, Present, Current
  <1> QED
    BY <1>1, <1>2, <1>3, <1>4, <1>5, <1>6, <1>7, <1>8 DEF CoreInv

(* A victim is copied to a free frame. *)
LEMMA GcCopyStep ==
    ASSUME CoreInv, NEW q \in Objects, GcCopy(q)
    PROVE  CoreInv' /\ (CleanInv => CleanInv')
  <1>1. TypeOK'
     <2>1. meta[q].addr \in Frames
       BY DEF CoreInv, FrameInv, VictimInv, GcCopy
     <2>2. meta' \in [Objects -> Metadata]
        BY DEF CoreInv, TypeOK, GcCopy, FreeFrames, Metadata, Bits
     <2>3. local' \in [Frames -> Values \cup {Undef}]
        BY <2>1 DEF CoreInv, TypeOK, GcCopy, FreeFrames
     <2> QED BY <2>2, <2>3 DEF CoreInv, TypeOK, GcCopy, mutVars
  <1>2. ScopeInv' /\ WordInv'
    BY DEF CoreInv, ScopeInv, WordInv, GcCopy, mutVars
  <1>3. FrameInv'
    BY DEF CoreInv, FrameInv, GcCopy, mutVars, Present, FreeFrames
  <1>4. VictimInv'
    BY DEF CoreInv, TypeOK, VictimInv, GcCopy, mutVars, Present, FreeFrames, kHotClear,
        kEvacuationSet
  <1>5. ReportInv'
    BY DEF CoreInv, ReportInv, GcCopy, mutVars, Present, Current
  <1>6. RegInv'
    BY DEF CoreInv, RegInv, GcCopy, mutVars, Present, Current
  <1>7. CacheCoherent'
    BY DEF CoreInv, TypeOK, ReportInv, CacheCoherent, GcCopy, mutVars, Present, Current, FastFor,
        Exceptions
  <1>8. CleanInv => CleanInv'
    BY DEF CoreInv, TypeOK, CleanInv, GcCopy, mutVars, Present, FreeFrames, kHotClear,
        kPresentClear, kEvacuationSet, kDirtyClear
  <1> QED
    BY <1>1, <1>2, <1>3, <1>4, <1>5, <1>6, <1>7, <1>8 DEF CoreInv

(* A victim leaves local memory. *)
LEMMA GcWriteBackStep ==
    ASSUME CoreInv, NEW q \in Objects, GcWriteBack(q)
    PROVE  CoreInv' /\ (CleanInv => CleanInv')
  <1>1. TypeOK'
    BY DEF CoreInv, TypeOK, FrameInv, VictimInv, GcWriteBack, mutVars, Metadata, Bits
  <1>2. ScopeInv' /\ WordInv'
    BY DEF CoreInv, ScopeInv, WordInv, GcWriteBack, mutVars
  <1>3. FrameInv'
    BY DEF CoreInv, FrameInv, GcWriteBack, mutVars, Present
  <1>4. VictimInv'
    BY DEF CoreInv, TypeOK, VictimInv, GcWriteBack, mutVars, Present, kHotClear, kEvacuationSet,
        kDirtyClear
  <1>5. ReportInv'
    BY DEF CoreInv, ReportInv, GcWriteBack, mutVars, Present, Current
  <1>6. RegInv'
    BY DEF CoreInv, RegInv, GcWriteBack, mutVars, Present, Current
  <1>7. CacheCoherent'
    BY DEF CoreInv, TypeOK, ReportInv, CacheCoherent, GcWriteBack, mutVars, Present, Current,
        FastFor, Exceptions
  <1>8. CleanInv => CleanInv'
    BY DEF CoreInv, CleanInv, GcWriteBack, mutVars, Present
  <1> QED
    BY <1>1, <1>2, <1>3, <1>4, <1>5, <1>6, <1>7, <1>8 DEF CoreInv

(* A victim the thread has moved is left alone. *)
LEMMA GcSkipStep ==
    ASSUME CoreInv, NEW q \in Objects, GcSkip(q)
    PROVE  CoreInv' /\ (CleanInv => CleanInv')
  <1>1. TypeOK'
    BY DEF CoreInv, TypeOK, GcSkip, mutVars
  <1>2. ScopeInv' /\ RegInv' /\ WordInv' /\ (CleanInv => CleanInv')
    BY DEF CoreInv, ScopeInv, RegInv, WordInv, CleanInv, GcSkip, mutVars, Present, Current
  <1>3. FrameInv'
    BY DEF CoreInv, FrameInv, GcSkip, mutVars, Present
  <1>4. VictimInv'
    BY DEF CoreInv, VictimInv, GcSkip, mutVars, Present
  <1>5. ReportInv'
    BY DEF CoreInv, ReportInv, GcSkip, mutVars, Present, Current
  <1>6. CacheCoherent'
    BY DEF CoreInv, CacheCoherent, GcSkip, mutVars, Present, Current
  <1> QED
    BY <1>1, <1>2, <1>3, <1>4, <1>5, <1>6 DEF CoreInv

(* The regions are freed. *)
LEMMA GcEndStep ==
    ASSUME CoreInv, GcEnd
    PROVE  CoreInv' /\ (CleanInv => CleanInv')
  <1>1. TypeOK'
    BY DEF CoreInv, TypeOK, GcEnd, mutVars
  <1>2. WordInv'
    BY DEF CoreInv, WordInv, GcEnd, mutVars
  <1>3. ScopeInv'
    BY DEF CoreInv, ScopeInv, GcEnd, mutVars
  <1>4. FrameInv'
    BY DEF CoreInv, FrameInv, GcEnd, mutVars, Present
  <1>5. VictimInv'
    BY DEF CoreInv, TypeOK, VictimInv, GcEnd, mutVars
  <1>6. ReportInv'
    BY DEF CoreInv, TypeOK, ReportInv, GcEnd, mutVars
  <1>7. RegInv'
    BY DEF CoreInv, RegInv, GcEnd, mutVars, Present, Current
  <1>8. CacheCoherent'
    BY DEF CoreInv, CacheCoherent, GcEnd, mutVars, Present, Current
  <1>9. CleanInv => CleanInv'
    BY DEF CoreInv, FrameInv, VictimInv, CleanInv, GcEnd, Present
  <1> QED
    BY <1>1, <1>2, <1>3, <1>4, <1>5, <1>6, <1>7, <1>8, <1>9 DEF CoreInv

(* No step of any thread breaks the invariant of the protocol. *)
LEMMA NextCoreInv ==
    ASSUME CoreInv, [Next]_vars
    PROVE  CoreInv' /\ (CleanInv => CleanInv')
  <1>1. CASE UNCHANGED vars
    <2> USE <1>1 DEF vars, mutVars, gcVars, CoreInv, Present, Current
    <2>1. TypeOK' /\ ScopeInv' /\ FrameInv' /\ VictimInv'
      BY DEF TypeOK, ScopeInv, FrameInv, VictimInv
    <2>2. ReportInv' /\ RegInv'
      BY DEF ReportInv, RegInv
    <2>3. CacheCoherent' /\ WordInv' /\ (CleanInv => CleanInv')
      BY DEF CacheCoherent, WordInv, CleanInv
    <2> QED
      BY <2>1, <2>2, <2>3
  <1>2. CASE Deref
    BY <1>2, DerefResidentStep, DerefRemoteStep, DerefMigrateStep DEF Deref
  <1>3. CASE MutatorStep
    BY <1>2, <1>3, GuardStep, ReleaseStep, AcquireStep, AllocateObjectStep, PublishStep,
       AccessStep DEF MutatorStep
  <1>4. CASE \E o \in Objects : GcObject(o)
    BY <1>4, GcMarkStep, UpdateCacheLoadStep, UpdateCacheStoreStep, GcCopyStep,
       GcWriteBackStep, GcSkipStep DEF GcObject
  <1>5. CASE GcStep
    BY <1>4, <1>5, GcWaitStep, GcScopesLeftStep, GcEndStep DEF GcStep
  <1> QED
    BY <1>1, <1>3, <1>5, IssueStep, GcStartStep, PrefetchStep DEF Next

(* Nor does one bring a clean object out of step with its remote copy. *)
LEMMA NextIInv ==
    ASSUME IInv, [Next]_vars
    PROVE  IInv'
  BY NextCoreInv DEF IInv

-----------------------------------------------------------------------------
(* The inductive invariant of the protocol: scopes, frames, victims,       *)
(* reports, registers, cached words and clean copies stay consistent in    *)
(* every interleaving of carm.cpp's slow path, the guards, the prefetcher  *)
(* and the evacuator.                                                      *)
THEOREM InductiveInvariant == Spec => []IInv
  BY InitIInv, NextIInv, PTL DEF Spec

(* Type correctness: carm_obj_state and the registers always hold metadata *)
(* words, also after update_cache_object.                                  *)
THEOREM TypeCorrect == Spec => []TypeOK
  <1>1. IInv => TypeOK
    BY DEF IInv, CoreInv
  <1> QED
    BY <1>1, InductiveInvariant, PTL

(* A word in carm_obj_state that a guard accepts names the frame its       *)
(* object is in, whatever update_cache_object and the slow paths have      *)
(* stored, except in the windows CacheCoherent names.                      *)
THEOREM CacheCoherence == Spec => []CacheCoherent
  <1>1. IInv => CacheCoherent
    BY DEF IInv, CoreInv
  <1> QED
    BY <1>1, InductiveInvariant, PTL

(* The address the emitted code uses for a load or store is the frame its  *)
(* object is in, and a store goes to an object that will be written back.  *)
THEOREM AccessesAreCurrent == Spec => []AccessCurrent
  <1>1. IInv => AccessCurrent
    BY DEF IInv, CoreInv, RegInv, AccessCurrent
  <1> QED
    BY <1>1, InductiveInvariant, PTL

(* carm_deref calls release() only inside a scope and acquire() only       *)
(* outside of one.                                                         *)
THEOREM ScopesBalance == Spec => []ScopesAlternate
  <1>1. IInv => ScopesAlternate
    BY DEF IInv, CoreInv, ScopeInv, ScopesAlternate
  <1> QED
    BY <1>1, InductiveInvariant, PTL

-----------------------------------------------------------------------------
(* The refinement of FlatMemory: the contents of the objects, as the       *)
(* program sees them, change only by its own stores.                       *)

(* The contents of an object, by cases. *)
LEMMA ContentsValue ==
    ASSUME NEW o \in Objects
    PROVE  /\ Present(o) => Contents[o] = local[meta[o].addr]
           /\ ~Present(o) => Contents[o] = far[o]
  BY DEF Contents

(* Contents are unchanged if every object has its old contents in its new  *)
(* place.                                                                  *)
LEMMA ContentsSame ==
    ASSUME \A o \in Objects :
              /\ Present(o)' => Contents[o] = local'[meta'[o].addr]
              /\ ~Present(o)' => Contents[o] = far'[o]
    PROVE  Contents' = Contents
  <1>1. \A o \in Objects : Contents[o] = (IF Present(o)' THEN local'[meta'[o].addr] ELSE far'[o])
    OBVIOUS
  <1>2. Contents' = [o \in Objects |-> IF Present(o)' THEN local'[meta'[o].addr] ELSE far'[o]]
    BY DEF Contents
  <1>3. Contents = [o \in Objects |-> Contents[o]]
    BY DEF Contents
  <1> QED BY <1>1, <1>2, <1>3

(* A step that leaves the memory and the metadata alone keeps the          *)
(* contents.                                                               *)
LEMMA QuietContents ==
    ASSUME UNCHANGED <<ptrs, meta, local, far>>
    PROVE  Contents' = Contents
  BY DEF Contents, Present

(* Marking a victim keeps the contents. *)
LEMMA GcMarkContents ==
    ASSUME CoreInv, NEW q \in Objects, GcMark(q)
    PROVE  Contents' = Contents
  <1>1. \A o \in Objects : Present(o)' = Present(o) /\ meta'[o].addr = meta[o].addr
    BY DEF CoreInv, TypeOK, Metadata, GcMark, mutVars, Present, kPresentClear, kEvacuationSet
  <1> QED BY <1>1, ContentsSame, ContentsValue DEF GcMark

(* A dereference in place keeps the contents. *)
LEMMA DerefResidentContents ==
    ASSUME CoreInv, DerefResident
    PROVE  Contents' = Contents
  <1>1. \A o \in Objects : Present(o)' = Present(o) /\ meta'[o].addr = meta[o].addr
    BY DEF CoreInv, TypeOK, Metadata, DerefResident, Present, Touched, kPresentClear, kDirtyClear, kHotClear, kEvacuationSet
  <1> QED BY <1>1, ContentsSame, ContentsValue DEF DerefResident

(* An object that comes into a free frame with its contents. *)
LEMMA FillContents ==
    ASSUME CoreInv, NEW q \in Objects, NEW f \in FreeFrames, NEW b, kPresentClear \notin b,
           meta' = [meta EXCEPT ![q] = [bits |-> b, addr |-> f]],
           local' = [local EXCEPT ![f] = Contents[q]],
           far' = far,
           q \in ptrs', \A o \in Objects \ {q} : o \in ptrs' <=> o \in ptrs
    PROVE  Contents' = Contents
  <1>1. f \in Frames /\ \A o \in Objects : Present(o) => meta[o].addr # f
    BY DEF FreeFrames
  <1>2. meta'[q] = [bits |-> b, addr |-> f] /\ \A o \in Objects \ {q} : meta'[o] = meta[o]
    BY DEF CoreInv, TypeOK
  <1>3. Present(q)' /\ \A o \in Objects \ {q} : Present(o)' = Present(o)
    BY <1>2 DEF Present
  <1>4. local'[f] = Contents[q] /\ \A g \in Frames \ {f} : local'[g] = local[g]
    BY <1>1 DEF CoreInv, TypeOK
  <1>5. \A o \in Objects : Present(o) => meta[o].addr \in Frames
    BY DEF CoreInv, FrameInv
  <1>6. Present(q)' /\ Contents[q] = local'[meta'[q].addr]
    BY <1>2, <1>3, <1>4
  <1>7. ASSUME NEW o \in Objects \ {q}
        PROVE  /\ Present(o)' => Contents[o] = local'[meta'[o].addr]
               /\ ~Present(o)' => Contents[o] = far'[o]
    BY <1>1, <1>2, <1>3, <1>4, <1>5, ContentsValue
  <1> QED BY <1>6, <1>7, ContentsSame

(* A new object has the contents that memory never written has. *)
LEMMA AllocateObjectContents ==
    ASSUME CoreInv, AllocateObject
    PROVE  Contents' = Contents
  <1>1. PICK f \in FreeFrames, b \in SUBSET {kHotClear, kDirtyClear} :
          /\ meta' = [meta EXCEPT ![obj] = [bits |-> b, addr |-> f]]
          /\ local' = [local EXCEPT ![f] = Undef]
    BY DEF AllocateObject
  <1>2. kPresentClear \notin b
    BY DEF kPresentClear, kHotClear, kDirtyClear
  <1>3. obj \in Objects /\ Contents[obj] = Undef
    BY ContentsValue DEF AllocateObject, CoreInv, TypeOK, ScopeInv, FrameInv, Present
  <1>4. far' = far /\ obj \in ptrs' /\ \A o \in Objects \ {obj} : o \in ptrs' <=> o \in ptrs
    BY DEF AllocateObject
  <1> QED BY <1>1, <1>2, <1>3, <1>4, FillContents

(* Swapping in on a dereference keeps the contents. *)
LEMMA DerefRemoteContents ==
    ASSUME CoreInv, DerefRemote
    PROVE  Contents' = Contents
  <1>1. PICK f \in FreeFrames :
          /\ meta' = [meta EXCEPT ![obj] = [bits |-> Touched({kDirtyClear}), addr |-> f]]
          /\ local' = [local EXCEPT ![f] = far[obj]]
    BY DEF DerefRemote
  <1>2. kPresentClear \notin Touched({kDirtyClear})
    BY DEF Touched
  <1>3. obj \in Objects /\ obj \in ptrs /\ Contents[obj] = far[obj]
    BY ContentsValue DEF DerefRemote, CoreInv, TypeOK, ScopeInv, Present
  <1> QED BY <1>1, <1>2, <1>3, FillContents DEF DerefRemote

(* Moving a victim on a dereference keeps the contents. *)
LEMMA DerefMigrateContents ==
    ASSUME CoreInv, DerefMigrate
    PROVE  Contents' = Contents
  <1>1. PICK f \in FreeFrames :
          /\ meta' = [meta EXCEPT ![obj] = [bits |-> Touched(meta[obj].bits), addr |-> f]]
          /\ local' = [local EXCEPT ![f] = local[meta[obj].addr]]
    BY DEF DerefMigrate
  <1>2. kPresentClear \notin Touched(meta[obj].bits)
    BY DEF Touched
  <1>3. obj \in Objects /\ obj \in ptrs /\ Contents[obj] = local[meta[obj].addr]
    BY ContentsValue DEF DerefMigrate, CoreInv, TypeOK, ScopeInv, Present
  <1> QED BY <1>1, <1>2, <1>3, FillContents DEF DerefMigrate

(* Prefetching keeps the contents. *)
LEMMA PrefetchContents ==
    ASSUME CoreInv, NEW q \in Objects, Prefetch(q)
    PROVE  Contents' = Contents
  <1>1. PICK f \in FreeFrames :
          /\ meta' = [meta EXCEPT ![q] = [bits |-> {kHotClear, kDirtyClear}, addr |-> f]]
          /\ local' = [local EXCEPT ![f] = far[q]]
    BY DEF Prefetch
  <1>2. kPresentClear \notin {kHotClear, kDirtyClear}
    BY DEF kPresentClear, kHotClear, kDirtyClear
  <1>3. q \in ptrs /\ Contents[q] = far[q]
    BY ContentsValue DEF Prefetch, Present
  <1> QED BY <1>1, <1>2, <1>3, FillContents DEF Prefetch, mutVars

(* Copying a victim keeps the contents. *)
LEMMA GcCopyContents ==
    ASSUME CoreInv, NEW q \in Objects, GcCopy(q)
    PROVE  Contents' = Contents
  <1>1. PICK f \in FreeFrames :
          /\ meta' = [meta EXCEPT ![q] =
                       [bits |-> (meta[q].bits \ {kEvacuationSet}) \cup {kHotClear}, addr |-> f]]
          /\ local' = [local EXCEPT ![f] = local[meta[q].addr]]
    BY DEF GcCopy
  <1>2. Present(q)
    BY DEF GcCopy, CoreInv, VictimInv
  <1>3. kPresentClear \notin (meta[q].bits \ {kEvacuationSet}) \cup {kHotClear}
    BY <1>2 DEF Present, kPresentClear, kHotClear
  <1>4. q \in ptrs /\ Contents[q] = local[meta[q].addr]
    BY <1>2, ContentsValue DEF Present
  <1> QED BY <1>1, <1>3, <1>4, FillContents DEF GcCopy, mutVars

(* Swapping out keeps the contents: a dirty object is written back, a      *)
(* clean one is the same remotely.                                         *)
LEMMA GcWriteBackContents ==
    ASSUME ~MarkRaces, IInv, NEW q \in Objects, GcWriteBack(q)
    PROVE  Contents' = Contents
  <1>1. Present(q)
    BY DEF GcWriteBack, IInv, CoreInv, VictimInv
  <1>2. far'[q] = local[meta[q].addr] /\ \A o \in Objects \ {q} : far'[o] = far[o]
    BY <1>1 DEF GcWriteBack, IInv, CoreInv, TypeOK, CleanInv
  <1>3. ~Present(q)' /\ \A o \in Objects \ {q} : meta'[o] = meta[o] /\ Present(o)' = Present(o)
    BY DEF GcWriteBack, IInv, CoreInv, TypeOK, Present, mutVars
  <1>4. local' = local
    BY DEF GcWriteBack
  <1>5. ASSUME NEW o \in Objects \ {q}
        PROVE  /\ Present(o)' => Contents[o] = local'[meta'[o].addr]
               /\ ~Present(o)' => Contents[o] = far'[o]
    BY <1>2, <1>3, <1>4, ContentsValue
  <1> QED BY <1>1, <1>2, <1>3, <1>5, ContentsSame, ContentsValue

(* Freeing the regions keeps the contents: no object is left in them. *)
LEMMA GcEndContents ==
    ASSUME CoreInv, GcEnd
    PROVE  Contents' = Contents
  <1>1. \A o \in Objects : Present(o) => meta[o].addr \in Frames /\ meta[o].addr \notin held
    BY DEF GcEnd, CoreInv, FrameInv, VictimInv, Present
  <1>2. \A o \in Objects : Present(o) => local'[meta[o].addr] = local[meta[o].addr]
    BY <1>1 DEF GcEnd
  <1>3. meta' = meta /\ far' = far /\ \A o \in Objects : Present(o)' = Present(o)
    BY DEF GcEnd, mutVars, Present
  <1> QED BY <1>2, <1>3, ContentsSame, ContentsValue

(* The guarded load or store is the load or store of the flat memory. *)
LEMMA AccessFlat ==
    ASSUME ~MarkRaces, CoreInv, Access
    PROVE  Flat!FlatLoad \/ Flat!FlatStore
  <1>1. obj \in Objects /\ Present(obj) /\ reg.addr = meta[obj].addr
    BY DEF Access, CoreInv, TypeOK, RegInv, Current
  <1>2. CASE op = "load"
    <2>1. ret' = Contents[obj]
      BY <1>1, <1>2, ContentsValue DEF Access
    <2>2. Contents' = Contents
      BY <1>2, QuietContents DEF Access
    <2> QED BY <1>2, <2>1, <2>2 DEF Access, Flat!FlatLoad
  <1>3. CASE op = "store"
    <2>1. reg.addr \in Frames /\ \A o \in Objects \ {obj} : Present(o) => meta[o].addr \in Frames /\ meta[o].addr # reg.addr
      BY <1>1 DEF CoreInv, FrameInv
    <2>2. \A o \in Objects : Present(o)' = Present(o)
      BY DEF Access, Present
    <2>3. Contents' = [o \in Objects |-> IF o = obj THEN val ELSE Contents[o]]
      <3>1. local' = [local EXCEPT ![reg.addr] = val] /\ meta' = meta /\ far' = far
        BY <1>3 DEF Access
      <3>2. local'[reg.addr] = val /\ \A g \in Frames \ {reg.addr} : local'[g] = local[g]
        BY <2>1, <3>1 DEF CoreInv, TypeOK
      <3>3. \A o \in Objects : (IF Present(o)' THEN local'[meta'[o].addr] ELSE far'[o])
                                = (IF o = obj THEN val ELSE Contents[o])
        BY <1>1, <2>1, <2>2, <3>1, <3>2, ContentsValue
      <3> QED BY <3>3 DEF Contents
    <2>4. Contents' = [Contents EXCEPT ![obj] = val]
      BY <2>3 DEF Contents
    <2> QED BY <1>3, <2>4 DEF Access, Flat!FlatStore
  <1> QED BY <1>2, <1>3 DEF Access

(* Initially nothing has been written. *)
LEMMA InitFlat == Init => Flat!FlatInit
  <1> SUFFICES ASSUME Init PROVE Flat!FlatInit
    OBVIOUS
  <1>1. \A o \in Objects : ~Present(o)
    BY DEF Init, Present
  <1>2. Contents = [o \in Objects |-> Undef]
    BY <1>1 DEF Contents, Init
  <1> QED BY <1>2 DEF Init, Flat!FlatInit

(* Every step of the protocol is a step of the flat memory or leaves it    *)
(* unchanged.                                                              *)
LEMMA StepFlat ==
    ASSUME ~MarkRaces, IInv, [Next]_vars
    PROVE  [Flat!FlatNext]_(Flat!flatVars)
  <1> USE DEF Flat!flatVars
  <1>0. CoreInv
    BY DEF IInv
  <1>1. CASE Issue
    <2>1. Contents' = Contents
      BY <1>1, QuietContents DEF Issue
    <2>2. op = "none"
      BY <1>0, <1>1 DEF Issue, CoreInv, ScopeInv
    <2> QED BY <1>1, <2>1, <2>2 DEF Issue, Flat!FlatNext, Flat!FlatIssue
  <1>2. CASE Access
    BY <1>0, <1>2, AccessFlat DEF Flat!FlatNext
  <1>3. CASE Guard \/ Release \/ Acquire \/ Publish \/ UNCHANGED vars
    BY <1>3, QuietContents DEF Guard, Release, Acquire, Publish, vars, mutVars
  <1>4. CASE AllocateObject
    BY <1>0, <1>4, AllocateObjectContents DEF AllocateObject
  <1>5. CASE Deref
    BY <1>0, <1>5, DerefResidentContents, DerefRemoteContents, DerefMigrateContents
      DEF Deref, DerefResident, DerefRemote, DerefMigrate
  <1>6. CASE \E o \in Objects : Prefetch(o)
    BY <1>0, <1>6, PrefetchContents DEF Prefetch, mutVars
  <1>7. CASE GcStart \/ GcWait \/ GcScopesLeft
    BY <1>7, QuietContents DEF GcStart, GcWait, GcScopesLeft, mutVars
  <1>8. CASE GcEnd
    BY <1>0, <1>8, GcEndContents DEF GcEnd, mutVars
  <1>9. ASSUME NEW o \in Objects, GcObject(o)
        PROVE  UNCHANGED <<Contents, op, obj, val, ret>>
    <2>1. CASE GcMark(o)
      BY <1>0, <2>1, GcMarkContents DEF GcMark, mutVars
    <2>2. CASE UpdateCacheLoad(o)
      BY <2>2, QuietContents DEF UpdateCacheLoad, mutVars
    <2>3. CASE UpdateCacheStore(o)
      BY <2>3, QuietContents DEF UpdateCacheStore
    <2>4. CASE GcCopy(o)
      BY <1>0, <2>4, GcCopyContents DEF GcCopy, mutVars
    <2>5. CASE GcWriteBack(o)
      BY <2>5, GcWriteBackContents DEF GcWriteBack, mutVars
    <2>6. CASE GcSkip(o)
      BY <2>6, QuietContents DEF GcSkip, mutVars
    <2> QED BY <1>9, <2>1, <2>2, <2>3, <2>4, <2>5, <2>6 DEF GcObject
  <1>10. CASE \E o \in Objects : GcObject(o)
    BY <1>9, <1>10
  <1>11. CASE MutatorStep
    BY <1>2, <1>3, <1>4, <1>5, <1>11 DEF MutatorStep
  <1>12. CASE GcStep
    BY <1>7, <1>8, <1>10, <1>12 DEF GcStep
  <1> QED
    BY <1>1, <1>3, <1>6, <1>7, <1>11, <1>12 DEF Next

(* TrackFM is transparent: the instrumented program sees a flat memory, if *)
(* the evacuator does not mark an object between its dereference and the   *)
(* store of its word in carmDeref_read and its variants.                   *)
THEOREM Refinement == ~MarkRaces => (Spec => Transparent)
  <1> SUFFICES ASSUME ~MarkRaces
               PROVE  Spec => Transparent
    OBVIOUS
  <1>1. IInv /\ [Next]_vars => [Flat!FlatNext]_(Flat!flatVars)
    BY StepFlat
  <1> QED
    BY <1>1, InitFlat, InductiveInvariant, PTL DEF Spec, Transparent, Flat!FlatSpec
=============================================================================
