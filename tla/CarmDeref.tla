----------------------------- MODULE CarmDeref ------------------------------
(***************************************************************************)
(* The dereference protocol of TrackFM: the guard the compiler puts before *)
(* every load and store, the slow path of carm.cpp behind it, the cached   *)
(* copy of the object metadata both use (carm_obj_state), and the AIFM     *)
(* evacuator that moves objects underneath and reports through             *)
(* update_cache_object.                                                    *)
(*                                                                         *)
(* One application thread (the supported configuration: in_scope is one    *)
(* global flag) runs against the evacuator's threads and the prefetcher.   *)
(* AIFM itself is not part of the repository; its actions (Deref, Prefetch *)
(* and the Gc actions) are written from how carm.cpp, the guards and       *)
(* build.sh use it.                                                        *)
(***************************************************************************)
EXTENDS Naturals, FiniteSets

CONSTANTS
    Objects,     \* object indices in use
    Frames,      \* places in local memory, each large enough for an object
    Values,      \* contents a program can store
    Undef,       \* contents of memory that was never written
    NoFrame,     \* the address part of metadata that names no frame
    MarkRaces    \* may the evacuator mark an object between the deref of it
                 \* and the store of the metadata into carm_obj_state?

ASSUME ConstantsAssumption ==
    /\ Objects # {}
    /\ NoFrame \notin Frames
    /\ Undef \notin Values
    /\ MarkRaces \in BOOLEAN

(***************************************************************************)
(* Metadata: the exception bits of carm_object_config.hpp and the address. *)
(* A bit in the set is a 1 in the word, so kHotClear \in bits is "not hot".*)
(***************************************************************************)
kHotClear == "kHotClear"
kPresentClear == "kPresentClear"
kEvacuationSet == "kEvacuationSet"
kDirtyClear == "kDirtyClear"
Bits == {kHotClear, kPresentClear, kEvacuationSet, kDirtyClear}

Metadata == [bits : SUBSET Bits, addr : Frames \cup {NoFrame}]

(* FLUSH_CACHE, the all-ones word: every exception bit is set. *)
FLUSH_CACHE == [bits |-> Bits, addr |-> NoFrame]

(* Mutants: a guard that does not test the evacuation bit, or the dirty bit. *)
ExceptionsNoEvacuation(k) ==
    {kHotClear, kPresentClear} \cup (IF k = "store" THEN {kDirtyClear} ELSE {})

ExceptionsNoDirty(k) == {kHotClear, kPresentClear, kEvacuationSet}

(* The bits that send a guard to the slow path. *)
Exceptions(k) ==
    {kHotClear, kPresentClear, kEvacuationSet}
      \cup (IF k = "store" THEN {kDirtyClear} ELSE {})

FastFor(m, k) == m.bits \cap Exceptions(k) = {}

VARIABLES
    \* the runtime and the compiled code
    ptrs,        \* objects whose ptrs_ entry is not null
    obj_state,   \* carm_obj_state: the metadata the guards look at
    in_scope,    \* the flag in_scope of carm.cpp
    pc,          \* where the application thread is
    op, obj, val,\* the load or store it executes
    reg,         \* metadata word in its register
    ret,         \* result of the load just completed
    \* AIFM and the memory
    meta,        \* FarMemPtrMeta of each object
    local,       \* contents of the frames
    far,         \* contents of the remote copies
    scope,       \* is the application thread inside a DerefScope?
    phase,       \* evacuation: "idle", "mark", "wait", "move"
    gpc,         \* the evacuator's progress on each victim
    greg,        \* metadata word update_cache_object has loaded
    held,        \* frames of the regions under evacuation
    pending      \* is the evacuator waiting for the scope to be left?

mutVars == <<ptrs, obj_state, in_scope, pc, op, obj, val, reg, ret>>
gcVars == <<phase, gpc, greg, held, pending>>
vars == <<mutVars, meta, local, far, scope, gcVars>>

Present(o) == o \in ptrs /\ kPresentClear \notin meta[o].bits

(* Frames a new or migrated object may be put in. *)
FreeFrames == Frames \ ({meta[o].addr : o \in {p \in Objects : Present(p)}} \cup held)

Init ==
    /\ ptrs = {}
    /\ obj_state = [o \in Objects |-> FLUSH_CACHE]
    /\ in_scope = FALSE
    /\ pc = "idle"
    /\ op = "none"
    /\ obj \in Objects
    /\ val = Undef
    /\ reg = FLUSH_CACHE
    /\ ret = Undef
    /\ meta = [o \in Objects |-> FLUSH_CACHE]
    /\ local = [f \in Frames |-> Undef]
    /\ far = [o \in Objects |-> Undef]
    /\ scope = FALSE
    /\ phase = "idle"
    /\ gpc = [o \in Objects |-> "none"]
    /\ greg = [o \in Objects |-> FLUSH_CACHE]
    /\ held = {}
    /\ pending = FALSE

-----------------------------------------------------------------------------
(* The application thread *)

(* The program reaches an instrumented load or store. *)
Issue ==
    /\ pc = "idle"
    /\ pc' = "guard"
    /\ \E o \in Objects :
          /\ obj' = o
          /\ \/ op' = "load" /\ val' = Undef
             \/ op' = "store" /\ val' \in Values
    /\ ret' = Undef
    /\ UNCHANGED <<ptrs, obj_state, in_scope, reg, meta, local, far, scope, gcVars>>

(* The guard: load the cached word and test the exception bits. *)
Guard ==
    /\ pc = "guard"
    /\ reg' = obj_state[obj]
    /\ pc' = IF FastFor(obj_state[obj], op) THEN "fast" ELSE "leave"
    /\ UNCHANGED <<ptrs, obj_state, in_scope, op, obj, val, ret, meta, local, far, scope, gcVars>>

(* Mutant: the scope of the previous slow path is not left. *)
ReleaseKeepsScope ==
    /\ pc = "leave"
    /\ pc' = "enter"
    /\ UNCHANGED <<ptrs, obj_state, in_scope, op, obj, val, reg, ret,
                   meta, local, far, scope, gcVars>>

(* carm_deref, first half: leave the scope of the previous slow path. *)
Release ==
    /\ pc = "leave"
    /\ pc' = "enter"
    /\ IF in_scope THEN scope' = FALSE /\ pending' = FALSE
                   ELSE UNCHANGED <<scope, pending>>
    /\ UNCHANGED <<ptrs, obj_state, in_scope, op, obj, val, reg, ret,
                   meta, local, far, phase, gpc, greg, held>>

(* Mutant: in_scope is not set. *)
AcquireForgetsScope ==
    /\ pc = "enter"
    /\ pc' = IF obj \in ptrs THEN "deref" ELSE "allocate"
    /\ scope' = TRUE
    /\ UNCHANGED <<ptrs, obj_state, in_scope, op, obj, val, reg, ret, meta, local, far, gcVars>>

(* carm_deref, second half: the scope stays open until the next slow path. *)
Acquire ==
    /\ pc = "enter"
    /\ pc' = IF obj \in ptrs THEN "deref" ELSE "allocate"
    /\ in_scope' = TRUE
    /\ scope' = TRUE
    /\ UNCHANGED <<ptrs, obj_state, op, obj, val, reg, ret, meta, local, far, gcVars>>

(* allocate_object: the first access to an object creates it. *)
AllocateObject ==
    /\ pc = "allocate"
    /\ pc' = "deref"
    /\ ptrs' = ptrs \cup {obj}
    /\ \E f \in FreeFrames, b \in SUBSET {kHotClear, kDirtyClear} :
          /\ meta' = [meta EXCEPT ![obj] = [bits |-> b, addr |-> f]]
          /\ local' = [local EXCEPT ![f] = Undef]
    /\ UNCHANGED <<obj_state, in_scope, op, obj, val, reg, ret, far, scope, gcVars>>

(* Bits of a dereferenced object: hot, and dirty when it is written. *)
Touched(bits) ==
    bits \ ({kHotClear, kPresentClear, kEvacuationSet}
              \cup (IF op = "store" THEN {kDirtyClear} ELSE {}))

(* __deref / __deref_mut of an object that is where it was: AIFM sets the  *)
(* hot and dirty bits and returns the metadata word.                       *)
DerefResident ==
    /\ pc = "deref"
    /\ meta[obj].bits \cap {kPresentClear, kEvacuationSet} = {}
    /\ meta' = [meta EXCEPT ![obj].bits = Touched(meta[obj].bits)]
    /\ reg' = meta'[obj]
    /\ pc' = "publish"
    /\ UNCHANGED <<ptrs, obj_state, in_scope, op, obj, val, ret, local, far, scope, gcVars>>

(* __deref of an object that is remote: AIFM swaps it in first. *)
DerefRemote ==
    /\ pc = "deref"
    /\ kPresentClear \in meta[obj].bits
    /\ \E f \in FreeFrames :
          /\ meta' = [meta EXCEPT ![obj] = [bits |-> Touched({kDirtyClear}), addr |-> f]]
          /\ local' = [local EXCEPT ![f] = far[obj]]
    /\ reg' = meta'[obj]
    /\ pc' = "publish"
    /\ UNCHANGED <<ptrs, obj_state, in_scope, op, obj, val, ret, far, scope, gcVars>>

(* __deref of an object under evacuation: the application thread moves it  *)
(* out of the region itself.                                               *)
DerefMigrate ==
    /\ pc = "deref"
    /\ kPresentClear \notin meta[obj].bits
    /\ kEvacuationSet \in meta[obj].bits
    /\ \E f \in FreeFrames :
          /\ meta' = [meta EXCEPT ![obj] = [bits |-> Touched(meta[obj].bits), addr |-> f]]
          /\ local' = [local EXCEPT ![f] = local[meta[obj].addr]]
    /\ reg' = meta'[obj]
    /\ pc' = "publish"
    /\ UNCHANGED <<ptrs, obj_state, in_scope, op, obj, val, ret, far, scope, gcVars>>

(* Mutant: the shifted address is stored instead of the word. *)
PublishAddress ==
    /\ pc = "publish"
    /\ pc' = "slow"
    /\ obj_state' = [obj_state EXCEPT ![obj] = reg.addr]
    /\ UNCHANGED <<ptrs, in_scope, op, obj, val, reg, ret, meta, local, far, scope, gcVars>>

(* carmDeref_read, carmDeref_write and their variants: the word __deref    *)
(* returned is stored for the guards.                                      *)
Publish ==
    /\ pc = "publish"
    /\ pc' = "slow"
    /\ obj_state' = [obj_state EXCEPT ![obj] = reg]
    /\ UNCHANGED <<ptrs, in_scope, op, obj, val, reg, ret, meta, local, far, scope, gcVars>>

(* The load or store itself, at the address shifted out of the word; the   *)
(* registers are dead afterwards.                                          *)
Access ==
    /\ pc \in {"fast", "slow"}
    /\ pc' = "idle"
    /\ op' = "none"
    /\ val' = Undef
    /\ reg' = FLUSH_CACHE
    /\ \/ /\ op = "load"
          /\ ret' = local[reg.addr]
          /\ UNCHANGED local
       \/ /\ op = "store"
          /\ local' = [local EXCEPT ![reg.addr] = val]
          /\ UNCHANGED ret
    /\ UNCHANGED <<ptrs, obj_state, in_scope, obj, meta, far, scope, gcVars>>

-----------------------------------------------------------------------------
(* The prefetcher and the evacuator *)

(* A prefetch thread swaps in an object mapping_fn returned; it does not   *)
(* touch carm_obj_state.                                                   *)
Prefetch(o) ==
    /\ o \in ptrs
    /\ kPresentClear \in meta[o].bits
    /\ \E f \in FreeFrames :
          /\ meta' = [meta EXCEPT ![o] = [bits |-> {kHotClear, kDirtyClear}, addr |-> f]]
          /\ local' = [local EXCEPT ![f] = far[o]]
    /\ UNCHANGED <<mutVars, far, scope, gcVars>>

(* An evacuation picks the objects of the regions it will free. *)
GcStart ==
    /\ phase = "idle"
    /\ \E V \in SUBSET {o \in Objects : Present(o)} :
          /\ V # {}
          /\ gpc' = [o \in Objects |-> IF o \in V THEN "todo" ELSE "none"]
          /\ held' = {meta[o].addr : o \in V}
    /\ phase' = "mark"
    /\ UNCHANGED <<mutVars, meta, local, far, scope, greg, pending>>

GcMark(o) ==
    /\ phase = "mark"
    /\ gpc[o] = "todo"
    /\ MarkRaces \/ ~(pc = "publish" /\ obj = o)
    /\ meta' = [meta EXCEPT ![o].bits = @ \cup {kEvacuationSet}]
    /\ gpc' = [gpc EXCEPT ![o] = "load"]
    /\ UNCHANGED <<mutVars, local, far, scope, phase, greg, held, pending>>

(* update_cache_object: load the metadata word ... *)
UpdateCacheLoad(o) ==
    /\ gpc[o] = "load"
    /\ greg' = [greg EXCEPT ![o] = meta[o]]
    /\ gpc' = [gpc EXCEPT ![o] = "store"]
    /\ UNCHANGED <<mutVars, meta, local, far, scope, phase, held, pending>>

(* Mutant: the word never reaches carm_obj_state. *)
UpdateCacheStoreLost(o) ==
    /\ gpc[o] = "store"
    /\ greg' = [greg EXCEPT ![o] = FLUSH_CACHE]
    /\ gpc' = [gpc EXCEPT ![o] = "done"]
    /\ UNCHANGED <<mutVars, meta, local, far, scope, phase, held, pending>>

(* ... and store it for the guards. *)
UpdateCacheStore(o) ==
    /\ gpc[o] = "store"
    /\ obj_state' = [obj_state EXCEPT ![o] = greg[o]]
    /\ greg' = [greg EXCEPT ![o] = FLUSH_CACHE]
    /\ gpc' = [gpc EXCEPT ![o] = "done"]
    /\ UNCHANGED <<ptrs, in_scope, pc, op, obj, val, reg, ret, meta, local, far, scope,
                   phase, held, pending>>

(* All victims are marked and reported: wait for the scope now open. *)
GcWait ==
    /\ phase = "mark"
    /\ \A o \in Objects : gpc[o] \in {"none", "done"}
    /\ phase' = "wait"
    /\ pending' = scope
    /\ UNCHANGED <<mutVars, meta, local, far, scope, gpc, greg, held>>

GcScopesLeft ==
    /\ phase = "wait"
    /\ ~pending
    /\ phase' = "move"
    /\ gpc' = [o \in Objects |-> IF gpc[o] = "done" THEN "todo" ELSE gpc[o]]
    /\ UNCHANGED <<mutVars, meta, local, far, scope, greg, held, pending>>

(* A hot victim is copied to another region and loses its hot bit. *)
GcCopy(o) ==
    /\ phase = "move"
    /\ gpc[o] = "todo"
    /\ kEvacuationSet \in meta[o].bits
    /\ \E f \in FreeFrames :
          /\ meta' = [meta EXCEPT ![o] =
                        [bits |-> (@.bits \ {kEvacuationSet}) \cup {kHotClear}, addr |-> f]]
          /\ local' = [local EXCEPT ![f] = local[meta[o].addr]]
    /\ gpc' = [gpc EXCEPT ![o] = "load"]
    /\ UNCHANGED <<mutVars, far, scope, phase, greg, held, pending>>

(* A cold victim leaves local memory; only a dirty one is written back. *)
GcWriteBack(o) ==
    /\ phase = "move"
    /\ gpc[o] = "todo"
    /\ kEvacuationSet \in meta[o].bits
    /\ far' = IF kDirtyClear \in meta[o].bits THEN far
              ELSE [far EXCEPT ![o] = local[meta[o].addr]]
    /\ meta' = [meta EXCEPT ![o] = [bits |-> {kHotClear, kPresentClear, kDirtyClear},
                                    addr |-> NoFrame]]
    /\ gpc' = [gpc EXCEPT ![o] = "load"]
    /\ UNCHANGED <<mutVars, local, scope, phase, greg, held, pending>>

(* A victim the application thread has migrated is left alone. *)
GcSkip(o) ==
    /\ phase = "move"
    /\ gpc[o] = "todo"
    /\ kEvacuationSet \notin meta[o].bits
    /\ gpc' = [gpc EXCEPT ![o] = "load"]
    /\ UNCHANGED <<mutVars, meta, local, far, scope, phase, greg, held, pending>>

(* The regions are free again, their contents dropped. *)
GcEnd ==
    /\ phase = "move"
    /\ \A o \in Objects : gpc[o] \in {"none", "done"}
    /\ phase' = "idle"
    /\ gpc' = [o \in Objects |-> "none"]
    /\ held' = {}
    /\ local' = [f \in Frames |-> IF f \in held THEN Undef ELSE local[f]]
    /\ UNCHANGED <<mutVars, meta, far, scope, greg, pending>>

-----------------------------------------------------------------------------
Deref == DerefResident \/ DerefRemote \/ DerefMigrate

(* The steps of the application thread once it has issued an access. *)
MutatorStep == Guard \/ Release \/ Acquire \/ AllocateObject \/ Deref \/ Publish \/ Access

GcObject(o) ==
    \/ GcMark(o) \/ UpdateCacheLoad(o) \/ UpdateCacheStore(o)
    \/ GcCopy(o) \/ GcWriteBack(o) \/ GcSkip(o)

(* The steps of an evacuation that has started. *)
GcStep == GcWait \/ GcScopesLeft \/ GcEnd \/ \E o \in Objects : GcObject(o)

Next == Issue \/ MutatorStep \/ GcStart \/ GcStep \/ \E o \in Objects : Prefetch(o)

Spec == Init /\ [][Next]_vars

-----------------------------------------------------------------------------
(* Properties *)

(* Type invariant of the protocol's state. *)
TypeOK ==
    /\ ptrs \in SUBSET Objects
    /\ obj_state \in [Objects -> Metadata]
    /\ in_scope \in BOOLEAN
    /\ pc \in {"idle", "guard", "leave", "enter", "allocate", "deref", "publish", "fast", "slow"}
    /\ op \in {"none", "load", "store"}
    /\ obj \in Objects
    /\ val \in Values \cup {Undef}
    /\ reg \in Metadata
    /\ ret \in Values \cup {Undef}
    /\ meta \in [Objects -> Metadata]
    /\ local \in [Frames -> Values \cup {Undef}]
    /\ far \in [Objects -> Values \cup {Undef}]
    /\ scope \in BOOLEAN
    /\ phase \in {"idle", "mark", "wait", "move"}
    /\ gpc \in [Objects -> {"none", "todo", "load", "store", "done"}]
    /\ greg \in [Objects -> Metadata]
    /\ held \in SUBSET Frames
    /\ pending \in BOOLEAN

(* A metadata word is current for an object: it names the frame the object *)
(* is in, and it claims dirty only if AIFM will write the object back.     *)
Current(m, o) ==
    /\ Present(o)
    /\ m.addr = meta[o].addr
    /\ kDirtyClear \in meta[o].bits => kDirtyClear \in m.bits

(* The word in carm_obj_state that a guard would accept is current.  It    *)
(* may be out of date only while the slow path of that very object is      *)
(* about to overwrite it and, if the evacuator may mark in the window      *)
(* before that store, between the move of a victim and its report.         *)
CacheCoherent ==
    \A o \in Objects : FastFor(obj_state[o], "load") =>
        \/ Current(obj_state[o], o)
        \/ pc = "publish" /\ obj = o
        \/ MarkRaces /\ phase = "move" /\ gpc[o] \in {"load", "store"}

(* A load or store goes to the frame its object is in, and a store only to *)
(* an object AIFM will write back: always after the slow path, and on the  *)
(* fast path of the guard as long as no mark falls into the window between *)
(* __deref and the store into carm_obj_state.                              *)
AccessCurrent ==
    (pc = "slow" \/ (pc = "fast" /\ ~MarkRaces)) =>
        /\ Current(reg, obj)
        /\ op = "store" => kDirtyClear \notin meta[obj].bits

(* DerefScope::enter and exit alternate: release() is called only inside a *)
(* scope and acquire() only outside of one.                                *)
ScopesAlternate ==
    /\ (pc = "leave" /\ in_scope) => scope
    /\ pc = "enter" => ~scope

(* Contents of an object as the program sees them. *)
Contents == [o \in Objects |-> IF Present(o) THEN local[meta[o].addr] ELSE far[o]]

Flat == INSTANCE FlatMemory WITH mem <- Contents

(* The far memory is transparent: loads return what was last stored,       *)
(* whatever the evacuator and the prefetcher do in between.                *)
Transparent == Flat!FlatSpec

(* Scheduling: the threads of the application and of the evacuator run. *)
FairSpec == Spec /\ WF_vars(MutatorStep) /\ WF_vars(GcStep)

(* An evacuation that waits for the open scope ends once the thread takes  *)
(* a slow path, because carm_deref leaves the scope, and also once it      *)
(* reaches an access to a victim, because update_cache_object has made the *)
(* guard of that access take the slow path.                                *)
EvacuationCompletes ==
    (/\ phase = "wait"
     /\ \/ pc = "leave"
        \/ pc = "guard" /\ ~MarkRaces /\ kEvacuationSet \in meta[obj].bits)
      ~> phase = "idle"

-----------------------------------------------------------------------------
(* The inductive invariant behind CacheCoherent, AccessCurrent and         *)
(* Transparent, in parts.                                                  *)

ScopeInv ==
    /\ pc = "idle" <=> op = "none"
    /\ pc = "enter" => ~scope
    /\ pc # "enter" => (scope <=> in_scope)
    /\ ptrs # {} => in_scope
    /\ pc \in {"allocate", "deref", "publish", "slow", "fast"} => in_scope
    /\ pc \in {"deref", "publish", "slow"} => obj \in ptrs
    /\ pc = "allocate" => obj \notin ptrs
    /\ pending => phase = "wait"

FrameInv ==
    /\ \A o \in Objects : o \notin ptrs =>
          kPresentClear \in meta[o].bits /\ far[o] = Undef /\ gpc[o] = "none"
    /\ \A o \in Objects : Present(o) => meta[o].addr \in Frames
    /\ \A o, p \in Objects : Present(o) /\ Present(p) /\ o # p => meta[o].addr # meta[p].addr

(* Where an evacuation cycle can be with an object. *)
VictimInv ==
    /\ phase = "idle" => held = {} /\ \A o \in Objects : gpc[o] = "none"
    /\ phase = "wait" => \A o \in Objects : gpc[o] \in {"none", "done"}
    /\ \A o \in Objects : gpc[o] # "none" =>
          Present(o) \/ (phase = "move" /\ gpc[o] # "todo")
    /\ \A o \in ptrs : kEvacuationSet \in meta[o].bits =>
          /\ Present(o)
          /\ \/ phase = "mark" /\ gpc[o] \in {"load", "store", "done"}
             \/ phase = "wait" /\ gpc[o] = "done"
             \/ phase = "move" /\ gpc[o] = "todo"
    /\ \A o \in Objects : Present(o) /\ meta[o].addr \in held =>
          kEvacuationSet \in meta[o].bits \/ (phase = "mark" /\ gpc[o] = "todo")

(* What the evacuator is about to report, and what it has reported. *)
ReportInv ==
    /\ \A o \in Objects : gpc[o] = "store" =>
          /\ FastFor(greg[o], "load") => Current(greg[o], o)
          /\ kEvacuationSet \in meta[o].bits => kEvacuationSet \in greg[o].bits
    /\ \A o \in ptrs :
          (~MarkRaces /\ kEvacuationSet \in meta[o].bits /\ gpc[o] \in {"done", "todo"})
             => kEvacuationSet \in obj_state[o].bits

(* The word in the register is current, and the object cannot be moved     *)
(* before the thread leaves its scope.                                     *)
RegInv ==
    /\ (pc \in {"publish", "slow"} \/ (pc = "fast" /\ ~MarkRaces)) =>
          /\ Current(reg, obj)
          /\ op = "store" => kDirtyClear \notin meta[obj].bits
          /\ kEvacuationSet \in meta[obj].bits =>
                phase = "mark" \/ (phase = "wait" /\ pending)
    /\ pc = "publish" /\ ~MarkRaces => kEvacuationSet \notin meta[obj].bits

(* A word the guards accept holds an address. *)
WordInv ==
    /\ \A o \in Objects :
          /\ FastFor(obj_state[o], "load") => obj_state[o].addr \in Frames
          /\ FastFor(greg[o], "load") => greg[o].addr \in Frames
    /\ pc \in {"fast", "slow"} => reg.addr \in Frames

(* A clean object is the same locally and remotely. *)
CleanInv ==
    ~MarkRaces => \A o \in Objects :
        Present(o) /\ kDirtyClear \in meta[o].bits => local[meta[o].addr] = far[o]

(* What holds of the protocol whatever the program does with the addresses *)
(* the guards have given it.                                               *)
CoreInv ==
    /\ TypeOK /\ ScopeInv /\ FrameInv /\ VictimInv
    /\ ReportInv /\ RegInv /\ CacheCoherent /\ WordInv

IInv == CoreInv /\ CleanInv
=============================================================================
