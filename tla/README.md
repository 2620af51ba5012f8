# TrackFM in TLA+

TrackFM compiles an application so that its heap may live in the memory of
another machine. Compiler passes put a *guard* before each load and store and
replace libc calls; a runtime library brings the object behind a pointer into
local memory. Objects are fetched, moved and written back by AIFM (a git
submodule that is not part of this repository).

This directory holds TLA+ modules for the runtime and for the code the compiler
emits, TLC configurations that check them on small instances, and TLAPS proofs
for all instances. `PROJECT.json` maps each definition to the source lines it
models.

## 1. Inventory

| Component | State | Operations | Interacts with |
|---|---|---|---|
| Guards (`carm_transform` pass) | a metadata word in a register | load the cached word, test the exception bits, take the address or call the slow path | reads `carm_obj_state`, calls the dereference runtime |
| Dereference runtime (`carm.cpp`) | `carm_obj_state`, `in_scope`, `ptrs_` | `carm_deref_read/write` and variants, `allocate_object`, `update_cache_object` | AIFM's `__deref`, `DerefScope`; evacuation threads call `update_cache_object` |
| AIFM (external) | object metadata, local regions, remote copies | dereference, prefetch, evacuate | everything above |
| Remote heap (`libc_support.cpp`) | `aspace_start`, `allocation_map`, `free_list_map`, `ptrs_`, `total_obj_cnt` | malloc, calloc, realloc, free, recycling | the index an AIFM object reports to |
| Loop chunking (`carm_loops.cpp`, `carm_loop_transform`) | `loopstate`, `loop_id_cnt`, pinned regions, a local pointer and bound per chunked pointer | `carm_loop_init`, `carm_deref_loop_*`, `invalidate_loop_index`, the bound check at the back edge | slow path, AIFM's region pins |
| libc on remote memory (`libc_support.cpp`) | cursors of a chunked copy or scan, buffers of a stream, the collected arguments of a printf | memcpy, memset, memcmp, strlen, memchr, strtoul, fread, fwrite, printf family | `_ptrDeref`, libc |
| Access instrumentation (`carm_checks`) | `carm_checks`, `alloca_list` | add a check to each load and store, sweep until none on a stack variable is left | the next three passes read the checks |
| Loop selection (`carm_loop_checks`, `carm_profile_checks`) | candidate geps, induction variables, offsets | choose geps with a start, a step and a mutability | hands `carm_deref_loop` calls to loop chunking |
| libc replacement (`carm_libc_transform`) | function map, `local_malloc` | redirect calls to the runtime, honour annotations | libc on remote memory, heap |
| Program start (`carm_init`, `carm_runtime.cpp`) | `arg_count`, `pargs`, `carm_rt` | turn `main` into `do_work`, keep the arguments, build the runtime | all |
| Prefetcher hooks (`carm.cpp`) | the trace of indices | report indices, bound what may be prefetched | AIFM |

What is hard here: evacuation threads move objects and rewrite metadata while
the application runs between a guard and the access it protects; the slow path
leaves its AIFM scope open until the next slow path; an index, an AIFM object and
a cached word must keep naming each other through recycling; a chunked loop runs
unguarded over pinned memory; offsets, counters and bounds sit at the edges of
objects; a pass reads what an earlier one left behind (checks, geps, flags) and
decides from a search that may not see everything; a stream may end early.
`PROJECT.json` lists these hazards at their lines.

What makes each component correct: the far memory behaves like one flat memory
(guards, runtime and AIFM together); a block keeps its object until it is freed
and counts never run over (heap); a chunked pointer is where the original one
would be, in memory that cannot move (loops); a libc function does what the C
library does on flat memory (libc); no access to remote memory loses its guard, and
a chunk walks where the pointer did (passes); nothing needs the runtime before it
exists and blocks are where the source wants them (start).

## 2. Modules

| Module | Models | Lines of argument |
|---|---|---|
| `FlatMemory` | what the program is promised: a memory with loads and stores | abstract specification |
| `CarmDeref` | guards, slow path, metadata cache, AIFM's dereference, prefetch and evacuation | implements `FlatMemory` |
| `CarmAlloc` | the remote heap and its recycling | |
| `CarmLoops` | loop chunking: slots, pins and the walk | |
| `CarmLibc` | the libc functions that walk a far buffer object by object | checked against libc over a flat memory |
| `CarmStdio` | streams and the sprintf family | extends `CarmLibc` |
| `CarmCopy` | a copy between two far objects, with the evacuator | extends `CarmDeref` |
| `CarmPins` | a chunked loop, with the evacuator and the slow paths of its body | extends `CarmCopy` |
| `CarmChecks` | the `carm_checks` pass over one function | |
| `CarmChunks` | the passes behind it: loop selection, loop transformation, guards | extends `CarmChecks` |
| `CarmStart` | `carm_init`, `carm_libc_transform`, and the start of the program | |
| `MCCarm...` | instances for TLC | |
| `Carm...Proofs` | TLAPS proofs: `CarmDerefProofs`, `CarmPinsProofs` (also about `CarmCopy`), `CarmLoopsProofs`, `CarmAllocProofs`, `CarmLibcProofs`, `CarmStdioProofs`, `CarmChunksProofs` (also about `CarmChecks`), `CarmStartProofs` | section 4 |

How they compose: the passes (`CarmChunks`) decide which accesses are guarded, and
`CarmDeref` is what a guarded access does; they decide which pointers are chunked,
and `CarmLoops` is what a chunked loop does. `CarmCopy` and `CarmPins` put two users of
an address, a libc function and a chunked loop, on top of the dereference
protocol, where `CarmLibc` and `CarmLoops` take a dereference for one step.

A definition called a *mutant* in its comment is a deliberately wrong variant of
the definition after it. It is not used by the specification; replacing the
definition by it must make a property fail.

### CarmDeref

State of the code: `ptrs` (which entries of `ptrs_` are set), `obj_state`
(`carm_obj_state`), `in_scope`, and the application thread's `pc`, pending access
(`op`, `obj`, `val`), register `reg` and load result `ret`. State of AIFM: `meta`
(metadata of each object), `local` (frames), `far` (remote copies), `scope` (is the
thread inside a `DerefScope`), and the evacuation cycle (`phase`, `gpc`, `greg`,
`held`, `pending`). A metadata word is the set of its exception bits and an
address. Contents are one value per object.

`Issue`, `Guard`, `Release`, `Acquire`, `AllocateObject`, `Deref...`, `Publish` and
`Access` are the steps of one guarded access in program order; the fast path goes
from `Guard` to `Access`. `update_cache_object` is two steps, `UpdateCacheLoad` and
`UpdateCacheStore`, because it runs on evacuation threads. The evacuation cycle is
what the runtime relies on: mark the victims (evacuation bit) and report them,
wait until the scope that was open then is left, move or write back, report again,
free the regions. `runtime/build.sh` line 7 switches the reports on in AIFM.

`MarkRaces` says whether the evacuator may mark an object after `__deref` has read
its metadata and before `carm.cpp` has stored that word (`carm.cpp` line 82). The
repository does not exclude it. With `MarkRaces = FALSE` the protocol implements
`FlatMemory`; with `TRUE` it does not (run `deref_race`).

Properties: `CacheCoherent`, `AccessCurrent`, `ScopesAlternate`, `Transparent` (the
refinement) and `EvacuationCompletes`.

### CarmAlloc

Addresses are offsets from `START_ADDR`. An AIFM object is named by the index it
was created for. `cached` records whose address the word in `carm_obj_state` holds,
so that a guard's fast path and `update_cache_object` (`Evacuate`) can be followed
through recycling. `carm_free` runs one iteration of its loop per step
(`FreeObject`), with the evacuator in between. `live` is the set of blocks the
program owns; the program frees and accesses only those.

`CountLive = FALSE` keeps all the program has asked for within the object list;
`CountLive = TRUE` only bounds the objects it owns at a time. Two bounds of the model
are not in the code, which never looks at `TOTAL_OBJECTS`: `BumpBound` stops the bump
pointer, and `CopyBound` the copy of a `realloc`, below the end of `ptrs_`. A `realloc` to
a smaller size copies the size of the old block (line 372), over the end of the new one
and possibly of the object list; `overrun` (history) keeps the indices behind the list
that it touches. The guards cache the address of an object there, and when the list
comes to the index later, that word is of the wrong object: `LiveIndexOwnsObject`
exempts these words, and without the exemption it fails. `free_list_map` and
`ptrs_` come from `malloc`s of hundreds of megabytes, which are fresh zero pages;
the model starts with zeros.

Properties: `FreeListBound`, `LiveIndexOwnsObject`, `LiveObjectStays`, and `ListBound`: the
list grows by no more slots than the bump pointer has passed objects, so that only the
bump pointer can take `update_object_list` past the end of `ptrs_`.

### CarmLoops

A nest of loops, each with one or more chunked pointers `[addr, step, remote]`; a
step of 0 is a pointer that does not move in this loop. `Enter` reaches the
preheader, `Header` runs `carm_loop_init` and the first dereference for one pointer,
`BackEdge` and `Check` the bound check, `Exit` and `Invalidate` the exit block. A local
pointer is the object it points into and an offset. The result of
`carm_loop_init` carries the slot above bit `LOOP_ID_POS`, as in the code. Pins are
counted per object. `Enter` lets the program nest at most `MAX_LOOPS` chunked pointers
(`PointersOpen`): the code indexes `loopstate` without a comparison, and what it does
behind the array is undefined. That a nest within this bound never makes
`carm_loop_init` use a slot behind it is the invariant's business, since slots are given
back out of order.

Properties: `WalkAgrees`, `PointersPinned`, `PinsBalanced`, `SlotsAreStack`.

### CarmLibc

A pointer is far or local; `mem` holds the bytes of both memories. `Call` is a call
of the program, `FirstFunction` and `Measured` say which function goes on with
which (`carm_strcpy`, `carm_strdup` and `carm_fopen` measure and copy, `carm_strcmp`
measures and compares, `carm_strncpy` and `memmove` are copies). `carm_read` gets any
answer from -1 to the size it asked for, and copies what has arrived. The
steps of a call are the iterations of the loops, one object each: `CopyOne`,
`CopyBoth`, `SetChunk`, `CompareOne`, `CompareBoth`, `ScanString`, `SearchChunk`.
Cursors are `unsigned int`: they count modulo `CursorMod`; the length of a string is an
`int` that becomes a `uint64_t` (`Signed`, `SizeMod`). The `int` of `memset` and `memchr` is
any of `Ints`, also one that is no byte; `Filled` converts it as libc does, `SearchChunk`
compares it as it is (line 676). `_ptrDeref` is an address
computation here; `CarmDeref` models what it does. What libc would do, both where
the code calls it and as the reference, is `Moved`, `Filled`, `Compared`, `Found`,
`Length` and `Number`. The `exit(0)` branches for an empty chunk cannot be taken: an
offset is smaller than `OBJ_SIZE`. Arguments are those C allows: buffers inside one
memory, terminated strings, no overlap except for `memmove`.

Properties: `AgreesWithLibc` (at the end), `OnlyDestinationWritten` (at every chunk).

### CarmStdio

`carm_fread` and `carm_fwrite` read and write a far buffer object by object through a
buffer of libc; one step is one object (`FreadPortion`, `FwritePortion`), and
`Portion` is what libc is asked for. The file is the bytes still to be read, or those
written. Every transfer may be short, at the end of a file, on a full device or for an
error; the code goes on with the next object all the same, and that transfer may be
whole again. `device` (history) says whether libc has stopped, and whether it has gone
on after that. `Unsupported` is the `exit(0)` for an element
size that does not divide an object.

The sprintf family measures the text if it has to (`carm_vsprintf`,
`get_size_of_valist`) and prints it (`carm_vsnprintf`): with near arguments libc
prints, to a far buffer through `tmp`, which is not initialised (any bytes behind the
text); with far strings `__vsn_printf` puts the text together itself. A format is a
sequence of pieces: a character, a number, a string. `Printable` says which calls the
text properties speak of (section 3, known limits).

Properties. `StreamsAgree`: the file, the count and all of the memory are those of one
call of libc that moves as many bytes, with one difference it states: `carm_fread` copies
whole objects of a zeroed buffer, so what a short read does not reach becomes zeros in
far memory, where libc leaves it alone. It does not speak of transfers that resume after
a short one: there the code leaves a gap in the buffer or the file, and libc has no
equivalent. `PrintedText`: the text, and with near strings the result. `StdioWithinReach`:
streams, `snprintf` of near strings and `sprintf` into local memory write only the buffer
they were given; the other prints, in or out of `Printable`, write at most `Reach`, a byte
for every string and one for every directive more than the text. `CallsEnd`, for these
functions and those of `CarmLibc`.

### CarmCopy

`CarmDeref` with a second kind of operation: `CopyStart` dereferences the
destination, `CopySource` keeps its address in `d` and dereferences the source,
`CopyMove` is the `memmove`. Between them run the actions of `CarmDeref`: guard, slow
path, evacuation, prefetch. The program stores into the objects of `Sources` and
copies from them to the others.

Properties: `CopyArrives`, and what is left of it when the source takes the fast
path: `CopyArrivesFast`, `DestinationCurrent`.

### CarmPins

A third kind: `ChunkDeref` gives up the pin of the last object and takes the slow path
to the next (`carm_deref_loop_write` and `_read`), `ChunkPin` pins its region and keeps
the address as the local pointer, `ChunkStore` uses it without a guard, and
`LoopExit` is `invalidate_loop_index`. Between the accesses the body makes guarded
stores, whose slow paths leave the scope in which the chunk was dereferenced. What
the two calls into AIFM promise is not in the repository; the model assumes that an
evacuation does not choose a pinned region (`PinGcStart`), and that one that has
chosen it before goes on. `keeper` records which of the two happened: the pin keeps
the object, or only the scope does, until the next slow path.

Property: `ChunkStays`. Without `keeper` it fails: `carm_loops.cpp` line 51 pins after
the dereference, and TLC shows an evacuation that starts in between, waits for the
scope, and moves the object at the next slow path of the body while the loop still
writes to the old frame.

### CarmChecks and CarmChunks

A function is a sequence of instructions; a value is its position. The loops of the
function are one nest and an instruction has a level in it. `pass` says which pass
runs. `InsertChecks`, `SweepCheck` and `SweepAgain` are `carm_checks`; the order in which
a sweep looks at the checks is the order of a set of addresses, so any order is
possible. `LoopChecks` and `ProfileChecks` are the two passes for loop selection, of
which a build uses one; the profile is any from a set. `Chunk` is what they hand over
for a gep: start, step, constness, mutability. `TransformLoop` is
`carm_loop_transform` for one gep, with the checks it deletes, and `Guards` is
`carm_transform`.

The properties need to know what a pointer may be when the function runs: `Kinds` is
the least solution of `KindsStep`, over stack addresses, far pointers, local pointers
of chunks, and `Stray` local addresses that nobody keeps valid.

An `icall` is a call through a function pointer, which `is_mutable` does not count.

Properties: `ProtectedAccesses` and `StoresMarkDirty` over the result of all passes,
`ChunksFollowGep` (start and step against the gep's own arithmetic), `SweepsConfluent`
(the sweeps compute the same set in every order), `PassesEnd`.

### CarmStart

A module is a function for the globals, a constructor that runs behind it, and `main` or
`do_work`; a function is the sequence of its allocator calls. `InitTransform` and
`LibcTransform` are the passes, for which `mmap` is a `malloc`; then the loader runs the
constructors, `main` reads the command line and runs `do_work`, and the calls go to libc
or to the runtime as the passes left them (`Calls`). `heap` says where each variable's
block is, `wanted` (history) where the source says it is to be.

Properties: `CallsFindRuntime`, `AnnotationsHonoured`, `ArgumentsArrive`.

## 3. Runs

| Run | Result | Shows |
|---|---|---|
| `deref` | passes | with no mark before the slow path's store: words that guards accept are current, accesses go to the right frame, scopes alternate, and `CarmDeref` implements `FlatMemory` |
| `deref_live` | passes | an evacuation that waits ends once the thread takes a slow path or reaches an access to a victim |
| `deref_race` | violated | the store of line 82 hides a mark; a later store is lost |
| `alloc` | passes | while requests stay within the object list: counts fit, every index in use keeps an object of its own, cached words too unless a shrinking `realloc` has copied over them, and the list grows no faster than the bump pointer |
| `alloc_end` | violated | recycling overwrites the slot of a block in use |
| `loops` | passes | elements that divide an object: pointers, pins and slots are right, in nests of at most `MAX_LOOPS` pointers |
| `loops_field` | violated | a field of an array of structs is read at the wrong offset from the second object on |
| `libc` | passes | for every position of the buffers relative to the object borders, the supported calls (below) of the chunked functions do what libc does and write nothing but the destination, streams move and count what libc would (and zero the rest of a far buffer), supported prints leave their text, no print writes farther than `Reach`, and all calls end |
| `copy` | passes | under one scope both addresses of a copy are good and it arrives; the local pointer of a chunked loop stays at its object through slow paths of the body |
| `copy_slow` | violated | the slow path of the source gives up the scope that protects the destination; the copy is lost |
| `passes` | passes | no far access loses both its guard and its chunk, stores and named functions mark the objects they are given dirty, a chunk walks where the gep did, the sweeps do not depend on their order, and the passes end |
| `start` | passes | replaced calls find the runtime, annotations decide where blocks are, the program sees its own arguments |

The four runs that end in a violation are the findings of `PROJECT.json`.

Bounds. `deref`: two objects (one accessed while the other is moved, and both in
the same evacuation) and four frames (each object and a place to move it to), one
value besides the undefined one, which tells a lost store; objects, frames and
values are symmetric. `deref_live`: one object, two frames, no symmetry because of
the temporal formula. `alloc`: objects of four bytes, a multiple of two, a working
set of two objects and a bump pointer that may reach four, sizes of nothing, of part
of an object and of more than one; so blocks share objects, span objects, and use
recycled slots. The address space is finite, so a program may come to a stop
(`CHECK_DEADLOCK FALSE`). `loops`: objects of four bytes, three slots, up to two
pointers per loop and three nested loops, four iterations, which cross objects for
every step. `libc`: three far objects of two bytes and two local bytes with any
contents from two byte values, so a buffer starts at either offset, ends before, at
or behind a border, and spans up to three objects; the cursor counts to 16, more
than any size, and an `int` to 7, more than any string with its NUL. The `int` of a `memset` is
a byte or -1, that of a far `memchr` a byte; a `read` answers everything it can. Elements of a stream are 1, 2 or 3 bytes
(one of them does not divide an object); files end inside the second object or behind
the buffer, and every transfer may be as short as it likes; a format is a number, a
character and a string, or two strings; a buffer of `snprintf` has no byte, or two or
three (`PrintSizes`), so texts are cut.
A program may end with `exit(0)` (`CHECK_DEADLOCK FALSE`). `copy`: one source, one
destination, which is also what loops walk over, and three frames, so that one of
them can be moved; a loop body makes stores but no copies (a bound in `PinNext`). One
slot is enough: a second one has pins of its own. Local memory can be full, and a
thread that finds no frame then waits (`CHECK_DEADLOCK FALSE`). `passes`: all
functions of six instructions (a stack variable, a pointer, and four that compute
addresses and access them) in loops of levels 1, 2 and 4, with a variable that counts
up in the outer loop, one that counts down in the inner one, one whose loop is nested
too deep and one that is no induction variable; profiles of no invocation, just below
and at the ratio; three values of each outer variable. Four address computations are
enough for a chain of a gep, a phi and a cast, and for two checks that depend on each
other in a sweep. The compiler stops (`CHECK_DEADLOCK FALSE`). `start`: programs of up
to three calls of the allocator on two variables behind four kinds of constructors,
four command lines: two too short for the configuration, one without arguments and one
with two; the program ends (`CHECK_DEADLOCK FALSE`).

Supported programs. Four runs speak of the programs TrackFM supports, as far as the
code tells. `Supported` in `CarmChunks`: no phi joins a stack address, as its first
value, with another pointer, because `uncast_ungep` follows the first value only
(`ProtectedAccesses` fails otherwise); no gep or phi of an element a loop walks over, and
no call of an unknown function with it, because `is_mutable` does not look at them
(`StoresMarkDirty` fails). `SupportedSpec` and `FairSpec` start from such functions;
`SweepsConfluent` and `ChunksFollowGep` need only SSA form. `ConstructorsWait` and
`AnnotationsFit` in `CarmStart`, which `MCCarmStart` asks of its programs: an annotation is
for the variable of the next `malloc` or `mmap`, with no `calloc` of that variable in
between, and constructors do not allocate (`AnnotationsHonoured` and `CallsFindRuntime`
fail: an annotated `calloc` is not honoured, and `carm_remote_malloc` in a constructor
writes through a null `carm_rt`). `Legal` in `CarmLibc` without `CornerCases`: a search of
far memory ends with an object and is for an `int` that is a byte, a number does not cross
an object. `Printable` in `CarmStdio`: a `sprintf` has at least one string, far strings
come one at a time and last, and fit. `alloc` and `loops` speak of programs within the
object list and within `MAX_LOOPS`.

Known limits that no run is about. In each of them the code differs from what the
properties ask, and the models exclude or state it.

- `CornerCases = TRUE`: `AgreesWithLibc` fails for `memchr`, which looks at whole objects
  and finds bytes behind the buffer, and which never matches an `int` outside of 0 to 255
  in far memory (a negative `char`, say: line 676 compares it unconverted, libc makes it a
  byte); and for `strtoul`, which reads behind the object although `libc_support.cpp` line
  614 says "minimum alloc size is 8 bytes so we should be safe".
- `"memmove"` among `Fns`: overlapping buffers are moved from the front, chunk by chunk.
- `"strncpy"` among `Fns`: what follows a shorter string is copied instead of zeros.
- Memories of 2 GiB and more. The lengths of strings (lines 418, 423, 441, 701, 706, 723,
  1143, 1263), the answer of `read` and the offsets of a stream (1189, 1227) are `int`s and
  turn negative; cursors wrap at 4 GiB, where `carm_memset` never ends. A `CursorMod` in
  the place of 2^32 that is too small shows it.
- Short reads of `carm_fread` zero the rest of the far buffer (`StreamsAgree` states it); a
  transfer that resumes after a short one leaves a gap, of zeros in the buffer or of bytes
  that are missing in the file (`StreamsAgree` leaves it out).
- `carm_sprintf` without a `%s` has no room for the NUL and loses its last character. A
  `%s` adds one byte for each NUL to the size that is measured, so with two strings and
  more a `sprintf` of near strings to far memory copies bytes of `tmp` that nothing has
  written behind the text (978, 1012-1013).
- With far strings `__vsn_printf` (901-945) ignores the size of `carm_snprintf`, keeps the
  NUL of each string in the text and writes a byte too many per directive, behind the
  text and possibly behind the buffer; its result counts them. `StdioWithinReach` says how
  far. `carm_snprintf` with more than 4096 bytes overruns `tmp`.
- `carm_fread` and `carm_fwrite` divide by the element size, which C allows to be zero.
- `carm_free` stops at the first untouched object of a block (line 335) and never
  recycles touched ones behind it; no property of `CarmAlloc` depends on it.
- A `carm_realloc` to a smaller size copies over the end of its block and of the object
  list (line 372); `overrun` marks where that leaves a stale address behind the list.
- The bump pointer and the object list are never compared with `TOTAL_OBJECTS`
  (lines 249-254 and 291), nor `loop_id_cnt` with `MAX_LOOPS` (`carm_loops.cpp` line 128):
  `BumpBound`, `CopyBound` and `Enter` bound the program instead.
- `carm_realloc` of a null pointer allocates local memory.
- `carm_libc_transform` turns `mmap` into a `malloc` of its first argument (849-862), the
  address the program would like, and leaves `munmap` alone; `CarmStart` has no sizes, and
  models that it uses up the flag of an annotation.
- A chunk whose pointer is only passed to functions called through a pointer is
  dereferenced for reading (`carm_loop_checks` lines 165-177): what they store is lost.
- A chunked pointer that descends never reaches the object before, because the bound
  is compared from below; steps in `CarmLoops` are natural numbers.
- The result of `do_work` is dropped: the process does not exit with the status of the
  program's `main`.

Fairness. `deref_live` assumes that the application thread finishes an access it
has begun and that the evacuation threads run: both are ordinary threads. It does
not assume that the program ever accesses memory again, so the property starts
from a thread at a slow path or at an access to a victim: before that the scope
may stay open for as long as the program likes. `libc` assumes that a call that was
made goes on, and `passes` that the compiler does: each is one thread's code.

## 4. Proofs

Eight modules hold the proofs, one per component; they import the components and
change nothing in them. Every safety invariant and every safety action property that
a run checks, and the refinement, is a theorem for all values of the constants. Each
theorem rests on an inductive invariant that is stated in parts at the end of the
component's module and holds in the runs of section 3 (TLC checks it there as an
`INVARIANT`). There is one lemma per action (`...Keeps`), with one step per
part of the invariant the action can disturb, and lemmas about the operators it uses.

| Module | Theorems | Under |
|---|---|---|
| `CarmDerefProofs` | `InductiveInvariant`, `TypeCorrect`, `CacheCoherence`, `AccessesAreCurrent`, `ScopesBalance` | both values of `MarkRaces` |
| | `Refinement` of `FlatMemory` | `~MarkRaces` |
| `CarmPinsProofs` | `PinInductive`, `PinTypeCorrect`, `ChunksStay` | both values of `MarkRaces` |
| | `DestinationsAreCurrent`, `FastCopiesArrive` | `~MarkRaces` |
| `CarmLoopsProofs` | `LoopsInductive`, `LoopsTypeCorrect`, `PinsStayBalanced`, `SlotsStack`, `PointersStayPinned` | |
| | `WalksAgree` | `AlignedWalks` |
| `CarmAllocProofs` | `AllocInductive`, `AllocTypeCorrect`, `FreedBytesFit`, `ListIsBounded` | both values of `CountLive` |
| | `OwnInductive`, `IndexOwnsObject`, `LiveObjectsStay` | `~CountLive` |
| `CarmLibcProofs` | `LibcInductive`, `LibcAgrees`, `LibcStaysInside` | `Faithful` |
| `CarmStdioProofs` | `StdioInductive`, `StdioTypeCorrect`, `StdioStreams`, `StdioPrints`, `StdioStaysInside`, `StdioAgrees` | `Faithful` |
| `CarmChunksProofs` | `PassesInductive`, `PassesTypeCorrect`, `SweepsAreConfluent`, `ChunkWalksAreGeps` | |
| | `AccessesAreProtected`, `StoresAreMarked` | `Supported` |
| `CarmStartProofs` | `StartInductive`, `StartTypeCorrect`, `ArgumentsAreDelivered` | |
| | `RuntimeIsFound` | `ConstructorsWait` |
| | `BlocksAreWhereWanted` | `AnnotationsFit` |

Assumptions on the constants are the named `ASSUME`s of the modules; TLC evaluates
them on every run. They say what kind of value a constant is (sizes are positive,
"none" is no frame, a program consists of calls), and three more things:
`LoopsAssumption` gives the provers, which know nothing of powers, what
`2 ^ LOOP_ID_POS` is; `ObjectsAssumption` makes the bound `Objects` of `CarmLoops`
large enough for `MaxTrips` iterations; `ChecksAssumption` asks for functions in SSA
form (`WellFormed`). The conditions in the table are these:

- `~MarkRaces`: the evacuator marks no object between a dereference and the store of
  its word. Run `deref_race` shows what happens otherwise.
- `~CountLive`: the program has asked for no more than the object list holds. Run
  `alloc_end` shows what happens otherwise.
- `AlignedWalks`: an element divides an object and walks start at a multiple of it, or
  steps are whole objects, or the pointer does not move. The pointers of `loops` are
  such; those of `loops_field` are not, and it shows what happens.
- `Faithful`: what `libc` uses: no overlapping moves and no `strncpy`, `CornerCases`
  off, and memories whose sizes are positive `int`s (below 2 GiB). The known limits of
  section 3 are what it excludes.
- The bounds on the program in `CarmAlloc` (`BumpBound`, `CopyBound`) and `CarmLoops`
  (`Enter`) hold in all theorems of `CarmAllocProofs` and `CarmLoopsProofs`: the type
  theorems say that within them the arrays are not left, not that the code checks them.
- `Supported`, `ConstructorsWait`, `AnnotationsFit`: the supported programs of section 3.
  TLC checks that the programs of `passes` and `start` satisfy them.

The arguments:

**Dereference protocol.** `CacheCoherent` is not inductive: the word in `carm_obj_state`
may be stored from a register (`Publish`) or from the evacuator's register
(`UpdateCacheStore`), and it stays right only while the evacuator keeps to its
protocol. `CoreInv` adds `ScopeInv` (where the thread is and whether a scope is open),
`FrameInv` (distinct present objects are in distinct frames), `VictimInv` (which phase a
marked object can be in), `ReportInv` (what the evacuator is about to store is
current, and a marked object has been reported), `RegInv` (the register is current and
the object cannot be moved before the thread leaves its scope) and `WordInv` (a word
the guards accept holds an address); `IInv` adds `CleanInv` (a clean object equals its
remote copy). The refinement maps the flat memory to `Contents`: the frame of an object
that is present, its remote copy otherwise. `FillContents` is the common argument of
allocation, swap-in, migration and evacuation copies: a free frame gets the contents of
the object that moves in. A write-back needs `CleanInv`, an access `RegInv`, the end of
an evacuation `VictimInv`.

**Copies and chunked loops over it.** `CoreInv` does not depend on what the program does
with an address, so copies and loops keep it. `PinInv` adds which address each stage of
a copy holds (`StageInv`), when the address of the destination is still good
(`DestInv`), that victims which have not moved are in a region under evacuation
(`HeldInv`), and what keeps the chunk (`KeeperInv`): a pin on a region that is not under
evacuation, or a scope that has not been left.

**Nested loops.** `carm_loop_init` hands out slots in order, but the exit block gives
them back first to last, so the slots in use are not a prefix while it runs. `SlotInv`
and `ActiveInv` say which they are; `HoldInv` says what each slot holds, and
`PinsBalanced` then counts. `CrossInv` bounds the object a walk can be in by its
iterations. `WalkInv`, for `WalksAgree`, says that an offset stays a multiple of the
element, so a step that reaches the bound reaches it exactly.

**Remote heap.** The freed bytes of an object are counted against those that are still
*occupied*: never handed out, in a block the program owns, or in the rest of the block
that `carm_free` is going through. The two never exceed an object (`CountInv`), blocks do
not overlap (`BlocksInv`), and the list grows only when an object is freed as a whole,
which happens once (`RecycleInv`); so `carm_free` does not abort, and the list grows by no
more than one slot for each object that the bump pointer has passed (`ListBound`):
recycling alone does not overrun `ptrs_`. `OwnInv` adds that what lies behind the end of
the list is empty, but for indices in `overrun`, which is why recycling hits no index in
use.

**libc.** What the cursor of a loop has passed is done, the rest is as it was, and the
loop's `Carm_Ptr` is where the cursor is. A step adds one chunk: `MovedOn`, `FilledOn`,
`ComparedOn` and `FoundOn` say that doing a part and then the next is doing both. For
`strcmp` the bytes that decide are those up to the shorter string (`CompareArguments`).
**Streams and printfs.** A stream has passed whole elements, has moved and counted them,
and has taken as many bytes from the file; after a short transfer that is not resumed
nothing more is moved, and a far buffer is zeros from there to what has been passed. A
text is measured with the memory it is printed from; the NUL that follows a far string
is the NUL of the text, and what is printed of other texts has at most `Reach` bytes.
`StdioTypeCorrect` bounds cursors and Carm_Ptrs by the room of the call's buffers.

**Passes.** While `carm_checks` sweeps, what it takes for a stack variable is one, and
what it has looked at and left is not (`SweepInv`): therefore every order ends with the
same checks. `LeftInv` says which checks each pass leaves, `ChunkInv` that chunks are
those of `LoopChecks`. `ChunksFollowGep` compares two sums over the variables of a gep,
by the linearity of `SumFunction`. For `ProtectedAccesses` the least solution of `Kinds`
is built in rounds, and each round keeps to the pairs that are right for the value:
stack, far, or the gep whose chunk it is. A value that a cycle of phis feeds has a first
value outside of the cycle, where `Root` ends. `StoresMarkDirty` needs that
`is_mutable` finds the stores and the named functions behind casts.

**Start.** `CodeInv` says what each pass has made of the source, `RuntimeInv` when the
runtime exists, `ArgumentsInv` where the command line is. `ArgumentsArrive` follows for
every command line. For `AnnotationsHonoured` the calls of the source and those of the
compiled module are compared one by one.

Only model-checked: `EvacuationCompletes`, `CallsEnd` and `PassesEnd`, since liveness
under fairness is beyond the prover, and the four violations. Recursive functions
(`Pieces`, `Number`, `SumFunction`, `Root`, the rounds of `Kinds`) are reasoned about
through the least number for which a claim would fail, and through a lemma that there
is a function which satisfies the recursion.

## 5. Plan

1. Done: `CarmDeref` with its refinement, `CarmAlloc`, `CarmLoops`, `CarmLibc`,
   `CarmStdio`, `CarmCopy`, `CarmPins`, `CarmChecks` and `CarmChunks`, `CarmStart`.
2. Done: the proofs of section 4.
3. Proofs that are left: `CarmLibc` over the dereference protocol (a refinement that
   replaces its `_ptrDeref` by the guarded access of `CarmDeref`), `Printable` texts with
   several strings, and that the known limits of section 3 are the only ones.
4. Models: byte-level addresses in the guard, for unaligned accesses; `carm_memcmp`
   over the dereference protocol; descending chunks.

## 6. Not modelled

- AIFM beyond what the runtime relies on: it is not in the repository.
- More than one application thread: the top-level `README.md` calls it untested, and
  `in_scope` and the printf arguments are globals.
- The CFG surgery of the passes: splitting of blocks, phis of the new blocks, dominator
  updates. The code they emit is modelled, not the IR they rewrite.
- `carm_fprintf`, whose output is no memory of the program (it prints through `tmp`,
  with a NUL in the place of the last character); the wide-character functions and
  `carm_vfprintf`, which only exit.
- Prefetch traces and the stride prediction: they choose which objects are
  prefetched, and in `CarmDeref` any object may be.
- Argument parsing of the passes, logging, statistics.
- Applications, experiments, plots and the fastswap baseline. They are most of the
  repository's lines (memcached, the NAS benchmarks, data frames, scripts); TrackFM's
  own runtime and passes are about 7850 of 51564 implementation lines, of which the
  definitions model some 3600; the rest of the repository only uses TrackFM.
