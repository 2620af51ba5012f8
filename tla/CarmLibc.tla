------------------------------ MODULE CarmLibc ------------------------------
(***************************************************************************)
(* The libc replacements of libc_support.cpp that walk a buffer of the far *)
(* heap object by object: the copies, the fill, the comparisons and the    *)
(* string functions, with local buffers on either side.                    *)
(*                                                                         *)
(* A pointer is far (the CARM_PTR bit is set) or local, with the rest of   *)
(* its address.  One step is one iteration of a loop, that is one object;  *)
(* what _ptrDeref does underneath is the subject of CarmDeref.  The libc   *)
(* function that serves two local pointers does what the reference says.   *)
(***************************************************************************)
EXTENDS Integers, FiniteSets, FiniteSetsExt

CONSTANTS
    OBJ_SIZE,
    NumObjects,      \* objects of the far heap
    LocalSize,       \* bytes of local memory
    ByteMod,         \* 2^8: a byte is an unsigned char
    CursorMod,       \* 2^32: int and unsigned int, the cursors of the loops
    SizeMod,         \* 2^64: uint64_t, the sizes of buffers
    Ints,            \* what the program passes for the int of memset and memchr
    Fns,             \* the functions the program calls
    CornerCases      \* may a search end inside an object or be for an int that
                     \* is no byte, and a number go on in the next object?

NUL == 0

Bytes == 0 .. ByteMod - 1

ASSUME LibcAssumption ==
    /\ OBJ_SIZE \in Nat \ {0} /\ NumObjects \in Nat \ {0} /\ LocalSize \in Nat
    /\ ByteMod \in Nat \ {0} /\ Ints \subseteq Int
    /\ CursorMod \in Nat /\ CursorMod > OBJ_SIZE
    /\ SizeMod \in Nat /\ SizeMod >= CursorMod
    /\ CornerCases \in BOOLEAN

HeapSize == NumObjects * OBJ_SIZE

(* An int as an unsigned char. *)
AsByte(c) == c % ByteMod

(* A number as an int. *)
Signed(k) ==
    LET u == k % CursorMod IN IF u < CursorMod \div 2 THEN u ELSE u - CursorMod

Pointers ==
    [far : {TRUE}, addr : 0 .. HeapSize - 1] \cup [far : {FALSE}, addr : 0 .. LocalSize - 1]

Plus(p, k) == [p EXCEPT !.addr = @ + k]

VARIABLES
    mem,     \* contents of both memories
    pc,      \* the function or loop that runs, "idle" or "done"
    call,    \* the call of the program: function and arguments
    size,    \* number of bytes the loop is to handle
    cursor,  \* bytes_transfered, bytes_set, bytes_read, len
    ptr,     \* the Carm_Ptr the loop advances
    result,  \* value of the call that is done; a pointer without its far bit
    entry    \* history: contents of the memories when the call was made

vars == <<mem, pc, call, size, cursor, ptr, result, entry>>

-----------------------------------------------------------------------------
(* Memory *)

Byte(m, p) == IF p \in Pointers THEN m[p] ELSE NUL

Room(p, n) == p.addr + n <= IF p.far THEN HeapSize ELSE LocalSize

Within(p, d, n) == p.far = d.far /\ p.addr \in d.addr .. d.addr + n - 1

Disjoint(d, s, n) == d.far # s.far \/ d.addr + n <= s.addr \/ s.addr + n <= d.addr

(* memmove of libc. *)
Moved(m, d, s, n) ==
    [p \in Pointers |->
        IF Within(p, d, n) THEN Byte(m, Plus(s, p.addr - d.addr)) ELSE m[p]]

(* memset of libc, which converts the int c to a byte. *)
Filled(m, d, c, n) == [p \in Pointers |-> IF Within(p, d, n) THEN AsByte(c) ELSE m[p]]

(* memcmp of libc, by the sign of its result. *)
Compared(m, d, s, n) ==
    LET diff == {k \in 0 .. n - 1 : Byte(m, Plus(d, k)) # Byte(m, Plus(s, k))}
    IN  IF diff = {} THEN 0
        ELSE IF Byte(m, Plus(d, Min(diff))) < Byte(m, Plus(s, Min(diff))) THEN -1 ELSE 1

(* Positions of the n bytes at p that are equal to c. *)
Found(m, p, c, n) == {k \in 0 .. n - 1 : Byte(m, Plus(p, k)) = c}

IsString(m, p) == Found(m, p, NUL, (IF p.far THEN HeapSize ELSE LocalSize) - p.addr) # {}

(* strlen of libc. *)
Length(m, p) == Min(Found(m, p, NUL, HeapSize + LocalSize))

(* The number that the n digits at p denote. *)
Number(m, p, n) ==
    LET value[k \in 0 .. n] ==
            IF k = 0 THEN 0 ELSE 10 * value[k - 1] + Byte(m, Plus(p, k - 1))
    IN  value[n]

-----------------------------------------------------------------------------
(* Mutant: the offset is not reduced. *)
Carm_PtrWhole(p) == [obj_index |-> p.addr \div OBJ_SIZE, offset |-> p.addr]

(* get_carm_ptr *)
Carm_Ptr(p) == [obj_index |-> p.addr \div OBJ_SIZE, offset |-> p.addr % OBJ_SIZE]

(* _ptrDeref: where the object's bytes are from the offset on. *)
_ptrDeref(q) == [far |-> TRUE, addr |-> q.obj_index * OBJ_SIZE + q.offset]

NextObject(q) == [obj_index |-> q.obj_index + 1, offset |-> 0]

Chunk(q) == OBJ_SIZE - q.offset

Smaller(a, b) == IF a < b THEN a ELSE b

(* Mutant: a cursor of too few bits. *)
AdvanceNarrow(k) == (cursor + k) % (2 * OBJ_SIZE)

(* unsigned int arithmetic on the cursors. *)
Advance(k) == (cursor + k) % CursorMod

Copies == {"memcpy", "memmove", "strncpy"}
StringCopies == {"strcpy", "strdup", "fopen"}

(* The int of a call: what the program passes, or what read() answers, the *)
(* number of bytes it has received or -1; fixed where there is none.       *)
Arguments(fn, n) ==
    IF fn \in {"memset", "memchr"} THEN Ints ELSE IF fn = "read" THEN -1 .. n ELSE {NUL}

(* What the program may pass when the memories hold m; a pointer or length *)
(* that a function does not take is fixed.                                 *)
Legal(m, fn, d, s, n, c) ==
    \/ /\ fn \in {"memcpy", "strncpy"}
       /\ Room(d, n) /\ Room(s, n) /\ Disjoint(d, s, n)
    \/ fn = "memmove" /\ Room(d, n) /\ Room(s, n)
    \/ /\ fn = "read"
       /\ ~s.far /\ Room(d, n) /\ Room(s, n) /\ Disjoint(d, s, n)
    \/ fn = "memset" /\ s = d /\ Room(d, n)
    \/ fn = "memcmp" /\ Room(d, n) /\ Room(s, n)
    \/ /\ fn = "memchr" /\ d = s /\ Room(s, n)
       /\ CornerCases \/ ~s.far \/ ((s.addr + n) % OBJ_SIZE = 0 /\ c \in Bytes)
    \/ fn = "strlen" /\ d = s /\ n = 0 /\ IsString(m, s)
    \/ /\ fn \in StringCopies /\ n = 0
       /\ IsString(m, s)
       /\ Room(d, Length(m, s) + 1) /\ Disjoint(d, s, Length(m, s) + 1)
       /\ fn = "fopen" => ~d.far
       /\ fn = "strdup" => d.far = s.far
    \/ fn = "strcmp" /\ n = 0 /\ IsString(m, s) /\ IsString(m, d)
    \/ /\ fn = "strtoul" /\ d = s /\ n = 0 /\ IsString(m, s)
       /\ CornerCases \/ ~s.far \/ Length(m, s) < Chunk(Carm_Ptr(s))

NoCall == [fn |-> "none", dst |-> [far |-> FALSE, addr |-> 0],
           src |-> [far |-> FALSE, addr |-> 0], n |-> 0, c |-> NUL]

NoPtr == [obj_index |-> 0, offset |-> 0]

Init ==
    /\ mem \in [Pointers -> Bytes]
    /\ pc = "idle"
    /\ call = NoCall
    /\ size = 0
    /\ cursor = 0
    /\ ptr = NoPtr
    /\ result = 0
    /\ entry = mem

(* The function a call enters first: carm_strcpy, carm_strcmp, carm_strdup *)
(* and carm_fopen measure the source, the copies go to carm_memcpy.        *)
FirstFunction(fn) ==
    CASE fn \in Copies -> "memcpy"
      [] fn \in StringCopies \cup {"strcmp"} -> "strlen"
      [] OTHER -> fn

(* The program calls one of the functions. *)
Call ==
    /\ pc = "idle"
    /\ \E fn \in Fns, d \in Pointers, s \in Pointers, n \in 0 .. HeapSize :
       \E c \in Arguments(fn, n) :
          /\ Legal(mem, fn, d, s, n, c)
          /\ call' = [fn |-> fn, dst |-> d, src |-> s, n |-> n, c |-> c]
          /\ pc' = FirstFunction(fn)
          /\ size' = n
    /\ UNCHANGED <<mem, cursor, ptr, result, entry>>

Return(r) ==
    /\ pc' = "done"
    /\ result' = r
    /\ cursor' = 0
    /\ ptr' = NoPtr
    /\ UNCHANGED <<call, size, entry>>

(* The program takes the result. *)
Resume ==
    /\ pc = "done"
    /\ pc' = "idle"
    /\ call' = NoCall
    /\ size' = 0
    /\ result' = 0
    /\ entry' = mem
    /\ UNCHANGED <<mem, cursor, ptr>>

(* Value of a call that ends in carm_memcpy; carm_read has it in an int. *)
CopyResult == IF call.fn = "read" THEN Signed(call.c) ELSE call.dst.addr

EnterLoop(loop, p) ==
    /\ pc' = loop
    /\ cursor' = 0
    /\ ptr' = Carm_Ptr(p)
    /\ UNCHANGED <<mem, call, size, result, entry>>

FarSide == IF call.dst.far THEN call.dst ELSE call.src

BothFar == call.dst.far /\ call.src.far

(* carm_memcpy chooses the loop by the kinds of its pointers. *)
carm_memcpy ==
    /\ pc = "memcpy"
    /\ \/ /\ ~call.dst.far /\ ~call.src.far
          /\ mem' = Moved(mem, call.dst, call.src, size)
          /\ Return(CopyResult)
       \/ BothFar /\ EnterLoop("copyBoth", call.dst)
       \/ call.dst.far # call.src.far /\ EnterLoop("copyOne", FarSide)

(* The two pointers of an iteration: the far one through the Carm_Ptr of   *)
(* the loop, the local one by the cursor.                                  *)
DstNow == IF call.dst.far THEN _ptrDeref(ptr) ELSE Plus(call.dst, cursor)
SrcNow == IF call.src.far THEN _ptrDeref(ptr) ELSE Plus(call.src, cursor)

LoopOver == cursor >= size

(* Bound: the loop has not run off the memory of the model. *)
InHeap == Room(_ptrDeref(ptr), 1)

(* Does the buffer go on behind the n bytes at the cursor? *)
More(n) == Advance(n) < size

(* Mutant: the last chunk is handled whole. *)
PartWhole(n) == n

(* How many of the n bytes up to the end of the object are handled. *)
Part(n) == IF More(n) THEN n ELSE size - cursor

(* _carm_memcpy_dst_carm_ptr and _carm_memcpy_src_carm_ptr. *)
CopyOne ==
    /\ pc = "copyOne"
    /\ InHeap
    /\ LET n == Chunk(ptr)
       IN  \/ LoopOver /\ UNCHANGED mem /\ Return(CopyResult)
           \/ /\ ~LoopOver
              /\ mem' = Moved(mem, DstNow, SrcNow, Part(n))
              /\ IF ~More(n) THEN Return(CopyResult)
                 ELSE /\ cursor' = Advance(n)
                      /\ ptr' = NextObject(ptr)
                      /\ UNCHANGED <<pc, call, size, result, entry>>

(* The part of two far buffers at the cursor that lies in one object each. *)
CommonChunk ==
    Smaller(Chunk(Carm_Ptr(Plus(call.dst, cursor))), Chunk(Carm_Ptr(Plus(call.src, cursor))))

(* The loop of carm_memcpy over two far pointers. *)
CopyBoth ==
    /\ pc = "copyBoth"
    /\ \/ LoopOver /\ UNCHANGED mem /\ Return(CopyResult)
       \/ /\ ~LoopOver
          /\ mem' = Moved(mem, Plus(call.dst, cursor), Plus(call.src, cursor), Part(CommonChunk))
          /\ IF ~More(CommonChunk) THEN Return(CopyResult)
             ELSE /\ cursor' = Advance(CommonChunk)
                  /\ UNCHANGED <<pc, call, size, ptr, result, entry>>

(* The bytes that read() has put where it was asked to. *)
Received(f) == IF f.c > 0 THEN f.c ELSE 0

(* carm_read goes through a local buffer, of which it copies what read()   *)
(* has received into far memory.                                           *)
carm_read ==
    /\ pc = "read"
    /\ \/ /\ ~call.dst.far
          /\ mem' = Moved(mem, call.dst, call.src, Received(call))
          /\ Return(call.c)
       \/ call.dst.far /\ Signed(call.c) <= 0 /\ UNCHANGED mem /\ Return(CopyResult)
       \/ /\ call.dst.far /\ Signed(call.c) > 0
          /\ pc' = "memcpy"
          /\ size' = Signed(call.c)
          /\ UNCHANGED <<mem, call, cursor, ptr, result, entry>>

(* carm_memset of a local buffer, and the start of its loop. *)
carm_memset ==
    /\ pc = "memset"
    /\ \/ /\ ~call.dst.far
          /\ mem' = Filled(mem, call.dst, call.c, size)
          /\ Return(call.dst.addr)
       \/ call.dst.far /\ EnterLoop("set", call.dst)

(* The loop of carm_memset, which ends only by its condition. *)
SetChunk ==
    /\ pc = "set"
    /\ \/ LoopOver /\ UNCHANGED mem /\ Return(call.dst.addr)
       \/ /\ ~LoopOver
          /\ InHeap
          /\ mem' = Filled(mem, _ptrDeref(ptr), call.c, Part(Chunk(ptr)))
          /\ cursor' = Advance(Chunk(ptr))
          /\ ptr' = NextObject(ptr)
          /\ UNCHANGED <<pc, call, size, result, entry>>

(* carm_memcmp chooses the loop by the kinds of its pointers. *)
carm_memcmp ==
    /\ pc = "memcmp"
    /\ \/ /\ ~call.dst.far /\ ~call.src.far
          /\ Return(Compared(mem, call.dst, call.src, size))
          /\ UNCHANGED mem
       \/ BothFar /\ EnterLoop("compareBoth", call.dst)
       \/ call.dst.far # call.src.far /\ EnterLoop("compareOne", FarSide)

(* Mutant: a difference in a chunk before the last is forgotten. *)
CompareOneLast ==
    /\ pc = "compareOne"
    /\ \/ LoopOver /\ Return(0)
       \/ /\ ~LoopOver
          /\ IF ~More(Chunk(ptr)) THEN Return(Compared(mem, DstNow, SrcNow, Part(Chunk(ptr))))
             ELSE /\ cursor' = Advance(Chunk(ptr))
                  /\ ptr' = NextObject(ptr)
                  /\ UNCHANGED <<pc, call, size, result, entry>>
    /\ UNCHANGED mem

(* _carm_memcmp_src_carm_ptr and _carm_memcmp_dst_carm_ptr. *)
CompareOne ==
    /\ pc = "compareOne"
    /\ \/ LoopOver /\ Return(0)
       \/ /\ ~LoopOver
          /\ LET r == Compared(mem, DstNow, SrcNow, Part(Chunk(ptr)))
             IN  IF r # 0 \/ ~More(Chunk(ptr)) THEN Return(r)
                 ELSE /\ cursor' = Advance(Chunk(ptr))
                      /\ ptr' = NextObject(ptr)
                      /\ UNCHANGED <<pc, call, size, result, entry>>
    /\ UNCHANGED mem

(* The loop of carm_memcmp over two far pointers; its last iteration also  *)
(* ends by the condition of the loop.                                      *)
CompareBoth ==
    /\ pc = "compareBoth"
    /\ \/ LoopOver /\ Return(0)
       \/ /\ ~LoopOver
          /\ LET r == Compared(mem, Plus(call.dst, cursor), Plus(call.src, cursor),
                               Part(CommonChunk))
             IN  IF r # 0 THEN Return(r)
                 ELSE /\ cursor' = Advance(CommonChunk)
                      /\ UNCHANGED <<pc, call, size, ptr, result, entry>>
    /\ UNCHANGED mem

(* A length is the result of strlen, or the size of the copy or comparison *)
(* that carm_strcpy, carm_strdup, carm_fopen or carm_strcmp goes on with:  *)
(* with a far buffer an int that becomes a uint64_t.                       *)
Measured(len) ==
    \/ call.fn = "strlen" /\ Return(len)
    \/ /\ call.fn # "strlen"
       /\ pc' = IF call.fn = "strcmp" THEN "memcmp" ELSE "memcpy"
       /\ size' = IF call.dst.far \/ call.src.far THEN Signed(len + 1) % SizeMod ELSE len + 1
       /\ cursor' = 0
       /\ ptr' = NoPtr
       /\ UNCHANGED <<call, result, entry>>

(* carm_strlen of a local string, and the start of its loop. *)
carm_strlen ==
    /\ pc = "strlen"
    /\ \/ ~call.src.far /\ Measured(Length(mem, call.src)) /\ UNCHANGED mem
       \/ call.src.far /\ EnterLoop("scan", call.src)

(* The loop of carm_strlen. *)
ScanString ==
    /\ pc = "scan"
    /\ LET zeros == Found(mem, _ptrDeref(ptr), NUL, Chunk(ptr))
       IN  IF zeros # {} THEN Measured(cursor + Min(zeros))
           ELSE /\ cursor' = cursor + Chunk(ptr)
                /\ ptr' = NextObject(ptr)
                /\ UNCHANGED <<pc, call, size, result, entry>>
    /\ UNCHANGED mem

Null == -1

(* carm_memchr of a local buffer, and the start of its loop. *)
carm_memchr ==
    /\ pc = "memchr"
    /\ \/ /\ ~call.src.far
          /\ LET hits == Found(mem, call.src, AsByte(call.c), size)
             IN  Return(IF hits = {} THEN Null ELSE call.src.addr + Min(hits))
          /\ UNCHANGED mem
       \/ call.src.far /\ EnterLoop("search", call.src)

(* The loop of carm_memchr: it looks at the whole of every object, and     *)
(* compares its bytes with the int as it is.                               *)
SearchChunk ==
    /\ pc = "search"
    /\ LET hits == Found(mem, _ptrDeref(ptr), call.c, Chunk(ptr))
       IN  IF LoopOver THEN Return(Null)
           ELSE IF hits # {} THEN Return(call.src.addr + cursor + Min(hits))
           ELSE /\ cursor' = cursor + Chunk(ptr)
                /\ ptr' = NextObject(ptr)
                /\ UNCHANGED <<pc, call, size, result, entry>>
    /\ UNCHANGED mem

(* carm_strtoul and carm_strtol pass the address of the first digit in its *)
(* object to libc.  If the number does not end in the object, libc goes on *)
(* in whatever lies behind the object in local memory.                     *)
carm_strtoul ==
    /\ pc = "strtoul"
    /\ LET n == Length(mem, call.src)
           k == IF call.src.far THEN Chunk(Carm_Ptr(call.src)) ELSE n + 1
           v == Number(mem, call.src, Smaller(n, k))
       IN  IF n < k THEN Return(v)
           ELSE \E r \in {v} \cup {10 * v + b : b \in Bytes \ {NUL}} : Return(r)
    /\ UNCHANGED mem

Step ==
    \/ carm_read
    \/ carm_memcpy \/ CopyOne \/ CopyBoth
    \/ carm_memset \/ SetChunk
    \/ carm_memcmp \/ CompareOne \/ CompareBoth
    \/ carm_strlen \/ ScanString
    \/ carm_memchr \/ SearchChunk
    \/ carm_strtoul

Next == Call \/ Step \/ Resume

Spec == Init /\ [][Next]_vars

-----------------------------------------------------------------------------
(* The reference: the same functions over a flat memory *)

StrncpyOf(m, d, s, n) ==
    LET ends == Found(m, s, NUL, n)
    IN  [p \in Pointers |->
            IF ~Within(p, d, n) THEN m[p]
            ELSE IF ends # {} /\ p.addr - d.addr > Min(ends) THEN NUL
            ELSE m[Plus(s, p.addr - d.addr)]]

MemoryOf(f, m) ==
    CASE f.fn \in {"memcpy", "memmove"} -> Moved(m, f.dst, f.src, f.n)
      [] f.fn = "read" -> Moved(m, f.dst, f.src, Received(f))
      [] f.fn = "strncpy" -> StrncpyOf(m, f.dst, f.src, f.n)
      [] f.fn \in StringCopies -> Moved(m, f.dst, f.src, Length(m, f.src) + 1)
      [] f.fn = "memset" -> Filled(m, f.dst, f.c, f.n)
      [] OTHER -> m

ResultOf(f, m) ==
    CASE f.fn \in {"memcpy", "memmove", "strncpy", "memset"} \cup StringCopies -> f.dst.addr
      [] f.fn = "read" -> f.c
      [] f.fn = "memcmp" -> Compared(m, f.dst, f.src, f.n)
      [] f.fn = "strlen" -> Length(m, f.src)
      [] f.fn = "strcmp" ->
            Compared(m, f.dst, f.src, 1 + Smaller(Length(m, f.dst), Length(m, f.src)))
      [] f.fn = "memchr" ->
            LET hits == Found(m, f.src, AsByte(f.c), f.n)
            IN  IF hits = {} THEN Null ELSE f.src.addr + Min(hits)
      [] f.fn = "strtoul" -> Number(m, f.src, Length(m, f.src))

-----------------------------------------------------------------------------
(* Properties *)

(* A call on far buffers, in any position relative to the object borders,  *)
(* leaves the memory and returns the value that the libc function would    *)
(* over a flat memory.                                                     *)
AgreesWithLibc ==
    pc = "done" /\ call.fn \in Fns =>
        mem = MemoryOf(call, entry) /\ result = ResultOf(call, entry)

(* During a call no byte outside of its destination changes, at no chunk.  *)
OnlyDestinationWritten ==
    call.fn \in Fns =>
        \A p \in Pointers : mem[p] # entry[p] => entry[p] # MemoryOf(call, entry)[p]

-----------------------------------------------------------------------------
(* The inductive invariant *)

(* Where the code and libc agree: these functions, searches for a byte     *)
(* that end with an object, numbers within one, and memories whose sizes   *)
(* are positive ints.                                                      *)
Faithful ==
    /\ Fns \subseteq {"memcpy", "read", "memset", "memcmp", "strlen", "strcmp", "memchr",
                      "strtoul"} \cup StringCopies
    /\ ~CornerCases
    /\ HeapSize + OBJ_SIZE <= CursorMod \div 2
    /\ LocalSize < CursorMod \div 2

Same(m, d, s, n) == \A k \in 0 .. n - 1 : Byte(m, Plus(d, k)) = Byte(m, Plus(s, k))

(* The bytes a call copies or compares, strings with their NUL. *)
Asked ==
    IF call.fn \in StringCopies \cup {"strcmp"} THEN Length(entry, call.src) + 1
    ELSE IF call.fn = "read" THEN Received(call) ELSE call.n

(* The loop's Carm_Ptr is where the cursor is in the far buffer p, which   *)
(* it does not leave.                                                      *)
PtrAt(p) ==
    /\ p.far
    /\ ptr \in [obj_index : Nat, offset : 0 .. OBJ_SIZE - 1]
    /\ _ptrDeref(ptr) = Plus(p, cursor)

Loops ==
    {"read", "memcpy", "copyOne", "copyBoth", "memset", "set", "memcmp", "compareOne", "compareBoth",
     "strlen", "scan", "memchr", "search", "strtoul"}

CallInv ==
    /\ mem \in [Pointers -> Bytes] /\ entry \in [Pointers -> Bytes]
    /\ cursor \in Nat
    /\ pc = "idle" => mem = entry /\ call.fn \notin Fns
    /\ pc \in {"idle", "done", "read", "memcpy", "memset", "memcmp", "strlen", "memchr"} => cursor = 0
    /\ pc \in Loops => call.fn \in Fns
    /\ call.fn \in Fns =>
        /\ pc \in Loops \cup {"done"}
        /\ call.dst \in Pointers /\ call.src \in Pointers
        /\ call.n \in 0 .. HeapSize /\ call.c \in Arguments(call.fn, call.n)
        /\ Legal(entry, call.fn, call.dst, call.src, call.n, call.c)

(* What the cursor has passed is copied, the rest is as it was. *)
CopyInv ==
    pc \in {"memcpy", "copyOne", "copyBoth"} =>
        /\ call.fn \in {"memcpy", "read"} \cup StringCopies
        /\ size = Asked
        /\ cursor <= size
        /\ mem = Moved(entry, call.dst, call.src, cursor)
        /\ pc = "copyOne" => call.dst.far # call.src.far /\ PtrAt(FarSide)
        /\ pc = "copyBoth" => BothFar

SetInv ==
    pc \in {"memset", "set"} =>
        /\ call.fn = "memset"
        /\ size = call.n
        /\ mem = Filled(entry, call.dst, call.c, Smaller(cursor, size))
        /\ pc = "set" => PtrAt(call.dst) /\ call.dst.addr + cursor <= HeapSize

(* What the cursor has passed is the same on both sides. *)
CompareInv ==
    pc \in {"memcmp", "compareOne", "compareBoth"} =>
        /\ call.fn \in {"memcmp", "strcmp"}
        /\ size = Asked
        /\ mem = entry
        /\ Same(entry, call.dst, call.src, Smaller(cursor, size))
        /\ pc = "compareOne" =>
            cursor <= size /\ call.dst.far # call.src.far /\ PtrAt(FarSide)
        /\ pc = "compareBoth" => BothFar /\ call.dst.addr + cursor <= HeapSize

(* The cursor has passed no NUL. *)
ScanInv ==
    pc \in {"strlen", "scan"} =>
        /\ call.fn \in StringCopies \cup {"strlen", "strcmp"}
        /\ mem = entry
        /\ Found(entry, call.src, NUL, cursor) = {}
        /\ pc = "scan" => PtrAt(call.src)

(* The cursor has not passed the byte, and stops at the end of the buffer. *)
SearchInv ==
    pc \in {"memchr", "search"} =>
        /\ call.fn = "memchr"
        /\ size = call.n
        /\ cursor <= size
        /\ mem = entry
        /\ Found(entry, call.src, call.c, cursor) = {}
        /\ pc = "search" => PtrAt(call.src)

EntryInv == pc \in {"read", "strtoul"} => call.fn = pc /\ mem = entry

LibcInv ==
    /\ CallInv /\ CopyInv /\ SetInv /\ CompareInv /\ ScanInv /\ SearchInv /\ EntryInv
    /\ AgreesWithLibc
=============================================================================
