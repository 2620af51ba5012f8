------------------------------ MODULE CarmStdio -----------------------------
(***************************************************************************)
(* The functions of libc_support.cpp that move bytes between the far heap  *)
(* and libc's own buffers: carm_fread, carm_fwrite and the sprintf family. *)
(* They call carm_memcpy, whose loops are in CarmLibc, so a copy is one    *)
(* step here.  One step is one object of a stream, or one text.            *)
(*                                                                         *)
(* A character that is not NUL is Char; a format is a sequence of the      *)
(* pieces "lit" (a character), "d" (a number of one digit) and "s" (the    *)
(* string at call.src).                                                    *)
(***************************************************************************)
EXTENDS CarmLibc, SequencesExt

CONSTANTS
    ElementSizes,    \* sizes of an element of fread and fwrite
    Files,           \* contents of the files that are read
    Formats,
    PrintSizes       \* sizes of a buffer of snprintf

Char == 1

ASSUME StdioAssumption ==
    /\ ElementSizes \subseteq Nat \ {0}
    /\ Files \subseteq Seq(Bytes)
    /\ PrintSizes \subseteq Nat
    /\ Formats \subseteq Seq({"lit", "d", "s"})
    /\ Char \in Bytes

VARIABLES
    file,    \* bytes still to be read, or bytes written so far
    device   \* history: has libc moved all it was asked to ("ok"), less and
             \* then nothing ("short"), or more again after that ("resumed")?

stream == <<file, device>>

stdioVars == <<vars, stream>>

Streams == {"fread", "fwrite"}
Prints == {"sprintf", "snprintf"}

(* The n bytes at p. *)
BytesAt(m, p, n) == [k \in 1 .. n |-> Byte(m, Plus(p, k - 1))]

(* The memory with the bytes b at p. *)
Stored(m, p, b) ==
    [q \in Pointers |-> IF Within(q, p, Len(b)) THEN b[q.addr - p.addr + 1] ELSE m[q]]

Larger(a, b) == IF a < b THEN b ELSE a

Zeros(n) == [k \in 1 .. n |-> NUL]

Take(s, n) == SubSeq(s, 1, Smaller(n, Len(s)))

Drop(s, n) == SubSeq(s, n + 1, Len(s))

-----------------------------------------------------------------------------
(* fread and fwrite *)

CallStream ==
    /\ pc = "idle"
    /\ \E fn \in Streams, p \in Pointers, e \in ElementSizes, k \in 0 .. HeapSize :
       \E f \in IF fn = "fread" THEN Files ELSE {<<>>} :
          /\ Room(p, e * k)
          /\ call' = [fn |-> fn, dst |-> p, src |-> p, n |-> k, c |-> e, input |-> f]
          /\ pc' = fn
          /\ size' = e * k
          /\ file' = f
          /\ device' = "ok"
    /\ UNCHANGED <<mem, cursor, ptr, result, entry>>

(* exit(0): the element size does not divide the size of an object. *)
Unsupported ==
    /\ call.dst.far
    /\ OBJ_SIZE % call.c # 0
    /\ pc' = "exited"
    /\ UNCHANGED <<mem, call, size, cursor, ptr, result, entry, stream>>

(* Mutant: the rest behind the last whole object is handled as a whole one. *)
PortionWhole == IF call.dst.far THEN OBJ_SIZE ELSE size

(* What one call of libc is asked for: nmem_obj whole objects and then the *)
(* rest, or everything for a local buffer.                                 *)
Portion == IF call.dst.far THEN Smaller(OBJ_SIZE, size - cursor) ELSE size

(* Where the portion is in the buffer p: index_offset * OBJ_SIZE is an int. *)
Now(p) == Plus(p, Signed(cursor))

(* What is left of the call when libc has moved k bytes. *)
GoOn(k) ==
    /\ cursor' = cursor + Portion
    /\ result' = result + k \div call.c
    /\ device' = IF device = "ok" THEN IF k = Portion THEN "ok" ELSE "short"
                 ELSE IF k = 0 THEN device ELSE "resumed"
    /\ UNCHANGED <<pc, call, size, ptr, entry>>

(* libc reads what it is asked for, or less at the end of the file or for  *)
(* an error.  The local buffer is zeroed before and copied whole after.    *)
FreadPortion ==
    \E k \in 0 .. Smaller(Portion, Len(file)) :
        LET got == Take(file, k)
        IN  /\ mem' = Stored(mem, Now(call.dst),
                             IF call.dst.far THEN got \o Zeros(Portion - k) ELSE got)
            /\ file' = Drop(file, k)
            /\ GoOn(k)

carm_fread ==
    /\ pc = "fread"
    /\ \/ Unsupported
       \/ /\ ~call.dst.far \/ OBJ_SIZE % call.c = 0
          /\ IF LoopOver THEN Return(result) /\ UNCHANGED <<mem, stream>> ELSE FreadPortion

(* Mutant: every object is taken from the start of the buffer. *)
FwritePortionFirst ==
    \E k \in 0 .. Portion :
        /\ file' = file \o BytesAt(mem, call.src, k)
        /\ GoOn(k)
        /\ UNCHANGED mem

(* libc writes what it is asked to, or less if the device is full or fails. *)
FwritePortion ==
    \E k \in 0 .. Portion :
        /\ file' = file \o BytesAt(mem, Now(call.src), k)
        /\ GoOn(k)
        /\ UNCHANGED mem

carm_fwrite ==
    /\ pc = "fwrite"
    /\ \/ Unsupported
       \/ /\ ~call.dst.far \/ OBJ_SIZE % call.c = 0
          /\ IF LoopOver THEN Return(result) /\ UNCHANGED <<mem, stream>> ELSE FwritePortion

-----------------------------------------------------------------------------
(* The sprintf family *)

String(m, p) == BytesAt(m, p, Length(m, p))

(* The pieces of a text, the strings as str gives them. *)
Pieces(fmt, str) ==
    LET text[k \in 0 .. Len(fmt)] ==
            IF k = 0 THEN <<>> ELSE text[k - 1] \o IF fmt[k] = "s" THEN str ELSE <<Char>>
    IN  text[Len(fmt)]

(* The text that libc prints. *)
Text(f, m) ==
    Pieces(f.fmt, IF "s" \in Range(f.fmt) THEN String(m, f.src) ELSE <<>>)

Strings(fmt) == Cardinality({k \in DOMAIN fmt : fmt[k] = "s"})

Directives(fmt) == Cardinality({k \in DOMAIN fmt : fmt[k] # "lit"})

(* The buffer has room for what libc prints, one NUL included. *)
CallPrint ==
    /\ pc = "idle"
    /\ \E fn \in Prints, fmt \in Formats, d \in Pointers, s \in Pointers :
       \E n \in IF fn = "snprintf" THEN PrintSizes ELSE {0} :
          LET c == [fn |-> fn, dst |-> d, src |-> s, n |-> n, c |-> NUL, fmt |-> fmt]
              room == IF fn = "snprintf" THEN n ELSE Len(Text(c, mem)) + 1
          IN  /\ IF "s" \in Range(fmt) THEN IsString(mem, s) ELSE s = d
              /\ Room(d, room)
              /\ "s" \in Range(fmt) => Disjoint(d, s, Larger(room, Length(mem, s) + 1))
              /\ call' = c
              /\ pc' = IF fn = "sprintf" THEN "measure" ELSE "vsnprintf"
              /\ size' = n
    /\ UNCHANGED <<mem, cursor, ptr, result, entry, stream>>

(* Mutant: a string is counted without its NUL. *)
get_size_of_valistShort(f, m) == Len(Text(f, m))

(* Only strings are counted with a NUL. *)
get_size_of_valist(f, m) == Len(Text(f, m)) + Strings(f.fmt)

(* carm_sprintf and carm_vsprintf *)
carm_vsprintf ==
    /\ pc = "measure"
    /\ pc' = "vsnprintf"
    /\ size' = get_size_of_valist(call, mem)
    /\ UNCHANGED <<mem, call, cursor, ptr, result, entry, stream>>

(* vargs_is_cptr *)
FarArguments == call.src.far /\ "s" \in Range(call.fmt)

(* What vsnprintf of libc leaves in a buffer of n bytes. *)
vsnprintf(text, n) == IF n = 0 THEN <<>> ELSE Take(text, n - 1) \o <<NUL>>

(* Near arguments are printed by libc: a far buffer through tmp, which is  *)
(* not initialised and is copied with all of its size bytes.               *)
PrintedNear ==
    LET out == vsnprintf(Text(call, mem), size)
    IN  IF call.dst.far THEN {out \o tail : tail \in [1 .. size - Len(out) -> Bytes]} ELSE {out}

(* __vsn_printf: a string is copied with its NUL, and every directive      *)
(* counts one byte more than it prints.                                    *)
__vsn_printf == Pieces(call.fmt, Append(String(mem, call.src), NUL)) \o Zeros(Directives(call.fmt))

carm_vsnprintf ==
    /\ pc = "vsnprintf"
    /\ \E bytes \in IF FarArguments THEN {__vsn_printf} ELSE PrintedNear :
          /\ mem' = Stored(mem, call.dst, bytes)
          /\ Return(Len(IF FarArguments THEN bytes ELSE Text(call, mem)))
    /\ UNCHANGED stream

-----------------------------------------------------------------------------
StdioInit == Init /\ file = <<>> /\ device = "ok"

StdioStep == carm_fread \/ carm_fwrite \/ carm_vsprintf \/ carm_vsnprintf

LibcStep == Step /\ UNCHANGED stream

StdioNext ==
    \/ Call /\ UNCHANGED stream
    \/ CallStream \/ CallPrint
    \/ LibcStep
    \/ StdioStep
    \/ Resume /\ file' = <<>> /\ device' = "ok"

(* A call that was made goes on. *)
StdioSpec ==
    StdioInit /\ [][StdioNext]_stdioVars /\ WF_stdioVars(LibcStep \/ StdioStep)

-----------------------------------------------------------------------------
(* Properties *)

(* Type invariant. *)
TypeOK ==
    /\ mem \in [Pointers -> Bytes]
    /\ pc \in {"idle", "done", "exited", "read", "memcpy", "copyOne", "copyBoth", "memset", "set",
               "memcmp", "compareOne", "compareBoth", "strlen", "scan", "memchr", "search",
               "strtoul", "measure", "vsnprintf"} \cup Streams
    /\ call # NoCall => call.dst \in Pointers /\ call.src \in Pointers
    /\ size \in Nat
    /\ cursor \in 0 .. HeapSize + LocalSize
    /\ ptr \in [obj_index : 0 .. NumObjects, offset : 0 .. OBJ_SIZE - 1]
    /\ result \in Int
    /\ entry \in [Pointers -> Bytes]
    /\ file \in Seq(Bytes)
    /\ device \in {"ok", "short", "resumed"}

(* carm_fread and carm_fwrite, which go through the file one object at a   *)
(* time, leave the file and the memory and count the elements as one call  *)
(* of libc does that moves as many bytes, at the end of a file and on a    *)
(* full device too, unless libc goes on after it has stopped.  One thing   *)
(* is different: where libc leaves what a short read does not reach,       *)
(* carm_fread leaves zeros in far memory.                                  *)
StreamsAgree ==
    /\ pc = "done" /\ call.fn = "fread" /\ device # "resumed" =>
          LET got == Take(call.input, Len(call.input) - Len(file))
          IN  /\ Len(got) <= size /\ (device = "ok" => Len(got) = size)
              /\ got \o file = call.input
              /\ result = Len(got) \div call.c
              /\ mem = Stored(entry, call.dst,
                              IF call.dst.far THEN got \o Zeros(size - Len(got)) ELSE got)
    /\ pc = "done" /\ call.fn = "fwrite" /\ device # "resumed" =>
          /\ Len(file) <= size /\ (device = "ok" => Len(file) = size)
          /\ file = BytesAt(entry, call.src, Len(file))
          /\ result = Len(file) \div call.c
          /\ mem = entry

(* Does carm_vsnprintf print the text?  If it has to measure it only with  *)
(* a string in it, and with far strings only if there is one, at the end,  *)
(* and the text fits.                                                      *)
Printable ==
    /\ call.fn = "sprintf" => Strings(call.fmt) >= 1
    /\ FarArguments =>
          /\ Strings(call.fmt) = 1 /\ Last(call.fmt) = "s"
          /\ call.fn = "snprintf" => Len(Text(call, entry)) < call.n

(* The string that is read back from the buffer is the text of libc, cut   *)
(* to the size of the buffer: no garbage of tmp comes before its NUL.  The *)
(* result is the length of the text, but for far strings.                  *)
PrintedText ==
    pc = "done" /\ call.fn \in Prints /\ Printable /\ size > 0 =>
        LET text == Text(call, entry)
            out == IF call.fn = "sprintf" THEN text ELSE Take(text, call.n - 1)
        IN  /\ BytesAt(mem, call.dst, Len(out) + 1) = Append(out, NUL)
            /\ ~FarArguments => result = Len(text)

(* What libc may write in one of these calls. *)
Extent ==
    CASE call.fn \in Streams -> call.n * call.c
      [] call.fn = "snprintf" -> call.n
      [] call.fn = "sprintf" -> Len(Text(call, entry)) + 1

(* What the code writes: far strings are printed whatever the size given,  *)
(* with a NUL for every string and a byte for every directive, and from    *)
(* tmp a far buffer gets as many bytes as the text has with these NULs.    *)
Reach ==
    LET whole == Len(Text(call, entry)) + Strings(call.fmt)
    IN  IF call.fn \in Prints /\ FarArguments
        THEN Larger(Extent, whole + Directives(call.fmt))
        ELSE IF call.fn = "sprintf" /\ call.dst.far THEN Larger(Extent, whole)
        ELSE Extent

(* No step of a stream, and no print of near strings but of two and more   *)
(* by sprintf into far memory, touches a byte behind the buffer of the     *)
(* call; the other prints touch no byte behind their Reach.                *)
StdioWithinReach ==
    call.fn \in Streams \cup Prints =>
        LET written == {p \in Pointers : mem[p] # entry[p]}
        IN  written # {} => \A p \in written : Within(p, call.dst, Reach)

(* Every call ends: the cursors of the loops reach the size. *)
CallsEnd == pc # "idle" ~> pc \in {"done", "exited"}

-----------------------------------------------------------------------------
(* The inductive invariant *)

(* The bytes a stream has gone through. *)
Passed == IF pc = "done" THEN size ELSE cursor

(* A stream goes through whole objects, which are whole elements, up to    *)
(* its end; what it has passed is moved and counted.                       *)
StreamInv ==
    call.fn \in Streams =>
        /\ pc \in {call.fn, "done", "exited"}
        /\ call.dst \in Pointers /\ call.src = call.dst
        /\ call.n \in Nat /\ call.c \in Nat \ {0} /\ call.input \in Seq(Bytes)
        /\ size = call.n * call.c /\ Room(call.dst, size)
        /\ Passed <= size
        /\ Passed % call.c = 0
        /\ ~call.dst.far => Passed \in {0, size}
        /\ file \in Seq(Bytes) /\ result \in Nat
        /\ device \in {"ok", "short", "resumed"}
        /\ device # "resumed" =>
              LET passed == IF call.fn = "fread" THEN Len(call.input) - Len(file) ELSE Len(file)
              IN  /\ passed \in 0 .. Passed
                  /\ device = "ok" => passed = Passed
                  /\ result = passed \div call.c
        /\ call.fn = "fread" /\ device # "resumed" =>
              LET got == Take(call.input, Len(call.input) - Len(file))
              IN  /\ got \o file = call.input
                  /\ mem = Stored(entry, call.dst,
                                  IF call.dst.far THEN got \o Zeros(Passed - Len(got)) ELSE got)
        /\ call.fn = "fwrite" =>
              /\ mem = entry
              /\ device # "resumed" => file = BytesAt(entry, call.src, Len(file))

(* The text is measured and then printed, in a buffer that has room for    *)
(* it.                                                                     *)
PrintInv ==
    call.fn \in Prints =>
        /\ pc \in {"measure", "vsnprintf", "done"}
        /\ pc = "measure" => call.fn = "sprintf"
        /\ call.dst \in Pointers /\ call.src \in Pointers
        /\ call.n \in Nat /\ call.fmt \in Formats
        /\ "s" \in Range(call.fmt) => IsString(entry, call.src)
        /\ Room(call.dst, Extent)
        /\ size = IF call.fn = "snprintf" \/ pc = "measure" THEN call.n
                  ELSE get_size_of_valist(call, entry)
        /\ pc # "done" => mem = entry

StdioInv ==
    /\ LibcInv /\ StreamInv /\ PrintInv
    /\ pc = "idle" => call = NoCall /\ size = 0 /\ result = 0 /\ file = <<>>
    /\ pc # "idle" => call.fn \in Fns \cup Streams \cup Prints
    /\ StdioWithinReach /\ PrintedText
=============================================================================
