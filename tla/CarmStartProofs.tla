--------------------------- MODULE CarmStartProofs --------------------------
(***************************************************************************)
(* Proofs about CarmStart, for every program: its blocks are where its     *)
(* source wants them, it finds the runtime, and it sees its own arguments. *)
(***************************************************************************)
EXTENDS CarmStart, SequenceTheorems, WellFoundedInduction, TLAPS

(* malloc and mmap are two names of one thing throughout. *)
USE DEF Mallocs

-----------------------------------------------------------------------------
(* The passes, call by call *)

(* Any call, of the source or put in by carm_init. *)
Dummy == CHOOSE v \in Variables : TRUE
InternalCalls ==
    [fn : {"init_carm_runtime", "get_arg_count", "get_args"}, var : {Dummy}, from : {Dummy}]
AnyCalls == SourceCalls \cup InternalCalls

(* A function on the first numbers is a sequence of that length. *)
LEMMA LengthOf ==
    ASSUME NEW n \in Nat, NEW R, NEW t \in [1 .. n -> R]
    PROVE  Len(t) = n
  <1>1. t \in Seq(R)
    BY SeqDef
  <1>2. Len(t) \in Nat /\ DOMAIN t = 1 .. Len(t)
    BY <1>1, LenProperties
  <1>3. PICK m \in Nat : m = Len(t)
    BY <1>2
  <1>4. 1 .. m = 1 .. n
    BY <1>2, <1>3
  <1>5. m \in 1 .. m => m <= n
    BY <1>4
  <1>6. n \in 1 .. n => n <= m
    BY <1>4
  <1>7. m = n
    BY <1>5, <1>6
  <1> QED
    BY <1>3, <1>7

(* A function keeps the number of its calls. *)
LEMMA TransformedLength ==
    ASSUME NEW C, NEW s \in Seq(C)
    PROVE  /\ DOMAIN Transformed(s) = 1 .. Len(s)
           /\ Len(s) \in Nat
           /\ Len(Transformed(s)) = Len(s)
  <1>1. Len(s) \in Nat /\ DOMAIN s = 1 .. Len(s)
    BY LenProperties
  <1>2. DOMAIN Transformed(s) = 1 .. Len(s)
    BY <1>1 DEF Transformed
  <1> DEFINE t == Transformed(s)
             R == {t[i] : i \in 1 .. Len(s)}
  <1>3. t \in [1 .. Len(s) -> R]
    BY <1>1 DEF Transformed
  <1>4. Len(t) = Len(s)
    <2> HIDE DEF t, R
    <2> QED
      BY <1>1, <1>3, LengthOf
  <1> QED
    BY <1>1, <1>2, <1>4

(* What becomes of a call of the source. *)
LEMMA TransformedCall ==
    ASSUME NEW s \in Seq(SourceCalls), NEW i \in 1 .. Len(s)
    PROVE  /\ s[i] \in SourceCalls
           /\ Transformed(s)[i].var = s[i].var
           /\ Transformed(s)[i].from = s[i].from
           /\ Transformed(s)[i].fn =
                CASE s[i].fn = "annotation" -> "annotation"
                  [] s[i].fn \in Mallocs -> IF local_malloc(s, i) THEN "carm_local_malloc"
                                           ELSE "carm_remote_malloc"
                  [] s[i].fn = "calloc" -> "carm_calloc"
                  [] s[i].fn = "realloc" -> "carm_realloc"
                  [] s[i].fn = "free" -> "carm_free"
                  [] s[i].fn = "strdup" -> "carm_strdup"
  <1>1. s[i] \in SourceCalls
    BY ElementOfSeq
  <1>2. i \in DOMAIN s
    BY LenProperties
  <1>3. Transformed(s)[i] =
          IF s[i].fn \notin DOMAIN Replacement THEN s[i]
          ELSE IF s[i].fn \in Mallocs /\ local_malloc(s, i)
               THEN [s[i] EXCEPT !.fn = "carm_local_malloc"]
               ELSE [s[i] EXCEPT !.fn = Replacement[@]]
    BY <1>2 DEF Transformed
  <1>4. DOMAIN Replacement = {"malloc", "mmap", "calloc", "realloc", "free", "strdup"}
    BY DEF Replacement
  <1>5. /\ Replacement["malloc"] = "carm_remote_malloc"
        /\ Replacement["mmap"] = "carm_remote_malloc"
        /\ Replacement["calloc"] = "carm_calloc"
        /\ Replacement["realloc"] = "carm_realloc"
        /\ Replacement["free"] = "carm_free"
        /\ Replacement["strdup"] = "carm_strdup"
    BY DEF Replacement
  <1> DEFINE c == s[i]
             t == Transformed(s)[i]
  <1>6. c.fn \in {"annotation", "malloc", "mmap", "calloc", "realloc", "free", "strdup"}
    BY <1>1 DEF SourceCalls
  <1>7. CASE c.fn = "annotation"
    BY <1>1, <1>3, <1>4, <1>7
  <1>8. CASE c.fn \in Mallocs
    <2>1. CASE local_malloc(s, i)
      <3>1. t = [c EXCEPT !.fn = "carm_local_malloc"]
        BY <1>3, <1>4, <1>8, <2>1
      <3>2. t.fn = "carm_local_malloc" /\ t.var = c.var /\ t.from = c.from
        BY <1>1, <3>1 DEF SourceCalls
      <3> QED
        BY <1>1, <1>8, <2>1, <3>2
    <2>2. CASE ~local_malloc(s, i)
      <3>1. t = [c EXCEPT !.fn = Replacement[c.fn]]
        BY <1>3, <1>4, <1>8, <2>2
      <3>2. t.fn = "carm_remote_malloc" /\ t.var = c.var /\ t.from = c.from
        BY <1>1, <1>5, <1>8, <3>1 DEF SourceCalls
      <3> QED
        BY <1>1, <1>8, <2>2, <3>2
    <2> QED
      BY <2>1, <2>2
  <1>9. CASE c.fn \in {"calloc", "realloc", "free", "strdup"}
    <2>1. t = [c EXCEPT !.fn = Replacement[c.fn]]
      BY <1>3, <1>4, <1>9
    <2>2. t.fn = Replacement[c.fn] /\ t.var = c.var /\ t.from = c.from
      BY <1>1, <2>1 DEF SourceCalls
    <2> QED
      BY <1>1, <1>5, <1>9, <2>2
  <1> QED
    BY <1>6, <1>7, <1>8, <1>9

(* carm_libc_transform leaves the calls alone that carm_init has put in    *)
(* front, and treats the others as if they were not there.                 *)
LEMMA TransformedWork ==
    ASSUME NEW s \in Seq(SourceCalls), NEW pro \in Seq(InternalCalls)
    PROVE  /\ Len(pro) \in Nat /\ Len(s) \in Nat
           /\ Len(Transformed(pro \o s)) = Len(pro) + Len(s)
           /\ \A i \in 1 .. Len(pro) : Transformed(pro \o s)[i] = pro[i]
           /\ \A i \in 1 .. Len(s) : Transformed(pro \o s)[Len(pro) + i] = Transformed(s)[i]
  <1>1. s \in Seq(AnyCalls) /\ pro \in Seq(AnyCalls)
    BY SeqMonotonic DEF AnyCalls
  <1> DEFINE both == pro \o s
  <1>2. /\ both \in Seq(AnyCalls)
        /\ Len(both) = Len(pro) + Len(s)
        /\ \A i \in 1 .. Len(pro) + Len(s) :
              both[i] = IF i <= Len(pro) THEN pro[i] ELSE s[i - Len(pro)]
    BY <1>1, ConcatProperties
  <1>3. Len(pro) \in Nat /\ Len(s) \in Nat
    BY <1>1, LenProperties
  <1>4. PICK n \in Nat : n = Len(pro)
    BY <1>3
  <1> HIDE DEF both
  <1>5. DOMAIN both = 1 .. n + Len(s)
    BY <1>2, <1>4, LenProperties
  <1>6. Len(Transformed(both)) = n + Len(s)
    BY <1>2, <1>4, TransformedLength
  <1>7. ASSUME NEW i \in 1 .. n PROVE both[i] = pro[i] /\ pro[i] \in InternalCalls
    BY <1>2, <1>3, <1>4, ElementOfSeq
  <1>8. ASSUME NEW i \in 1 .. Len(s) PROVE both[n + i] = s[i] /\ n + i \in DOMAIN both
    <2>1. n + i \in 1 .. n + Len(s) /\ ~(n + i <= n) /\ n + i - n = i
      BY <1>3, <1>4
    <2> QED
      BY <1>2, <1>4, <1>5, <2>1
  <1>9. DOMAIN Replacement = {"malloc", "mmap", "calloc", "realloc", "free", "strdup"}
    BY DEF Replacement
  <1>10. ASSUME NEW i \in 1 .. n PROVE Transformed(both)[i] = pro[i]
    <2>1. i \in DOMAIN both
      BY <1>3, <1>5
    <2>2. pro[i].fn \notin DOMAIN Replacement
      BY <1>7, <1>9 DEF InternalCalls
    <2> QED
      BY <1>7, <2>1, <2>2 DEF Transformed
  <1>11. ASSUME NEW i \in 1 .. Len(s)
         PROVE  local_malloc(both, n + i) <=> local_malloc(s, i)
    <2>1. ASSUME NEW a \in 1 .. i - 1,
                 s[a].fn = "annotation", \A k \in a + 1 .. i - 1 : s[k].fn \notin Mallocs
          PROVE  local_malloc(both, n + i)
      <3>1. n + a \in 1 .. n + i - 1 /\ a \in 1 .. Len(s)
        BY <1>3
      <3>2. both[n + a].fn = "annotation"
        BY <1>8, <2>1, <3>1
      <3>3. ASSUME NEW k \in n + a + 1 .. n + i - 1 PROVE both[k].fn \notin Mallocs
        <4>1. k - n \in a + 1 .. i - 1 /\ k - n \in 1 .. Len(s) /\ n + (k - n) = k
          BY <1>3
        <4> QED
          BY <1>8, <2>1, <4>1
      <3> QED
        BY <3>1, <3>2, <3>3 DEF local_malloc
    <2>2. ASSUME NEW a \in 1 .. n + i - 1,
                 both[a].fn = "annotation",
                 \A k \in a + 1 .. n + i - 1 : both[k].fn \notin Mallocs
          PROVE  local_malloc(s, i)
      <3>1. ~(a <= n)
        <4> SUFFICES ASSUME a <= n PROVE FALSE
          OBVIOUS
        <4>1. a \in 1 .. n
          BY <1>3
        <4> QED
          BY <1>7, <2>2, <4>1 DEF InternalCalls
      <3>2. a - n \in 1 .. i - 1 /\ a - n \in 1 .. Len(s) /\ n + (a - n) = a
        BY <1>3, <3>1
      <3>3. s[a - n].fn = "annotation"
        BY <1>8, <2>2, <3>2
      <3>4. ASSUME NEW k \in (a - n) + 1 .. i - 1 PROVE s[k].fn \notin Mallocs
        <4>1. n + k \in a + 1 .. n + i - 1 /\ k \in 1 .. Len(s)
          BY <1>3, <3>2
        <4> QED
          BY <1>8, <2>2, <4>1
      <3> QED
        BY <3>2, <3>3, <3>4 DEF local_malloc
    <2>3. local_malloc(s, i) => local_malloc(both, n + i)
      BY <2>1 DEF local_malloc
    <2>4. local_malloc(both, n + i) => local_malloc(s, i)
      BY <2>2 DEF local_malloc
    <2> QED
      BY <2>3, <2>4
  <1>12. ASSUME NEW i \in 1 .. Len(s) PROVE Transformed(both)[n + i] = Transformed(s)[i]
    <2>1. i \in DOMAIN s
      BY LenProperties
    <2>2. both[n + i] = s[i] /\ n + i \in DOMAIN both
      BY <1>8
    <2>3. local_malloc(both, n + i) <=> local_malloc(s, i)
      BY <1>11
    <2>4. Transformed(both)[n + i] =
            IF s[i].fn \notin DOMAIN Replacement THEN s[i]
            ELSE IF s[i].fn \in Mallocs /\ local_malloc(both, n + i)
                 THEN [s[i] EXCEPT !.fn = "carm_local_malloc"]
                 ELSE [s[i] EXCEPT !.fn = Replacement[@]]
      BY <2>2 DEF Transformed
    <2>5. Transformed(s)[i] =
            IF s[i].fn \notin DOMAIN Replacement THEN s[i]
            ELSE IF s[i].fn \in Mallocs /\ local_malloc(s, i)
                 THEN [s[i] EXCEPT !.fn = "carm_local_malloc"]
                 ELSE [s[i] EXCEPT !.fn = Replacement[@]]
      BY <2>1 DEF Transformed
    <2> QED
      BY <2>3, <2>4, <2>5
  <1> QED
    BY <1>3, <1>4, <1>6, <1>10, <1>12 DEF both

-----------------------------------------------------------------------------
(* The call that runs *)

(* A program and what carm_init puts in front of it. *)
LEMMA Program ==
    ASSUME source \in Modules
    PROVE  /\ Entry \in {"main", Work} /\ Entry \in DOMAIN source
           /\ source[Entry] \in Seq(SourceCalls)
           /\ source[VarInit] \in Seq(SourceCalls)
           /\ source[Constructor] \in Seq(SourceCalls)
           /\ Prologue \in Seq(InternalCalls)
           /\ Len(Prologue) >= 1 /\ Len(Prologue) \in Nat
           /\ Prologue[1].fn = "init_carm_runtime"
           /\ \A i \in 1 .. Len(Prologue) : Prologue[i].fn = "init_carm_runtime" <=> i = 1
           /\ "main" \in DOMAIN source =>
                /\ Len(Prologue) = 3
                /\ Prologue[2].fn = "get_arg_count"
                /\ Prologue[3].fn = "get_args"
           /\ "main" \notin DOMAIN source => Len(Prologue) = 1
  <1>1. \/ DOMAIN source = {VarInit, Constructor, "main"}
        \/ DOMAIN source = {VarInit, Constructor, Work}
    BY StartAssumption
  <1>2. \A f \in DOMAIN source : source[f] \in Seq(SourceCalls)
    BY StartAssumption
  <1>3. ASSUME NEW fn \in {"init_carm_runtime", "get_arg_count", "get_args"}
        PROVE  Internal(fn) \in InternalCalls /\ Internal(fn).fn = fn
    BY DEF Internal, InternalCalls, Dummy
  <1> DEFINE a == Internal("init_carm_runtime")
             b == Internal("get_arg_count")
             c == Internal("get_args")
  <1>4. /\ a \in InternalCalls /\ b \in InternalCalls /\ c \in InternalCalls
        /\ a.fn = "init_carm_runtime" /\ b.fn = "get_arg_count" /\ c.fn = "get_args"
    BY <1>3
  <1>5. Prologue = IF Entry = Work THEN <<a>> ELSE <<a, b, c>>
    BY DEF Prologue
  <1> HIDE DEF a, b, c
  <1>6. CASE DOMAIN source = {VarInit, Constructor, "main"}
    <2>1. Entry = "main" /\ "main" \in DOMAIN source
      BY <1>6 DEF Entry, Work, VarInit, Constructor
    <2>2. Prologue = <<a, b, c>>
      BY <1>5, <2>1 DEF Work
    <2>3. Prologue \in Seq(InternalCalls) /\ Len(Prologue) = 3
      BY <1>4, <2>2
    <2> QED
      BY <1>2, <1>4, <1>6, <2>1, <2>2, <2>3
  <1>7. CASE DOMAIN source = {VarInit, Constructor, Work}
    <2>1. Entry = Work /\ "main" \notin DOMAIN source
      BY <1>7 DEF Entry, Work, VarInit, Constructor
    <2>2. Prologue = <<a>>
      BY <1>5, <2>1
    <2>3. Prologue \in Seq(InternalCalls) /\ Len(Prologue) = 1
      BY <1>4, <2>2
    <2> QED
      BY <1>2, <1>4, <1>7, <2>1, <2>2, <2>3
  <1> QED
    BY <1>1, <1>6, <1>7

(* The module when it runs. *)
LEMMA CompiledCode ==
    ASSUME source \in Modules, code = Compiled
    PROVE  /\ DOMAIN code = {VarInit, Constructor, Work}
           /\ code[VarInit] = source[VarInit]
           /\ code[Constructor] = Transformed(source[Constructor])
           /\ Len(code[Constructor]) = Len(source[Constructor])
           /\ Len(source[Entry]) \in Nat /\ Len(source[VarInit]) \in Nat
           /\ Len(source[Constructor]) \in Nat
           /\ Len(code[Work]) = Len(Prologue) + Len(source[Entry])
           /\ \A i \in 1 .. Len(Prologue) : code[Work][i] = Prologue[i]
           /\ \A i \in 1 .. Len(source[Entry]) :
                 code[Work][Len(Prologue) + i] = Transformed(source[Entry])[i]
  <1>1. /\ source[Entry] \in Seq(SourceCalls)
        /\ source[VarInit] \in Seq(SourceCalls)
        /\ source[Constructor] \in Seq(SourceCalls)
        /\ Prologue \in Seq(InternalCalls)
    BY Program
  <1>2. /\ DOMAIN code = {VarInit, Constructor, Work}
        /\ code[VarInit] = source[VarInit]
        /\ code[Constructor] = Transformed(source[Constructor])
        /\ code[Work] = Transformed(Prologue \o source[Entry])
    BY DEF Compiled, Initialised, VarInit, Constructor, Work
  <1>3. Len(code[Constructor]) = Len(source[Constructor])
    BY <1>1, <1>2, TransformedLength
  <1>4. /\ Len(source[Entry]) \in Nat /\ Len(source[VarInit]) \in Nat
        /\ Len(source[Constructor]) \in Nat
    BY <1>1, LenProperties
  <1> QED
    BY <1>1, <1>2, <1>3, <1>4, TransformedWork

(* While a function runs, it is the source's function with its calls       *)
(* replaced, behind the prologue in do_work.                               *)
LEMMA CurrentCall ==
    ASSUME TypeOK, InputsInv, CodeInv,
           NEW f \in {VarInit, Constructor, Work}, stage = f, at <= Len(code[f])
    PROVE  LET c == code[f][at]
               s == source[Entry]
           IN  /\ code = Compiled
               /\ f = VarInit => c \in SourceCalls
               /\ f = Constructor =>
                    /\ at \in 1 .. Len(source[Constructor])
                    /\ c = Transformed(source[Constructor])[at]
               /\ f = Work =>
                    \/ at \in 1 .. Len(Prologue) /\ c = Prologue[at]
                    \/ /\ at > Len(Prologue)
                       /\ Place = at - Len(Prologue)
                       /\ Place \in 1 .. Len(s)
                       /\ c = Transformed(s)[Place]
  <1>1. code = Compiled /\ source \in Modules /\ at \in Nat \ {0}
    BY DEF TypeOK, InputsInv, CodeInv, VarInit, Constructor, Work
  <1>2. /\ code[VarInit] = source[VarInit]
        /\ code[Constructor] = Transformed(source[Constructor])
        /\ Len(code[Constructor]) = Len(source[Constructor])
        /\ Len(source[Entry]) \in Nat /\ Len(source[VarInit]) \in Nat
        /\ Len(source[Constructor]) \in Nat
        /\ Len(code[Work]) = Len(Prologue) + Len(source[Entry])
        /\ \A i \in 1 .. Len(Prologue) : code[Work][i] = Prologue[i]
        /\ \A i \in 1 .. Len(source[Entry]) :
              code[Work][Len(Prologue) + i] = Transformed(source[Entry])[i]
    BY <1>1, CompiledCode
  <1>3. Len(Prologue) \in Nat /\ source[VarInit] \in Seq(SourceCalls)
    BY <1>1, Program
  <1>4. CASE f = VarInit
    <2>1. at \in 1 .. Len(source[VarInit])
      BY <1>1, <1>2, <1>4
    <2>2. code[f][at] \in SourceCalls
      BY <1>2, <1>3, <1>4, <2>1, ElementOfSeq
    <2> QED
      BY <1>1, <1>4, <2>2 DEF VarInit, Constructor, Work
  <1>5. CASE f = Constructor
    BY <1>1, <1>2, <1>5 DEF VarInit, Constructor, Work
  <1>6. CASE f = Work
    <2>1. Place = at - (Len(code[Work]) - Len(source[Entry]))
      BY <1>6 DEF Place, Running
    <2>2. Place = at - Len(Prologue)
      BY <1>1, <1>2, <1>3, <2>1
    <2>3. CASE at <= Len(Prologue)
      <3>1. at \in 1 .. Len(Prologue)
        BY <1>1, <1>3, <2>3
      <3> QED
        BY <1>1, <1>2, <1>6, <3>1 DEF VarInit, Constructor, Work
    <2>4. CASE ~(at <= Len(Prologue))
      <3>1. PICK i \in 1 .. Len(source[Entry]) : at = Len(Prologue) + i /\ i = at - Len(Prologue)
        <4>1. at - Len(Prologue) \in 1 .. Len(source[Entry])
          BY <1>1, <1>2, <1>3, <1>6, <2>4
        <4>2. at = Len(Prologue) + (at - Len(Prologue))
          BY <1>1, <1>3
        <4> QED
          BY <4>1, <4>2
      <3>2. code[f][at] = Transformed(source[Entry])[i] /\ Place = i /\ at > Len(Prologue)
        BY <1>1, <1>2, <1>3, <1>6, <2>2, <2>4, <3>1
      <3> QED
        BY <1>1, <1>6, <2>2, <3>1, <3>2 DEF VarInit, Constructor, Work
    <2> QED
      BY <2>3, <2>4
  <1> QED
    BY <1>4, <1>5, <1>6

(* Behind the prologue the calls are those of the transformed source. *)
LEMMA WorkCallKind ==
    ASSUME NEW s \in Seq(SourceCalls), NEW i \in 1 .. Len(s)
    PROVE  /\ Transformed(s)[i].fn \in
                {"annotation", "carm_local_malloc", "carm_remote_malloc", "carm_calloc",
                 "carm_realloc", "carm_free", "carm_strdup"}
           /\ Transformed(s)[i].var \in Variables
           /\ Transformed(s)[i].from \in Variables
  BY TransformedCall DEF SourceCalls

(* What the calls are about; those of the prologue come first. *)
LEMMA CallKinds ==
    ASSUME TypeOK, InputsInv, CodeInv,
           NEW f \in {VarInit, Constructor, Work}, stage = f, at <= Len(code[f])
    PROVE  LET c == code[f][at]
           IN  /\ c.fn \notin {"init_carm_runtime", "get_arg_count", "get_args"} =>
                    c.var \in Variables /\ c.from \in Variables
               /\ f = VarInit => c.fn \in {"annotation", "malloc", "mmap", "calloc", "realloc", "free",
                                           "strdup"}
               /\ f # VarInit =>
                    c.fn \in {"annotation", "carm_local_malloc", "carm_remote_malloc",
                              "carm_calloc", "carm_realloc", "carm_free", "carm_strdup",
                              "init_carm_runtime", "get_arg_count", "get_args"}
               /\ c.fn = "init_carm_runtime" <=> f = Work /\ at = 1
               /\ c.fn = "get_arg_count" => f = Work
               /\ c.fn = "get_args" => f = Work
               /\ f = Work /\ "main" \in DOMAIN source =>
                    /\ at = 2 => c.fn = "get_arg_count"
                    /\ at = 3 => c.fn = "get_args"
  <1>1. PICK c : c = code[f][at]
    OBVIOUS
  <1>2. at \in Nat \ {0} /\ source \in Modules
    BY DEF TypeOK, InputsInv
  <1>3. CASE f = VarInit
    <2>1. c \in SourceCalls
      BY <1>1, <1>3, CurrentCall
    <2> QED
      BY <1>1, <1>3, <2>1 DEF SourceCalls, VarInit, Constructor, Work
  <1>4. CASE f = Constructor
    <2>1. /\ at \in 1 .. Len(source[Constructor])
          /\ c = Transformed(source[Constructor])[at]
      BY <1>1, <1>4, CurrentCall
    <2>2. /\ c.fn \in {"annotation", "carm_local_malloc", "carm_remote_malloc", "carm_calloc",
                       "carm_realloc", "carm_free", "carm_strdup"}
          /\ c.var \in Variables /\ c.from \in Variables
      BY <1>2, <2>1, Program, WorkCallKind
    <2> QED
      BY <1>1, <1>4, <2>2 DEF VarInit, Constructor, Work
  <1>5. CASE f = Work
    <2>1. /\ Prologue \in Seq(InternalCalls)
          /\ Len(Prologue) >= 1 /\ Len(Prologue) \in Nat
          /\ \A i \in 1 .. Len(Prologue) : Prologue[i].fn = "init_carm_runtime" <=> i = 1
          /\ "main" \in DOMAIN source =>
               /\ Len(Prologue) = 3
               /\ Prologue[2].fn = "get_arg_count"
               /\ Prologue[3].fn = "get_args"
          /\ source[Entry] \in Seq(SourceCalls)
      BY <1>2, Program
    <2>2. \/ at \in 1 .. Len(Prologue) /\ c = Prologue[at]
          \/ /\ at > Len(Prologue)
             /\ Place \in 1 .. Len(source[Entry])
             /\ c = Transformed(source[Entry])[Place]
      BY <1>1, <1>5, CurrentCall
    <2>3. CASE at \in 1 .. Len(Prologue) /\ c = Prologue[at]
      <3>1. c \in InternalCalls
        BY <2>1, <2>3, ElementOfSeq
      <3>2. c.fn \in {"init_carm_runtime", "get_arg_count", "get_args"}
        BY <3>1 DEF InternalCalls
      <3>3. c.fn = "init_carm_runtime" <=> at = 1
        BY <2>1, <2>3
      <3> QED
        BY <1>1, <1>5, <2>1, <2>3, <3>2, <3>3 DEF VarInit, Work
    <2>4. CASE /\ at > Len(Prologue)
               /\ Place \in 1 .. Len(source[Entry])
               /\ c = Transformed(source[Entry])[Place]
      <3>1. /\ c.fn \in {"annotation", "carm_local_malloc", "carm_remote_malloc", "carm_calloc",
                         "carm_realloc", "carm_free", "carm_strdup"}
            /\ c.var \in Variables /\ c.from \in Variables
        BY <2>1, <2>4, WorkCallKind
      <3>2. at # 1 /\ ("main" \in DOMAIN source => at # 2 /\ at # 3)
        BY <1>2, <2>1, <2>4
      <3> QED
        BY <1>1, <1>5, <3>1, <3>2 DEF VarInit, Work
    <2> QED
      BY <2>2, <2>3, <2>4
  <1> QED
    BY <1>3, <1>4, <1>5

(* What a call changes. *)
LEMMA CallEffect ==
    ASSUME TypeOK, InputsInv, CodeInv, RuntimeInv,
           NEW f \in {VarInit, Constructor, Work}, Calls(f), NEW c, c = code[f][at]
    PROVE  /\ stage = f /\ at <= Len(code[f])
           /\ \/ stage' = f /\ at' = at + 1
              \/ stage' = "crashed" /\ at' = at /\ ~carm_rt
                 /\ c.fn \in {"carm_remote_malloc", "carm_local_malloc", "carm_calloc"}
           /\ UNCHANGED <<progVars, cmdline, cmdlist>>
           /\ heap' \in [Variables -> {"none", "local", "far"}]
           /\ wanted' \in [Variables -> {"none", "local", "far"}]
           /\ IF c.fn = "init_carm_runtime" THEN carm_rt' = TRUE ELSE UNCHANGED carm_rt
           /\ IF c.fn = "get_arg_count" THEN argc' = cmdlist.arg_count ELSE UNCHANGED argc
           /\ IF c.fn = "get_args" THEN args' = cmdlist.args ELSE UNCHANGED args
  <1>1. /\ stage = f /\ at <= Len(code[f])
        /\ UNCHANGED <<progVars, cmdline, cmdlist>>
        /\ \/ /\ carm_malloc(c) \/ libc_malloc(c) \/ carm_realloc(c) \/ carm_free(c)
                 \/ carm_strdup(c) \/ libc_call(c) \/ Skip(c)
              /\ UNCHANGED <<carm_rt, argc, args>>
           \/ init_carm_runtime(c)
           \/ get_arguments(c)
    BY DEF Calls
  <1>2. c.fn \notin {"init_carm_runtime", "get_arg_count", "get_args"} =>
            c.var \in Variables /\ c.from \in Variables
    BY <1>1, CallKinds
  <1>3. /\ heap \in [Variables -> {"none", "local", "far"}]
        /\ wanted \in [Variables -> {"none", "local", "far"}]
    BY DEF TypeOK
  <1>4. ASSUME NEW v, NEW where \in {"none", "local", "far"}, NEW want \in {"none", "local", "far"},
               SetBlock(v, where, want)
        PROVE  /\ heap' \in [Variables -> {"none", "local", "far"}]
               /\ wanted' \in [Variables -> {"none", "local", "far"}]
               /\ stage' = f /\ at' = at + 1
    BY <1>1, <1>3, <1>4 DEF SetBlock
  <1>5. \A v : Wanted(v) \in {"none", "local", "far"}
    BY DEF Wanted
  <1>6. CASE UNCHANGED <<carm_rt, argc, args>> /\ carm_malloc(c)
    <2>1. c.fn \in {"carm_remote_malloc", "carm_local_malloc", "carm_calloc"}
      BY <1>6 DEF carm_malloc
    <2>2. CASE ~carm_rt
      BY <1>1, <1>3, <1>6, <2>1, <2>2 DEF carm_malloc, Crash
    <2>3. CASE carm_rt
      <3>1. SetBlock(c.var, IF c.fn = "carm_local_malloc" THEN "local" ELSE "far", Wanted(c.var))
        BY <1>6, <2>3 DEF carm_malloc
      <3> QED
        BY <1>1, <1>4, <1>5, <1>6, <2>1, <3>1
    <2> QED
      BY <2>2, <2>3
  <1>7. CASE UNCHANGED <<carm_rt, argc, args>> /\ libc_malloc(c)
    <2>1. c.fn \in {"malloc", "mmap", "calloc"} /\ SetBlock(c.var, "local", Wanted(c.var))
      BY <1>7 DEF libc_malloc, Allocators
    <2> QED
      BY <1>1, <1>4, <1>5, <1>7, <2>1
  <1>8. CASE UNCHANGED <<carm_rt, argc, args>> /\ carm_realloc(c)
    <2>1. /\ c.fn = "carm_realloc"
          /\ SetBlock(c.var, IF heap[c.var] = "far" THEN "far" ELSE "local",
                      IF heap[c.var] = "none" THEN "local" ELSE wanted[c.var])
      BY <1>8 DEF carm_realloc
    <2>2. wanted[c.var] \in {"none", "local", "far"}
      BY <1>2, <1>3, <2>1
    <2> QED
      BY <1>1, <1>4, <1>8, <2>1, <2>2
  <1>9. CASE UNCHANGED <<carm_rt, argc, args>> /\ carm_free(c)
    <2>1. c.fn = "carm_free" /\ SetBlock(c.var, "none", "none")
      BY <1>9 DEF carm_free
    <2> QED
      BY <1>1, <1>4, <1>9, <2>1
  <1>10. CASE /\ UNCHANGED <<carm_rt, argc, args>>
              /\ c.fn \in {"carm_strdup", "strdup"}
              /\ SetBlock(c.var, heap[c.from], wanted[c.from])
    <2>1. /\ heap[c.from] \in {"none", "local", "far"}
          /\ wanted[c.from] \in {"none", "local", "far"}
      BY <1>2, <1>3, <1>10
    <2> QED
      BY <1>1, <1>4, <1>10, <2>1
  <1>11. CASE UNCHANGED <<carm_rt, argc, args>> /\ libc_call(c)
    <2>1. CASE c.fn = "realloc" /\ SetBlock(c.var, "local", "local")
      BY <1>1, <1>4, <1>11, <2>1
    <2>2. CASE c.fn = "free" /\ SetBlock(c.var, "none", "none")
      BY <1>1, <1>4, <1>11, <2>2
    <2> QED
      BY <1>10, <1>11, <2>1, <2>2 DEF libc_call
  <1>12. CASE UNCHANGED <<carm_rt, argc, args>> /\ Skip(c)
    BY <1>1, <1>3, <1>12 DEF Skip
  <1>13. CASE init_carm_runtime(c)
    BY <1>1, <1>3, <1>13 DEF init_carm_runtime
  <1>14. CASE get_arguments(c)
    BY <1>1, <1>3, <1>14 DEF get_arguments
  <1>15. UNCHANGED <<carm_rt, argc, args>> /\ carm_strdup(c) =>
             /\ UNCHANGED <<carm_rt, argc, args>>
             /\ c.fn \in {"carm_strdup", "strdup"}
             /\ SetBlock(c.var, heap[c.from], wanted[c.from])
    BY DEF carm_strdup
  <1> QED
    BY <1>1, <1>6, <1>7, <1>8, <1>9, <1>10, <1>11, <1>12, <1>13, <1>14, <1>15

-----------------------------------------------------------------------------
(* The invariant is inductive *)

(* A program that no pass has seen. *)
LEMMA StartInit == Init => StartInv
  <1> SUFFICES ASSUME Init PROVE StartInv
    OBVIOUS
  <1>1. /\ stage = "init" /\ at = 1 /\ carm_rt = FALSE /\ argc = 0
        /\ cmdlist.arg_count = 0
        /\ heap \in [Variables -> {"none", "local", "far"}]
        /\ wanted \in [Variables -> {"none", "local", "far"}]
    BY DEF Init
  <1>2. TypeOK
    <2>1. at \in Nat \ {0} /\ argc \in Nat
      BY <1>1
    <2>2. carm_rt \in BOOLEAN
      BY <1>1
    <2>3. cmdlist.arg_count \in Nat
      BY <1>1
    <2> QED
      BY <1>1, <2>1, <2>2, <2>3 DEF TypeOK
  <1>3. InputsInv /\ CodeInv
    BY DEF Init, InputsInv, CodeInv
  <1>4. RuntimeInv /\ ArgumentsInv
    BY <1>1 DEF RuntimeInv, ArgumentsInv, Work
  <1> QED
    BY <1>2, <1>3, <1>4 DEF StartInv

(* What the passes make of a program depends on the program alone. *)
LEMMA CompilesOnce ==
    ASSUME UNCHANGED source
    PROVE  Initialised' = Initialised /\ Compiled' = Compiled
  BY DEF Compiled, Initialised, Prologue, Entry, Internal

(* The functions that run: the passes are over. *)
LEMMA Runs ==
    ASSUME TypeOK, InputsInv, CodeInv, stage \in DOMAIN code
    PROVE  stage \in {VarInit, Constructor, Work} /\ code = Compiled
  <1>1. \/ DOMAIN source = {VarInit, Constructor, "main"}
        \/ DOMAIN source = {VarInit, Constructor, Work}
    BY StartAssumption DEF InputsInv
  <1>2. CASE stage = "init"
    BY <1>1, <1>2 DEF CodeInv, VarInit, Constructor, Work
  <1>3. CASE stage = "libc"
    <2>1. DOMAIN code = {VarInit, Constructor, Work}
      BY <1>3 DEF CodeInv, Initialised
    <2> QED
      BY <1>3, <2>1 DEF VarInit, Constructor, Work
  <1>4. CASE stage \notin {"init", "libc"}
    <2>1. code = Compiled
      BY <1>4 DEF CodeInv
    <2>2. DOMAIN code = {VarInit, Constructor, Work}
      BY <2>1 DEF Compiled
    <2> QED
      BY <2>1, <2>2
  <1> QED
    BY <1>2, <1>3, <1>4

(* carm_init renames main and puts its prologue in front. *)
LEMMA InitTransformInv ==
    ASSUME StartInv, InitTransform PROVE StartInv'
  <1>1. /\ stage = "init" /\ stage' = "libc"
        /\ UNCHANGED <<source, at, carm_rt, cmdline, cmdlist, argc, args, heap, wanted>>
    BY DEF InitTransform, argVars
  <1>2. code = source
    BY <1>1 DEF StartInv, CodeInv
  <1>3. code' = Initialised'
    BY <1>1, CompilesOnce DEF InitTransform, Initialised
  <1>4. TypeOK' /\ InputsInv'
    BY <1>1 DEF StartInv, TypeOK, InputsInv
  <1>5. CodeInv'
    BY <1>1, <1>3 DEF CodeInv
  <1>6. RuntimeInv' /\ ArgumentsInv'
    BY <1>1 DEF StartInv, RuntimeInv, ArgumentsInv, Work
  <1> QED
    BY <1>4, <1>5, <1>6 DEF StartInv

(* carm_libc_transform redirects the calls of each function. *)
LEMMA LibcTransformInv ==
    ASSUME StartInv, LibcTransform PROVE StartInv'
  <1>1. /\ stage = "libc" /\ stage' = VarInit
        /\ UNCHANGED <<source, at, carm_rt, cmdline, cmdlist, argc, args, heap, wanted>>
    BY DEF LibcTransform, argVars
  <1>2. code = Initialised
    BY <1>1 DEF StartInv, CodeInv
  <1>3. DOMAIN code = {VarInit, Constructor, Work} /\ code[VarInit] = source[VarInit]
    BY <1>2 DEF Initialised, VarInit, Constructor, Work
  <1>4. code' = [f \in {VarInit, Constructor, Work} |->
                    IF f = VarInit THEN source[f] ELSE Transformed(Initialised[f])]
    BY <1>2, <1>3 DEF LibcTransform
  <1>5. code' = Compiled'
    BY <1>1, <1>4, CompilesOnce DEF Compiled
  <1>6. TypeOK' /\ InputsInv'
    BY <1>1 DEF StartInv, TypeOK, InputsInv
  <1>7. CodeInv'
    BY <1>1, <1>5 DEF CodeInv, VarInit
  <1>8. RuntimeInv' /\ ArgumentsInv'
    BY <1>1 DEF StartInv, RuntimeInv, ArgumentsInv, VarInit, Work
  <1> QED
    BY <1>6, <1>7, <1>8 DEF StartInv

(* A call runs: only the first one of do_work starts the runtime, and only *)
(* the next two fetch the command line.                                    *)
LEMMA CallsInv ==
    ASSUME StartInv, NEW f \in {VarInit, Constructor, Work}, Calls(f) PROVE StartInv'
  <1>1. PICK c : c = code[f][at]
    OBVIOUS
  <1>2. TypeOK /\ InputsInv /\ CodeInv /\ RuntimeInv /\ ArgumentsInv
    BY DEF StartInv
  <1>3. /\ stage = f /\ at <= Len(code[f])
        /\ \/ stage' = f /\ at' = at + 1
           \/ stage' = "crashed" /\ at' = at
        /\ UNCHANGED <<source, code, cmdline, cmdlist>>
        /\ heap' \in [Variables -> {"none", "local", "far"}]
        /\ wanted' \in [Variables -> {"none", "local", "far"}]
        /\ IF c.fn = "init_carm_runtime" THEN carm_rt' = TRUE ELSE UNCHANGED carm_rt
        /\ IF c.fn = "get_arg_count" THEN argc' = cmdlist.arg_count ELSE UNCHANGED argc
        /\ IF c.fn = "get_args" THEN args' = cmdlist.args ELSE UNCHANGED args
    BY <1>1, <1>2, CallEffect DEF progVars
  <1>4. /\ c.fn = "init_carm_runtime" <=> f = Work /\ at = 1
        /\ f = Work /\ "main" \in DOMAIN source =>
             /\ at = 2 => c.fn = "get_arg_count"
             /\ at = 3 => c.fn = "get_args"
    BY <1>1, <1>2, <1>3, CallKinds
  <1>5. code = Compiled
    BY <1>2, <1>3, CurrentCall
  <1>6. at \in Nat \ {0} /\ carm_rt \in BOOLEAN /\ argc \in Nat /\ cmdlist.arg_count \in Nat
    BY <1>2 DEF TypeOK
  <1>7. stage' \in {VarInit, Constructor, Work, "crashed"} /\ at' \in Nat \ {0}
    BY <1>3, <1>6
  <1>8. TypeOK'
    BY <1>3, <1>6, <1>7 DEF TypeOK
  <1>9. CodeInv'
    <2>1. code' = Compiled'
      BY <1>3, <1>5, CompilesOnce
    <2> QED
      BY <1>7, <2>1 DEF CodeInv, VarInit, Constructor, Work
  <1>10. RuntimeInv'
    <2>1. CASE f = Work
      BY <1>2, <1>3, <1>4, <1>6, <2>1 DEF RuntimeInv, VarInit, Constructor, Work
    <2>2. CASE f # Work
      BY <1>2, <1>3, <1>4, <1>6, <2>2 DEF RuntimeInv, VarInit, Constructor, Work
    <2> QED
      BY <2>1, <2>2
  <1>11. ArgumentsInv'
    <2>1. ASSUME stage' \in {Work, "end"}
          PROVE  /\ Len(cmdline) >= 3
                 /\ cmdlist = [arg_count |-> Len(cmdline) - 2, args |-> pargs]
      BY <1>2, <1>3, <2>1 DEF ArgumentsInv, VarInit, Constructor, Work
    <2>2. pargs' = pargs
      BY <1>3 DEF pargs
    <2>3. ASSUME "main" \in DOMAIN source, stage' = "end" \/ (stage' = Work /\ at' > 2)
          PROVE  argc' = cmdlist.arg_count
      <3>1. stage = Work /\ at' = at + 1 /\ at' > 2 /\ f = Work
        BY <1>3, <2>3 DEF VarInit, Constructor, Work
      <3>4. at = 2 \/ at > 2
        BY <1>6, <3>1
      <3>2. CASE at = 2
        BY <1>3, <1>4, <2>3, <3>1, <3>2
      <3>3. CASE at > 2
        BY <1>2, <1>3, <2>3, <3>1, <3>3 DEF ArgumentsInv
      <3> QED
        BY <3>2, <3>3, <3>4
    <2>4. ASSUME "main" \in DOMAIN source, stage' = "end" \/ (stage' = Work /\ at' > 3)
          PROVE  args' = cmdlist.args
      <3>1. stage = Work /\ at' = at + 1 /\ at' > 3 /\ f = Work
        BY <1>3, <2>4 DEF VarInit, Constructor, Work
      <3>4. at = 3 \/ at > 3
        BY <1>6, <3>1
      <3>2. CASE at = 3
        BY <1>3, <1>4, <2>4, <3>1, <3>2
      <3>3. CASE at > 3
        BY <1>2, <1>3, <2>4, <3>1, <3>3 DEF ArgumentsInv
      <3> QED
        BY <3>2, <3>3, <3>4
    <2> QED
      BY <1>3, <2>1, <2>2, <2>3, <2>4 DEF ArgumentsInv
  <1>12. InputsInv'
    BY <1>2, <1>3 DEF InputsInv
  <1> QED
    BY <1>8, <1>9, <1>10, <1>11, <1>12 DEF StartInv

(* A function returns and the loader goes on to the next. *)
LEMMA ReturnsInv ==
    ASSUME StartInv, Returns PROVE StartInv'
  <1>1. /\ stage \in DOMAIN code /\ at > Len(code[stage]) /\ at' = 1
        /\ UNCHANGED <<source, code, carm_rt, cmdline, cmdlist, argc, args, heap, wanted>>
        /\ stage' = CASE stage = VarInit -> Constructor
                      [] stage = Constructor -> "main"
                      [] stage = Work -> "end"
    BY DEF Returns, progVars, argVars
  <1>2. TypeOK /\ InputsInv /\ CodeInv /\ RuntimeInv /\ ArgumentsInv
    BY DEF StartInv
  <1>3. stage \in {VarInit, Constructor, Work} /\ code = Compiled /\ source \in Modules
    BY <1>1, <1>2, Runs DEF InputsInv
  <1>4. \/ stage = VarInit /\ stage' = Constructor
        \/ stage = Constructor /\ stage' = "main"
        \/ stage = Work /\ stage' = "end"
    BY <1>1, <1>3 DEF VarInit, Constructor, Work
  <1>5. TypeOK'
    BY <1>1, <1>2, <1>4 DEF TypeOK
  <1>6. CodeInv'
    <2>1. code' = Compiled'
      BY <1>1, <1>3, CompilesOnce
    <2> QED
      BY <1>4, <2>1 DEF CodeInv, VarInit, Constructor, Work
  <1>7. RuntimeInv'
    BY <1>1, <1>2, <1>4 DEF RuntimeInv, VarInit, Constructor, Work
  <1>8. ASSUME stage = Work, "main" \in DOMAIN source PROVE at > 3
    <2>1. Len(Prologue) = 3
      BY <1>3, <1>8, Program
    <2>2. Len(code[Work]) = Len(Prologue) + Len(source[Entry]) /\ Len(source[Entry]) \in Nat
      BY <1>3, CompiledCode
    <2>3. at \in Nat
      BY <1>2 DEF TypeOK
    <2> QED
      BY <1>1, <1>8, <2>1, <2>2, <2>3
  <1>9. ArgumentsInv'
    <2>1. pargs' = pargs
      BY <1>1 DEF pargs
    <2>2. CASE stage # Work
      BY <1>1, <1>4, <2>2 DEF ArgumentsInv, VarInit, Constructor, Work
    <2>3. CASE stage = Work
      <3>1. "main" \in DOMAIN source => at > 3 /\ at > 2
        <4>1. at \in Nat
          BY <1>2 DEF TypeOK
        <4> QED
          BY <1>8, <2>3, <4>1
      <3> QED
        BY <1>1, <1>2, <2>1, <2>3, <3>1 DEF ArgumentsInv
    <2> QED
      BY <2>2, <2>3
  <1>10. InputsInv'
    BY <1>1, <1>2 DEF InputsInv
  <1> QED
    BY <1>5, <1>6, <1>7, <1>9, <1>10 DEF StartInv

(* main keeps the command line and calls do_work. *)
LEMMA MainInv ==
    ASSUME StartInv, main PROVE StartInv'
  <1>1. /\ stage = "main"
        /\ UNCHANGED <<source, code, at, carm_rt, cmdline, argc, args, heap, wanted>>
        /\ IF Len(cmdline) < 3 THEN stage' = "usage" /\ UNCHANGED cmdlist
           ELSE /\ cmdlist' = [arg_count |-> arg_count(Len(cmdline)), args |-> pargs]
                /\ stage' \in {Work, "failed"}
    BY DEF main, progVars
  <1>2. TypeOK /\ InputsInv /\ CodeInv /\ RuntimeInv /\ ArgumentsInv
    BY DEF StartInv
  <1>3. Len(cmdline) \in Nat
    <2>1. cmdline \in Seq(STRING \ {NULL})
      BY <1>2, StartAssumption DEF InputsInv
    <2> QED
      BY <2>1, LenProperties
  <1>4. code = Compiled
    BY <1>1, <1>2 DEF CodeInv
  <1>5. stage' \in {Work, "failed", "usage"}
    BY <1>1
  <1>6. \/ UNCHANGED cmdlist /\ stage' = "usage"
        \/ /\ cmdlist' = [arg_count |-> Len(cmdline) - 2, args |-> pargs]
           /\ Len(cmdline) >= 3
    BY <1>1, <1>3 DEF arg_count
  <1>7. TypeOK'
    <2>1. cmdlist.arg_count' \in Nat
      BY <1>2, <1>3, <1>6 DEF TypeOK
    <2> QED
      BY <1>1, <1>2, <1>5, <2>1 DEF TypeOK
  <1>8. CodeInv'
    <2>1. code' = Compiled'
      BY <1>1, <1>4, CompilesOnce
    <2> QED
      BY <1>5, <2>1 DEF CodeInv, Work
  <1>9. RuntimeInv'
    BY <1>1, <1>2, <1>5 DEF RuntimeInv, VarInit, Constructor, Work
  <1>10. ArgumentsInv'
    <2>1. pargs' = pargs
      BY <1>1 DEF pargs
    <2>2. at' = 1
      BY <1>1, <1>2 DEF RuntimeInv
    <2> QED
      BY <1>1, <1>5, <1>6, <2>1, <2>2 DEF ArgumentsInv, Work
  <1>11. InputsInv'
    BY <1>1, <1>2 DEF InputsInv
  <1> QED
    BY <1>7, <1>8, <1>9, <1>10, <1>11 DEF StartInv

-----------------------------------------------------------------------------
(* Annotations *)

(* Is there an annotation for v before call i that no allocation for v has *)
(* used up?                                                                *)
AnnotatedFor(s, i, v) ==
    \E a \in 1 .. i - 1 :
        /\ s[a].fn = "annotation" /\ s[a].var = v
        /\ \A k \in a + 1 .. i - 1 : ~(s[k].fn \in Allocators /\ s[k].var = v)

(* A nonempty set of numbers has a least one. *)
LEMMA Least ==
    ASSUME NEW M \in SUBSET Nat, M # {}
    PROVE  \E m \in M : \A k \in M : m <= k
  <1>1. \E m \in M : \A k \in M : ~(<<k, m>> \in OpToRel(<, Nat))
    BY NatLessThanWellFounded, WFMin
  <1>2. PICK m \in M : \A k \in M : ~(<<k, m>> \in OpToRel(<, Nat))
    BY <1>1
  <1>3. ASSUME NEW k \in M PROVE m <= k
    <2>1. k < m => <<k, m>> \in OpToRel(<, Nat)
      BY DEF OpToRel
    <2>2. ~(k < m)
      BY <1>2, <2>1
    <2> QED
      BY <2>2
  <1> QED
    BY <1>3

(* Between an annotation that fits and an allocation that has not used it  *)
(* up there is no malloc.                                                  *)
LEMMA NoMallocBetween ==
    ASSUME NEW s \in Seq(SourceCalls), FitsAnnotations(s),
           NEW i \in 1 .. Len(s), NEW a \in 1 .. i - 1, s[a].fn = "annotation",
           \A k \in a + 1 .. i - 1 : ~(s[k].fn \in Allocators /\ s[k].var = s[a].var)
    PROVE  \A k \in a + 1 .. i - 1 : s[k].fn \notin Mallocs
  <1> DEFINE M == {k \in a + 1 .. i - 1 : s[k].fn \in Mallocs}
  <1> SUFFICES M = {}
    OBVIOUS
  <1>1. Len(s) \in Nat /\ DOMAIN s = 1 .. Len(s)
    BY LenProperties
  <1>2. CASE M # {}
    <2>1. M \subseteq Nat
      BY <1>1
    <2>2. \E m \in M : \A k \in M : m <= k
      <3> HIDE DEF M
      <3> QED
        BY <1>2, <2>1, Least
    <2>3. PICK m \in M : \A k \in M : m <= k
      BY <2>2
    <2>4. m \in a + 1 .. i - 1 /\ s[m].fn \in Mallocs /\ m \in Nat
      BY <2>1, <2>3
    <2>5. \A h \in a + 1 .. m - 1 : s[h].fn \notin Mallocs
      <3> SUFFICES ASSUME NEW h \in a + 1 .. m - 1, s[h].fn \in Mallocs PROVE FALSE
        OBVIOUS
      <3>1. h \in M
        BY <1>1, <2>4
      <3>2. m <= h
        BY <2>3, <3>1
      <3> QED
        BY <1>1, <2>4, <3>2
    <2>6. a \in DOMAIN s /\ m \in a + 1 .. Len(s)
      BY <1>1, <2>4
    <2>7. s[m].var = s[a].var
      BY <2>4, <2>5, <2>6 DEF FitsAnnotations, Allocators
    <2> QED
      BY <2>4, <2>7 DEF Allocators
  <1> QED
    BY <1>2

(* Where annotations fit, the flag of the pass says for which malloc there *)
(* is one, and no calloc has one.                                          *)
LEMMA FlagIsAnnotation ==
    ASSUME NEW s \in Seq(SourceCalls), FitsAnnotations(s), NEW i \in 1 .. Len(s)
    PROVE  /\ s[i].fn \in Mallocs => (local_malloc(s, i) <=> AnnotatedFor(s, i, s[i].var))
           /\ s[i].fn = "calloc" => ~AnnotatedFor(s, i, s[i].var)
  <1>1. Len(s) \in Nat /\ DOMAIN s = 1 .. Len(s)
    BY LenProperties
  <1>2. ASSUME NEW a \in 1 .. i - 1, s[a].fn = "annotation",
               \A k \in a + 1 .. i - 1 : s[k].fn \notin Mallocs
        PROVE  /\ s[i].fn \in Mallocs => s[i].var = s[a].var
               /\ s[i].fn = "calloc" => s[i].var # s[a].var
               /\ \A k \in a + 1 .. i - 1 : ~(s[k].fn \in Allocators /\ s[k].var = s[a].var)
    <2>1. a \in DOMAIN s
      BY <1>1
    <2>2. ASSUME NEW k \in a + 1 .. i, s[k].fn \in Allocators
          PROVE  \/ s[k].fn \in Mallocs /\ s[k].var = s[a].var
                 \/ s[k].fn = "calloc" /\ s[k].var # s[a].var
      <3>1. k \in a + 1 .. Len(s) /\ \A h \in a + 1 .. k - 1 : h \in a + 1 .. i - 1
        BY <1>1
      <3>2. \A h \in a + 1 .. k - 1 : s[h].fn \notin Mallocs
        BY <1>2, <3>1
      <3> QED
        BY <1>2, <2>1, <2>2, <3>1, <3>2 DEF FitsAnnotations
    <2>3. i \in a + 1 .. i
      BY <1>1
    <2>4. \A k \in a + 1 .. i - 1 : k \in a + 1 .. i
      BY <1>1
    <2> QED
      BY <1>2, <2>2, <2>3, <2>4 DEF Allocators
  <1>3. ASSUME s[i].fn \in Mallocs, local_malloc(s, i) PROVE AnnotatedFor(s, i, s[i].var)
    <2>1. PICK a \in 1 .. i - 1 : /\ s[a].fn = "annotation"
                                  /\ \A k \in a + 1 .. i - 1 : s[k].fn \notin Mallocs
      BY <1>3 DEF local_malloc
    <2>2. /\ s[i].var = s[a].var
          /\ \A k \in a + 1 .. i - 1 : ~(s[k].fn \in Allocators /\ s[k].var = s[a].var)
      BY <1>2, <1>3, <2>1
    <2> QED
      BY <2>1, <2>2 DEF AnnotatedFor
  <1>4. ASSUME AnnotatedFor(s, i, s[i].var)
        PROVE  local_malloc(s, i) /\ s[i].fn # "calloc"
    <2>1. PICK a \in 1 .. i - 1 :
              /\ s[a].fn = "annotation" /\ s[a].var = s[i].var
              /\ \A k \in a + 1 .. i - 1 : ~(s[k].fn \in Allocators /\ s[k].var = s[i].var)
      BY <1>4 DEF AnnotatedFor
    <2>2. \A k \in a + 1 .. i - 1 : s[k].fn \notin Mallocs
      BY <2>1, NoMallocBetween
    <2>3. s[i].fn # "calloc"
      BY <1>2, <2>1, <2>2
    <2> QED
      BY <2>1, <2>2, <2>3 DEF local_malloc
  <1> QED
    BY <1>3, <1>4

(* A call leaves a block where it is wanted. *)
LEMMA CallHonours ==
    ASSUME AnnotationsFit, StartInv, AnnotationsHonoured,
           NEW f \in {VarInit, Constructor, Work}, Calls(f)
    PROVE  AnnotationsHonoured'
  <1>1. PICK c : c = code[f][at]
    OBVIOUS
  <1>2. TypeOK /\ InputsInv /\ CodeInv /\ RuntimeInv /\ source \in Modules
    BY DEF StartInv, InputsInv
  <1>3. /\ stage = f /\ at <= Len(code[f])
        /\ \/ /\ carm_malloc(c) \/ libc_malloc(c) \/ carm_realloc(c) \/ carm_free(c)
                 \/ carm_strdup(c) \/ libc_call(c) \/ Skip(c)
              /\ UNCHANGED <<carm_rt, argc, args>>
           \/ init_carm_runtime(c)
           \/ get_arguments(c)
    BY <1>1 DEF Calls
  <1>4. heap = wanted /\ heap \in [Variables -> {"none", "local", "far"}]
    BY <1>2 DEF AnnotationsHonoured, TypeOK
  <1>5. /\ c.fn \notin {"init_carm_runtime", "get_arg_count", "get_args"} => c.var \in Variables
        /\ f = VarInit => c.fn \in {"annotation", "malloc", "mmap", "calloc", "realloc", "free", "strdup"}
        /\ f # VarInit =>
             c.fn \in {"annotation", "carm_local_malloc", "carm_remote_malloc",
                       "carm_calloc", "carm_realloc", "carm_free", "carm_strdup",
                       "init_carm_runtime", "get_arg_count", "get_args"}
    BY <1>1, <1>2, <1>3, CallKinds
  <1>6. ASSUME NEW v, NEW where, SetBlock(v, where, where) PROVE heap' = wanted'
    BY <1>4, <1>6 DEF SetBlock
  <1>7. CASE carm_malloc(c)
    <2>1. c.fn \in {"carm_remote_malloc", "carm_local_malloc", "carm_calloc"}
      BY <1>7 DEF carm_malloc
    <2>2. CASE ~carm_rt
      <3>1. UNCHANGED <<heap, wanted>>
        BY <1>7, <2>2 DEF carm_malloc, Crash
      <3> QED
        BY <1>4, <3>1 DEF AnnotationsHonoured
    <2>3. CASE carm_rt
      <3>1. SetBlock(c.var, IF c.fn = "carm_local_malloc" THEN "local" ELSE "far", Wanted(c.var))
        BY <1>7, <2>3 DEF carm_malloc
      <3>2. f = Work
        BY <1>2, <1>3, <2>3 DEF RuntimeInv
      <3>3. PICK s : s = source[Entry]
        OBVIOUS
      <3>4. s \in Seq(SourceCalls) /\ FitsAnnotations(s)
        BY <1>2, <3>3, Program DEF AnnotationsFit
      <3>5. Prologue \in Seq(InternalCalls)
        BY <1>2, Program
      <3>6. PICK i : i = Place
        OBVIOUS
      <3>7. i \in 1 .. Len(s) /\ c = Transformed(s)[i]
        <4>1. \/ at \in 1 .. Len(Prologue) /\ c = Prologue[at]
              \/ Place \in 1 .. Len(s) /\ c = Transformed(s)[Place]
          BY <1>1, <1>2, <1>3, <3>2, <3>3, CurrentCall
        <4>2. at \in 1 .. Len(Prologue) => Prologue[at] \in InternalCalls
          BY <3>5, ElementOfSeq
        <4>3. c \notin InternalCalls
          BY <2>1 DEF InternalCalls
        <4> QED
          BY <3>6, <4>1, <4>2, <4>3
      <3>8. Running = s
        BY <1>3, <3>2, <3>3 DEF Running
      <3>9. Wanted(c.var) = IF AnnotatedFor(s, i, c.var) THEN "local" ELSE "far"
        BY <1>3, <3>2, <3>6, <3>8 DEF Wanted, AnnotatedFor
      <3>10. /\ c.var = s[i].var /\ s[i] \in SourceCalls
             /\ c.fn = CASE s[i].fn = "annotation" -> "annotation"
                         [] s[i].fn \in Mallocs -> IF local_malloc(s, i) THEN "carm_local_malloc"
                                                  ELSE "carm_remote_malloc"
                         [] s[i].fn = "calloc" -> "carm_calloc"
                         [] s[i].fn = "realloc" -> "carm_realloc"
                         [] s[i].fn = "free" -> "carm_free"
                         [] s[i].fn = "strdup" -> "carm_strdup"
        BY <3>4, <3>7, TransformedCall
      <3>11. s[i].fn \in {"annotation", "malloc", "mmap", "calloc", "realloc", "free", "strdup"}
        BY <3>10 DEF SourceCalls
      <3>12. /\ s[i].fn \in Mallocs => (local_malloc(s, i) <=> AnnotatedFor(s, i, c.var))
             /\ s[i].fn = "calloc" => ~AnnotatedFor(s, i, c.var)
        BY <3>4, <3>7, <3>10, FlagIsAnnotation
      <3>13. (IF c.fn = "carm_local_malloc" THEN "local" ELSE "far") = Wanted(c.var)
        <4>1. CASE s[i].fn \in Mallocs /\ local_malloc(s, i)
          BY <3>9, <3>10, <3>12, <4>1
        <4>2. CASE s[i].fn \in Mallocs /\ ~local_malloc(s, i)
          BY <3>9, <3>10, <3>12, <4>2
        <4>3. CASE s[i].fn = "calloc"
          BY <3>9, <3>10, <3>12, <4>3
        <4>4. CASE s[i].fn \in {"annotation", "realloc", "free", "strdup"}
          BY <2>1, <3>10, <4>4
        <4> QED
          BY <3>11, <4>1, <4>2, <4>3, <4>4
      <3> QED
        BY <1>6, <3>1, <3>13 DEF AnnotationsHonoured
    <2> QED
      BY <2>2, <2>3 DEF AnnotationsHonoured
  <1>8. CASE libc_malloc(c)
    <2>1. c.fn \in {"malloc", "mmap", "calloc"} /\ SetBlock(c.var, "local", Wanted(c.var))
      BY <1>8 DEF libc_malloc, Allocators
    <2>2. stage # Work
      BY <1>3, <1>5, <2>1 DEF VarInit, Work
    <2>3. Wanted(c.var) = "local"
      BY <2>2 DEF Wanted
    <2> QED
      BY <1>6, <2>1, <2>3 DEF AnnotationsHonoured
  <1>9. CASE carm_realloc(c)
    <2>1. /\ c.fn = "carm_realloc"
          /\ SetBlock(c.var, IF heap[c.var] = "far" THEN "far" ELSE "local",
                      IF heap[c.var] = "none" THEN "local" ELSE wanted[c.var])
      BY <1>9 DEF carm_realloc
    <2>2. wanted[c.var] = heap[c.var] /\ heap[c.var] \in {"none", "local", "far"}
      BY <1>4, <1>5, <2>1
    <2>3. (IF heap[c.var] = "far" THEN "far" ELSE "local")
            = (IF heap[c.var] = "none" THEN "local" ELSE wanted[c.var])
      BY <2>2
    <2> QED
      BY <1>6, <2>1, <2>3 DEF AnnotationsHonoured
  <1>10. CASE carm_free(c) \/ carm_strdup(c) \/ libc_call(c)
    BY <1>4, <1>6, <1>10 DEF carm_free, carm_strdup, libc_call, AnnotationsHonoured
  <1>11. CASE Skip(c) \/ init_carm_runtime(c) \/ get_arguments(c)
    BY <1>4, <1>11 DEF Skip, init_carm_runtime, get_arguments, AnnotationsHonoured
  <1> QED
    BY <1>3, <1>7, <1>8, <1>9, <1>10, <1>11

-----------------------------------------------------------------------------
(* The theorems *)

(* The module that runs is the source's, changed call by call; the runtime *)
(* exists behind the first call of do_work; main has the command line.     *)
THEOREM StartInductive == Spec => []StartInv
  <1>1. StartInv /\ [Next]_vars => StartInv'
    <2> SUFFICES ASSUME StartInv, [Next]_vars PROVE StartInv'
      OBVIOUS
    <2>1. CASE UNCHANGED vars
      <3>1. /\ UNCHANGED <<source, code, stage, at, carm_rt, cmdline, cmdlist, argc, args,
                           heap, wanted>>
            /\ pargs' = pargs /\ Initialised' = Initialised /\ Compiled' = Compiled
        BY <2>1, CompilesOnce DEF vars, progVars, argVars, pargs
      <3>2. TypeOK' /\ InputsInv'
        BY <3>1 DEF StartInv, TypeOK, InputsInv
      <3>3. CodeInv'
        BY <3>1 DEF StartInv, CodeInv
      <3>4. RuntimeInv' /\ ArgumentsInv'
        BY <3>1 DEF StartInv, RuntimeInv, ArgumentsInv
      <3> QED
        BY <3>2, <3>3, <3>4 DEF StartInv
    <2>2. CASE Next
      BY <2>2, InitTransformInv, LibcTransformInv, CallsInv, ReturnsInv, MainInv DEF Next
    <2> QED
      BY <2>1, <2>2
  <1> QED
    BY <1>1, StartInit, PTL DEF Spec

(* The variables have their types, whatever program is run. *)
THEOREM StartTypeCorrect == Spec => []TypeOK
  BY StartInductive, PTL DEF StartInv

(* A program sees its own arguments, without those of the runtime. *)
THEOREM ArgumentsAreDelivered == Spec => []ArgumentsArrive
  <1>1. StartInv => ArgumentsArrive
    <2> SUFFICES ASSUME StartInv, stage = "end", "main" \in DOMAIN source
                 PROVE  /\ argc = Len(cmdline) - 2
                        /\ args[1] = cmdline[1]
                        /\ \A k \in 2 .. argc : args[k] = cmdline[k + 2]
                        /\ \A k \in argc + 1 .. Len(args) : args[k] = NULL
                        /\ Len(args) > argc
      BY DEF ArgumentsArrive
    <2>1. /\ Len(cmdline) >= 3
          /\ cmdlist = [arg_count |-> Len(cmdline) - 2, args |-> pargs]
          /\ argc = cmdlist.arg_count /\ args = cmdlist.args
      BY DEF StartInv, ArgumentsInv
    <2>2. PICK n \in Nat : n = Len(cmdline)
      <3>1. cmdline \in Seq(STRING \ {NULL})
        BY StartAssumption DEF StartInv, InputsInv
      <3> QED
        BY <3>1, LenProperties
    <2>3. n >= 3 /\ argc = n - 2 /\ args = pargs
      BY <2>1, <2>2
    <2>4. pargs = [k \in 1 .. n + 1 |->
                     IF k = 1 THEN cmdline[1]
                     ELSE IF k + 2 <= n THEN cmdline[k + 2] ELSE NULL]
      BY <2>2 DEF pargs
    <2>5. Len(pargs) = n + 1
      <3> DEFINE R == {pargs[k] : k \in 1 .. n + 1}
      <3>1. pargs \in [1 .. n + 1 -> R] /\ n + 1 \in Nat
        BY <2>4
      <3> HIDE DEF R
      <3> QED
        BY <3>1, LengthOf
    <2>6. args[1] = cmdline[1]
      BY <2>3, <2>4
    <2>7. ASSUME NEW k \in 2 .. argc PROVE args[k] = cmdline[k + 2]
      <3>1. k \in 1 .. n + 1 /\ k # 1 /\ k + 2 <= n
        BY <2>3
      <3> QED
        BY <2>3, <2>4, <3>1
    <2>8. ASSUME NEW k \in argc + 1 .. Len(args) PROVE args[k] = NULL
      <3>1. k \in 1 .. n + 1 /\ k # 1 /\ ~(k + 2 <= n)
        BY <2>3, <2>5
      <3> QED
        BY <2>3, <2>4, <3>1
    <2> QED
      BY <2>2, <2>3, <2>5, <2>6, <2>7, <2>8
  <1> QED
    BY <1>1, StartInductive, PTL

(* What carm_libc_transform has put into a program works when it runs, for *)
(* every program whose constructors allocate no new block.                 *)
THEOREM RuntimeIsFound == ConstructorsWait => (Spec => []CallsFindRuntime)
  <1> SUFFICES ASSUME ConstructorsWait PROVE Spec => []CallsFindRuntime
    OBVIOUS
  <1>1. Init => CallsFindRuntime
    BY DEF Init, CallsFindRuntime
  <1>2. StartInv /\ CallsFindRuntime /\ [Next]_vars => CallsFindRuntime'
    <2> SUFFICES ASSUME StartInv, CallsFindRuntime, [Next]_vars PROVE stage' # "crashed"
      BY DEF CallsFindRuntime
    <2>1. TypeOK /\ InputsInv /\ CodeInv /\ RuntimeInv /\ source \in Modules
      BY DEF StartInv, InputsInv
    <2>2. ASSUME NEW f \in {VarInit, Constructor, Work}, Calls(f) PROVE stage' # "crashed"
      <3>1. PICK c : c = code[f][at]
        OBVIOUS
      <3>2. /\ stage = f /\ at <= Len(code[f])
            /\ \/ stage' = f
               \/ ~carm_rt /\ c.fn \in {"carm_remote_malloc", "carm_local_malloc", "carm_calloc"}
        BY <2>1, <2>2, <3>1, CallEffect
      <3>3. CASE f = VarInit
        <4>1. c.fn \in {"annotation", "malloc", "mmap", "calloc", "realloc", "free", "strdup"}
          BY <2>1, <3>1, <3>2, <3>3, CallKinds
        <4> QED
          BY <3>2, <3>3, <4>1 DEF VarInit
      <3>4. CASE f = Constructor
        <4>1. PICK s : s = source[Constructor]
          OBVIOUS
        <4>2. at \in 1 .. Len(s) /\ c = Transformed(s)[at] /\ s \in Seq(SourceCalls)
          BY <2>1, <3>1, <3>2, <3>4, <4>1, CurrentCall, Program
        <4>3. s[at].fn \notin Allocators
          <5>1. at \in DOMAIN s
            BY <4>2, LenProperties
          <5> QED
            BY <2>1, <4>1, <5>1 DEF ConstructorsWait
        <4>4. /\ s[at].fn \in {"annotation", "malloc", "mmap", "calloc", "realloc", "free", "strdup"}
              /\ c.fn = CASE s[at].fn = "annotation" -> "annotation"
                          [] s[at].fn \in Mallocs -> IF local_malloc(s, at) THEN "carm_local_malloc"
                                                    ELSE "carm_remote_malloc"
                          [] s[at].fn = "calloc" -> "carm_calloc"
                          [] s[at].fn = "realloc" -> "carm_realloc"
                          [] s[at].fn = "free" -> "carm_free"
                          [] s[at].fn = "strdup" -> "carm_strdup"
          BY <4>2, TransformedCall DEF SourceCalls
        <4>5. c.fn \in {"annotation", "carm_realloc", "carm_free", "carm_strdup"}
          BY <4>3, <4>4 DEF Allocators
        <4> QED
          BY <3>2, <3>4, <4>5 DEF Constructor
      <3>5. CASE f = Work
        <4>1. at = 1 => c.fn = "init_carm_runtime"
          BY <2>1, <3>1, <3>2, <3>5, CallKinds
        <4>2. at > 1 => carm_rt
          BY <2>1, <3>2, <3>5 DEF RuntimeInv
        <4>3. at = 1 \/ at > 1
          BY <2>1 DEF TypeOK
        <4> QED
          BY <3>2, <3>5, <4>1, <4>2, <4>3 DEF Work
      <3> QED
        BY <3>3, <3>4, <3>5
    <2>3. CASE Returns
      <3>1. stage \in {VarInit, Constructor, Work}
        BY <2>1, <2>3, Runs DEF Returns
      <3> QED
        BY <2>3, <3>1 DEF Returns, VarInit, Constructor, Work
    <2>4. CASE InitTransform \/ LibcTransform \/ main
      BY <2>4 DEF InitTransform, LibcTransform, main, VarInit, Work
    <2>5. CASE UNCHANGED vars
      BY <2>5 DEF vars, CallsFindRuntime
    <2> QED
      BY <2>2, <2>3, <2>4, <2>5 DEF Next
  <1> QED
    BY <1>1, <1>2, StartInductive, PTL DEF Spec

(* Where annotations fit, the source alone decides where a block is: a     *)
(* flag that is cleared by the next malloc says what the annotations say.  *)
THEOREM BlocksAreWhereWanted == AnnotationsFit => (Spec => []AnnotationsHonoured)
  <1> SUFFICES ASSUME AnnotationsFit PROVE Spec => []AnnotationsHonoured
    OBVIOUS
  <1>1. Init => AnnotationsHonoured
    BY DEF Init, AnnotationsHonoured
  <1>2. StartInv /\ AnnotationsHonoured /\ [Next]_vars => AnnotationsHonoured'
    <2> SUFFICES ASSUME StartInv, AnnotationsHonoured, [Next]_vars PROVE AnnotationsHonoured'
      OBVIOUS
    <2>1. CASE UNCHANGED <<heap, wanted>>
      BY <2>1 DEF AnnotationsHonoured
    <2> QED
      BY <2>1, CallHonours
         DEF Next, InitTransform, LibcTransform, Returns, main, vars
  <1> QED
    BY <1>1, <1>2, StartInductive, PTL DEF Spec
=============================================================================
