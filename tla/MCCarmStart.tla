---------------------------- MODULE MCCarmStart -----------------------------
(***************************************************************************)
(* Model-checking instance of CarmStart: all programs whose main function  *)
(* has up to three calls of the allocator for two variables, behind global  *)
(* variables and constructors that allocate.                               *)
(***************************************************************************)
EXTENDS CarmStart, TLC

P == "p"
Q == "q"

Call(fn, v, w) == [fn |-> fn, var |-> v, from |-> w]

AllCalls ==
    {Call(fn, v, v) : fn \in {"annotation", "malloc", "mmap", "calloc", "realloc", "free"}, v \in {P, Q}}
        \cup {Call("strdup", P, Q), Call("strdup", Q, P)}

Bodies(n) == UNION {[1 .. k -> AllCalls] : k \in 0 .. n}

(* The calls that give a variable a block. *)
Gives(c, v) == c.var = v /\ c.fn \in Allocators \cup {"realloc", "strdup"}

(* Does v have a block before call i? *)
Has(s, i, v) ==
    \E a \in 1 .. i - 1 :
        Gives(s[a], v) /\ \A k \in a + 1 .. i - 1 : ~(s[k].fn = "free" /\ s[k].var = v)

(* A string that is copied exists, an annotation is not the last call, and *)
(* annotations fit.                                                        *)
Supported(s) ==
    /\ \A i \in DOMAIN s : s[i].fn = "strdup" => Has(s, i, s[i].from)
    /\ s # <<>> => s[Len(s)].fn # "annotation"
    /\ FitsAnnotations(s)

(* What runs before the runtime exists, the second part in a constructor   *)
(* that the first one calls.                                               *)
Starts == {<<<<>>, <<>>>>,
           <<<<Call("malloc", P, P)>>, <<Call("realloc", P, P)>>>>,
           <<<<Call("calloc", P, P), Call("strdup", Q, P)>>, <<Call("free", P, P)>>>>,
           <<<<Call("realloc", Q, Q), Call("free", Q, Q)>>, <<Call("annotation", P, P)>>>>}

MCModules ==
    UNION {{(VarInit :> b[1]) @@ (Constructor :> b[2]) @@ (m :> s) : m \in {"main", Work}} :
           b \in Starts, s \in {t \in Bodies(3) : Supported(t)}}

(* What the theorems about CarmStart suppose holds of these programs. *)
ASSUME MCProgramsFit == ConstructorsWait /\ AnnotationsFit

MCArgvs == {<<"a">>, <<"a", "b">>, <<"a", "b", "c">>, <<"a", "b", "c", "d", "e">>}
=============================================================================
