---------------------------- MODULE MCCarmChunks ----------------------------
(***************************************************************************)
(* Model-checking instance of CarmChunks: all functions of six             *)
(* instructions of the shape                                               *)
(*    1 a stack variable    2 a pointer that may be far                    *)
(*    3 a gep, or a phi     4 a gep, a cast or a phi                       *)
(*    5 an access to 3, or a cast or a call of 4    6 an access to 4 or 5  *)
(* in a nest of loops with levels 1, 2 and 4.                              *)
(***************************************************************************)
EXTENDS CarmChunks

(* i counts up in the outer loop, j down in the inner one, q is in a loop  *)
(* that is nested too deep.                                                *)
MCIVs == [i |-> [level |-> 1, start |-> 0, step |-> 1],
          j |-> [level |-> 2, start |-> 3, step |-> -1],
          q |-> [level |-> 4, start |-> 0, step |-> 1]]

MCProfiles == {[inv |-> 0, ins |-> 0], [inv |-> 2, ins |-> 3], [inv |-> 2, ins |-> 4]}

None == [w \in Vars |-> 0]

Ins(op, a, lvl) == [op |-> op, a |-> a, lvl |-> lvl, c |-> 0, t |-> None]

(* Level, constant part and variables of the geps: a field outside of      *)
(* loops, elements and their fields, rows, a row of the outer loop, an     *)
(* offset beyond an object, an unknown index, a loop nested too deep.      *)
Places ==
    {<<0, 1, None>>, <<1, 1, None>>,
     <<1, 0, [None EXCEPT !["i"] = 2]>>, <<1, 5, [None EXCEPT !["i"] = 2]>>,
     <<1, 0, [None EXCEPT !["x"] = 1]>>,
     <<2, 1, [None EXCEPT !["i"] = 4, !["j"] = 1]>>, <<2, 0, [None EXCEPT !["i"] = 2]>>,
     <<4, 0, [None EXCEPT !["q"] = 1]>>}

Geps(bases) == {[op |-> "gep", a |-> <<b>>, lvl |-> p[1], c |-> p[2], t |-> p[3]] :
                b \in bases, p \in Places}

Phis(operands) == {Ins("phi", a, l) : a \in operands, l \in {0, 1}}

AccessTo(ptrs) ==
    {Ins(op, <<p>>, l) : op \in {"load", "store"}, p \in ptrs, l \in {0, 1, 2, 4}}

Third == Geps({1, 2}) \cup Phis({<<1, 2>>, <<2, 1>>, <<2, 4>>, <<1, 4>>})
Fourth == Geps({2, 3}) \cup Phis({<<3>>, <<3, 2>>}) \cup {Ins("cast", <<3>>, l) : l \in {0, 1, 2}}
Fifth == AccessTo({3}) \cup {Ins(op, <<4>>, l) : op \in {"cast", "call", "icall"}, l \in {0, 1, 2}}
Sixth == AccessTo({4, 5})

(* SSA form with loop-closed phis: a value is used in its loop, or by a    *)
(* phi of its own behind the loop; the incoming value of a back edge is    *)
(* the pointer of the phi moved on in its loop.                            *)
Uses(p, v) ==
    \A n \in DOMAIN p[v].a :
        LET o == p[v].a[n]
        IN  \/ o < v /\ p[o].lvl <= p[v].lvl /\ (p[v].op = "phi" => Len(p[v].a) = 2)
            \/ o < v /\ p[o].lvl > p[v].lvl /\ p[v].op = "phi" /\ Len(p[v].a) = 1
            \/ o > v /\ p[o].op = "gep" /\ p[o].a = <<v>> /\ p[o].lvl = p[v].lvl /\ p[v].lvl > 0

(* An access is where its pointer is computed or one loop further inside. *)
Near(p, v) == p[v].lvl - p[p[v].a[1]].lvl \in {0, 1}

Bodies ==
    {p \in {<<Ins("alloca", <<>>, 0), Ins("ptr", <<>>, 0), x3, x4>> : x3 \in Third, x4 \in Fourth} :
        Uses(p, 3) /\ Uses(p, 4)}

Five == {p \in {Append(b, x) : b \in Bodies, x \in Fifth} : Uses(p, 5) /\ Near(p, 5)}

MCPrograms ==
    {p \in {Append(b, x) : b \in Five, x \in Sixth} :
        /\ Uses(p, 6) /\ Near(p, 6)
        /\ p[6].a = <<5>> => p[5].op = "cast"}
=============================================================================
