------------------------- MODULE CarmChunksProofs ---------------------------
(***************************************************************************)
(* TLAPS proofs about CarmChecks and CarmChunks, for every function in     *)
(* SSA form: the sweeps of carm_checks leave the same checks in every      *)
(* order, a chunk walks where its gep pointed, and after the last pass     *)
(* every access is protected and every store marks its object dirty.       *)
(***************************************************************************)
EXTENDS CarmChunks, FiniteSetTheorems, SequenceTheorems, WellFoundedInduction, TLAPS

-----------------------------------------------------------------------------
(* Numbers and recursion *)

(* A set of natural numbers that is not empty has a least element. *)
LEMMA Least ==
    ASSUME NEW M \in SUBSET Nat, M # {}
    PROVE  \E m \in M : \A k \in M : m <= k
  <1>1. \E m \in M : \A k \in M : ~(<<k, m>> \in OpToRel(<, Nat))
    BY NatLessThanWellFounded, WFMin
  <1>2. PICK m \in M : \A k \in M : ~(<<k, m>> \in OpToRel(<, Nat))
    BY <1>1
  <1>3. ASSUME NEW k \in M PROVE m <= k
    <2>1. k < m => <<k, m>> \in OpToRel(<, Nat)
      BY DEF OpToRel
    <2>2. ~(k < m)
      BY <1>2, <2>1
    <2> QED
      BY <2>2
  <1> QED
    BY <1>3

(* A body that looks at a function below a measure only. *)
Local(D, V, mu, E) ==
    /\ E \in [[D -> V] -> [D -> V]]
    /\ \A g, h \in [D -> V], d \in D :
          (\A e \in D : mu[e] < mu[d] => g[e] = h[e]) => E[g][d] = E[h][d]

(* A function that is right for the arguments below n. *)
RightBelow(g, D, V, mu, E, n) ==
    g \in [D -> V] /\ \A d \in D : mu[d] < n => g[d] = E[g][d]

(* One more number. *)
LEMMA RecursionStep ==
    ASSUME NEW D, NEW V, NEW mu \in [D -> Nat], NEW E, Local(D, V, mu, E),
           NEW n \in Nat, NEW g, RightBelow(g, D, V, mu, E, n)
    PROVE  \E h : RightBelow(h, D, V, mu, E, n + 1)
  <1>1. PICK h : h = [d \in D |-> IF mu[d] < n THEN g[d] ELSE E[g][d]]
    OBVIOUS
  <1>2. g \in [D -> V] /\ E[g] \in [D -> V]
    BY DEF RightBelow, Local
  <1>3. h \in [D -> V] /\ \A d \in D : h[d] = IF mu[d] < n THEN g[d] ELSE E[g][d]
    BY <1>1, <1>2
  <1>4. ASSUME NEW d \in D, mu[d] < n + 1 PROVE h[d] = E[h][d]
    <2>1. mu[d] \in Nat /\ \A e \in D : mu[e] \in Nat
      OBVIOUS
    <2>2. \A e \in D : mu[e] < mu[d] => mu[e] < n
      BY <1>4, <2>1
    <2>3. \A e \in D : mu[e] < mu[d] => g[e] = h[e]
      BY <1>3, <2>2
    <2>4. E[g][d] = E[h][d]
      BY <1>2, <1>3, <2>3 DEF Local
    <2>5. h[d] = E[g][d]
      BY <1>3 DEF RightBelow
    <2> QED
      BY <2>4, <2>5
  <1> QED
    BY <1>3, <1>4 DEF RightBelow

(* Such a recursion with a bounded measure has a solution. *)
LEMMA Recursion ==
    ASSUME NEW D, NEW V, V # {}, NEW mu \in [D -> Nat], NEW E, Local(D, V, mu, E),
           NEW bound \in Nat, \A d \in D : mu[d] < bound
    PROVE  \E g \in [D -> V] : g = E[g]
  <1> DEFINE Without == {n \in Nat : ~\E g : RightBelow(g, D, V, mu, E, n)}
  <1>1. Without = {}
    <2>1. SUFFICES ASSUME Without # {} PROVE FALSE
      OBVIOUS
    <2>2. PICK m \in Without : \A k \in Without : m <= k
      BY <2>1, Least
    <2>3. CASE m = 0
      <3>1. PICK x \in V : TRUE
        OBVIOUS
      <3>2. [d \in D |-> x] \in [D -> V] /\ \A d \in D : ~(mu[d] < 0)
        OBVIOUS
      <3>3. RightBelow([d \in D |-> x], D, V, mu, E, 0)
        BY <3>2 DEF RightBelow
      <3> QED
        BY <2>2, <2>3, <3>3
    <2>4. CASE m # 0
      <3>1. PICK j : j = m - 1
        OBVIOUS
      <3>2. j \in Nat /\ j + 1 = m /\ ~(m <= j)
        BY <2>4, <3>1
      <3>3. j \notin Without
        BY <2>2, <3>2
      <3>4. \E g : RightBelow(g, D, V, mu, E, m)
        BY <3>2, <3>3, RecursionStep
      <3> QED
        BY <2>2, <3>4
    <2> QED
      BY <2>3, <2>4
  <1>2. PICK g : RightBelow(g, D, V, mu, E, bound)
    BY <1>1
  <1>3. g \in [D -> V] /\ E[g] \in [D -> V] /\ \A d \in D : g[d] = E[g][d]
    BY <1>2 DEF RightBelow, Local
  <1> QED
    BY <1>3

-----------------------------------------------------------------------------
(* Functions in SSA form *)

(* What every step keeps of the function. *)
ProgInv == prog \in Programs

(* The values of a function and their operands. *)
LEMMA ValuesAre ==
    ASSUME ProgInv
    PROVE  /\ Len(prog) \in Nat /\ Values = 1 .. Len(prog)
           /\ \A v \in Values : prog[v].lvl \in Nat
           /\ \A v \in Values : IsOp(v, {"gep", "cast", "phi", "load", "store"}) => Operand(v) \in Values
           /\ \A v \in Values : IsOp(v, {"gep", "cast", "load", "store"}) => Operand(v) < v
           /\ \A v \in Values : \A n \in DOMAIN prog[v].a : prog[v].a[n] \in Values
           /\ \A v \in Values : IsOp(v, {"gep", "cast", "phi", "load", "store"}) => 1 \in DOMAIN prog[v].a
           /\ \A v \in Values : ~IsOp(v, {"phi"}) =>
                \A n \in DOMAIN prog[v].a : prog[prog[v].a[n]].lvl <= prog[v].lvl
  <1>1. WellFormed(prog)
    BY ChecksAssumption DEF ProgInv
  <1>2. Len(prog) \in Nat /\ Values = 1 .. Len(prog)
    BY <1>1 DEF WellFormed, Values
  <1>3. ASSUME NEW v \in Values
        PROVE  /\ prog[v].a \in Seq(Values) /\ prog[v].lvl \in Nat
               /\ IsOp(v, {"gep", "cast", "phi", "load", "store"}) => prog[v].a # <<>>
               /\ IsOp(v, {"gep", "cast", "load", "store"}) => Operand(v) < v
               /\ ~IsOp(v, {"phi"}) =>
                    \A n \in DOMAIN prog[v].a : prog[prog[v].a[n]].lvl <= prog[v].lvl
    BY <1>1 DEF WellFormed, Values, IsOp, Operand
  <1>4. ASSUME NEW v \in Values
        PROVE  /\ \A n \in DOMAIN prog[v].a : prog[v].a[n] \in Values
               /\ prog[v].a # <<>> => 1 \in DOMAIN prog[v].a
    <2>1. Len(prog[v].a) \in Nat /\ DOMAIN prog[v].a = 1 .. Len(prog[v].a)
      BY <1>3, LenProperties
    <2>2. \A n \in DOMAIN prog[v].a : prog[v].a[n] \in Values
      BY <1>3, <2>1, ElementOfSeq
    <2>3. prog[v].a # <<>> => Len(prog[v].a) # 0
      BY <1>3, EmptySeq
    <2> QED
      BY <2>1, <2>2, <2>3
  <1> QED
    BY <1>2, <1>3, <1>4 DEF Operand

(* One step of the search stays in the function, and goes back except at a phi. *)
LEMMA StepBackIs ==
    ASSUME ProgInv, NEW v \in Values
    PROVE  /\ StepBack(v) \in Values
           /\ IsOp(v, {"gep", "cast"}) => StepBack(v) = Operand(v) /\ StepBack(v) < v
           /\ IsOp(v, {"phi"}) => StepBack(v) = Operand(v)
           /\ ~IsOp(v, {"gep", "cast", "phi"}) => StepBack(v) = v
           /\ IsOp(v, {"gep", "cast"}) => ~IsOp(v, {"phi"})
  BY ValuesAre DEF StepBack, IsOp

(* The recursion that looks through casts. *)
Stripped(g, v) == IF IsOp(v, {"cast"}) THEN g[Operand(v)] ELSE v

(* Uncast is what its recursion says. *)
LEMMA UncastIs ==
    ASSUME ProgInv
    PROVE  /\ Uncast \in [Values -> Values]
           /\ \A v \in Values : Uncast[v] = Stripped(Uncast, v)
  <1>1. PICK mu : mu = [v \in Values |-> v]
    OBVIOUS
  <1>2. mu \in [Values -> Nat] /\ \A v \in Values : mu[v] = v /\ mu[v] < Len(prog) + 1
    BY <1>1, ValuesAre
  <1>3. PICK E : E = [g \in [Values -> Values] |-> [v \in Values |-> Stripped(g, v)]]
    OBVIOUS
  <1>4. \A g \in [Values -> Values] : \A v \in Values : Stripped(g, v) \in Values
    BY ValuesAre DEF Stripped, IsOp
  <1>5. \A g \in [Values -> Values] : E[g] = [v \in Values |-> Stripped(g, v)]
    BY <1>3
  <1>6. E \in [[Values -> Values] -> [Values -> Values]]
    BY <1>3, <1>4
  <1>7. ASSUME NEW g \in [Values -> Values], NEW h \in [Values -> Values], NEW v \in Values,
               \A e \in Values : mu[e] < mu[v] => g[e] = h[e]
        PROVE  E[g][v] = E[h][v]
    <2>1. IsOp(v, {"cast"}) => Operand(v) \in Values /\ Operand(v) < v
      BY ValuesAre DEF IsOp
    <2>2. Stripped(g, v) = Stripped(h, v)
      BY <1>2, <1>7, <2>1 DEF Stripped
    <2>3. E[g] = [u \in Values |-> Stripped(g, u)] /\ E[h] = [u \in Values |-> Stripped(h, u)]
      BY <1>5
    <2>4. E[g][v] = Stripped(g, v) /\ E[h][v] = Stripped(h, v)
      BY <2>3
    <2> QED
      BY <2>2, <2>4
  <1>8. Local(Values, Values, mu, E)
    BY <1>6, <1>7 DEF Local
  <1>9. \E g : g = [v \in Values |-> Stripped(g, v)]
    <2>1. CASE Values = {}
      <3>1. PICK g : g = [v \in Values |-> Stripped({}, v)]
        OBVIOUS
      <3>2. g = [v \in Values |-> Stripped(g, v)]
        BY <2>1, <3>1
      <3> QED
        BY <3>2
    <2>2. CASE Values # {}
      <3>1. PICK bound \in Nat : \A v \in Values : mu[v] < bound
        BY <1>2, ValuesAre
      <3>2. \E g \in [Values -> Values] : g = E[g]
        BY <1>2, <1>8, <2>2, <3>1, Recursion
      <3>3. PICK g \in [Values -> Values] : g = E[g]
        BY <3>2
      <3>4. E[g] = [v \in Values |-> Stripped(g, v)]
        BY <1>5
      <3>5. g = [v \in Values |-> Stripped(g, v)]
        BY <3>3, <3>4, Zenon
      <3> QED
        BY <3>5, Zenon
    <2> QED
      BY <2>1, <2>2
  <1>10. Uncast = [v \in Values |-> Stripped(Uncast, v)]
    BY <1>9, Zenon DEF Uncast, Stripped
  <1>11. \A v \in Values : Uncast[v] = Stripped(Uncast, v)
    BY <1>10
  <1> DEFINE Wrong == {v \in Values : Uncast[v] \notin Values}
  <1>12. Wrong = {}
    <2>1. SUFFICES ASSUME Wrong # {} PROVE FALSE
      OBVIOUS
    <2>2. Wrong \in SUBSET Nat
      BY ValuesAre
    <2>3. PICK v \in Wrong : \A k \in Wrong : v <= k
      BY <2>1, <2>2, Least
    <2>4. IsOp(v, {"cast"}) => Operand(v) \in Values /\ Operand(v) < v /\ v \in Nat /\ Operand(v) \in Nat
      BY <2>3, ValuesAre DEF IsOp
    <2>5. IsOp(v, {"cast"}) => Operand(v) \notin Wrong
      BY <2>3, <2>4
    <2> QED
      BY <1>11, <2>3, <2>4, <2>5 DEF Stripped
  <1> QED
    BY <1>10, <1>11, <1>12

(* A value behind casts is no cast, and its own origin. *)
LEMMA UncastEnds ==
    ASSUME ProgInv, NEW v \in Values
    PROVE  /\ Uncast[v] \in Values /\ ~IsOp(Uncast[v], {"cast"})
           /\ ~IsOp(v, {"cast"}) => Uncast[v] = v
           /\ IsOp(v, {"cast"}) => Uncast[v] = Uncast[Operand(v)]
  <1> DEFINE Wrong == {u \in Values : IsOp(Uncast[u], {"cast"})}
  <1>1. \A u \in Values : Uncast[u] = IF IsOp(u, {"cast"}) THEN Uncast[Operand(u)] ELSE u
    BY UncastIs DEF Stripped
  <1>2. Wrong = {}
    <2>1. SUFFICES ASSUME Wrong # {} PROVE FALSE
      OBVIOUS
    <2>2. Wrong \in SUBSET Nat
      BY ValuesAre
    <2>3. PICK u \in Wrong : \A k \in Wrong : u <= k
      BY <2>1, <2>2, Least
    <2>4. IsOp(u, {"cast"})
      BY <1>1, <2>3
    <2>5. Operand(u) \in Values /\ Operand(u) < u /\ u \in Nat /\ Operand(u) \in Nat
      BY <2>3, <2>4, ValuesAre DEF IsOp
    <2>6. Operand(u) \in Wrong
      BY <1>1, <2>3, <2>4, <2>5
    <2> QED
      BY <2>3, <2>5, <2>6
  <1> QED
    BY <1>1, <1>2, UncastIs

-----------------------------------------------------------------------------
(* The search of uncast_ungep *)

(* A state of the search: where it is and the phis it has seen. *)
Searches == Values \X SUBSET Values

Ends(s) == StepBack(s[1]) = s[1] \/ s[1] \in s[2]

Further(s) == <<StepBack(s[1]), IF IsOp(s[1], {"phi"}) THEN s[2] \cup {s[1]} ELSE s[2]>>

Searched(g, s) == IF Ends(s) THEN s[1] ELSE g[Further(s)]

(* A search sees a new phi or goes to an earlier value. *)
Effort(s) == Cardinality(Values \ s[2]) * (Len(prog) + 1) + s[1]

(* The product of a number and its successor's measure. *)
LEMMA OneFewer ==
    ASSUME NEW c \in Nat, NEW N \in Nat
    PROVE  (c + 1) * N = c * N + N
  OBVIOUS

(* The greater factor has the greater product. *)
LEMMA ProductGrows ==
    ASSUME NEW a \in Nat, NEW b \in Nat, a <= b, NEW N \in Nat
    PROVE  a * N <= b * N /\ a * N \in Nat /\ b * N \in Nat
  OBVIOUS

(* A function has as many values as instructions. *)
LEMMA ValuesFinite ==
    ASSUME ProgInv
    PROVE  Len(prog) \in Nat /\ IsFiniteSet(Values) /\ Cardinality(Values) = Len(prog)
  <1>1. PICK n \in Nat : n = Len(prog) /\ Values = 1 .. n
    BY ValuesAre
  <1>2. 1 \in Int /\ n \in Int
    BY <1>1
  <1>3. IsFiniteSet(1 .. n) /\ Cardinality(1 .. n) = IF 1 > n THEN 0 ELSE n - 1 + 1
    BY <1>2, FS_Interval
  <1>4. (IF 1 > n THEN 0 ELSE n - 1 + 1) = n
    OBVIOUS
  <1> QED
    BY <1>1, <1>3, <1>4

(* The effort is a number. *)
LEMMA EffortIs ==
    ASSUME ProgInv, NEW s \in Searches
    PROVE  /\ Effort(s) \in Nat
           /\ Effort(s) < (Len(prog) + 1) * (Len(prog) + 1)
           /\ Cardinality(Values \ s[2]) \in Nat
           /\ IsFiniteSet(Values \ s[2])
  <1>1. Len(prog) \in Nat /\ IsFiniteSet(Values) /\ Cardinality(Values) = Len(prog)
    BY ValuesFinite
  <1>2. /\ IsFiniteSet(Values \ s[2])
        /\ Cardinality(Values \ s[2]) <= Len(prog)
        /\ Cardinality(Values \ s[2]) \in Nat
    BY <1>1, FS_Subset, FS_CardinalityType
  <1>3. PICK c \in Nat, N \in Nat : c = Cardinality(Values \ s[2]) /\ N = Len(prog) + 1
    BY <1>1, <1>2
  <1>4. s[1] \in Nat /\ s[1] < N /\ c + 1 <= N
    BY <1>1, <1>2, <1>3, ValuesAre DEF Searches
  <1>5. (c + 1) * N <= N * N /\ (c + 1) * N = c * N + N /\ c * N \in Nat /\ N * N \in Nat
    BY <1>4, ProductGrows, OneFewer
  <1>6. c * N + s[1] \in Nat /\ c * N + s[1] < N * N
    BY <1>4, <1>5
  <1> QED
    BY <1>2, <1>3, <1>6 DEF Effort

(* A search that goes on has less to do. *)
LEMMA EffortShrinks ==
    ASSUME ProgInv, NEW s \in Searches, ~Ends(s)
    PROVE  Further(s) \in Searches /\ Effort(Further(s)) < Effort(s)
  <1>1. s[1] \in Values /\ s[2] \in SUBSET Values
    BY DEF Searches
  <1>2. StepBack(s[1]) \in Values
    BY <1>1, StepBackIs
  <1>3. Further(s) \in Searches
    BY <1>1, <1>2 DEF Searches, Further
  <1>4. PICK c \in Nat, N \in Nat : c = Cardinality(Values \ s[2]) /\ N = Len(prog) + 1
    BY EffortIs, ValuesAre
  <1>5. s[1] \in Nat /\ StepBack(s[1]) \in Nat /\ StepBack(s[1]) < N
    BY <1>1, <1>2, <1>4, ValuesAre
  <1>6. CASE IsOp(s[1], {"phi"})
    <2>1. Further(s)[1] = StepBack(s[1]) /\ Further(s)[2] = s[2] \cup {s[1]}
      BY <1>6 DEF Further
    <2>2. Values \ Further(s)[2] = (Values \ s[2]) \ {s[1]} /\ s[1] \in Values \ s[2]
      BY <1>1, <2>1 DEF Ends
    <2>8. PICK T : T = Values \ s[2]
      OBVIOUS
    <2>9. IsFiniteSet(T) /\ s[1] \in T /\ Cardinality(T) = c
      BY <1>4, <2>2, <2>8, EffortIs
    <2>10. Cardinality(T \ {s[1]}) = Cardinality(T) - 1
      BY <2>9, FS_RemoveElement
    <2>3. Cardinality(Values \ Further(s)[2]) = c - 1
      BY <2>2, <2>8, <2>9, <2>10
    <2>11. Cardinality(Values \ Further(s)[2]) \in Nat
      BY <1>3, EffortIs
    <2>4. PICK b : b = Cardinality(Values \ Further(s)[2])
      OBVIOUS
    <2>5. b \in Nat /\ c = b + 1
      BY <2>3, <2>4, <2>11
    <2>6. c * N = b * N + N /\ b * N \in Nat
      BY <2>5, OneFewer
    <2>7. b * N + StepBack(s[1]) < c * N + s[1]
      BY <1>5, <2>6
    <2> QED
      BY <1>3, <1>4, <2>1, <2>4, <2>7 DEF Effort
  <1>7. CASE ~IsOp(s[1], {"phi"})
    <2>1. Further(s)[1] = StepBack(s[1]) /\ Further(s)[2] = s[2]
      BY <1>7 DEF Further
    <2>2. StepBack(s[1]) < s[1]
      BY <1>1, <1>7, StepBackIs DEF Ends, IsOp
    <2>3. c * N \in Nat
      OBVIOUS
    <2>4. c * N + StepBack(s[1]) < c * N + s[1]
      BY <1>5, <2>2, <2>3
    <2> QED
      BY <1>3, <1>4, <2>1, <2>4 DEF Effort
  <1> QED
    BY <1>6, <1>7

(* No search goes on for ever. *)
LEMMA SearchesEnd ==
    ASSUME ProgInv, NEW W \in SUBSET Searches, \A s \in W : ~Ends(s) /\ Further(s) \in W
    PROVE  W = {}
  <1> DEFINE Efforts == {n \in Nat : \E s \in W : Effort(s) = n}
  <1>1. SUFFICES ASSUME W # {} PROVE FALSE
    OBVIOUS
  <1>2. Efforts # {} /\ Efforts \in SUBSET Nat
    BY <1>1, EffortIs
  <1>3. PICK m \in Efforts : \A k \in Efforts : m <= k
    BY <1>2, Least
  <1>4. PICK s \in W : Effort(s) = m
    BY <1>3
  <1>5. Effort(Further(s)) < m /\ Further(s) \in W
    BY <1>4, EffortShrinks
  <1>6. Effort(Further(s)) \in Nat
    BY <1>5, EffortIs
  <1>7. Effort(Further(s)) \in Efforts
    BY <1>5, <1>6
  <1> QED
    BY <1>2, <1>3, <1>5, <1>6, <1>7

(* The search as a function of its state. *)
Back == CHOOSE g : g = [s \in Searches |-> Searched(g, s)]

(* uncast_ungep begins at its value and has seen no phi. *)
LEMMA UngepIs ==
    ASSUME NEW v
    PROVE  uncast_ungep(v) = Back[<<v, {}>>]
  BY DEF uncast_ungep, Back, Searches, Searched, Ends, Further

(* The search is what its recursion says. *)
LEMMA BackIs ==
    ASSUME ProgInv
    PROVE  /\ Back \in [Searches -> Values]
           /\ \A s \in Searches : Back[s] = IF Ends(s) THEN s[1] ELSE Back[Further(s)]
  <1>1. PICK mu : mu = [s \in Searches |-> Effort(s)]
    OBVIOUS
  <1>2. mu \in [Searches -> Nat] /\ \A s \in Searches : mu[s] = Effort(s)
    BY <1>1, EffortIs
  <1>3. PICK bound \in Nat : \A s \in Searches : mu[s] < bound
    <2>1. PICK N \in Nat : N = Len(prog) + 1
      BY ValuesAre
    <2>2. N * N \in Nat
      OBVIOUS
    <2> QED
      BY <1>2, <2>1, <2>2, EffortIs
  <1>4. PICK E : E = [g \in [Searches -> Values] |-> [s \in Searches |-> Searched(g, s)]]
    OBVIOUS
  <1>5. \A s \in Searches : s[1] \in Values /\ (~Ends(s) => Further(s) \in Searches)
    BY EffortShrinks DEF Searches
  <1>6. \A g \in [Searches -> Values] : \A s \in Searches : Searched(g, s) \in Values
    BY <1>5 DEF Searched
  <1>7. E \in [[Searches -> Values] -> [Searches -> Values]]
    BY <1>4, <1>6
  <1>8. ASSUME NEW g \in [Searches -> Values], NEW h \in [Searches -> Values], NEW s \in Searches,
               \A e \in Searches : mu[e] < mu[s] => g[e] = h[e]
        PROVE  E[g][s] = E[h][s]
    <2>1. ~Ends(s) => Further(s) \in Searches /\ mu[Further(s)] < mu[s]
      BY <1>2, EffortShrinks
    <2>2. Searched(g, s) = Searched(h, s)
      BY <1>8, <2>1 DEF Searched
    <2>3. /\ E[g] = [e \in Searches |-> Searched(g, e)]
          /\ E[h] = [e \in Searches |-> Searched(h, e)]
      BY <1>4
    <2>4. E[g][s] = Searched(g, s) /\ E[h][s] = Searched(h, s)
      BY <2>3
    <2> QED
      BY <2>2, <2>4
  <1>9. Local(Searches, Values, mu, E)
    BY <1>7, <1>8 DEF Local
  <1>10. \E g : g = [s \in Searches |-> Searched(g, s)]
    <2>1. CASE Values = {}
      <3>1. PICK g : g = [s \in Searches |-> Searched({}, s)]
        OBVIOUS
      <3>2. Searches = {}
        BY <2>1 DEF Searches
      <3>3. g = [s \in Searches |-> Searched(g, s)]
        BY <3>1, <3>2
      <3> QED
        BY <3>3
    <2>2. CASE Values # {}
      <3>1. \E g \in [Searches -> Values] : g = E[g]
        BY <1>2, <1>3, <1>9, <2>2, Recursion
      <3>2. PICK g \in [Searches -> Values] : g = E[g]
        BY <3>1
      <3>3. E[g] = [s \in Searches |-> Searched(g, s)]
        BY <1>4
      <3> QED
        BY <3>2, <3>3
    <2> QED
      BY <2>1, <2>2
  <1>11. Back = [s \in Searches |-> Searched(Back, s)]
    BY <1>10, Zenon DEF Back
  <1>12. \A s \in Searches : Back[s] = Searched(Back, s)
    BY <1>11
  <1>13. \A s \in Searches : Back[s] = IF Ends(s) THEN s[1] ELSE Back[Further(s)]
    BY <1>12 DEF Searched
  <1> DEFINE W == {s \in Searches : Back[s] \notin Values}
  <1>14. \A s \in W : ~Ends(s) /\ Further(s) \in W
    BY <1>5, <1>13
  <1>15. W = {}
    BY <1>14, SearchesEnd
  <1> QED
    BY <1>11, <1>13, <1>15

(* A search begins, where no phi has been seen. *)
LEMMA BackBegins ==
    ASSUME ProgInv, NEW v \in Values
    PROVE  /\ <<v, {}>> \in Searches /\ Back[<<v, {}>>] \in Values
           /\ StepBack(v) = v => Back[<<v, {}>>] = v
           /\ IsOp(v, {"gep", "cast"}) => Back[<<v, {}>>] = Back[<<Operand(v), {}>>]
  <1>1. PICK s : s = <<v, {}>>
    OBVIOUS
  <1>2. s \in Searches /\ s[1] = v /\ s[2] = {}
    BY <1>1 DEF Searches
  <1>3. Back[s] \in Values /\ Back[s] = IF Ends(s) THEN v ELSE Back[Further(s)]
    BY <1>2, BackIs
  <1>4. StepBack(v) = v => Back[s] = v
    BY <1>2, <1>3 DEF Ends
  <1>5. ASSUME IsOp(v, {"gep", "cast"}) PROVE Back[s] = Back[<<Operand(v), {}>>]
    <2>1. StepBack(v) = Operand(v) /\ StepBack(v) < v /\ ~IsOp(v, {"phi"}) /\ v \in Nat
      BY <1>5, StepBackIs, ValuesAre
    <2>2. ~Ends(s) /\ Further(s) = <<Operand(v), {}>>
      BY <1>2, <2>1 DEF Ends, Further
    <2> QED
      BY <1>3, <2>2
  <1> QED
    BY <1>1, <1>2, <1>3, <1>4, <1>5

(* The search looks through casts. *)
LEMMA BackOfUncast ==
    ASSUME ProgInv, NEW v \in Values
    PROVE  Back[<<v, {}>>] = Back[<<Uncast[v], {}>>]
  <1> DEFINE Wrong == {u \in Values : Back[<<u, {}>>] # Back[<<Uncast[u], {}>>]}
  <1>1. SUFFICES ASSUME Wrong # {} PROVE FALSE
    OBVIOUS
  <1>2. Wrong \in SUBSET Nat
    BY ValuesAre
  <1>3. PICK u \in Wrong : \A k \in Wrong : u <= k
    BY <1>1, <1>2, Least
  <1>4. IsOp(u, {"cast"})
    BY <1>3, UncastEnds
  <1>5. Operand(u) \in Values /\ Operand(u) < u /\ u \in Nat /\ Operand(u) \in Nat
    BY <1>3, <1>4, ValuesAre DEF IsOp
  <1>6. Operand(u) \notin Wrong
    BY <1>3, <1>5
  <1>7. Back[<<Operand(u), {}>>] = Back[<<Uncast[u], {}>>]
    BY <1>4, <1>5, <1>6, UncastEnds
  <1>8. IsOp(u, {"gep", "cast"})
    BY <1>4 DEF IsOp
  <1> QED
    BY <1>3, <1>7, <1>8, BackBegins

-----------------------------------------------------------------------------
(* Where searches end *)

(* A set of values from which the steps descend to an end. *)
Descends(Q, f) ==
    /\ Q \in SUBSET Values /\ f \in [Values -> Nat]
    /\ \A z \in Q : StepBack(z) = z \/ (StepBack(z) \in Q /\ f[StepBack(z)] < f[z])

(* Values from which the steps come to an end, and into no cycle. *)
Grounded == {v \in Values : \E Q, f : v \in Q /\ Descends(Q, f)}

(* An end is grounded. *)
LEMMA EndsGrounded ==
    ASSUME NEW v \in Values, StepBack(v) = v PROVE v \in Grounded
  <1>1. PICK f : f = [u \in Values |-> 0]
    OBVIOUS
  <1>2. f \in [Values -> Nat]
    BY <1>1
  <1>3. {v} \in SUBSET Values /\ \A z \in {v} : StepBack(z) = z
    OBVIOUS
  <1>4. Descends({v}, f)
    BY <1>2, <1>3 DEF Descends
  <1> QED
    BY <1>4 DEF Grounded

(* A step to a grounded value comes from one. *)
LEMMA GroundedBack ==
    ASSUME NEW v \in Values, StepBack(v) \in Grounded PROVE v \in Grounded
  <1>1. PICK Q, f : StepBack(v) \in Q /\ Descends(Q, f)
    BY DEF Grounded
  <1>2. CASE v \in Q
    BY <1>1, <1>2 DEF Grounded
  <1>3. CASE v \notin Q
    <2>1. Q \in SUBSET Values /\ f \in [Values -> Nat] /\ StepBack(v) \in Values /\ StepBack(v) # v
      BY <1>1, <1>3 DEF Descends
    <2>2. PICK n \in Nat : n = f[StepBack(v)]
      BY <2>1
    <2>3. PICK h : h = [u \in Values |-> IF u = v THEN n + 1 ELSE f[u]]
      OBVIOUS
    <2>4. h \in [Values -> Nat] /\ h[v] = n + 1 /\ \A u \in Values \ {v} : h[u] = f[u]
      BY <2>1, <2>3
    <2>5. ASSUME NEW z \in Q
          PROVE  StepBack(z) = z \/ (StepBack(z) \in Q /\ h[StepBack(z)] < h[z])
      BY <1>1, <1>3, <2>1, <2>4 DEF Descends
    <2>6. h[StepBack(v)] < h[v]
      BY <2>1, <2>2, <2>4
    <2>7. Descends(Q \cup {v}, h)
      BY <1>1, <2>1, <2>4, <2>5, <2>6 DEF Descends
    <2> QED
      BY <2>7 DEF Grounded
  <1> QED
    BY <1>2, <1>3

(* From any other value a search never gets to a grounded one. *)
LEMMA CyclesStay ==
    ASSUME ProgInv, NEW v \in Values, v \notin Grounded
    PROVE  Back[<<v, {}>>] \notin Grounded
  <1> DEFINE W == {s \in Searches : s[1] \notin Grounded /\ Back[s] \in Grounded}
  <1>1. ASSUME NEW s \in W PROVE ~Ends(s) /\ Further(s) \in W
    <2>1. s[1] \in Values
      BY DEF Searches
    <2>2. ~Ends(s) /\ Back[s] = Back[Further(s)] /\ Further(s) \in Searches
      BY BackIs, EffortShrinks
    <2>3. Further(s)[1] \notin Grounded
      BY <2>1, GroundedBack DEF Further
    <2> QED
      BY <2>2, <2>3
  <1>2. W = {}
    BY <1>1, SearchesEnd
  <1>3. <<v, {}>> \in Searches /\ <<v, {}>>[1] = v
    BY DEF Searches
  <1> QED
    BY <1>2, <1>3

(* From a grounded value the search comes to an end of the steps. *)
LEMMA GroundedEnds ==
    ASSUME ProgInv, NEW v \in Values, v \in Grounded
    PROVE  StepBack(Back[<<v, {}>>]) = Back[<<v, {}>>]
  <1>1. PICK Q, f : v \in Q /\ Descends(Q, f)
    BY DEF Grounded
  <1>2. Q \in SUBSET Values /\ f \in [Values -> Nat]
    BY <1>1 DEF Descends
  <1> DEFINE W == {s \in Searches : /\ s[1] \in Q /\ StepBack(Back[s]) # Back[s]
                                    /\ \A p \in s[2] \cap Q : f[s[1]] < f[p]}
  <1>3. ASSUME NEW s \in W PROVE ~Ends(s) /\ Further(s) \in W
    <2>1. s[1] \in Values /\ s[2] \in SUBSET Values /\ f[s[1]] \in Nat
      BY <1>2 DEF Searches
    <2>2. ~Ends(s)
      BY <2>1, BackIs DEF Ends
    <2>3. Back[s] = Back[Further(s)] /\ Further(s) \in Searches
      BY <2>2, BackIs, EffortShrinks
    <2>4. StepBack(s[1]) \in Q /\ f[StepBack(s[1])] < f[s[1]] /\ f[StepBack(s[1])] \in Nat
      BY <1>1, <1>2, <2>2 DEF Ends, Descends
    <2>5. Further(s)[1] = StepBack(s[1]) /\ Further(s)[2] \subseteq s[2] \cup {s[1]}
      BY DEF Further
    <2>6. \A p \in Further(s)[2] \cap Q : f[StepBack(s[1])] < f[p]
      <3>1. SUFFICES ASSUME NEW p \in Further(s)[2] \cap Q PROVE f[StepBack(s[1])] < f[p]
        OBVIOUS
      <3>2. f[p] \in Nat /\ (p = s[1] \/ f[s[1]] < f[p])
        BY <1>2, <2>5
      <3> QED
        BY <2>1, <2>4, <3>2
    <2> QED
      BY <2>2, <2>3, <2>4, <2>5, <2>6
  <1>4. W = {}
    BY <1>3, SearchesEnd
  <1>5. PICK s : s = <<v, {}>>
    OBVIOUS
  <1>6. s \in Searches /\ s[1] = v /\ s[2] = {}
    BY <1>5 DEF Searches
  <1> QED
    BY <1>1, <1>4, <1>5, <1>6

(* Nor does it through casts. *)
LEMMA CyclesUncast ==
    ASSUME ProgInv, NEW v \in Values, v \notin Grounded
    PROVE  Uncast[v] \notin Grounded
  <1> DEFINE Wrong == {u \in Values : u \notin Grounded /\ Uncast[u] \in Grounded}
  <1>1. SUFFICES ASSUME Wrong # {} PROVE FALSE
    OBVIOUS
  <1>2. Wrong \in SUBSET Nat
    BY ValuesAre
  <1>3. PICK u \in Wrong : \A k \in Wrong : u <= k
    BY <1>1, <1>2, Least
  <1>4. IsOp(u, {"cast"}) /\ Uncast[u] = Uncast[Operand(u)]
    BY <1>3, UncastEnds
  <1>5. IsOp(u, {"gep", "cast"})
    BY <1>4 DEF IsOp
  <1>6. StepBack(u) = Operand(u) /\ Operand(u) < u /\ Operand(u) \in Values
    BY <1>5, StepBackIs
  <1>7. Operand(u) \notin Grounded
    BY <1>3, <1>6, GroundedBack
  <1>8. Operand(u) \in Wrong /\ u \in Nat /\ Operand(u) \in Nat
    BY <1>3, <1>4, <1>6, <1>7, ValuesAre
  <1> QED
    BY <1>3, <1>6, <1>8

-----------------------------------------------------------------------------
(* Roots *)

(* A stack variable is its own root. *)
LEMMA AllocaRoot ==
    ASSUME ProgInv, NEW v \in Allocas
    PROVE  v \in Values /\ Uncast[v] = v /\ Root(v) = v /\ v \in Grounded
  <1>1. v \in Values /\ ~IsOp(v, {"cast"}) /\ ~IsOp(v, {"gep", "cast", "phi"})
    BY DEF Allocas, IsOp
  <1>2. StepBack(v) = v /\ Uncast[v] = v
    BY <1>1, StepBackIs, UncastEnds
  <1>3. uncast_ungep(v) = v
    BY <1>1, <1>2, BackBegins, UngepIs
  <1> QED
    BY <1>1, <1>2, <1>3, EndsGrounded DEF Root

(* Values that are equal have one root, and the root of a gep is its base's. *)
LEMMA RootsAgree ==
    ASSUME ProgInv, NEW v \in Values
    PROVE  /\ uncast_ungep(v) \in Values /\ Root(v) \in Values
           /\ \A u \in Values : Uncast[v] = Uncast[u] => Root(v) = Root(u)
           /\ IsOp(v, {"gep", "cast"}) => Root(v) = Root(Operand(v))
  <1>1. \A u \in Values : uncast_ungep(u) = Back[<<Uncast[u], {}>>] /\ uncast_ungep(u) \in Values
    BY UngepIs, BackOfUncast, BackBegins
  <1>2. \A u \in Values : Uncast[v] = Uncast[u] => uncast_ungep(v) = uncast_ungep(u)
    BY <1>1
  <1>3. IsOp(v, {"gep", "cast"}) => uncast_ungep(v) = uncast_ungep(Operand(v))
    BY UngepIs, BackBegins
  <1> QED
    BY <1>1, <1>2, <1>3, UncastEnds DEF Root

(* What the search ends at leads to the stack if an equal value does: even *)
(* where the search gives up in a cycle of phis.                           *)
LEMMA RootOfSearch ==
    ASSUME ProgInv, NEW o \in Values, NEW s \in Values,
           Uncast[uncast_ungep(o)] = Uncast[s], Root(s) \in Allocas
    PROVE  Root(o) \in Allocas
  <1>1. PICK r : r = uncast_ungep(o)
    OBVIOUS
  <1>2. r \in Values /\ r = Back[<<o, {}>>] /\ Root(r) = Root(s) /\ Root(o) = Uncast[r]
    BY <1>1, RootsAgree, UngepIs DEF Root
  <1>3. CASE o \in Grounded
    <2>1. StepBack(r) = r
      BY <1>2, <1>3, GroundedEnds
    <2>2. ~IsOp(r, {"cast"})
      <3>1. SUFFICES ASSUME IsOp(r, {"cast"}) PROVE FALSE
        OBVIOUS
      <3>2. IsOp(r, {"gep", "cast"})
        BY <3>1 DEF IsOp
      <3>3. StepBack(r) < r /\ r \in Nat
        BY <1>2, <3>2, StepBackIs, ValuesAre
      <3> QED
        BY <2>1, <3>3
    <2>3. Uncast[r] = r /\ uncast_ungep(r) = r
      BY <1>2, <2>1, <2>2, UncastEnds, BackBegins, UngepIs
    <2>4. Root(r) = r
      BY <2>3 DEF Root
    <2> QED
      BY <1>2, <2>3, <2>4
  <1>4. CASE o \notin Grounded
    <2>1. r \notin Grounded
      BY <1>2, <1>4, CyclesStay
    <2>2. Back[<<r, {}>>] \notin Grounded /\ Back[<<r, {}>>] \in Values
      BY <1>2, <2>1, CyclesStay, BackBegins
    <2>3. Root(r) \notin Grounded
      BY <2>2, CyclesUncast, UngepIs DEF Root
    <2> QED
      BY <1>2, <2>3, AllocaRoot
  <1> QED
    BY <1>3, <1>4

(* The operands of accesses. *)
LEMMA AccessOperand ==
    ASSUME ProgInv, NEW v \in Accesses
    PROVE  /\ v \in Values /\ Operand(v) \in Values
           /\ prog[Operand(v)].lvl <= prog[v].lvl
  <1>1. /\ v \in Values /\ IsOp(v, {"gep", "cast", "phi", "load", "store"})
        /\ ~IsOp(v, {"phi"})
    BY DEF Accesses, IsOp
  <1> QED
    BY <1>1, ValuesAre DEF Operand

(* A sweep removes no check it should leave. *)
LEMMA OnStackRoot ==
    ASSUME ProgInv, NEW o \in Values, alloca_list \in SUBSET Values,
           \A s \in alloca_list : Root(s) \in Allocas, OnStack(o)
    PROVE  Root(o) \in Allocas
  <1>1. CASE o \in alloca_list
    BY <1>1
  <1>2. CASE must_alias(o, alloca_list)
    <2>1. PICK s \in alloca_list : Uncast[o] = Uncast[s]
      BY <1>2 DEF must_alias
    <2> QED
      BY <2>1, RootsAgree
  <1>3. CASE must_alias(uncast_ungep(o), alloca_list)
    <2>1. PICK s \in alloca_list : Uncast[uncast_ungep(o)] = Uncast[s]
      BY <1>3 DEF must_alias
    <2> QED
      BY <2>1, RootOfSearch
  <1> QED
    BY <1>1, <1>2, <1>3 DEF OnStack

(* A sweep that has looked at a check and left it was right. *)
LEMMA OffStackRoot ==
    ASSUME ProgInv, NEW o \in Values, Allocas \in SUBSET alloca_list, ~OnStack(o)
    PROVE  Root(o) \notin Allocas
  <1>1. SUFFICES ASSUME Root(o) \in Allocas PROVE FALSE
    OBVIOUS
  <1>2. Uncast[uncast_ungep(o)] = Uncast[Root(o)]
    BY <1>1, AllocaRoot DEF Root
  <1> QED
    BY <1>1, <1>2 DEF OnStack, must_alias

-----------------------------------------------------------------------------
(* No pass changes the function *)

(* What carm_checks knows of it stays the same. *)
LEMMA SameChecks ==
    ASSUME prog' = prog
    PROVE  /\ Values' = Values /\ Accesses' = Accesses /\ Allocas' = Allocas
           /\ Uncast' = Uncast /\ FarChecks' = FarChecks
           /\ \A v : Root(v)' = Root(v) /\ Operand(v)' = Operand(v)
  <1>1. Values' = Values /\ Accesses' = Accesses /\ Allocas' = Allocas
    BY DEF Values, Accesses, Allocas, IsOp
  <1>2. Uncast' = Uncast
    BY DEF Uncast, Values, IsOp, Operand
  <1>3. ASSUME NEW v PROVE uncast_ungep(v)' = uncast_ungep(v)
    BY DEF uncast_ungep, Values, IsOp, Operand, StepBack
  <1>4. \A v : Operand(v)' = Operand(v)
    BY DEF Operand
  <1>5. ASSUME NEW v PROVE Root(v)' = Root(v)
    BY <1>2, <1>3 DEF Root
  <1>6. FarChecks' = FarChecks
    BY <1>1, <1>4, <1>5 DEF FarChecks
  <1>8. \A v : Root(v)' = Root(v)
    BY <1>5
  <1> QED
    BY <1>1, <1>2, <1>4, <1>6, <1>8

(* And so does what loop selection makes of its geps. *)
LEMMA SameChunks ==
    ASSUME prog' = prog
    PROVE  \A g : /\ Instrumented(g)' = Instrumented(g)
                  /\ Chunk(g)' = Chunk(g)
  <1>1. \A g : VariableOffsets(g)' = VariableOffsets(g)
    BY DEF VariableOffsets
  <1>2. \A g : Inner(g)' = Inner(g)
    BY <1>1 DEF Inner
  <1>3. \A g : Instrumented(g)' = Instrumented(g)
    BY <1>1 DEF Instrumented
  <1>4. \A g : is_mutable(g)' = is_mutable(g)
    BY DEF is_mutable, Users, Values, IsOp
  <1>5. \A g : Start(g)' = Start(g)
    BY <1>1, <1>2 DEF Start
  <1>6. \A g : Step(g)' = Step(g)
    BY <1>2 DEF Step
  <1>7. \A g : Chunk(g)' = Chunk(g)
    BY <1>2, <1>4, <1>5, <1>6 DEF Chunk
  <1> QED
    BY <1>3, <1>7

-----------------------------------------------------------------------------
(* Every step keeps the invariant *)

(* The parts that speak of the function and of chunks only. *)
LEMMA ChunkInvKept ==
    ASSUME ChunkInv, prog' = prog, chunks' = chunks, transformed' = transformed,
           pass' \in {"checks", "sweep", "select"} => pass \in {"checks", "sweep", "select"}
    PROVE  ChunkInv'
  <1>1. \A g : Instrumented(g)' = Instrumented(g) /\ Chunk(g)' = Chunk(g)
    BY SameChunks
  <1> QED
    BY <1>1 DEF ChunkInv, IsOp

(* A check that is left stays one as long as no loop is transformed. *)
LEMMA SameLeft ==
    ASSUME prog' = prog, transformed' = transformed
    PROVE  LeftChecks' = LeftChecks
  BY SameChecks DEF LeftChecks, return_gep

(* All checks that are to be left are checks of accesses. *)
LEMMA LeftAccesses ==
    LeftChecks \subseteq FarChecks /\ FarChecks \subseteq Accesses
  BY DEF LeftChecks, FarChecks

(* InsertChecks puts a check in front of every access. *)
LEMMA InsertChecksKeeps ==
    ASSUME ProgInv, PassesInv, InsertChecks, UNCHANGED <<chunks, transformed, guards>>
    PROVE  ProgInv' /\ PassesInv'
  <1>1. /\ prog' = prog /\ pass = "checks" /\ pass' = "sweep" /\ carm_checks' = Accesses
        /\ alloca_list' = Allocas /\ visited' = {}
        /\ chunks' = chunks /\ transformed' = transformed /\ guards' = guards
    BY DEF InsertChecks
  <1>2. /\ Values' = Values /\ Accesses' = Accesses /\ Allocas' = Allocas
        /\ FarChecks' = FarChecks /\ \A v : Root(v)' = Root(v)
    BY <1>1, SameChecks
  <1>3. TypeOK'
    BY <1>1, <1>2 DEF PassesInv, TypeOK, Allocas, IsOp
  <1>4. SweepInv'
    <2>1. \A s \in Allocas : Root(s) \in Allocas
      BY AllocaRoot
    <2> QED
      BY <1>1, <1>2, <2>1, LeftAccesses DEF SweepInv
  <1>5. LeftInv'
    BY <1>1 DEF PassesInv, LeftInv
  <1>6. ChunkInv'
    BY <1>1, ChunkInvKept DEF PassesInv
  <1> QED
    BY <1>1, <1>3, <1>4, <1>5, <1>6 DEF ProgInv, PassesInv

(* SweepCheck removes a check of a stack variable, or looks at another. *)
LEMMA SweepCheckKeeps ==
    ASSUME ProgInv, PassesInv, NEW v \in Values, SweepCheck(v),
           UNCHANGED <<chunks, transformed, guards>>
    PROVE  ProgInv' /\ PassesInv'
  <1>1. /\ prog' = prog /\ pass = "sweep" /\ pass' = pass
        /\ v \in carm_checks /\ visited' = visited \cup {v}
        /\ chunks' = chunks /\ transformed' = transformed /\ guards' = guards
    BY DEF SweepCheck
  <1>2. /\ Values' = Values /\ Accesses' = Accesses /\ Allocas' = Allocas
        /\ FarChecks' = FarChecks /\ \A u : Root(u)' = Root(u)
    BY <1>1, SameChecks
  <1>3. /\ carm_checks \subseteq Accesses /\ alloca_list \subseteq Values /\ visited \subseteq Accesses
        /\ Allocas \subseteq alloca_list /\ \A s \in alloca_list : Root(s) \in Allocas
        /\ FarChecks \subseteq carm_checks /\ visited \cap carm_checks \subseteq FarChecks
    BY <1>1 DEF PassesInv, TypeOK, SweepInv
  <1>4. v \in Accesses /\ Operand(v) \in Values
    BY <1>1, <1>3, AccessOperand
  <1>5. LeftInv'
    BY <1>1 DEF PassesInv, LeftInv
  <1>6. ChunkInv'
    BY <1>1, ChunkInvKept DEF PassesInv
  <1>7. CASE OnStack(Operand(v))
    <2>1. alloca_list' = alloca_list \cup {Operand(v)} /\ carm_checks' = carm_checks \ {v}
      BY <1>7 DEF SweepCheck
    <2>2. Root(Operand(v)) \in Allocas
      BY <1>3, <1>4, <1>7, OnStackRoot
    <2>3. v \notin FarChecks
      BY <2>2 DEF FarChecks
    <2>4. TypeOK'
      BY <1>1, <1>2, <1>3, <1>4, <2>1 DEF PassesInv, TypeOK, IsOp
    <2>5. SweepInv'
      BY <1>1, <1>2, <1>3, <2>1, <2>2, <2>3 DEF SweepInv
    <2> QED
      BY <1>1, <1>5, <1>6, <2>4, <2>5 DEF ProgInv, PassesInv
  <1>8. CASE ~OnStack(Operand(v))
    <2>1. alloca_list' = alloca_list /\ carm_checks' = carm_checks
      BY <1>8 DEF SweepCheck
    <2>2. Root(Operand(v)) \notin Allocas
      BY <1>3, <1>4, <1>8, OffStackRoot
    <2>3. v \in FarChecks
      BY <1>4, <2>2 DEF FarChecks
    <2>4. TypeOK'
      BY <1>1, <1>2, <1>3, <1>4, <2>1 DEF PassesInv, TypeOK, IsOp
    <2>5. SweepInv'
      BY <1>1, <1>2, <1>3, <2>1, <2>3 DEF SweepInv
    <2> QED
      BY <1>1, <1>5, <1>6, <2>4, <2>5 DEF ProgInv, PassesInv
  <1> QED
    BY <1>7, <1>8

(* SweepAgain goes on to the next pass when a sweep has removed nothing. *)
LEMMA SweepAgainKeeps ==
    ASSUME ProgInv, PassesInv, SweepAgain, UNCHANGED <<chunks, transformed, guards>>
    PROVE  ProgInv' /\ PassesInv'
  <1>1. /\ prog' = prog /\ pass = "sweep" /\ carm_checks \subseteq visited /\ visited' = {}
        /\ pass' = IF visited = carm_checks THEN "select" ELSE "sweep"
        /\ carm_checks' = carm_checks /\ alloca_list' = alloca_list
        /\ chunks' = chunks /\ transformed' = transformed /\ guards' = guards
    BY DEF SweepAgain
  <1>2. /\ Values' = Values /\ Accesses' = Accesses /\ Allocas' = Allocas
        /\ FarChecks' = FarChecks /\ \A u : Root(u)' = Root(u)
    BY <1>1, SameChecks
  <1>3. LeftChecks' = LeftChecks
    BY <1>1, SameLeft
  <1>4. TypeOK'
    BY <1>1, <1>2 DEF PassesInv, TypeOK, IsOp
  <1>5. SweepInv'
    BY <1>1, <1>2 DEF PassesInv, SweepInv
  <1>6. LeftInv'
    <2>1. transformed = {} /\ guards = <<>>
      BY <1>1 DEF PassesInv, ChunkInv, LeftInv
    <2>2. LeftChecks = FarChecks
      BY <2>1 DEF LeftChecks
    <2>3. visited = carm_checks => carm_checks = FarChecks
      BY <1>1 DEF PassesInv, SweepInv
    <2> QED
      BY <1>1, <1>3, <2>1, <2>2, <2>3 DEF LeftInv
  <1>7. ChunkInv'
    BY <1>1, ChunkInvKept DEF PassesInv
  <1> QED
    BY <1>1, <1>4, <1>5, <1>6, <1>7 DEF ProgInv, PassesInv

(* Loop selection hands over chunks of candidates. *)
LEMMA SelectFromKeeps ==
    ASSUME ProgInv, PassesInv, NEW candidates, SelectFrom(candidates),
           \A g \in candidates : g \in Values /\ Candidate(g)
    PROVE  ProgInv' /\ PassesInv'
  <1>1. /\ prog' = prog /\ pass = "select" /\ pass' = "chunk"
        /\ chunks' = [g \in {h \in candidates : Instrumented(h)} |-> Chunk(g)]
        /\ carm_checks' = carm_checks /\ alloca_list' = alloca_list /\ visited' = visited
        /\ transformed' = transformed /\ guards' = guards
    BY DEF SelectFrom
  <1>2. Values' = Values /\ Accesses' = Accesses /\ Allocas' = Allocas
    BY <1>1, SameChecks
  <1>3. LeftChecks' = LeftChecks
    BY <1>1, SameLeft
  <1>4. transformed = {}
    BY <1>1 DEF PassesInv, ChunkInv
  <1>5. /\ DOMAIN chunks' = {h \in candidates : Instrumented(h)}
        /\ \A g \in DOMAIN chunks' : chunks'[g] = Chunk(g)
    BY <1>1
  <1>6. TypeOK'
    BY <1>1, <1>2, <1>4, <1>5 DEF PassesInv, TypeOK, IsOp, Candidate
  <1>7. SweepInv'
    BY <1>1 DEF SweepInv
  <1>8. LeftInv'
    BY <1>1, <1>3 DEF PassesInv, LeftInv
  <1>9. ChunkInv'
    <2>1. \A g : Instrumented(g)' = Instrumented(g) /\ Chunk(g)' = Chunk(g)
      BY <1>1, SameChunks
    <2> QED
      BY <1>1, <1>4, <1>5, <2>1 DEF ChunkInv, IsOp, Candidate
  <1> QED
    BY <1>1, <1>6, <1>7, <1>8, <1>9 DEF ProgInv, PassesInv

(* A transformed loop deletes the checks of its gep. *)
LEMMA TransformLoopKeeps ==
    ASSUME ProgInv, PassesInv, NEW g \in Values, TransformLoop(g)
    PROVE  ProgInv' /\ PassesInv'
  <1>1. /\ prog' = prog /\ pass = "chunk" /\ pass' = pass /\ g \in DOMAIN chunks
        /\ carm_checks' = DropChecks(g) /\ transformed' = transformed \cup {g}
        /\ alloca_list' = alloca_list /\ visited' = visited
        /\ chunks' = chunks /\ guards' = guards
    BY DEF TransformLoop, Pending
  <1>2. /\ Values' = Values /\ Accesses' = Accesses /\ Allocas' = Allocas
        /\ Uncast' = Uncast /\ FarChecks' = FarChecks /\ \A v : Operand(v)' = Operand(v)
    BY <1>1, SameChecks
  <1>3. carm_checks = LeftChecks
    BY <1>1 DEF PassesInv, LeftInv
  <1>4. carm_checks' = LeftChecks'
    BY <1>1, <1>2, <1>3 DEF LeftChecks, DropChecks, return_gep
  <1>5. TypeOK'
    BY <1>1, <1>2 DEF PassesInv, TypeOK, IsOp, DropChecks
  <1>6. SweepInv'
    BY <1>1 DEF SweepInv
  <1>7. LeftInv'
    BY <1>1, <1>4 DEF PassesInv, LeftInv
  <1>8. ChunkInv'
    <2>1. \A h : Instrumented(h)' = Instrumented(h) /\ Chunk(h)' = Chunk(h)
      BY <1>1, SameChunks
    <2> QED
      BY <1>1, <2>1 DEF PassesInv, ChunkInv, IsOp
  <1> QED
    BY <1>1, <1>5, <1>6, <1>7, <1>8 DEF ProgInv, PassesInv

(* The loops are done. *)
LEMMA LoopsDoneKeeps ==
    ASSUME ProgInv, PassesInv, LoopsDone
    PROVE  ProgInv' /\ PassesInv'
  <1>1. /\ prog' = prog /\ pass = "chunk" /\ pass' = "guard"
        /\ carm_checks' = carm_checks /\ alloca_list' = alloca_list /\ visited' = visited
        /\ chunks' = chunks /\ transformed' = transformed /\ guards' = guards
    BY DEF LoopsDone
  <1>2. Values' = Values /\ Accesses' = Accesses /\ LeftChecks' = LeftChecks
    BY <1>1, SameChecks, SameLeft
  <1>3. TypeOK'
    BY <1>1, <1>2 DEF PassesInv, TypeOK, IsOp
  <1>4. SweepInv' /\ LeftInv'
    BY <1>1, <1>2 DEF PassesInv, SweepInv, LeftInv
  <1>5. ChunkInv'
    BY <1>1, ChunkInvKept DEF PassesInv
  <1> QED
    BY <1>1, <1>3, <1>4, <1>5 DEF ProgInv, PassesInv

(* carm_transform turns the checks that are left into guards. *)
LEMMA GuardsKeeps ==
    ASSUME ProgInv, PassesInv, Guards
    PROVE  ProgInv' /\ PassesInv'
  <1>1. /\ prog' = prog /\ pass = "guard" /\ pass' = "end" /\ carm_checks' = {}
        /\ guards' = [v \in carm_checks |-> GuardKind(v)]
        /\ alloca_list' = alloca_list /\ visited' = visited
        /\ chunks' = chunks /\ transformed' = transformed
    BY DEF Guards
  <1>2. Values' = Values /\ Accesses' = Accesses /\ LeftChecks' = LeftChecks
    BY <1>1, SameChecks, SameLeft
  <1>3. carm_checks = LeftChecks /\ \A v : GuardKind(v)' = GuardKind(v)
    BY <1>1 DEF PassesInv, LeftInv, GuardKind, IsOp
  <1>4. TypeOK'
    BY <1>1, <1>2 DEF PassesInv, TypeOK, IsOp
  <1>5. SweepInv' /\ LeftInv'
    BY <1>1, <1>2, <1>3 DEF PassesInv, SweepInv, LeftInv
  <1>6. ChunkInv'
    BY <1>1, ChunkInvKept DEF PassesInv
  <1> QED
    BY <1>1, <1>4, <1>5, <1>6 DEF ProgInv, PassesInv

(* Before the first pass nothing is known. *)
LEMMA InitPasses ==
    ASSUME Init PROVE ProgInv /\ PassesInv
  <1>1. /\ prog \in Programs /\ pass = "checks" /\ carm_checks = {} /\ alloca_list = {}
        /\ visited = {} /\ chunks = <<>> /\ transformed = {} /\ guards = <<>>
    BY DEF Init, ChecksInit
  <1>2. DOMAIN chunks = {} /\ DOMAIN guards = {}
    BY <1>1
  <1>3. TypeOK
    BY <1>1, <1>2 DEF TypeOK
  <1>4. SweepInv /\ LeftInv
    BY <1>1 DEF SweepInv, LeftInv
  <1>5. ChunkInv
    BY <1>1, <1>2 DEF ChunkInv
  <1> QED
    BY <1>1, <1>3, <1>4, <1>5 DEF ProgInv, PassesInv

(* Every pass keeps the invariant, and so does a stutter. *)
LEMMA NextPasses ==
    ASSUME ProgInv, PassesInv, [Next]_vars PROVE ProgInv' /\ PassesInv'
  <1>1. CASE InsertChecks /\ UNCHANGED <<chunks, transformed, guards>>
    BY <1>1, InsertChecksKeeps
  <1>2. CASE (\E v \in Values : SweepCheck(v)) /\ UNCHANGED <<chunks, transformed, guards>>
    BY <1>2, SweepCheckKeeps
  <1>3. CASE SweepAgain /\ UNCHANGED <<chunks, transformed, guards>>
    BY <1>3, SweepAgainKeeps
  <1>4. CASE LoopChecks
    <2>1. SelectFrom({g \in Values : Candidate(g)})
      BY <1>4 DEF LoopChecks
    <2> QED
      BY <2>1, SelectFromKeeps
  <1>5. CASE ProfileChecks
    <2>1. PICK profile \in [{g \in Values : Candidate(g)} -> Profiles] :
             SelectFrom({g \in DOMAIN profile : Hot(profile[g])})
      BY <1>5 DEF ProfileChecks
    <2>2. PICK candidates : candidates = {g \in DOMAIN profile : Hot(profile[g])}
      OBVIOUS
    <2>3. \A g \in candidates : g \in Values /\ Candidate(g)
      BY <2>1, <2>2
    <2> QED
      BY <2>1, <2>2, <2>3, SelectFromKeeps
  <1>6. CASE \E g \in Values : TransformLoop(g)
    BY <1>6, TransformLoopKeeps
  <1>7. CASE LoopsDone
    BY <1>7, LoopsDoneKeeps
  <1>8. CASE Guards
    BY <1>8, GuardsKeeps
  <1>9. CASE UNCHANGED vars
    <2>1. /\ prog' = prog /\ pass' = pass /\ carm_checks' = carm_checks
          /\ alloca_list' = alloca_list /\ visited' = visited
          /\ chunks' = chunks /\ transformed' = transformed /\ guards' = guards
      BY <1>9 DEF vars
    <2>2. /\ Values' = Values /\ Accesses' = Accesses /\ Allocas' = Allocas
          /\ FarChecks' = FarChecks /\ LeftChecks' = LeftChecks /\ \A v : Root(v)' = Root(v)
      BY <2>1, SameChecks, SameLeft
    <2>3. \A v : GuardKind(v)' = GuardKind(v)
      BY <2>1 DEF GuardKind, IsOp
    <2>4. TypeOK' /\ SweepInv' /\ LeftInv'
      BY <2>1, <2>2, <2>3 DEF PassesInv, TypeOK, SweepInv, LeftInv, IsOp
    <2>5. ChunkInv'
      BY <2>1, ChunkInvKept DEF PassesInv
    <2> QED
      BY <2>1, <2>4, <2>5 DEF ProgInv, PassesInv
  <1> QED
    BY <1>1, <1>2, <1>3, <1>4, <1>5, <1>6, <1>7, <1>8, <1>9 DEF Next, ChecksNext

(* The inductive invariant of the passes, for every function in SSA form:  *)
(* what each pass knows, and what it has left for the next one.            *)
THEOREM PassesInductive == Spec => [](ProgInv /\ PassesInv)
  <1>1. Init => ProgInv /\ PassesInv
    BY InitPasses
  <1>2. ProgInv /\ PassesInv /\ [Next]_vars => (ProgInv /\ PassesInv)'
    BY NextPasses
  <1> QED
    BY <1>1, <1>2, PTL DEF Spec

(* Type correctness of the passes: checks are of accesses, chunks of geps. *)
THEOREM PassesTypeCorrect == Spec => []TypeOK
  <1>1. ProgInv /\ PassesInv => TypeOK
    BY DEF PassesInv
  <1> QED
    BY <1>1, PassesInductive, PTL

(* carm_checks leaves the same checks in whatever order a sweep looks at   *)
(* them: those of pointers that do not lead back to a stack variable.      *)
THEOREM SweepsAreConfluent == Spec => []SweepsConfluent
  <1>1. ProgInv /\ PassesInv => SweepsConfluent
    <2>1. SUFFICES ASSUME PassesInv, pass = "select"
                   PROVE  carm_checks = {v \in Accesses : Root(Operand(v)) \notin Allocas}
      BY DEF SweepsConfluent
    <2>2. carm_checks = LeftChecks /\ transformed = {}
      BY <2>1 DEF PassesInv, LeftInv, ChunkInv
    <2> QED
      BY <2>2 DEF LeftChecks, FarChecks
  <1> QED
    BY <1>1, PassesInductive, PTL

-----------------------------------------------------------------------------
(* Sums over finite sets *)

(* Among sets of subsets of a finite set there is a smallest one. *)
LEMMA SmallestSet ==
    ASSUME NEW S, IsFiniteSet(S), NEW W \in SUBSET (SUBSET S), W # {}
    PROVE  \E s \in W : \A x \in s : s \ {x} \notin W
  <1> DEFINE Sizes == {n \in Nat : \E s \in W : Cardinality(s) = n}
  <1>1. \A s \in W : s \in SUBSET S /\ IsFiniteSet(s) /\ Cardinality(s) \in Nat
    BY FS_Subset, FS_CardinalityType
  <1>2. Sizes # {} /\ Sizes \in SUBSET Nat
    BY <1>1
  <1>3. PICK m \in Sizes : \A k \in Sizes : m <= k
    BY <1>2, Least
  <1>4. PICK s \in W : Cardinality(s) = m
    BY <1>3
  <1>5. ASSUME NEW x \in s, s \ {x} \in W PROVE FALSE
    <2>1. Cardinality(s \ {x}) = m - 1
      BY <1>1, <1>4, FS_RemoveElement
    <2>2. m - 1 \in Sizes
      BY <1>1, <1>5, <2>1
    <2>3. m <= m - 1 /\ m \in Nat
      BY <1>3, <2>2
    <2> QED
      BY <2>3
  <1> QED
    BY <1>5

(* The element a fold takes next, and what it adds. *)
Pick(s) == CHOOSE x \in s : TRUE

Added(g, F, s) == IF s = {} THEN 0 ELSE F[Pick(s)] + g[s \ {Pick(s)}]

(* The sums of F over the subsets of S. *)
Sums(F, S) == CHOOSE g : g = [s \in SUBSET S |-> Added(g, F, s)]

(* SumFunction adds up in the same order. *)
LEMMA SumFunctionIs ==
    ASSUME NEW F
    PROVE  SumFunction(F) = Sums(F, DOMAIN F)[DOMAIN F]
  BY DEF SumFunction, SumFunctionOnSet, FoldFunctionOnSet, MapThenFoldSet, Sums, Added, Pick

(* A set that is not empty has a next element. *)
LEMMA PickIs ==
    ASSUME NEW s, s # {} PROVE Pick(s) \in s
  BY DEF Pick

(* The sums are what their recursion says. *)
LEMMA SumsAre ==
    ASSUME NEW S, IsFiniteSet(S), NEW F \in [S -> Int]
    PROVE  /\ Sums(F, S) \in [SUBSET S -> Int]
           /\ Sums(F, S)[{}] = 0
           /\ \A s \in SUBSET S : s # {} =>
                Sums(F, S)[s] = F[Pick(s)] + Sums(F, S)[s \ {Pick(s)}]
  <1>1. \A s \in SUBSET S : IsFiniteSet(s) /\ Cardinality(s) \in Nat /\ Cardinality(s) <= Cardinality(S)
    BY FS_Subset, FS_CardinalityType
  <1>2. PICK mu : mu = [s \in SUBSET S |-> Cardinality(s)]
    OBVIOUS
  <1>3. mu \in [SUBSET S -> Nat] /\ \A s \in SUBSET S : mu[s] = Cardinality(s)
    BY <1>1, <1>2
  <1>4. PICK bound \in Nat : \A s \in SUBSET S : mu[s] < bound
    <2>1. PICK n \in Nat : n = Cardinality(S)
      BY FS_CardinalityType
    <2>2. n + 1 \in Nat /\ \A s \in SUBSET S : mu[s] < n + 1
      BY <1>1, <1>3, <2>1
    <2> QED
      BY <2>2
  <1>5. \A s \in SUBSET S : s # {} => /\ Pick(s) \in s /\ F[Pick(s)] \in Int
                                      /\ s \ {Pick(s)} \in SUBSET S
                                      /\ mu[s \ {Pick(s)}] < mu[s]
    <2>1. SUFFICES ASSUME NEW s \in SUBSET S, s # {}
                   PROVE  /\ Pick(s) \in s /\ F[Pick(s)] \in Int
                          /\ s \ {Pick(s)} \in SUBSET S /\ mu[s \ {Pick(s)}] < mu[s]
      OBVIOUS
    <2>2. Pick(s) \in s
      BY <2>1, PickIs
    <2>3. Cardinality(s \ {Pick(s)}) = Cardinality(s) - 1 /\ Cardinality(s) \in Nat
      BY <1>1, <2>2, FS_RemoveElement
    <2> QED
      BY <1>3, <2>2, <2>3
  <1>6. PICK E : E = [g \in [SUBSET S -> Int] |-> [s \in SUBSET S |-> Added(g, F, s)]]
    OBVIOUS
  <1>7. ASSUME NEW g \in [SUBSET S -> Int], NEW s \in SUBSET S PROVE Added(g, F, s) \in Int
    <2>1. CASE s = {}
      BY <2>1 DEF Added
    <2>2. CASE s # {}
      <3>1. F[Pick(s)] \in Int /\ g[s \ {Pick(s)}] \in Int
        BY <1>5, <2>2
      <3> QED
        BY <2>2, <3>1 DEF Added
    <2> QED
      BY <2>1, <2>2
  <1>8. E \in [[SUBSET S -> Int] -> [SUBSET S -> Int]]
    BY <1>6, <1>7
  <1>9. ASSUME NEW g \in [SUBSET S -> Int], NEW h \in [SUBSET S -> Int], NEW s \in SUBSET S,
               \A e \in SUBSET S : mu[e] < mu[s] => g[e] = h[e]
        PROVE  E[g][s] = E[h][s]
    <2>1. Added(g, F, s) = Added(h, F, s)
      BY <1>5, <1>9 DEF Added
    <2>2. E[g] = [e \in SUBSET S |-> Added(g, F, e)] /\ E[h] = [e \in SUBSET S |-> Added(h, F, e)]
      BY <1>6
    <2>3. E[g][s] = Added(g, F, s) /\ E[h][s] = Added(h, F, s)
      BY <2>2
    <2> QED
      BY <2>1, <2>3
  <1>10. Local(SUBSET S, Int, mu, E)
    BY <1>8, <1>9 DEF Local
  <1>11. Int # {}
    OBVIOUS
  <1>12. \E g \in [SUBSET S -> Int] : g = E[g]
    <2>1. PICK D, V : D = SUBSET S /\ V = Int
      OBVIOUS
    <2>2. V # {} /\ mu \in [D -> Nat] /\ Local(D, V, mu, E) /\ \A d \in D : mu[d] < bound
      BY <1>3, <1>4, <1>10, <1>11, <2>1
    <2>3. \E g \in [D -> V] : g = E[g]
      BY <2>2, Recursion
    <2> QED
      BY <2>1, <2>3
  <1>13. \E g : g = [s \in SUBSET S |-> Added(g, F, s)]
    BY <1>6, <1>12
  <1>14. Sums(F, S) = [s \in SUBSET S |-> Added(Sums(F, S), F, s)]
    BY <1>13, Zenon DEF Sums
  <1>15. PICK g : g = Sums(F, S)
    OBVIOUS
  <1>16. g = [s \in SUBSET S |-> Added(g, F, s)]
    BY <1>14, <1>15
  <1>17. \A s \in SUBSET S : g[s] = IF s = {} THEN 0 ELSE F[Pick(s)] + g[s \ {Pick(s)}]
    BY <1>16 DEF Added
  <1>20. g[{}] = 0
    <2>1. {} \in SUBSET S
      OBVIOUS
    <2> QED
      BY <1>17, <2>1
  <1> DEFINE Wrong == {s \in SUBSET S : g[s] \notin Int}
  <1>18. Wrong = {}
    <2>1. SUFFICES ASSUME Wrong # {} PROVE FALSE
      OBVIOUS
    <2>2. PICK s \in Wrong : \A x \in s : s \ {x} \notin Wrong
      BY <2>1, SmallestSet
    <2>6. g[{}] = 0 /\ 0 \in Int
      BY <1>20
    <2>3. s # {}
      BY <2>2, <2>6
    <2>4. /\ Pick(s) \in s /\ F[Pick(s)] \in Int /\ s \ {Pick(s)} \in SUBSET S
          /\ g[s] = F[Pick(s)] + g[s \ {Pick(s)}]
      BY <1>5, <1>17, <2>3
    <2>5. g[s \ {Pick(s)}] \in Int
      BY <2>2, <2>4
    <2> QED
      BY <2>2, <2>4, <2>5
  <1>19. g \in [SUBSET S -> Int]
    BY <1>16, <1>18
  <1> QED
    BY <1>15, <1>17, <1>19, <1>20

(* Where two functions agree they have the same sums. *)
LEMMA SumsAgree ==
    ASSUME NEW S, IsFiniteSet(S), NEW F \in [S -> Int],
           NEW T, IsFiniteSet(T), NEW H \in [T -> Int],
           NEW R, R \in SUBSET S, R \in SUBSET T, \A x \in R : F[x] = H[x]
    PROVE  Sums(F, S)[R] = Sums(H, T)[R]
  <1>1. PICK f : f = Sums(F, S)
    OBVIOUS
  <1>2. PICK h : h = Sums(H, T)
    OBVIOUS
  <1>3. /\ f[{}] = 0
        /\ \A s \in SUBSET S : s # {} => f[s] = F[Pick(s)] + f[s \ {Pick(s)}]
    BY <1>1, SumsAre
  <1>4. /\ h[{}] = 0
        /\ \A s \in SUBSET T : s # {} => h[s] = H[Pick(s)] + h[s \ {Pick(s)}]
    BY <1>2, SumsAre
  <1> DEFINE Wrong == {s \in SUBSET R : f[s] # h[s]}
  <1>5. SUFFICES ASSUME Wrong # {} PROVE FALSE
    BY <1>1, <1>2
  <1>6. IsFiniteSet(R) /\ Wrong \in SUBSET (SUBSET R)
    BY FS_Subset
  <1>7. PICK s \in Wrong : \A x \in s : s \ {x} \notin Wrong
    BY <1>5, <1>6, SmallestSet
  <1>8. s # {}
    BY <1>3, <1>4, <1>7
  <1>9. PICK p : p = Pick(s)
    OBVIOUS
  <1>10. p \in s /\ s \in SUBSET S /\ s \in SUBSET T /\ s \ {p} \in SUBSET R
    BY <1>7, <1>8, <1>9, PickIs
  <1>11. f[s \ {p}] = h[s \ {p}] /\ F[p] = H[p]
    BY <1>7, <1>10
  <1>12. f[s] = F[p] + f[s \ {p}] /\ h[s] = H[p] + h[s \ {p}]
    BY <1>3, <1>4, <1>8, <1>9, <1>10
  <1> QED
    BY <1>7, <1>11, <1>12

(* Any element may be added first. *)
LEMMA SumsTake ==
    ASSUME NEW S, IsFiniteSet(S), NEW F \in [S -> Int], NEW R \in SUBSET S, NEW x \in R
    PROVE  Sums(F, S)[R] = F[x] + Sums(F, S)[R \ {x}]
  <1>1. PICK g : g = Sums(F, S)
    OBVIOUS
  <1>2. /\ g \in [SUBSET S -> Int]
        /\ \A s \in SUBSET S : s # {} => g[s] = F[Pick(s)] + g[s \ {Pick(s)}]
    BY <1>1, SumsAre
  <1> DEFINE Wrong == {s \in SUBSET R : \E y \in s : g[s] # F[y] + g[s \ {y}]}
  <1>3. Wrong = {}
    <2>1. SUFFICES ASSUME Wrong # {} PROVE FALSE
      OBVIOUS
    <2>2. IsFiniteSet(R) /\ Wrong \in SUBSET (SUBSET R)
      BY FS_Subset
    <2>3. PICK s \in Wrong : \A y \in s : s \ {y} \notin Wrong
      BY <2>1, <2>2, SmallestSet
    <2>4. PICK y \in s : g[s] # F[y] + g[s \ {y}]
      BY <2>3
    <2>5. PICK p : p = Pick(s)
      OBVIOUS
    <2>6. p \in s /\ s \in SUBSET S /\ g[s] = F[p] + g[s \ {p}] /\ p # y
      BY <1>2, <2>3, <2>4, <2>5, PickIs
    <2>7. s \ {p} \notin Wrong /\ s \ {y} \notin Wrong /\ s \ {p} \in SUBSET R /\ s \ {y} \in SUBSET R
      BY <2>3, <2>4, <2>6
    <2>8. g[s \ {p}] = F[y] + g[(s \ {p}) \ {y}] /\ g[s \ {y}] = F[p] + g[(s \ {y}) \ {p}]
      BY <2>4, <2>6, <2>7
    <2>9. (s \ {p}) \ {y} = (s \ {y}) \ {p} /\ (s \ {y}) \ {p} \in SUBSET S
      BY <2>6
    <2>10. PICK r \in Int : r = g[(s \ {y}) \ {p}]
      BY <1>2, <2>9
    <2>11. F[p] \in Int /\ F[y] \in Int
      BY <2>4, <2>6
    <2>12. g[s] = F[p] + (F[y] + r) /\ F[y] + g[s \ {y}] = F[y] + (F[p] + r)
      BY <2>6, <2>8, <2>9, <2>10
    <2> QED
      BY <2>4, <2>11, <2>12
  <1> QED
    BY <1>1, <1>3

(* A sum over two parts. *)
LEMMA SumsSplit ==
    ASSUME NEW S, IsFiniteSet(S), NEW F \in [S -> Int],
           NEW A \in SUBSET S, NEW B \in SUBSET S, A \cap B = {}
    PROVE  Sums(F, S)[A \cup B] = Sums(F, S)[A] + Sums(F, S)[B]
  <1>1. PICK g : g = Sums(F, S)
    OBVIOUS
  <1>2. g \in [SUBSET S -> Int] /\ g[{}] = 0
    BY <1>1, SumsAre
  <1>3. \A R \in SUBSET S : \A x \in R : g[R] = F[x] + g[R \ {x}]
    <2>1. SUFFICES ASSUME NEW R \in SUBSET S, NEW x \in R PROVE g[R] = F[x] + g[R \ {x}]
      OBVIOUS
    <2>2. Sums(F, S)[R] = F[x] + Sums(F, S)[R \ {x}]
      BY SumsTake
    <2> QED
      BY <1>1, <2>2
  <1> DEFINE Wrong == {s \in SUBSET A : g[s \cup B] # g[s] + g[B]}
  <1>4. SUFFICES ASSUME Wrong # {} PROVE FALSE
    BY <1>1
  <1>5. IsFiniteSet(A) /\ Wrong \in SUBSET (SUBSET A)
    BY FS_Subset
  <1>6. PICK s \in Wrong : \A x \in s : s \ {x} \notin Wrong
    BY <1>4, <1>5, SmallestSet
  <1>7. CASE s = {}
    <2>1. s \cup B = B /\ g[B] \in Int
      BY <1>2, <1>7
    <2>2. g[s \cup B] = g[s] + g[B]
      BY <1>2, <1>7, <2>1
    <2> QED
      BY <1>6, <2>2
  <1>8. CASE s # {}
    <2>1. PICK x \in s : TRUE
      BY <1>8
    <2>2. /\ s \in SUBSET S /\ s \cup B \in SUBSET S /\ x \in s \cup B
          /\ (s \cup B) \ {x} = (s \ {x}) \cup B
          /\ s \ {x} \in SUBSET A /\ s \ {x} \in SUBSET S
      BY <1>6, <2>1
    <2>3. g[(s \ {x}) \cup B] = g[s \ {x}] + g[B]
      BY <1>6, <2>1, <2>2
    <2>4. g[s] = F[x] + g[s \ {x}] /\ g[s \cup B] = F[x] + g[(s \ {x}) \cup B]
      BY <1>3, <2>1, <2>2
    <2>5. F[x] \in Int /\ g[s \ {x}] \in Int /\ g[B] \in Int
      BY <1>2, <2>1, <2>2
    <2>6. g[s \cup B] = g[s] + g[B]
      BY <2>3, <2>4, <2>5
    <2> QED
      BY <1>6, <2>6
  <1> QED
    BY <1>7, <1>8

(* A product with a sum. *)
LEMMA TimesSum ==
    ASSUME NEW k \in Int, NEW a \in Int, NEW b \in Int
    PROVE  k * (a + b) = k * a + k * b /\ k * a \in Int /\ k * b \in Int
  OBVIOUS

(* Sums are linear. *)
LEMMA SumsLinear ==
    ASSUME NEW S, IsFiniteSet(S), NEW F \in [S -> Int], NEW G \in [S -> Int], NEW H \in [S -> Int],
           NEW k \in Int, \A x \in S : H[x] = F[x] + k * G[x]
    PROVE  Sums(H, S)[S] = Sums(F, S)[S] + k * Sums(G, S)[S]
  <1>1. PICK f, g, h : f = Sums(F, S) /\ g = Sums(G, S) /\ h = Sums(H, S)
    OBVIOUS
  <1>2. /\ f \in [SUBSET S -> Int] /\ g \in [SUBSET S -> Int] /\ h \in [SUBSET S -> Int]
        /\ f[{}] = 0 /\ g[{}] = 0 /\ h[{}] = 0
    BY <1>1, SumsAre
  <1>3. \A s \in SUBSET S : s # {} => /\ f[s] = F[Pick(s)] + f[s \ {Pick(s)}]
                                      /\ g[s] = G[Pick(s)] + g[s \ {Pick(s)}]
                                      /\ h[s] = H[Pick(s)] + h[s \ {Pick(s)}]
    BY <1>1, SumsAre
  <1> DEFINE Wrong == {s \in SUBSET S : h[s] # f[s] + k * g[s]}
  <1>4. SUFFICES ASSUME Wrong # {} PROVE FALSE
    BY <1>1
  <1>5. PICK s \in Wrong : \A x \in s : s \ {x} \notin Wrong
    BY <1>4, SmallestSet
  <1>6. s # {}
    <2>1. k * 0 = 0
      OBVIOUS
    <2>2. h[{}] = f[{}] + k * g[{}]
      BY <1>2, <2>1
    <2> QED
      BY <1>5, <2>2
  <1>7. PICK x : x = Pick(s)
    OBVIOUS
  <1>8. x \in s /\ x \in S /\ s \ {x} \in SUBSET S
    BY <1>5, <1>6, <1>7, PickIs
  <1>9. PICK r : r = s \ {x}
    OBVIOUS
  <1>10. /\ f[s] = F[x] + f[r] /\ g[s] = G[x] + g[r] /\ h[s] = H[x] + h[r]
         /\ h[r] = f[r] + k * g[r] /\ H[x] = F[x] + k * G[x]
    BY <1>3, <1>5, <1>6, <1>7, <1>8, <1>9
  <1>11. /\ F[x] \in Int /\ G[x] \in Int /\ f[r] \in Int /\ g[r] \in Int
    BY <1>2, <1>8, <1>9
  <1>12. PICK a \in Int, b \in Int : a = k * G[x] /\ b = k * g[r]
    BY <1>11
  <1>13. k * g[s] = a + b
    BY <1>10, <1>11, <1>12, TimesSum
  <1>14. h[s] = (F[x] + a) + (f[r] + b) /\ f[s] = F[x] + f[r]
    BY <1>10, <1>12
  <1>15. h[s] = f[s] + k * g[s]
    BY <1>11, <1>13, <1>14
  <1> QED
    BY <1>5, <1>15

(* SumFunction in terms of the sums over all subsets. *)
LEMMA SumIs ==
    ASSUME NEW S, IsFiniteSet(S), NEW F \in [S -> Int]
    PROVE  SumFunction(F) = Sums(F, S)[S] /\ SumFunction(F) \in Int
  <1>1. SumFunction(F) = Sums(F, DOMAIN F)[DOMAIN F]
    BY SumFunctionIs
  <1>2. DOMAIN F = S
    OBVIOUS
  <1>3. SumFunction(F) = Sums(F, S)[S]
    BY <1>1, <1>2
  <1>4. PICK g : g = Sums(F, S)
    OBVIOUS
  <1>5. g \in [SUBSET S -> Int] /\ S \in SUBSET S
    BY <1>4, SumsAre
  <1> QED
    BY <1>3, <1>4, <1>5

(* A function over V that is A on one part and B on the other. *)
Parted(F, V, A, I, B, R) ==
    /\ IsFiniteSet(V) /\ F \in [V -> Int]
    /\ I \in SUBSET V /\ R \in SUBSET V /\ I \cap R = {} /\ I \cup R = V
    /\ A \in [I -> Int] /\ \A w \in I : A[w] = F[w]
    /\ B \in [R -> Int] /\ \A w \in R : B[w] = F[w]

(* SumFunction over a domain in two parts. *)
LEMMA SumOfParts ==
    ASSUME NEW V, NEW F, NEW I, NEW R, NEW A, NEW B, Parted(F, V, A, I, B, R)
    PROVE  SumFunction(F) = SumFunction(A) + SumFunction(B)
  <1> USE DEF Parted
  <1>1. IsFiniteSet(I) /\ IsFiniteSet(R)
    BY FS_Subset
  <1>2. SumFunction(F) = Sums(F, V)[V]
    BY SumIs
  <1>3. SumFunction(A) = Sums(A, I)[I]
    BY <1>1, SumIs
  <1>4. SumFunction(B) = Sums(B, R)[R]
    BY <1>1, SumIs
  <1>5. Sums(A, I)[I] = Sums(F, V)[I]
    BY <1>1, SumsAgree
  <1>6. Sums(B, R)[R] = Sums(F, V)[R]
    BY <1>1, SumsAgree
  <1>7. Sums(F, V)[I \cup R] = Sums(F, V)[I] + Sums(F, V)[R]
    BY SumsSplit
  <1> QED
    BY <1>2, <1>3, <1>4, <1>5, <1>6, <1>7

(* SumFunction is linear. *)
LEMMA SumOfMultiples ==
    ASSUME NEW S, IsFiniteSet(S), NEW F \in [S -> Int], NEW G \in [S -> Int], NEW H \in [S -> Int],
           NEW k \in Int, \A x \in S : H[x] = F[x] + k * G[x]
    PROVE  SumFunction(H) = SumFunction(F) + k * SumFunction(G)
  <1>1. SumFunction(F) = Sums(F, S)[S]
    BY SumIs
  <1>2. SumFunction(G) = Sums(G, S)[S]
    BY SumIs
  <1>3. SumFunction(H) = Sums(H, S)[S]
    BY SumIs
  <1>4. Sums(H, S)[S] = Sums(F, S)[S] + k * Sums(G, S)[S]
    BY SumsLinear
  <1> QED
    BY <1>1, <1>2, <1>3, <1>4

(* The sum over nothing. *)
LEMMA SumOfNothing ==
    ASSUME NEW F \in [{} -> Int] PROVE SumFunction(F) = 0
  <1>1. IsFiniteSet({})
    BY FS_EmptySet
  <1>2. PICK N : N = {}
    OBVIOUS
  <1>3. IsFiniteSet(N) /\ F \in [N -> Int]
    BY <1>1, <1>2
  <1>4. SumFunction(F) = Sums(F, N)[N]
    BY <1>3, SumIs
  <1>5. Sums(F, N)[{}] = 0
    BY <1>3, SumsAre
  <1> QED
    BY <1>2, <1>4, <1>5

(* A product with a step of a walk. *)
LEMMA TimesStep ==
    ASSUME NEW t \in Int, NEW s \in Int, NEW n \in Int, NEW p \in Int
    PROVE  t * (s + n * p) = t * s + n * (t * p)
  <1>1. PICK q \in Int : q = n * p
    OBVIOUS
  <1>2. t * (s + q) = t * s + t * q
    BY TimesSum
  <1>3. t * (n * p) = n * (t * p)
    OBVIOUS
  <1> QED
    BY <1>1, <1>2, <1>3

(* A walk: F is the part each of the variables V has in the address in     *)
(* iteration n, S and P the start and the step of those of the gep's loop, *)
(* B the part of the others.                                               *)
Walk(V, I, F, S, P, B, n) ==
    /\ IsFiniteSet(V) /\ I \in SUBSET V /\ n \in Int
    /\ F \in [V -> Int] /\ S \in [I -> Int] /\ P \in [I -> Int] /\ B \in [V \ I -> Int]
    /\ \A w \in I : F[w] = S[w] + n * P[w]
    /\ \A w \in V \ I : F[w] = B[w]

(* Where it gets to is a sum of its start, its steps and the outer loops.  *)
LEMMA WalkIsSum ==
    ASSUME NEW V, NEW I, NEW F, NEW S, NEW P, NEW B, NEW n, Walk(V, I, F, S, P, B, n)
    PROVE  /\ SumFunction(F) = SumFunction(S) + n * SumFunction(P) + SumFunction(B)
           /\ SumFunction(S) \in Int /\ SumFunction(P) \in Int /\ SumFunction(B) \in Int
           /\ I = {} => SumFunction(P) = 0
  <1> USE DEF Walk
  <1>1. IsFiniteSet(I) /\ IsFiniteSet(V \ I)
    BY FS_Subset
  <1>2. PICK A : A = [w \in I |-> F[w]]
    OBVIOUS
  <1>3. A \in [I -> Int] /\ (\A w \in I : A[w] = F[w]) /\ (\A w \in I : A[w] = S[w] + n * P[w])
    BY <1>2
  <1>4. SumFunction(F) = SumFunction(A) + SumFunction(B)
    <2>1. PICK R : R = V \ I
      OBVIOUS
    <2>2. /\ R \in SUBSET V /\ I \cap R = {} /\ I \cup R = V
          /\ B \in [R -> Int] /\ \A w \in R : B[w] = F[w]
      BY <2>1
    <2>3. Parted(F, V, A, I, B, R)
      BY <1>3, <2>2 DEF Parted
    <2> QED
      BY <2>3, SumOfParts
  <1>5. SumFunction(A) = SumFunction(S) + n * SumFunction(P)
    <2>1. S \in [I -> Int] /\ P \in [I -> Int] /\ n \in Int
      OBVIOUS
    <2>2. A \in [I -> Int] /\ \A w \in I : A[w] = S[w] + n * P[w]
      BY <1>3
    <2> HIDE DEF Walk
    <2> QED
      BY <1>1, <2>1, <2>2, SumOfMultiples
  <1>6. SumFunction(S) \in Int
    BY <1>1, SumIs
  <1>7. SumFunction(P) \in Int
    BY <1>1, SumIs
  <1>8. SumFunction(B) \in Int
    BY <1>1, SumIs
  <1>9. I = {} => SumFunction(P) = 0
    BY SumOfNothing
  <1> QED
    BY <1>4, <1>5, <1>6, <1>7, <1>8, <1>9

(* The chunk of one gep, in the iteration n of its loop. *)
LEMMA ChunkIsWalk ==
    ASSUME prog \in Programs, NEW g \in Values, VariableOffsets(g) \subseteq DOMAIN IVs,
           NEW outer \in [VariableOffsets(g) \ Inner(g) -> 0 .. MaxTrips], NEW n \in 0 .. MaxTrips
    PROVE  Start(g).c
             + SumFunction([w \in DOMAIN Start(g).t |-> Start(g).t[w] * outer[w]])
             + (IF Inner(g) = {} THEN 0 ELSE n * Step(g))
           = prog[g].c + SumFunction([w \in VariableOffsets(g) |->
                                         prog[g].t[w] * ValueIn(g, w, outer, n)])
  <1>1. PICK V : V = VariableOffsets(g)
    OBVIOUS
  <1>2. PICK I : I = Inner(g)
    OBVIOUS
  <1>3. V \subseteq Vars /\ V \subseteq DOMAIN IVs /\ I \in SUBSET V
    BY <1>1, <1>2 DEF VariableOffsets, Inner
  <1>4. prog[g].c \in Int /\ prog[g].t \in [Vars -> Int] /\ IsFiniteSet(Vars) /\ MaxTrips \in Nat
    BY ChunksAssumption DEF Values
  <1>5. IsFiniteSet(V)
    BY <1>3, <1>4, FS_Subset
  <1>6. PICK t : t = prog[g].t
    OBVIOUS
  <1>7. outer \in [V \ I -> 0 .. MaxTrips] /\ n \in Int
    BY <1>1, <1>2, <1>4
  <1>8. outer \in [V \ I -> Int]
    BY <1>4, <1>7
  <1>9. \A w \in I : t[w] \in Int /\ IVs[w].start \in Int /\ IVs[w].step \in Int
    BY <1>3, <1>4, <1>6, ChunksAssumption
  <1>10. PICK F : F = [w \in V |-> t[w] * ValueIn(g, w, outer, n)]
    OBVIOUS
  <1>11. PICK S : S = [w \in I |-> t[w] * IVs[w].start]
    OBVIOUS
  <1>12. PICK P : P = [w \in I |-> t[w] * IVs[w].step]
    OBVIOUS
  <1>13. PICK B : B = [w \in V \ I |-> t[w] * outer[w]]
    OBVIOUS
  <1>14. S \in [I -> Int]
    BY <1>9, <1>11
  <1>15. P \in [I -> Int]
    BY <1>9, <1>12
  <1>16. \A w \in V \ I : F[w] = B[w] /\ F[w] \in Int
    <2>1. SUFFICES ASSUME NEW w \in V \ I PROVE F[w] = B[w] /\ F[w] \in Int
      OBVIOUS
    <2>2. ValueIn(g, w, outer, n) = outer[w]
      BY <1>2, <2>1 DEF ValueIn
    <2>3. F[w] = t[w] * outer[w] /\ B[w] = t[w] * outer[w]
      BY <1>10, <1>13, <2>2
    <2>4. t[w] \in Int /\ outer[w] \in Int
      BY <1>3, <1>4, <1>6, <1>8
    <2> QED
      BY <2>3, <2>4
  <1>17. B \in [V \ I -> Int]
    BY <1>13, <1>16
  <1>18. \A w \in I : F[w] = S[w] + n * P[w] /\ F[w] \in Int
    <2>1. SUFFICES ASSUME NEW w \in I PROVE F[w] = S[w] + n * P[w] /\ F[w] \in Int
      OBVIOUS
    <2>2. PICK ts, ss, ps : ts = t[w] /\ ss = IVs[w].start /\ ps = IVs[w].step
      OBVIOUS
    <2>3. ts \in Int /\ ss \in Int /\ ps \in Int
      BY <1>9, <2>2
    <2>4. ValueIn(g, w, outer, n) = ss + n * ps
      BY <1>2, <2>1, <2>2 DEF ValueIn
    <2>5. F[w] = ts * (ss + n * ps) /\ S[w] = ts * ss /\ P[w] = ts * ps
      BY <1>3, <1>10, <1>11, <1>12, <2>2, <2>4
    <2>6. ts * (ss + n * ps) = ts * ss + n * (ts * ps)
      BY <1>7, <2>3, TimesStep
    <2>7. ts * (ss + n * ps) \in Int
      BY <1>7, <2>3
    <2> QED
      BY <2>5, <2>6, <2>7
  <1>19. F \in [V -> Int]
    BY <1>10, <1>16, <1>18
  <1>20. Walk(V, I, F, S, P, B, n)
    BY <1>3, <1>5, <1>7, <1>14, <1>15, <1>16, <1>17, <1>18, <1>19 DEF Walk
  <1>21. PICK a, b, c, f :
           a = SumFunction(S) /\ b = SumFunction(P) /\ c = SumFunction(B) /\ f = SumFunction(F)
    OBVIOUS
  <1>22. /\ f = a + n * b + c
         /\ a \in Int /\ b \in Int /\ c \in Int
         /\ I = {} => b = 0
    BY <1>20, <1>21, WalkIsSum
  <1>23. Start(g).c = prog[g].c + a /\ Step(g) = b
    BY <1>2, <1>6, <1>11, <1>12, <1>21, Zenon DEF Start, Step
  <1>24. SumFunction([w \in DOMAIN Start(g).t |-> Start(g).t[w] * outer[w]]) = c
    <2>1. PICK s : s = Start(g).t
      OBVIOUS
    <2>2. s = [w \in V \ I |-> t[w]]
      BY <1>1, <1>2, <1>6, <2>1 DEF Start
    <2>3. [w \in DOMAIN s |-> s[w] * outer[w]] = B
      BY <1>13, <2>2
    <2> QED
      BY <1>21, <2>1, <2>3
  <1>25. SumFunction([w \in VariableOffsets(g) |-> prog[g].t[w] * ValueIn(g, w, outer, n)]) = f
    BY <1>1, <1>6, <1>10, <1>21, Zenon
  <1>26. (IF Inner(g) = {} THEN 0 ELSE n * Step(g)) = n * b
    BY <1>2, <1>7, <1>22, <1>23
  <1>27. PICK q \in Int : q = n * b
    BY <1>7, <1>22
  <1>28. (prog[g].c + a) + c + q = prog[g].c + (a + q + c)
    <2>1. prog[g].c \in Int /\ a \in Int /\ c \in Int /\ q \in Int
      BY <1>4, <1>22, <1>27
    <2> QED
      BY <2>1
  <1> QED
    BY <1>22, <1>23, <1>24, <1>25, <1>26, <1>27, <1>28

(* ChunksFollowGep: in every iteration of every chunked loop the start and *)
(* the step that carm_loop_checks hands to the run time lead to where the  *)
(* gep it replaces points, whatever the outer loops are at.                *)
THEOREM ChunkWalksAreGeps == Spec => []ChunksFollowGep
  <1>1. ProgInv /\ PassesInv => ChunksFollowGep
    <2>1. SUFFICES ASSUME ProgInv, PassesInv, pass = "chunk", NEW g \in DOMAIN chunks,
                          NEW outer \in [VariableOffsets(g) \ Inner(g) -> 0 .. MaxTrips],
                          NEW n \in 0 .. MaxTrips
                   PROVE  chunks[g].start.c
                            + SumFunction([w \in DOMAIN chunks[g].start.t |-> chunks[g].start.t[w] * outer[w]])
                            + (IF chunks[g].const THEN 0 ELSE n * chunks[g].step)
                          = prog[g].c + SumFunction([w \in VariableOffsets(g) |->
                                                        prog[g].t[w] * ValueIn(g, w, outer, n)])
      BY DEF ChunksFollowGep
    <2>2. g \in Values /\ prog \in Programs
      BY <2>1 DEF ProgInv, PassesInv, TypeOK
    <2>3. Instrumented(g) /\ chunks[g] = Chunk(g)
      BY <2>1 DEF PassesInv, ChunkInv
    <2>4. VariableOffsets(g) \subseteq DOMAIN IVs
      BY <2>3 DEF Instrumented, induction_variables
    <2>5. chunks[g].start = Start(g) /\ chunks[g].step = Step(g) /\ chunks[g].const = (Inner(g) = {})
      BY <2>3 DEF Chunk
    <2>6. Start(g).c
            + SumFunction([w \in DOMAIN Start(g).t |-> Start(g).t[w] * outer[w]])
            + (IF Inner(g) = {} THEN 0 ELSE n * Step(g))
          = prog[g].c + SumFunction([w \in VariableOffsets(g) |->
                                        prog[g].t[w] * ValueIn(g, w, outer, n)])
      BY <2>2, <2>4, ChunkIsWalk
    <2> QED
      BY <2>5, <2>6
  <1> QED
    BY <1>1, PassesInductive, PTL

-----------------------------------------------------------------------------
(* What a pointer may be *)

(* A computation in rounds. *)
LEMMA Rounds ==
    ASSUME NEW N \in Nat, NEW V, NEW base \in V, NEW Next1 \in [V -> V]
    PROVE  \E f \in [0 .. N -> V] : f = [n \in 0 .. N |-> IF n = 0 THEN base ELSE Next1[f[n - 1]]]
  <1>1. PICK D : D = 0 .. N
    OBVIOUS
  <1>2. PICK mu : mu = [n \in D |-> n]
    OBVIOUS
  <1>3. mu \in [D -> Nat] /\ \A n \in D : mu[n] = n /\ mu[n] < N + 1
    BY <1>1, <1>2
  <1>4. PICK E : E = [g \in [D -> V] |-> [n \in D |-> IF n = 0 THEN base ELSE Next1[g[n - 1]]]]
    OBVIOUS
  <1>5. \A n \in D : n # 0 => n - 1 \in D /\ n - 1 < n
    BY <1>1
  <1>6. E \in [[D -> V] -> [D -> V]]
    <2>1. SUFFICES ASSUME NEW g \in [D -> V], NEW n \in D
                   PROVE  (IF n = 0 THEN base ELSE Next1[g[n - 1]]) \in V
      BY <1>4
    <2> QED
      BY <1>5
  <1>7. ASSUME NEW g \in [D -> V], NEW h \in [D -> V], NEW n \in D,
               \A e \in D : mu[e] < mu[n] => g[e] = h[e]
        PROVE  E[g][n] = E[h][n]
    <2>1. n # 0 => g[n - 1] = h[n - 1]
      BY <1>3, <1>5, <1>7
    <2>2. /\ E[g] = [m \in D |-> IF m = 0 THEN base ELSE Next1[g[m - 1]]]
          /\ E[h] = [m \in D |-> IF m = 0 THEN base ELSE Next1[h[m - 1]]]
      BY <1>4
    <2>3. /\ E[g][n] = IF n = 0 THEN base ELSE Next1[g[n - 1]]
          /\ E[h][n] = IF n = 0 THEN base ELSE Next1[h[n - 1]]
      BY <2>2
    <2> QED
      BY <2>1, <2>3
  <1>8. Local(D, V, mu, E)
    BY <1>6, <1>7 DEF Local
  <1>9. PICK bound \in Nat : \A n \in D : mu[n] < bound
    BY <1>3
  <1>10. \E g \in [D -> V] : g = E[g]
    BY <1>3, <1>8, <1>9, Recursion
  <1> QED
    BY <1>1, <1>4, <1>10

(* What a round of Kinds takes a value for is right: a far pointer does    *)
(* not lead back to the stack and is no element of a transformed loop, a   *)
(* local pointer belongs to the loop of its gep and is used in it, and     *)
(* none is kept too long.                                                  *)
RightKind(v, k) ==
    /\ k \in Values \cup {Stack, Far}
    /\ k = Far => Root(v) \notin Allocas /\ Uncast[v] \notin transformed
    /\ k \in Values => k \in transformed /\ Uncast[v] = k /\ prog[k].lvl <= prog[v].lvl

RightPairs == {r \in Values \X (Values \cup {Stack, Far}) : RightKind(r[1], r[2])}

Round(R) == UNION {{v} \X KindsStep(R, v) : v \in Values}

(* The kinds of the model are no values. *)
LEMMA KindsDiffer ==
    ASSUME ProgInv
    PROVE  Stack \notin Values /\ Far \notin Values /\ Stray \notin Values
           /\ Stack # Far /\ Far # Stray /\ Stack # Stray
  BY ValuesAre DEF Stack, Far, Stray

(* The geps of transformed loops walk over objects. *)
LEMMA TransformedWalk ==
    ASSUME ProgInv, PassesInv, NEW g \in transformed
    PROVE  /\ g \in Values /\ g \in DOMAIN chunks /\ IsOp(g, {"gep"})
           /\ Walked(g) /\ Uncast[g] = g /\ chunks[g] = Chunk(g)
  <1>1. g \in DOMAIN chunks /\ g \in Values
    BY DEF PassesInv, TypeOK
  <1>2. IsOp(g, {"gep"}) /\ prog[g].lvl > 0 /\ Instrumented(g) /\ chunks[g] = Chunk(g)
    BY <1>1 DEF PassesInv, ChunkInv
  <1>3. ~IsOp(g, {"cast"})
    BY <1>2 DEF IsOp
  <1> QED
    BY <1>1, <1>2, <1>3, UncastEnds DEF Walked, Instrumented

(* An operand of a gep, a phi or a call through a pointer is no element of *)
(* a transformed loop, and so no local pointer.                            *)
LEMMA NoWalkedOperand ==
    ASSUME ProgInv, PassesInv, Supported, NEW v \in Values, IsOp(v, {"gep", "phi", "icall"}),
           NEW n \in DOMAIN prog[v].a, NEW k, RightKind(prog[v].a[n], k)
    PROVE  k \in {Stack, Far}
  <1>1. ~Walked(Uncast[prog[v].a[n]])
    BY DEF Supported
  <1>2. k \notin Values
    BY <1>1, TransformedWalk DEF RightKind
  <1> QED
    BY <1>2 DEF RightKind

(* What a round finds is right if the rounds before were. *)
LEMMA KindsStepRight ==
    ASSUME ProgInv, PassesInv, Supported, NEW R \in SUBSET RightPairs,
           NEW v \in Values, NEW k \in KindsStep(R, v)
    PROVE  RightKind(v, k)
  <1>1. ASSUME NEW u, NEW x \in KindsIn(R, u) PROVE RightKind(u, x)
    BY <1>1 DEF KindsIn, RightPairs
  <1>2. /\ Stack \notin Values /\ Far \notin Values /\ Stray \notin Values
        /\ Stack # Far /\ Far # Stray /\ Stack # Stray
    BY KindsDiffer
  <1>3. CASE IsOp(v, {"alloca"})
    <2>1. k = Stack
      BY <1>3 DEF KindsStep, IsOp
    <2> QED
      BY <1>2, <2>1 DEF RightKind
  <1>4. CASE IsOp(v, {"ptr"})
    <2>1. k = Far
      BY <1>4 DEF KindsStep, IsOp
    <2>2. ~IsOp(v, {"cast"}) /\ ~IsOp(v, {"gep", "cast", "phi"}) /\ ~IsOp(v, {"gep"}) /\ v \notin Allocas
      BY <1>4 DEF IsOp, Allocas
    <2>3. StepBack(v) = v /\ Uncast[v] = v
      BY <2>2, StepBackIs, UncastEnds
    <2>4. Root(v) = v
      BY <2>3, BackBegins, UngepIs DEF Root
    <2>5. v \notin transformed
      BY <2>2, TransformedWalk
    <2> QED
      BY <1>2, <2>1, <2>2, <2>3, <2>4, <2>5 DEF RightKind
  <1>5. CASE IsOp(v, {"gep"})
    <2>1. ~IsOp(v, {"cast"}) /\ IsOp(v, {"gep", "phi", "icall"}) /\ IsOp(v, {"gep", "cast"})
          /\ IsOp(v, {"gep", "cast", "phi", "load", "store"})
      BY <1>5 DEF IsOp
    <2>2. Uncast[v] = v /\ Root(v) = Root(Operand(v)) /\ Operand(v) \in Values
      BY <2>1, UncastEnds, RootsAgree, ValuesAre
    <2>3. \A x \in KindsIn(R, Operand(v)) : x \in {Stack, Far}
      BY <1>1, <2>1, NoWalkedOperand, ValuesAre DEF Operand
    <2>4. CASE v \in transformed
      <3>1. k \in {v} \cup {IF x \in {Stack, Far} THEN v ELSE Stray : x \in KindsIn(R, Operand(v))}
        BY <1>5, <2>4 DEF KindsStep, IsOp
      <3>2. k = v
        BY <2>3, <3>1
      <3>3. prog[v].lvl <= prog[v].lvl
        BY ValuesAre
      <3> QED
        BY <1>2, <2>2, <2>4, <3>2, <3>3 DEF RightKind
    <2>5. CASE v \notin transformed
      <3>1. k \in {IF x \in Values /\ VariableOffsets(v) # {} THEN Stray ELSE x : x \in KindsIn(R, Operand(v))}
        BY <1>5, <2>5 DEF KindsStep, IsOp
      <3>2. k \in KindsIn(R, Operand(v)) /\ k \in {Stack, Far}
        BY <1>2, <2>3, <3>1
      <3>3. RightKind(Operand(v), k)
        BY <1>1, <3>2
      <3> QED
        BY <1>2, <2>2, <2>5, <3>2, <3>3 DEF RightKind
    <2> QED
      BY <2>4, <2>5
  <1>6. CASE IsOp(v, {"cast"})
    <2>1. k \in KindsIn(R, Operand(v))
      BY <1>6 DEF KindsStep, IsOp
    <2>2. RightKind(Operand(v), k)
      BY <1>1, <2>1
    <2>3. IsOp(v, {"gep", "cast"}) /\ IsOp(v, {"gep", "cast", "phi", "load", "store"}) /\ ~IsOp(v, {"phi"})
      BY <1>6 DEF IsOp
    <2>4. Uncast[v] = Uncast[Operand(v)] /\ Root(v) = Root(Operand(v))
      BY <1>6, <2>3, UncastEnds, RootsAgree
    <2>5. prog[Operand(v)].lvl <= prog[v].lvl /\ Operand(v) \in Values
      BY <2>3, ValuesAre DEF Operand
    <2>6. k \in Values => prog[k].lvl <= prog[v].lvl
      BY <2>2, <2>5, ValuesAre DEF RightKind
    <2> QED
      BY <2>2, <2>4, <2>6 DEF RightKind
  <1>7. CASE IsOp(v, {"phi"})
    <2>1. k \in UNION {Kept(v, prog[v].a[n], KindsIn(R, prog[v].a[n])) : n \in DOMAIN prog[v].a}
      BY <1>7 DEF KindsStep, IsOp
    <2>2. PICK n \in DOMAIN prog[v].a : k \in Kept(v, prog[v].a[n], KindsIn(R, prog[v].a[n]))
      BY <2>1
    <2>3. ~IsOp(v, {"cast"}) /\ IsOp(v, {"gep", "phi", "icall"}) /\ ~IsOp(v, {"gep"})
      BY <1>7 DEF IsOp
    <2>4. \A x \in KindsIn(R, prog[v].a[n]) : x \in {Stack, Far}
      BY <1>1, <2>3, NoWalkedOperand
    <2>5. k \in KindsIn(R, prog[v].a[n]) /\ k \in {Stack, Far}
      BY <1>2, <2>2, <2>4 DEF Kept
    <2>6. RightKind(prog[v].a[n], k)
      BY <1>1, <2>5
    <2>7. Uncast[v] = v /\ v \notin transformed
      BY <2>3, UncastEnds, TransformedWalk
    <2>8. Root(v) \in Allocas => Root(prog[v].a[n]) \in Allocas
      BY <1>7 DEF Supported
    <2> QED
      BY <1>2, <2>5, <2>6, <2>7, <2>8 DEF RightKind
  <1>8. CASE ~IsOp(v, {"alloca"}) /\ ~IsOp(v, {"ptr"}) /\ ~IsOp(v, {"gep"})
             /\ ~IsOp(v, {"cast"}) /\ ~IsOp(v, {"phi"})
    <2>1. KindsStep(R, v) = {}
      BY <1>8 DEF KindsStep
    <2> QED
      BY <2>1
  <1> QED
    BY <1>3, <1>4, <1>5, <1>6, <1>7, <1>8

(* Every round keeps to what is right. *)
LEMMA RoundRight ==
    ASSUME ProgInv, PassesInv, Supported, NEW R \in SUBSET RightPairs
    PROVE  Round(R) \in SUBSET RightPairs
  <1>1. SUFFICES ASSUME NEW v \in Values, NEW k \in KindsStep(R, v) PROVE <<v, k>> \in RightPairs
    BY DEF Round
  <1>2. RightKind(v, k)
    BY KindsStepRight
  <1>3. k \in Values \cup {Stack, Far}
    BY <1>2 DEF RightKind
  <1> QED
    BY <1>2, <1>3 DEF RightPairs

(* What Kinds says a pointer may be is right. *)
LEMMA KindsRight ==
    ASSUME ProgInv, PassesInv, Supported
    PROVE  Kinds \in SUBSET RightPairs
  <1>1. PICK N : N = Cardinality(Values)
    OBVIOUS
  <1>2. N \in Nat
    BY <1>1, ValuesFinite, FS_CardinalityType
  <1>3. PICK V : V = SUBSET RightPairs
    OBVIOUS
  <1>4. PICK step : step = [R \in V |-> Round(R)]
    OBVIOUS
  <1>5. step \in [V -> V] /\ {} \in V
    BY <1>3, <1>4, RoundRight
  <1> DEFINE Body(f) == [n \in 0 .. N |-> IF n = 0 THEN {} ELSE Round(f[n - 1])]
  <1>6. \E f : f = Body(f)
    <2>1. PICK f \in [0 .. N -> V] : f = [n \in 0 .. N |-> IF n = 0 THEN {} ELSE step[f[n - 1]]]
      <3>1. PICK none : none = {}
        OBVIOUS
      <3>2. none \in V /\ step \in [V -> V]
        BY <1>5, <3>1
      <3>3. \E f \in [0 .. N -> V] : f = [n \in 0 .. N |-> IF n = 0 THEN none ELSE step[f[n - 1]]]
        BY <1>2, <3>2, Rounds
      <3> QED
        BY <3>1, <3>3
    <2>2. \A n \in 0 .. N : n # 0 => step[f[n - 1]] = Round(f[n - 1])
      <3>1. SUFFICES ASSUME NEW n \in 0 .. N, n # 0 PROVE step[f[n - 1]] = Round(f[n - 1])
        OBVIOUS
      <3>2. n - 1 \in 0 .. N
        BY <1>2, <3>1
      <3>3. f[n - 1] \in V
        BY <3>2
      <3> QED
        BY <1>4, <3>3
    <2>3. [n \in 0 .. N |-> IF n = 0 THEN {} ELSE step[f[n - 1]]] = Body(f)
      BY <2>2
    <2> QED
      BY <2>1, <2>3
  <1>7. PICK f : f = CHOOSE g : g = Body(g)
    OBVIOUS
  <1>8. f = Body(f)
    BY <1>6, <1>7, Zenon
  <1>9. Kinds = f[N]
    BY <1>1, <1>7, Zenon DEF Kinds, Round
  <1>10. \A n \in 0 .. N : f[n] = IF n = 0 THEN {} ELSE Round(f[n - 1])
    BY <1>8
  <1> DEFINE Wrong == {n \in 0 .. N : f[n] \notin SUBSET RightPairs}
  <1>11. Wrong = {}
    <2>1. SUFFICES ASSUME Wrong # {} PROVE FALSE
      OBVIOUS
    <2>2. Wrong \in SUBSET Nat
      BY <1>2
    <2>3. PICK n \in Wrong : \A k \in Wrong : n <= k
      BY <2>1, <2>2, Least
    <2>4. n # 0
      BY <1>10, <2>3
    <2>5. n - 1 \in 0 .. N /\ n - 1 < n
      BY <1>2, <2>3, <2>4
    <2>6. f[n - 1] \in SUBSET RightPairs
      BY <1>2, <2>3, <2>5
    <2>7. Round(f[n - 1]) \in SUBSET RightPairs
      BY <2>6, RoundRight
    <2>8. f[n] = Round(f[n - 1])
      BY <1>10, <2>3, <2>4
    <2> QED
      BY <2>3, <2>7, <2>8
  <1> QED
    BY <1>2, <1>9, <1>11

(* The pair of an access' operand and what it may be. *)
LEMMA KindOfOperand ==
    ASSUME ProgInv, PassesInv, Supported, NEW r \in Kinds
    PROVE  RightKind(r[1], r[2])
  BY KindsRight DEF RightPairs

(* Supported programs stay so. *)
LEMMA SupportedStays ==
    ASSUME Supported, prog' = prog
    PROVE  Supported'
  <1>1. Values' = Values /\ Allocas' = Allocas /\ Uncast' = Uncast
    BY SameChecks
  <1>2. ASSUME NEW v, NEW n PROVE Root(prog[v].a[n])' = Root(prog[v].a[n])
    <2>1. uncast_ungep(prog[v].a[n])' = uncast_ungep(prog[v].a[n])
      BY DEF uncast_ungep, Values, IsOp, Operand, StepBack
    <2> QED
      BY <1>1, <2>1 DEF Root
  <1>3. ASSUME NEW v, NEW n PROVE Walked(Uncast[prog[v].a[n]])' = Walked(Uncast[prog[v].a[n]])
    BY <1>1 DEF Walked, VariableOffsets, IsOp
  <1>4. \A v : Root(v)' = Root(v)
    BY SameChecks
  <1>5. ASSUME NEW v \in Values, NEW n \in DOMAIN prog[v].a
        PROVE  /\ (IsOp(v, {"phi"}) /\ Root(v) \in Allocas => Root(prog[v].a[n]) \in Allocas)'
               /\ (IsOp(v, {"gep", "phi", "icall"}) => ~Walked(Uncast[prog[v].a[n]]))'
    <2>1. IsOp(v, {"phi"}) /\ Root(v) \in Allocas => Root(prog[v].a[n]) \in Allocas
      BY DEF Supported
    <2>2. IsOp(v, {"gep", "phi", "icall"}) => ~Walked(Uncast[prog[v].a[n]])
      BY DEF Supported
    <2>3. IsOp(v, {"phi"})' = IsOp(v, {"phi"}) /\ IsOp(v, {"gep", "phi", "icall"})' = IsOp(v, {"gep", "phi", "icall"})
      BY DEF IsOp
    <2> QED
      BY <1>1, <1>2, <1>3, <1>4, <2>1, <2>2, <2>3
  <1> QED
    BY <1>1, <1>5 DEF Supported

(* Every step leaves the function alone. *)
LEMMA ProgStays ==
    ASSUME [Next]_vars PROVE prog' = prog
  BY DEF Next, vars, ChecksNext, InsertChecks, SweepCheck, SweepAgain, LoopChecks, ProfileChecks,
         SelectFrom, TransformLoop, LoopsDone, Guards

(* A supported function stays so in all of its runs. *)
LEMMA SupportedAlways == SupportedSpec => [](ProgInv /\ PassesInv /\ Supported)
  <1>1. Supported /\ [Next]_vars => Supported'
    BY ProgStays, SupportedStays
  <1>2. SupportedSpec => []Supported
    BY <1>1, PTL DEF SupportedSpec, SupportedInit
  <1>3. SupportedSpec => Spec
    BY DEF SupportedSpec, SupportedInit, Spec
  <1> QED
    BY <1>2, <1>3, PassesInductive, PTL

(* ProtectedAccesses: behind the last pass of a supported function no load *)
(* or store uses a far pointer without a guard, or a local pointer where   *)
(* nobody holds the object it points into.                                 *)
THEOREM AccessesAreProtected == SupportedSpec => []ProtectedAccesses
  <1>1. ProgInv /\ PassesInv /\ Supported => ProtectedAccesses
    <2>1. SUFFICES ASSUME ProgInv, PassesInv, Supported, pass = "end",
                          NEW r \in Kinds, NEW v \in Accesses, r[1] = Operand(v)
                   PROVE  \/ r[2] = Stack
                          \/ r[2] = Far /\ v \in DOMAIN guards
                          \/ r[2] \in Values /\ prog[v].lvl >= prog[r[2]].lvl
      BY DEF ProtectedAccesses
    <2>2. RightKind(Operand(v), r[2])
      BY <2>1, KindOfOperand
    <2>3. guards = [u \in LeftChecks |-> GuardKind(u)]
      BY <2>1 DEF PassesInv, LeftInv
    <2>4. CASE r[2] = Far
      <3>1. Root(Operand(v)) \notin Allocas /\ Uncast[Operand(v)] \notin transformed
        BY <2>2, <2>4 DEF RightKind
      <3>2. v \in LeftChecks
        BY <3>1 DEF LeftChecks, FarChecks, return_gep
      <3> QED
        BY <2>3, <2>4, <3>2
    <2>5. CASE r[2] \in Values
      <3>1. prog[r[2]].lvl <= prog[Operand(v)].lvl /\ prog[Operand(v)].lvl <= prog[v].lvl
        BY <2>1, <2>2, <2>5, AccessOperand DEF RightKind
      <3>2. prog[r[2]].lvl \in Nat /\ prog[Operand(v)].lvl \in Nat /\ prog[v].lvl \in Nat
        BY <2>1, <2>5, AccessOperand, ValuesAre
      <3> QED
        BY <2>5, <3>1, <3>2
    <2> QED
      BY <2>2, <2>4, <2>5 DEF RightKind
  <1> QED
    BY <1>1, SupportedAlways, PTL

(* The values a gep is looked for behind one more cast. *)
Mutates(g, M) ==
    {v \in Values : \E u \in Users(v) :
        \/ IsOp(u, {"store", "call"})
        \/ IsOp(u, {"gep"}) /\ v # g
        \/ IsOp(u, {"cast"}) /\ u \in M}

(* is_mutable is what its recursion says. *)
LEMMA MutableIs ==
    ASSUME NEW g
    PROVE  \E f : /\ f = [d \in 0 .. depth |-> IF d = 0 THEN Values ELSE Mutates(g, f[d - 1])]
                  /\ is_mutable(g) = (g \in f[depth])
  <1>1. depth \in Nat
    BY ChunksAssumption
  <1>2. PICK V : V = SUBSET Values
    OBVIOUS
  <1>3. PICK step : step = [M \in V |-> Mutates(g, M)]
    OBVIOUS
  <1>4. step \in [V -> V] /\ Values \in V
    BY <1>2, <1>3 DEF Mutates
  <1> DEFINE Body(f) == [d \in 0 .. depth |-> IF d = 0 THEN Values ELSE Mutates(g, f[d - 1])]
  <1>5. \E f : f = Body(f)
    <2>1. PICK f \in [0 .. depth -> V] : f = [d \in 0 .. depth |-> IF d = 0 THEN Values ELSE step[f[d - 1]]]
      BY <1>1, <1>4, Rounds, SMTT(30)
    <2>2. \A d \in 0 .. depth : d # 0 => step[f[d - 1]] = Mutates(g, f[d - 1])
      <3>1. SUFFICES ASSUME NEW d \in 0 .. depth, d # 0 PROVE step[f[d - 1]] = Mutates(g, f[d - 1])
        OBVIOUS
      <3>2. d - 1 \in 0 .. depth
        BY <1>1, <3>1
      <3>3. f[d - 1] \in V
        BY <3>2
      <3> QED
        BY <1>3, <3>3
    <2>3. [d \in 0 .. depth |-> IF d = 0 THEN Values ELSE step[f[d - 1]]] = Body(f)
      BY <2>2
    <2> QED
      BY <2>1, <2>3
  <1>6. PICK f : f = CHOOSE h : h = Body(h)
    OBVIOUS
  <1>7. f = Body(f)
    BY <1>5, <1>6, Zenon
  <1>8. is_mutable(g) = (g \in f[depth])
    BY <1>6, Zenon DEF is_mutable, Mutates
  <1> QED
    BY <1>7, <1>8

(* is_mutable finds every store through the gep and every function it is   *)
(* passed to, and behind casts of it: what it looks at, at any depth,      *)
(* holds the operands of stores and calls and, with a cast, its operand.   *)
LEMMA StoreMakesMutable ==
    ASSUME ProgInv, NEW v \in Values, IsOp(v, {"store", "call"}), NEW i \in DOMAIN prog[v].a
    PROVE  is_mutable(Uncast[prog[v].a[i]])
  <1> DEFINE o == prog[v].a[i]
  <1>1. PICK g : g = Uncast[o]
    OBVIOUS
  <1>2. PICK f : /\ f = [d \in 0 .. depth |-> IF d = 0 THEN Values ELSE Mutates(g, f[d - 1])]
                 /\ is_mutable(g) = (g \in f[depth])
    BY MutableIs
  <1>3. depth \in Nat /\ \A d \in 0 .. depth : f[d] = IF d = 0 THEN Values ELSE Mutates(g, f[d - 1])
    BY <1>2, ChunksAssumption
  <1> DEFINE Found(x) == \A d \in 0 .. depth : x \in f[d]
  <1>4. ASSUME NEW x \in Values, NEW u \in Users(x), IsOp(u, {"store", "call"}) \/ (IsOp(u, {"cast"}) /\ Found(u))
        PROVE  Found(x)
    <2>1. SUFFICES ASSUME NEW d \in 0 .. depth PROVE x \in f[d]
      OBVIOUS
    <2>2. CASE d = 0
      BY <1>3, <2>2
    <2>3. CASE d # 0
      <3>1. d - 1 \in 0 .. depth
        BY <1>3, <2>3
      <3>2. IsOp(u, {"store", "call"}) \/ (IsOp(u, {"cast"}) /\ u \in f[d - 1])
        BY <1>4, <3>1 DEF IsOp
      <3>3. x \in Mutates(g, f[d - 1])
        BY <3>2 DEF Mutates
      <3> QED
        BY <1>3, <2>3, <3>3
    <2> QED
      BY <2>2, <2>3
  <1>5. ASSUME NEW u \in Values, IsOp(u, {"cast"})
        PROVE  Operand(u) \in Values /\ u \in Users(Operand(u))
    <2>1. IsOp(u, {"gep", "cast", "phi", "load", "store"})
      BY <1>5 DEF IsOp
    <2> QED
      BY <2>1, ValuesAre DEF Users, Operand
  <1>6. o \in Values /\ Found(o)
    <2>1. o \in Values /\ v \in Users(o)
      BY ValuesAre DEF Users
    <2> QED
      BY <1>4, <2>1
  <1> DEFINE Wrong == {x \in Values : Found(x) /\ ~Found(Uncast[x])}
  <1>7. Wrong = {}
    <2>1. SUFFICES ASSUME Wrong # {} PROVE FALSE
      OBVIOUS
    <2>2. Wrong \in SUBSET Nat
      BY ValuesAre
    <2>3. PICK x \in Wrong : \A k \in Wrong : x <= k
      BY <2>1, <2>2, Least
    <2>4. IsOp(x, {"cast"})
      BY <2>3, UncastEnds DEF IsOp
    <2>5. Operand(x) \in Values /\ Found(Operand(x))
      BY <1>4, <1>5, <2>3, <2>4
    <2>6. Uncast[Operand(x)] = Uncast[x]
      BY <2>3, <2>4, UncastEnds
    <2>7. Operand(x) < x /\ x \in Nat /\ Operand(x) \in Nat
      BY <2>3, <2>4, <2>5, ValuesAre DEF IsOp
    <2>8. Operand(x) \in Wrong
      BY <2>3, <2>5, <2>6
    <2> QED
      BY <2>3, <2>7, <2>8
  <1>8. Found(g)
    BY <1>1, <1>6, <1>7
  <1>9. depth \in 0 .. depth
    BY <1>3
  <1> QED
    BY <1>1, <1>2, <1>8, <1>9

(* StoresMarkDirty: behind the last pass of a supported function the guard *)
(* of a store dereferences for writing, and a chunk that is stored through *)
(* or passed to a function is fetched for writing.                         *)
THEOREM StoresAreMarked == SupportedSpec => []StoresMarkDirty
  <1>1. ProgInv /\ PassesInv /\ Supported => StoresMarkDirty
    <2>1. SUFFICES ASSUME ProgInv, PassesInv, Supported, pass = "end"
                   PROVE  StoresMarkDirty
      BY DEF StoresMarkDirty
    <2>2. guards = [u \in LeftChecks |-> GuardKind(u)]
      BY <2>1 DEF PassesInv, LeftInv
    <2>3. \A v \in DOMAIN guards : IsOp(v, {"store"}) => guards[v] = "write"
      BY <2>1, <2>2 DEF GuardKind, IsOp
    <2>4. ASSUME NEW v \in Values, IsOp(v, {"store", "call", "icall"}), NEW n \in DOMAIN prog[v].a,
                 NEW r \in Kinds, r[1] = prog[v].a[n], r[2] \in Values
          PROVE  chunks[r[2]].mut
      <3>1. RightKind(prog[v].a[n], r[2])
        BY <2>1, <2>4, KindOfOperand
      <3>2. r[2] \in transformed /\ Uncast[prog[v].a[n]] = r[2]
        BY <2>4, <3>1 DEF RightKind
      <3>3. chunks[r[2]] = Chunk(r[2])
        BY <2>1, <3>2, TransformedWalk
      <3>4. ~IsOp(v, {"icall"})
        <4>1. Walked(Uncast[prog[v].a[n]])
          BY <2>1, <3>2, TransformedWalk
        <4> QED
          BY <2>1, <2>4, <4>1 DEF Supported, IsOp
      <3>5. IsOp(v, {"store", "call"})
        BY <2>4, <3>4 DEF IsOp
      <3>6. is_mutable(r[2])
        BY <2>1, <2>4, <3>2, <3>5, StoreMakesMutable
      <3> QED
        BY <3>3, <3>6 DEF Chunk
    <2> QED
      BY <2>1, <2>3, <2>4 DEF StoresMarkDirty
  <1> QED
    BY <1>1, SupportedAlways, PTL
=============================================================================
