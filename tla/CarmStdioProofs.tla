-------------------------- MODULE CarmStdioProofs ---------------------------
(***************************************************************************)
(* Proofs about CarmStdio, for every size of the objects, every file and   *)
(* every format: a stream moves the bytes one call of libc does, a print   *)
(* of the supported kind leaves its text, neither writes farther than      *)
(* StdioWithinReach says, and the calls of CarmLibc agree with the C       *)
(* library when all of them are mixed.                                     *)
(***************************************************************************)
EXTENDS CarmStdio, CarmLibcProofs, SequenceTheorems, FiniteSetTheorems

-----------------------------------------------------------------------------
(* Sequences *)

(* The first n members of a sequence and the rest behind them. *)
LEMMA TakeIs ==
    ASSUME NEW S, NEW s \in Seq(S), NEW n \in Nat
    PROVE  /\ Len(s) \in Nat
           /\ Take(s, n) \in Seq(S)
           /\ Len(Take(s, n)) = Smaller(n, Len(s))
           /\ \A i \in 1 .. Len(Take(s, n)) : Take(s, n)[i] = s[i]
  <1>1. Len(s) \in Nat /\ \A i \in 1 .. Len(s) : s[i] \in S
    BY LenProperties, ElementOfSeq
  <1>2. PICK k : k = Smaller(n, Len(s))
    OBVIOUS
  <1>3. k \in Nat /\ k <= Len(s)
    BY <1>1, <1>2 DEF Smaller
  <1>4. \A i \in 1 .. k : s[i] \in S
    BY <1>1, <1>3
  <1>5. /\ SubSeq(s, 1, k) \in Seq(S)
        /\ Len(SubSeq(s, 1, k)) = IF 1 <= k THEN k - 1 + 1 ELSE 0
        /\ \A i \in 1 .. k - 1 + 1 : SubSeq(s, 1, k)[i] = s[1 + i - 1]
    BY <1>3, <1>4, SubSeqProperties
  <1>6. Len(SubSeq(s, 1, k)) = k
    BY <1>3, <1>5
  <1>7. \A i \in 1 .. k : SubSeq(s, 1, k)[i] = s[i]
    BY <1>3, <1>5
  <1> QED
    BY <1>1, <1>2, <1>5, <1>6, <1>7 DEF Take

(* What is left of a sequence without its first n elements. *)
LEMMA DropIs ==
    ASSUME NEW S, NEW s \in Seq(S), NEW n \in Nat, n <= Len(s)
    PROVE  /\ Drop(s, n) \in Seq(S)
           /\ Len(Drop(s, n)) = Len(s) - n
           /\ \A i \in 1 .. Len(s) - n : Drop(s, n)[i] = s[n + i]
  <1>1. Len(s) \in Nat /\ \A i \in 1 .. Len(s) : s[i] \in S
    BY LenProperties, ElementOfSeq
  <1>2. PICK l : l = Len(s)
    OBVIOUS
  <1>3. \A i \in n + 1 .. l : s[i] \in S
    BY <1>1, <1>2
  <1>4. /\ SubSeq(s, n + 1, l) \in Seq(S)
        /\ Len(SubSeq(s, n + 1, l)) = IF n + 1 <= l THEN l - (n + 1) + 1 ELSE 0
        /\ \A i \in 1 .. l - (n + 1) + 1 : SubSeq(s, n + 1, l)[i] = s[n + 1 + i - 1]
    BY <1>1, <1>2, <1>3, SubSeqProperties
  <1>5. Len(SubSeq(s, n + 1, l)) = l - n
    BY <1>1, <1>2, <1>4
  <1>6. \A i \in 1 .. l - n : SubSeq(s, n + 1, l)[i] = s[n + i]
    BY <1>1, <1>2, <1>4
  <1> QED
    BY <1>2, <1>4, <1>5, <1>6 DEF Drop

(* What is taken of two sequences behind each other is the first. *)
LEMMA TakeFront ==
    ASSUME NEW S, NEW a \in Seq(S), NEW b \in Seq(S)
    PROVE  Take(a \o b, Len(a)) = a
  <1>1. PICK s : s = a \o b
    OBVIOUS
  <1>2. /\ s \in Seq(S) /\ Len(s) = Len(a) + Len(b)
        /\ \A i \in 1 .. Len(a) + Len(b) : s[i] = IF i <= Len(a) THEN a[i] ELSE b[i - Len(a)]
    BY <1>1, ConcatProperties
  <1>3. Len(a) \in Nat /\ Len(b) \in Nat
    BY LenProperties
  <1>4. PICK n : n = Len(a)
    OBVIOUS
  <1>5. /\ Take(s, n) \in Seq(S) /\ Len(Take(s, n)) = Smaller(n, Len(s))
        /\ \A i \in 1 .. Len(Take(s, n)) : Take(s, n)[i] = s[i]
    BY <1>2, <1>3, <1>4, TakeIs
  <1>6. Len(Take(s, n)) = n
    BY <1>2, <1>3, <1>4, <1>5 DEF Smaller
  <1>7. \A i \in 1 .. n : Take(s, n)[i] = a[i]
    BY <1>2, <1>3, <1>4, <1>5, <1>6
  <1> QED
    BY <1>1, <1>4, <1>5, <1>6, <1>7, SeqEqual

(* Nothing is taken of nothing, and everything with enough to take. *)
LEMMA TakeAll ==
    ASSUME NEW S, NEW s \in Seq(S), NEW n \in Nat, Len(s) <= n
    PROVE  Take(s, n) = s
  <1>1. /\ Len(s) \in Nat /\ Take(s, n) \in Seq(S) /\ Len(Take(s, n)) = Smaller(n, Len(s))
        /\ \A i \in 1 .. Len(Take(s, n)) : Take(s, n)[i] = s[i]
    BY TakeIs
  <1>2. Len(Take(s, n)) = Len(s)
    BY <1>1 DEF Smaller
  <1> QED
    BY <1>1, <1>2, SeqEqual

(* Taking no member leaves the sequence. *)
LEMMA TakeNone ==
    ASSUME NEW S, NEW s \in Seq(S)
    PROVE  Take(s, 0) = <<>> /\ Drop(s, 0) = s
  <1>1. Take(s, 0) \in Seq(S) /\ Len(Take(s, 0)) = Smaller(0, Len(s)) /\ Len(s) \in Nat
    BY TakeIs
  <1>2. Len(Take(s, 0)) = 0
    BY <1>1 DEF Smaller
  <1>3. /\ Drop(s, 0) \in Seq(S) /\ Len(Drop(s, 0)) = Len(s) - 0
        /\ \A i \in 1 .. Len(s) - 0 : Drop(s, 0)[i] = s[0 + i]
    BY <1>1, DropIs
  <1>4. Len(Drop(s, 0)) = Len(s) /\ \A i \in 1 .. Len(s) : Drop(s, 0)[i] = s[i]
    BY <1>1, <1>3
  <1> QED
    BY <1>1, <1>2, <1>3, <1>4, EmptySeq, SeqEqual

(* What is taken and what is left are the whole. *)
LEMMA TakeDrop ==
    ASSUME NEW S, NEW s \in Seq(S), NEW n \in Nat
    PROVE  Take(s, n) \o Drop(s, Len(Take(s, n))) = s
  <1>1. PICK k : k = Smaller(n, Len(s))
    OBVIOUS
  <1>2. PICK l : l = Len(s)
    OBVIOUS
  <1>3. l \in Nat /\ k \in 0 .. l /\ 1 \in 1 .. l + 1 /\ l \in k .. l
    BY <1>1, <1>2, LenProperties DEF Smaller
  <1>4. Len(Take(s, n)) = k
    BY <1>1, TakeIs
  <1>5. Take(s, n) = SubSeq(s, 1, k) /\ Drop(s, k) = SubSeq(s, k + 1, l)
    BY <1>1, <1>2 DEF Take, Drop
  <1>6. k \in 1 - 1 .. l
    BY <1>3
  <1>7. SubSeq(s, 1, k) \o SubSeq(s, k + 1, l) = SubSeq(s, 1, l)
    BY <1>2, <1>3, <1>6, ConcatAdjacentSubSeq
  <1>8. SubSeq(s, 1, l) = s
    BY <1>2, SubSeqFull
  <1> QED
    BY <1>4, <1>5, <1>7, <1>8

(* The part h of s is taken, r is the rest, of which k members follow.     *)
TakesOn(s, h, r, k) ==
    /\ Len(Drop(r, k)) = Len(r) - k
    /\ Len(h \o Take(r, k)) = Len(h) + k
    /\ (h \o Take(r, k)) \o Drop(r, k) = s
    /\ Take(s, Len(h) + k) = h \o Take(r, k)

(* Members of the rest follow those that are taken.                        *)
LEMMA TakeOn ==
    ASSUME NEW S, NEW h \in Seq(S), NEW r \in Seq(S), NEW k \in Nat, k <= Len(r)
    PROVE  /\ Take(r, k) \in Seq(S) /\ Drop(r, k) \in Seq(S) /\ h \o Take(r, k) \in Seq(S)
           /\ Len(Take(r, k)) = k
           /\ TakesOn(h \o r, h, r, k)
  <1>1. /\ Take(r, k) \in Seq(S) /\ Len(Take(r, k)) = Smaller(k, Len(r)) /\ Len(r) \in Nat
        /\ Len(h) \in Nat
    BY TakeIs, LenProperties
  <1>2. Len(Take(r, k)) = k
    BY <1>1 DEF Smaller
  <1>3. Drop(r, k) \in Seq(S) /\ Len(Drop(r, k)) = Len(r) - k
    BY DropIs
  <1>4. PICK t : t = Take(r, k)
    OBVIOUS
  <1>5. PICK e : e = Drop(r, k)
    OBVIOUS
  <1>6. t \in Seq(S) /\ e \in Seq(S) /\ t \o e = r /\ Len(t) = k
    BY <1>1, <1>2, <1>3, <1>4, <1>5, TakeDrop
  <1>7. h \o t \in Seq(S) /\ Len(h \o t) = Len(h) + k
    <2>1. h \o t \in Seq(S) /\ Len(h \o t) = Len(h) + Len(t)
      BY <1>6, ConcatProperties
    <2> QED
      BY <1>6, <2>1
  <1>8. (h \o t) \o e = h \o r
    <2>2. h \in Seq(S) /\ t \in Seq(S) /\ e \in Seq(S)
      BY <1>6
    <2>1. (h \o t) \o e = h \o (t \o e)
      BY <2>2, ConcatAssociative
    <2> QED
      BY <1>6, <2>1
  <1>9. Take((h \o t) \o e, Len(h \o t)) = h \o t
    BY <1>6, <1>7, TakeFront
  <1> QED
    BY <1>2, <1>3, <1>4, <1>5, <1>6, <1>7, <1>8, <1>9 DEF TakesOn

-----------------------------------------------------------------------------
(* Bytes in memory *)

(* The bytes at a place are a sequence. *)
LEMMA BytesAtIs ==
    ASSUME NEW m \in Memories, NEW p, NEW n \in Nat
    PROVE  /\ BytesAt(m, p, n) \in Seq(Bytes)
           /\ Len(BytesAt(m, p, n)) = n
           /\ \A i \in 1 .. n : BytesAt(m, p, n)[i] = Byte(m, Plus(p, i - 1))
  <1>1. \A i \in 1 .. n : Byte(m, Plus(p, i - 1)) \in Bytes
    BY ByteType
  <1>2. BytesAt(m, p, n) \in [1 .. n -> Bytes]
    BY <1>1, Zenon DEF BytesAt
  <1>3. BytesAt(m, p, n) \in Seq(Bytes)
    BY <1>2
  <1>4. Len(BytesAt(m, p, n)) = n
    BY <1>2, <1>3
  <1>5. \A i \in 1 .. n : BytesAt(m, p, n)[i] = Byte(m, Plus(p, i - 1))
    BY Zenon DEF BytesAt
  <1> QED
    BY <1>3, <1>4, <1>5

(* Storing bytes changes the pointers within them. *)
LEMMA StoredAt ==
    ASSUME NEW m \in Memories, NEW d, NEW b, NEW p \in Pointers
    PROVE  Stored(m, d, b)[p] =
             IF Within(p, d, Len(b)) THEN b[p.addr - d.addr + 1] ELSE m[p]
  BY Zenon DEF Stored

(* A memory with bytes stored in it is a memory. *)
LEMMA StoredType ==
    ASSUME NEW m \in Memories, NEW d \in Places, NEW b \in Seq(Bytes)
    PROVE  Stored(m, d, b) \in Memories
  <1>1. ASSUME NEW p \in Pointers
        PROVE  (IF Within(p, d, Len(b)) THEN b[p.addr - d.addr + 1] ELSE m[p]) \in Bytes
    <2>1. p \in Places /\ p.addr \in Nat /\ d.addr \in Nat /\ Len(b) \in Nat
      BY InPointers, LenProperties DEF Places
    <2>2. CASE Within(p, d, Len(b))
      <3>1. d.addr <= p.addr /\ p.addr < d.addr + Len(b)
        BY <2>1, <2>2, WithinIs
      <3>2. p.addr - d.addr + 1 \in 1 .. Len(b)
        BY <2>1, <3>1
      <3>3. b[p.addr - d.addr + 1] \in Bytes
        BY <3>2, ElementOfSeq
      <3> QED
        BY <2>2, <3>3
    <2>3. CASE ~Within(p, d, Len(b))
      BY <2>3 DEF Memories
    <2> QED
      BY <2>2, <2>3
  <1> QED
    BY <1>1, Zenon DEF Stored, Memories

(* The bytes of a buffer d, when b is stored behind its first c bytes. *)
LEMMA StoredBytes ==
    ASSUME NEW m \in Memories, NEW d \in Places, NEW c \in Nat, NEW b \in Seq(Bytes),
           NEW n \in Nat, Room(d, n), NEW k \in 1 .. n
    PROVE  Byte(Stored(m, Plus(d, c), b), Plus(d, k - 1)) =
             IF c < k /\ k <= c + Len(b) THEN b[k - c] ELSE Byte(m, Plus(d, k - 1))
  <1>1. PICK q : q = Plus(d, k - 1)
    OBVIOUS
  <1>2. d.addr \in Nat /\ Len(b) \in Nat /\ k - 1 \in 0 .. n - 1
    BY LenProperties DEF Places
  <1>3. q \in Pointers /\ q \in Places /\ q.far = d.far /\ q.addr = d.addr + (k - 1)
    BY <1>1, <1>2, RoomIs, PlusIs, InPointers
  <1>4. Within(q, Plus(d, c), Len(b)) <=> c < k /\ k <= c + Len(b)
    <2>1. PICK l : l = Len(b)
      OBVIOUS
    <2>2. Within(q, Plus(d, c), l) <=>
            q.far = d.far /\ d.addr + c <= q.addr /\ q.addr < d.addr + c + l
      BY <1>2, <1>3, <2>1, WithinIs
    <2>3. d.addr + c <= q.addr <=> c < k
      BY <1>2, <1>3
    <2>4. q.addr < d.addr + c + l <=> k <= c + l
      BY <1>2, <1>3, <2>1
    <2> QED
      BY <1>3, <2>1, <2>2, <2>3, <2>4
  <1>5. Plus(d, c).addr = d.addr + c
    BY PlusIs
  <1>6. q.addr - Plus(d, c).addr + 1 = k - c
    BY <1>2, <1>3, <1>5
  <1>7. Stored(m, Plus(d, c), b)[q] =
          IF Within(q, Plus(d, c), Len(b)) THEN b[q.addr - Plus(d, c).addr + 1] ELSE m[q]
    BY <1>3, StoredAt
  <1>8. Byte(Stored(m, Plus(d, c), b), q) = Stored(m, Plus(d, c), b)[q] /\ Byte(m, q) = m[q]
    BY <1>3 DEF Byte
  <1> QED
    BY <1>1, <1>4, <1>6, <1>7, <1>8

(* Nothing outside of the buffer is stored. *)
LEMMA StoredWithin ==
    ASSUME NEW m \in Memories, NEW d \in Places, NEW c \in Nat, NEW b \in Seq(Bytes),
           NEW n \in Nat, c + Len(b) <= n, NEW p \in Pointers,
           Stored(m, Plus(d, c), b)[p] # m[p]
    PROVE  Within(p, d, n)
  <1>1. p \in Places /\ p.addr \in Nat /\ d.addr \in Nat /\ Len(b) \in Nat
    BY InPointers, LenProperties DEF Places
  <1>2. Within(p, Plus(d, c), Len(b))
    BY StoredAt
  <1> QED
    BY <1>1, <1>2, WithinIs

-----------------------------------------------------------------------------
(* Elements *)

(* A quotient and what it leaves. *)
LEMMA Divided ==
    ASSUME NEW a \in Nat, NEW c \in Nat \ {0}
    PROVE  /\ a \div c \in Nat /\ a % c \in 0 .. c - 1
           /\ a = (a \div c) * c + (a % c) /\ (a \div c) * c \in Nat
           /\ (a \div c) * c <= a
           /\ 0 \div c = 0 /\ 0 % c = 0
  OBVIOUS

(* It is the only one. *)
LEMMA QuotientIs ==
    ASSUME NEW a \in Nat, NEW c \in Nat \ {0}, NEW q \in Nat, NEW r \in 0 .. c - 1, a = q * c + r
    PROVE  a \div c = q /\ a % c = r
  OBVIOUS

(* Whole elements and more are counted one behind the other. *)
LEMMA DividedOn ==
    ASSUME NEW a \in Nat, NEW b \in Nat, NEW c \in Nat \ {0}, a % c = 0
    PROVE  (a + b) \div c = a \div c + b \div c /\ (a + b) % c = b % c
  <1>1. PICK i : i = a \div c
    OBVIOUS
  <1>2. PICK j : j = b \div c
    OBVIOUS
  <1>3. PICK r : r = b % c
    OBVIOUS
  <1>4. i \in Nat /\ a = i * c
    BY <1>1, Divided
  <1>5. j \in Nat /\ r \in 0 .. c - 1 /\ b = j * c + r
    BY <1>2, <1>3, Divided
  <1>6. i + j \in Nat /\ (i + j) * c = i * c + j * c
    BY <1>4, <1>5
  <1>7. i * c \in Nat /\ j * c \in Nat
    BY <1>4, <1>5
  <1>8. PICK e : e = a + b
    OBVIOUS
  <1>9. e \in Nat /\ e = (i + j) * c + r
    BY <1>4, <1>5, <1>6, <1>7, <1>8
  <1>10. e \div c = i + j /\ e % c = r
    BY <1>5, <1>6, <1>9, QuotientIs
  <1> QED
    BY <1>1, <1>2, <1>3, <1>8, <1>10

(* Elements of a part are counted if there is a part only behind whole     *)
(* elements.                                                               *)
LEMMA CountOn ==
    ASSUME NEW t \in Nat, NEW u \in Nat, NEW c \in Nat \ {0}, u > 0 => t % c = 0
    PROVE  (t + u) \div c = t \div c + u \div c
  <1>1. CASE u = 0
    <2>1. t + u = t /\ t \div c \in Nat /\ u \div c = 0
      BY <1>1, Divided
    <2> QED
      BY <2>1
  <1>2. CASE u # 0
    <2>1. t % c = 0
      BY <1>2
    <2> QED
      BY <2>1, DividedOn
  <1> QED
    BY <1>1, <1>2

(* The next portion, whole elements again.                                 *)
LEMMA NextPortion ==
    ASSUME NEW a \in Nat, NEW c \in Nat \ {0}, NEW k \in Nat, NEW s, s = k * c,
           a % c = 0, a < s, OBJ_SIZE % c = 0, NEW b, b = Smaller(OBJ_SIZE, s - a)
    PROVE  b \in Nat /\ a + b <= s /\ (a + b) % c = 0
  <1>1. OBJ_SIZE \in Nat /\ s \in Nat
    BY Sizes
  <1>2. b \in Nat /\ a + b <= s /\ (b = OBJ_SIZE \/ a + b = s)
    BY <1>1 DEF Smaller
  <1>3. s % c = 0
    <2>1. s = k * c + 0 /\ 0 \in 0 .. c - 1
      BY <1>1
    <2> QED
      BY <1>1, <2>1, QuotientIs
  <1>4. (a + OBJ_SIZE) % c = 0
    BY <1>1, DividedOn
  <1> QED
    BY <1>2, <1>3, <1>4

(* Storing a and then b behind it is storing both. *)
LEMMA StoredBehind ==
    ASSUME NEW m \in Memories, NEW d \in Places, NEW a \in Seq(Bytes), NEW b \in Seq(Bytes)
    PROVE  Stored(Stored(m, d, a), Plus(d, Len(a)), b) = Stored(m, d, a \o b)
  <1>1. PICK w : w = Stored(m, d, a)
    OBVIOUS
  <1>2. PICK x : x = Len(a)
    OBVIOUS
  <1>3. PICK y : y = Len(b)
    OBVIOUS
  <1>4. PICK e : e = Plus(d, x)
    OBVIOUS
  <1>5. x \in Nat /\ y \in Nat /\ d.addr \in Nat /\ e.addr = d.addr + x
    BY <1>2, <1>3, <1>4, LenProperties, PlusIs DEF Places
  <1>6. PICK c : c = a \o b
    OBVIOUS
  <1>7. /\ Len(c) = x + y
        /\ \A i \in 1 .. x + y : c[i] = IF i <= x THEN a[i] ELSE b[i - x]
    BY <1>2, <1>3, <1>6, ConcatProperties
  <1>8. w \in Memories
    BY <1>1, StoredType
  <1>9. ASSUME NEW p \in Pointers
        PROVE  Stored(w, e, b)[p] = Stored(m, d, c)[p]
    <2>1. p \in Places /\ p.addr \in Nat
      BY InPointers DEF Places
    <2>2. PICK i : i = p.addr - d.addr + 1
      OBVIOUS
    <2>3. i \in Int /\ p.addr - e.addr + 1 = i - x
      BY <1>5, <2>1, <2>2
    <2>4. Within(p, d, x) <=> p.far = d.far /\ 1 <= i /\ i <= x
      <3>1. Within(p, d, x) <=> p.far = d.far /\ d.addr <= p.addr /\ p.addr < d.addr + x
        BY <1>5, <2>1, WithinIs
      <3>2. d.addr <= p.addr /\ p.addr < d.addr + x <=> 1 <= i /\ i <= x
        BY <1>5, <2>1, <2>2
      <3> QED
        BY <3>1, <3>2
    <2>5. Within(p, e, y) <=> p.far = d.far /\ x < i /\ i <= x + y
      <3>1. Within(p, e, y) <=> p.far = d.far /\ d.addr + x <= p.addr /\ p.addr < d.addr + x + y
        BY <1>4, <1>5, <2>1, WithinIs
      <3> QED
        BY <1>5, <2>1, <2>2, <3>1
    <2>6. Within(p, d, x + y) <=> p.far = d.far /\ 1 <= i /\ i <= x + y
      <3>1. PICK n : n = x + y
        OBVIOUS
      <3>2. n \in Nat
        BY <1>5, <3>1
      <3>3. Within(p, d, n) <=> p.far = d.far /\ d.addr <= p.addr /\ p.addr < d.addr + n
        BY <2>1, <3>2, WithinIs
      <3>4. d.addr <= p.addr /\ p.addr < d.addr + n <=> 1 <= i /\ i <= n
        BY <1>5, <2>1, <2>2, <3>2
      <3> QED
        BY <3>1, <3>3, <3>4
    <2>7. w[p] = IF Within(p, d, x) THEN a[i] ELSE m[p]
      BY <1>1, <1>2, <2>2, StoredAt
    <2>8. Stored(w, e, b)[p] = IF Within(p, e, y) THEN b[i - x] ELSE w[p]
      BY <1>3, <1>8, <2>3, StoredAt
    <2>9. Stored(m, d, c)[p] = IF Within(p, d, x + y) THEN c[i] ELSE m[p]
      BY <1>7, <2>2, StoredAt
    <2>10. CASE p.far = d.far /\ 1 <= i /\ i <= x
      <3>1. c[i] = a[i]
        BY <1>5, <1>7, <2>3, <2>10
      <3> QED
        BY <1>5, <2>3, <2>4, <2>5, <2>6, <2>7, <2>8, <2>9, <2>10, <3>1
    <2>11. CASE p.far = d.far /\ x < i /\ i <= x + y
      <3>1. c[i] = b[i - x]
        BY <1>5, <1>7, <2>3, <2>11
      <3> QED
        BY <1>5, <2>3, <2>5, <2>6, <2>8, <2>9, <2>11, <3>1
    <2>12. CASE ~(p.far = d.far /\ 1 <= i /\ i <= x + y)
      BY <1>5, <2>3, <2>4, <2>5, <2>6, <2>7, <2>8, <2>9, <2>12
    <2> QED
      BY <1>5, <2>3, <2>10, <2>11, <2>12
  <1>10. Stored(w, e, b) = Stored(m, d, c)
    BY <1>9, Zenon DEF Stored
  <1> QED
    BY <1>1, <1>2, <1>4, <1>6, <1>10

(* The bytes of a buffer and those behind it. *)
LEMMA BytesBehind ==
    ASSUME NEW m \in Memories, NEW d \in Places, NEW x \in Nat, NEW y \in Nat
    PROVE  BytesAt(m, d, x) \o BytesAt(m, Plus(d, x), y) = BytesAt(m, d, x + y)
  <1>1. PICK a : a = BytesAt(m, d, x)
    OBVIOUS
  <1>2. PICK q : q = Plus(d, x)
    OBVIOUS
  <1>3. PICK b : b = BytesAt(m, q, y)
    OBVIOUS
  <1>4. PICK n : n = x + y
    OBVIOUS
  <1>5. n \in Nat
    BY <1>4
  <1>6. /\ a \in Seq(Bytes) /\ Len(a) = x
        /\ \A i \in 1 .. x : a[i] = Byte(m, Plus(d, i - 1))
    BY <1>1, BytesAtIs
  <1>7. /\ b \in Seq(Bytes) /\ Len(b) = y
        /\ \A i \in 1 .. y : b[i] = Byte(m, Plus(q, i - 1))
    BY <1>3, BytesAtIs
  <1>8. /\ BytesAt(m, d, n) \in Seq(Bytes) /\ Len(BytesAt(m, d, n)) = n
        /\ \A i \in 1 .. n : BytesAt(m, d, n)[i] = Byte(m, Plus(d, i - 1))
    BY <1>5, BytesAtIs
  <1>9. /\ a \o b \in Seq(Bytes) /\ Len(a \o b) = n
        /\ \A i \in 1 .. n : (a \o b)[i] = IF i <= x THEN a[i] ELSE b[i - x]
    BY <1>4, <1>6, <1>7, ConcatProperties
  <1>10. ASSUME NEW i \in 1 .. n PROVE (a \o b)[i] = BytesAt(m, d, n)[i]
    <2>1. CASE i <= x
      BY <1>6, <1>8, <1>9, <2>1
    <2>2. CASE ~(i <= x)
      <3>1. PICK j : j = i - x
        OBVIOUS
      <3>2. PICK h : h = j - 1
        OBVIOUS
      <3>3. j \in 1 .. y /\ h \in Int /\ x + h \in Nat /\ x + h = i - 1
        BY <1>4, <2>2, <3>1, <3>2
      <3>4. Plus(Plus(d, x), h) = Plus(d, x + h)
        BY <3>3, PlusPlus
      <3>5. b[j] = Byte(m, Plus(d, i - 1))
        BY <1>2, <1>7, <3>2, <3>3, <3>4
      <3> QED
        BY <1>8, <1>9, <2>2, <3>1, <3>5
    <2> QED
      BY <2>1, <2>2
  <1> QED
    BY <1>1, <1>2, <1>3, <1>4, <1>8, <1>9, <1>10, SeqEqual

(* What carm_fread has stored in n bytes of a far buffer: g and zeros.     *)
Padded(g, n) == g \o Zeros(n - Len(g))

(* The bytes of g come first and the rest is NUL.                          *)
LEMMA PaddedIs ==
    ASSUME NEW g \in Seq(Bytes), NEW n \in Nat, Len(g) <= n
    PROVE  /\ Len(g) \in Nat
           /\ Padded(g, n) \in Seq(Bytes)
           /\ Len(Padded(g, n)) = n
           /\ \A i \in 1 .. n : Padded(g, n)[i] = IF i <= Len(g) THEN g[i] ELSE NUL
  <1>1. PICK k : k = n - Len(g)
    OBVIOUS
  <1>2. k \in Nat /\ Len(g) \in Nat /\ Len(g) + k = n
    BY <1>1, LenProperties
  <1>3. Zeros(k) \in [1 .. k -> Bytes] /\ \A i \in 1 .. k : Zeros(k)[i] = NUL
    BY Sizes, Zenon DEF Zeros
  <1>4. Zeros(k) \in Seq(Bytes) /\ Len(Zeros(k)) = k
    BY <1>2, <1>3
  <1>5. /\ g \o Zeros(k) \in Seq(Bytes) /\ Len(g \o Zeros(k)) = Len(g) + Len(Zeros(k))
        /\ \A i \in 1 .. Len(g) + Len(Zeros(k)) :
             (g \o Zeros(k))[i] = IF i <= Len(g) THEN g[i] ELSE Zeros(k)[i - Len(g)]
    BY <1>4, ConcatProperties
  <1>6. ASSUME NEW i \in 1 .. n
        PROVE  (g \o Zeros(k))[i] = IF i <= Len(g) THEN g[i] ELSE NUL
    <2>1. ~(i <= Len(g)) => i - Len(g) \in 1 .. k
      BY <1>2
    <2> QED
      BY <1>2, <1>3, <1>4, <1>5, <2>1
  <1> QED
    BY <1>1, <1>2, <1>4, <1>5, <1>6 DEF Padded

(* Two padded parts are one if the second is empty or the first is whole.  *)
LEMMA PaddedOn ==
    ASSUME NEW h \in Seq(Bytes), NEW g \in Seq(Bytes), NEW c \in Nat, NEW n \in Nat,
           Len(h) <= c, Len(g) <= n, Len(g) > 0 => Len(h) = c
    PROVE  Padded(h, c) \o Padded(g, n) = Padded(h \o g, c + n)
  <1>1. PICK a : a = Padded(h, c)
    OBVIOUS
  <1>2. PICK b : b = Padded(g, n)
    OBVIOUS
  <1>3. PICK f : f = h \o g
    OBVIOUS
  <1>4. PICK e : e = c + n
    OBVIOUS
  <1>5. PICK x : x = Len(h)
    OBVIOUS
  <1>6. PICK y : y = Len(g)
    OBVIOUS
  <1>7. /\ a \in Seq(Bytes) /\ Len(a) = c /\ x \in Nat
        /\ \A i \in 1 .. c : a[i] = IF i <= x THEN h[i] ELSE NUL
    BY <1>1, <1>5, PaddedIs
  <1>8. /\ b \in Seq(Bytes) /\ Len(b) = n /\ y \in Nat
        /\ \A i \in 1 .. n : b[i] = IF i <= y THEN g[i] ELSE NUL
    BY <1>2, <1>6, PaddedIs
  <1>9. x <= c /\ y <= n /\ (y > 0 => x = c) /\ e \in Nat
    BY <1>4, <1>5, <1>6
  <1>10. /\ f \in Seq(Bytes) /\ Len(f) = x + y
         /\ \A i \in 1 .. x + y : f[i] = IF i <= x THEN h[i] ELSE g[i - x]
    BY <1>3, <1>5, <1>6, ConcatProperties
  <1>11. /\ Padded(f, e) \in Seq(Bytes) /\ Len(Padded(f, e)) = e
         /\ \A i \in 1 .. e : Padded(f, e)[i] = IF i <= x + y THEN f[i] ELSE NUL
    <2>1. Len(f) <= e
      BY <1>4, <1>7, <1>8, <1>9, <1>10
    <2> QED
      <3>1. f \in Seq(Bytes) /\ e \in Nat /\ Len(f) = x + y
        BY <1>9, <1>10
      <3>2. /\ Padded(f, e) \in Seq(Bytes) /\ Len(Padded(f, e)) = e
            /\ \A i \in 1 .. e : Padded(f, e)[i] = IF i <= Len(f) THEN f[i] ELSE NUL
        BY <2>1, <3>1, PaddedIs
      <3> QED
        BY <3>1, <3>2
  <1>12. /\ a \o b \in Seq(Bytes) /\ Len(a \o b) = e
         /\ \A i \in 1 .. e : (a \o b)[i] = IF i <= c THEN a[i] ELSE b[i - c]
    <2>1. a \in Seq(Bytes) /\ c = Len(a) /\ b \in Seq(Bytes) /\ n = Len(b)
      BY <1>7, <1>8
    <2>2. /\ a \o b \in Seq(Bytes) /\ Len(a \o b) = c + n
          /\ \A i \in 1 .. c + n : (a \o b)[i] = IF i <= c THEN a[i] ELSE b[i - c]
      BY <2>1, ConcatProperties
    <2> QED
      BY <1>4, <2>2
  <1>13. ASSUME NEW i \in 1 .. e PROVE (a \o b)[i] = Padded(f, e)[i]
    <2>1. CASE i <= x
      <3>1. i \in 1 .. c /\ i \in 1 .. x + y /\ i <= x + y
        BY <1>7, <1>8, <1>9, <2>1
      <3>2. (a \o b)[i] = h[i]
        BY <1>7, <1>12, <2>1, <3>1
      <3>3. Padded(f, e)[i] = h[i]
        BY <1>10, <1>11, <2>1, <3>1
      <3> QED
        BY <3>2, <3>3
    <2>2. CASE x < i /\ i <= c
      <3>1. y = 0
        BY <1>7, <1>8, <1>9, <2>2
      <3> QED
        BY <1>7, <1>9, <1>11, <1>12, <2>2, <3>1
    <2>3. CASE c < i
      <3>1. PICK j : j = i - c
        OBVIOUS
      <3>2. j \in 1 .. n
        BY <1>4, <2>3, <3>1
      <3>3. (a \o b)[i] = IF j <= y THEN g[j] ELSE NUL
        BY <1>8, <1>12, <2>3, <3>1, <3>2
      <3>4. CASE j <= y
        <4>1. x = c /\ i - x = j /\ i \in 1 .. x + y /\ ~(i <= x)
          BY <1>7, <1>8, <1>9, <2>3, <3>1, <3>2, <3>4
        <4> QED
          BY <1>10, <1>11, <3>1, <3>3, <3>4, <4>1
      <3>5. CASE ~(j <= y)
        <4>1. ~(i <= x + y)
          BY <1>7, <1>8, <1>9, <2>3, <3>1, <3>2, <3>5
        <4> QED
          BY <1>11, <3>3, <3>5, <4>1
      <3> QED
        BY <3>4, <3>5
    <2> QED
      BY <1>4, <1>7, <1>8, <1>9, <2>1, <2>2, <2>3
  <1> QED
    BY <1>1, <1>2, <1>3, <1>4, <1>11, <1>12, <1>13, SeqEqual

-----------------------------------------------------------------------------
(* The calls of CarmLibc are not disturbed *)

(* The functions of this module are none of those of CarmLibc. *)
LEMMA OtherFunctions ==
    ASSUME Faithful PROVE Fns \cap (Streams \cup Prints \cup {"none"}) = {}
  BY DEF Faithful, StringCopies, Streams, Prints

(* LibcInv says next to nothing when another function runs. *)
LEMMA LibcElsewhere ==
    ASSUME Faithful, mem' \in Memories, entry' \in Memories, cursor' \in Nat,
           call'.fn \in Streams \cup Prints \cup {"none"},
           pc' \in Streams \cup {"idle", "done", "exited", "measure", "vsnprintf"},
           pc' \in {"idle", "done"} => cursor' = 0, pc' = "idle" => mem' = entry'
    PROVE  LibcInv'
  <1>1. call'.fn \notin Fns
    BY OtherFunctions
  <1>2. pc' \notin Loops
    BY DEF Streams, Loops
  <1>3. CallInv'
    BY <1>1, <1>2 DEF CallInv, Memories, Loops, Streams
  <1> QED
    BY <1>1, <1>2, <1>3 DEF LibcInv, CopyInv, SetInv, CompareInv, ScanInv, SearchInv, EntryInv,
                            AgreesWithLibc, Loops

(* What every state has. *)
LEMMA StdioTypes ==
    ASSUME StdioInv PROVE mem \in Memories /\ entry \in Memories /\ cursor \in Nat
  BY DEF StdioInv, LibcInv, CallInv, Memories

(* Which call runs.                                                        *)
LEMMA Running ==
    ASSUME StdioInv
    PROVE  /\ pc \in Streams => call.fn = pc
           /\ pc \in {"measure", "vsnprintf"} => call.fn \in Prints
           /\ pc \in Loops => call.fn \in Fns
           /\ pc = "idle" => call.fn = "none"
  BY DEF StdioInv, LibcInv, CallInv, StreamInv, PrintInv, Streams, Prints, Loops, NoCall

-----------------------------------------------------------------------------
(* Streams *)

(* What is known when a stream has a portion left to go through.           *)
LEMMA PortionLeft ==
    ASSUME StdioInv, Faithful, pc \in Streams, ~LoopOver,
           ~call.dst.far \/ OBJ_SIZE % call.c = 0
    PROVE  /\ call.fn \in Streams /\ call.fn = pc
           /\ call.dst \in Pointers /\ call.dst \in Places /\ call.src = call.dst
           /\ call.c \in Nat \ {0} /\ call.n \in Nat /\ size = call.n * call.c /\ size \in Nat
           /\ Room(call.dst, size)
           /\ cursor \in Nat /\ cursor < size /\ cursor % call.c = 0
           /\ Portion \in Nat /\ cursor + Portion <= size
           /\ (cursor + Portion) % call.c = 0
           /\ ~call.dst.far => cursor = 0 /\ Portion = size
           /\ Now(call.dst) = Plus(call.dst, cursor)
  <1>1. /\ call.fn \in Streams /\ call.fn = pc /\ pc # "done"
        /\ call.dst \in Pointers /\ call.dst \in Places /\ call.src = call.dst
        /\ call.c \in Nat \ {0} /\ call.n \in Nat /\ size = call.n * call.c
        /\ Room(call.dst, size) /\ Passed = cursor
        /\ cursor % call.c = 0 /\ (~call.dst.far => cursor \in {0, size})
    BY InPointers, Running DEF StdioInv, StreamInv, Streams, Passed
  <1>2. size \in Nat /\ cursor \in Nat /\ cursor < size
    BY <1>1, StdioTypes DEF LoopOver
  <1>3. Now(call.dst) = Plus(call.dst, cursor)
    <2>1. call.dst.addr \in Nat /\ call.dst.addr + size <= Limit(call.dst)
      BY <1>1, <1>2, RoomLimit DEF Places
    <2>2. Limit(call.dst) <= CursorMod \div 2 /\ Limit(call.dst) \in Nat /\ CursorMod \div 2 \in Int
      BY Sizes DEF Limit, Faithful
    <2>3. cursor < CursorMod \div 2
      BY <1>2, <2>1, <2>2
    <2> QED
      BY <1>2, <2>3, SignedIs DEF Now
  <1>4. CASE call.dst.far
    <2>1. Portion = Smaller(OBJ_SIZE, size - cursor)
      BY <1>4 DEF Portion
    <2> QED
      BY <1>1, <1>2, <1>3, <1>4, <2>1, NextPortion
  <1>5. CASE ~call.dst.far
    <2>1. Portion = size /\ cursor = 0 /\ cursor + Portion = size
      BY <1>1, <1>2, <1>5 DEF Portion
    <2>2. size % call.c = 0
      <3>1. size = call.n * call.c + 0 /\ 0 \in 0 .. call.c - 1
        BY <1>1, <1>2
      <3> QED
        BY <1>1, <1>2, <3>1, QuotientIs
    <2> QED
      BY <1>1, <1>2, <1>3, <1>5, <2>1, <2>2
  <1> QED
    BY <1>4, <1>5

(* The bytes that libc has moved for the stream. *)
Transferred == IF call.fn = "fread" THEN Len(call.input) - Len(file) ELSE Len(file)

(* While libc has not gone on after it had stopped, bytes are moved only   *)
(* behind everything that has been passed.                                 *)
LEMMA PortionMoved ==
    ASSUME StdioInv, Faithful, pc \in Streams, ~LoopOver,
           ~call.dst.far \/ OBJ_SIZE % call.c = 0, NEW k \in 0 .. Portion, GoOn(k)
    PROVE  /\ cursor' = cursor + Portion /\ Passed' = cursor + Portion
           /\ pc' = pc /\ call' = call /\ size' = size /\ entry' = entry
           /\ result' \in Nat /\ device' \in {"ok", "short", "resumed"}
           /\ device' # "resumed" =>
                /\ device # "resumed"
                /\ Transferred \in Nat /\ Transferred <= cursor
                /\ k > 0 => Transferred = cursor
                /\ Transferred + k \in 0 .. cursor + Portion
                /\ device' = "ok" => Transferred + k = cursor + Portion
                /\ result' = (Transferred + k) \div call.c
  <1>1. /\ call.fn \in Streams /\ call.c \in Nat \ {0} /\ pc # "done"
        /\ cursor \in Nat /\ Portion \in Nat /\ cursor % call.c = 0
    BY PortionLeft DEF Streams
  <1>2. /\ cursor' = cursor + Portion
        /\ pc' = pc /\ call' = call /\ size' = size /\ entry' = entry
        /\ result' = result + k \div call.c
        /\ device' = IF device = "ok" THEN IF k = Portion THEN "ok" ELSE "short"
                     ELSE IF k = 0 THEN device ELSE "resumed"
    BY DEF GoOn
  <1>3. /\ result \in Nat /\ device \in {"ok", "short", "resumed"} /\ Passed = cursor
        /\ device # "resumed" =>
             /\ Transferred \in 0 .. cursor
             /\ device = "ok" => Transferred = cursor
             /\ result = Transferred \div call.c
    BY <1>1 DEF StdioInv, StreamInv, Passed, Transferred
  <1>4. k \in Nat /\ k <= Portion /\ k \div call.c \in Nat
    BY <1>1, Divided
  <1>5. Passed' = cursor + Portion
    BY <1>1, <1>2 DEF Passed
  <1>6. PICK t : t = Transferred
    OBVIOUS
  <1>7. ASSUME device' # "resumed"
        PROVE  /\ device # "resumed" /\ t \in Nat /\ t <= cursor /\ (k > 0 => t = cursor)
               /\ t + k \in 0 .. cursor + Portion
               /\ device' = "ok" => t + k = cursor + Portion
               /\ result' = (t + k) \div call.c
    <2>1. device = "ok" \/ (device = "short" /\ k = 0)
      BY <1>2, <1>3, <1>7
    <2>2. t \in 0 .. cursor /\ (device = "ok" => t = cursor) /\ result = t \div call.c
      BY <1>3, <1>6, <2>1
    <2>3. t \in Nat /\ t <= cursor /\ (k > 0 => t = cursor)
      BY <1>4, <2>1, <2>2
    <2>4. (t + k) \div call.c = t \div call.c + k \div call.c
      <3>1. PICK c : c = call.c
        OBVIOUS
      <3>2. c \in Nat \ {0} /\ (k > 0 => t % c = 0) /\ t \in Nat /\ k \in Nat
        BY <1>1, <1>4, <2>3, <3>1
      <3>3. (t + k) \div c = t \div c + k \div c
        BY <3>2, CountOn
      <3> QED
        BY <3>1, <3>3
    <2>5. device' = "ok" => device = "ok" /\ k = Portion
      BY <1>2, <2>1
    <2> QED
      BY <1>1, <1>2, <1>4, <2>1, <2>2, <2>3, <2>4, <2>5
  <1> QED
    BY <1>1, <1>2, <1>3, <1>4, <1>5, <1>6, <1>7

(* The streams reach as far as their buffer. *)
LEMMA StreamReach ==
    ASSUME StdioInv, call.fn \in Streams
    PROVE  /\ Reach = size
           /\ \A p \in Pointers : mem[p] # entry[p] => Within(p, call.dst, size)
  <1>1. call.fn \notin Prints /\ call.fn # "sprintf" /\ size = call.n * call.c
    BY DEF Streams, Prints, StdioInv, StreamInv
  <1>2. Reach = size
    <2>1. Extent = call.n * call.c
      BY <1>1 DEF Extent, Prints
    <2> QED
      BY <1>1, <2>1 DEF Reach
  <1> QED
    BY <1>2 DEF StdioInv, StdioWithinReach

(* What carm_fread has stored where the cursor has passed n bytes. *)
Whole(g, n) == IF call.dst.far THEN Padded(g, n) ELSE g

(* What carm_fread gets of the file goes behind what it has.               *)
LEMMA FreadStores ==
    ASSUME StdioInv, Faithful, pc = "fread", ~LoopOver,
           ~call.dst.far \/ OBJ_SIZE % call.c = 0, device # "resumed",
           Transferred \in Nat, Transferred <= cursor,
           NEW k \in 0 .. Portion, k <= Len(file), k > 0 => Transferred = cursor
    PROVE  LET got == Take(call.input, Transferred) \o Take(file, k)
           IN  /\ Len(Drop(file, k)) = Len(file) - k
               /\ Len(got) = Transferred + k
               /\ got \o Drop(file, k) = call.input
               /\ Take(call.input, Transferred + k) = got
               /\ Stored(mem, Plus(call.dst, cursor), Whole(Take(file, k), Portion)) =
                    Stored(entry, call.dst, Whole(got, cursor + Portion))
  <1>1. /\ call.fn = "fread" /\ pc \in Streams /\ pc # "done"
        /\ call.dst \in Places /\ cursor \in Nat /\ Portion \in Nat
        /\ ~call.dst.far => cursor = 0
    BY PortionLeft DEF Streams
  <1>2. PICK h : h = Take(call.input, Transferred)
    OBVIOUS
  <1>3. /\ call.input \in Seq(Bytes) /\ file \in Seq(Bytes)
        /\ h \o file = call.input /\ Transferred = Len(call.input) - Len(file)
        /\ mem = Stored(entry, call.dst,
                        IF call.dst.far THEN h \o Zeros(cursor - Len(h)) ELSE h)
    BY <1>1, <1>2 DEF StdioInv, StreamInv, Streams, Passed, Transferred
  <1>4. /\ h \in Seq(Bytes) /\ Len(h) = Smaller(Transferred, Len(call.input))
        /\ Len(call.input) \in Nat /\ Len(file) \in Nat
    BY <1>2, <1>3, TakeIs, LenProperties
  <1>5. Len(h) = Transferred
    BY <1>3, <1>4 DEF Smaller
  <1>6. PICK g : g = Take(file, k)
    OBVIOUS
  <1>7. /\ g \in Seq(Bytes) /\ Drop(file, k) \in Seq(Bytes) /\ h \o g \in Seq(Bytes)
        /\ Len(g) = k /\ TakesOn(call.input, h, file, k)
    <2>1. k \in Nat
      OBVIOUS
    <2> QED
      <3>1. /\ Take(file, k) \in Seq(Bytes) /\ Drop(file, k) \in Seq(Bytes)
            /\ h \o Take(file, k) \in Seq(Bytes) /\ Len(Take(file, k)) = k
            /\ TakesOn(h \o file, h, file, k)
        BY <1>3, <1>4, <2>1, TakeOn
      <3> QED
        BY <1>3, <1>6, <3>1
  <1>8. /\ Len(Drop(file, k)) = Len(file) - k /\ Len(h \o g) = Len(h) + k
        /\ (h \o g) \o Drop(file, k) = call.input
        /\ Take(call.input, Len(h) + k) = h \o g
    BY <1>6, <1>7 DEF TakesOn
  <1>9. entry \in Memories
    BY StdioTypes
  <1>10. Stored(mem, Plus(call.dst, cursor), Whole(g, Portion)) =
           Stored(entry, call.dst, Whole(h \o g, cursor + Portion))
    <2>1. CASE call.dst.far
      <3>1. PICK a : a = Padded(h, cursor)
        OBVIOUS
      <3>2. PICK b : b = Padded(g, Portion)
        OBVIOUS
      <3>3. /\ mem = Stored(entry, call.dst, a) /\ b = Whole(g, Portion)
            /\ Whole(h \o g, cursor + Portion) = Padded(h \o g, cursor + Portion)
        BY <1>3, <2>1, <3>1, <3>2 DEF Padded, Whole
      <3>4. Len(h) <= cursor /\ Len(g) <= Portion /\ (Len(g) > 0 => Len(h) = cursor)
        BY <1>5, <1>7
      <3>5. a \in Seq(Bytes) /\ Len(a) = cursor /\ b \in Seq(Bytes)
        BY <1>1, <1>4, <1>7, <3>1, <3>2, <3>4, PaddedIs
      <3>6. a \o b = Padded(h \o g, cursor + Portion)
        <4>1. PICK n : n = Portion
          OBVIOUS
        <4>2. n \in Nat /\ Len(g) <= n
          BY <1>1, <3>4, <4>1
        <4>4. h \in Seq(Bytes) /\ g \in Seq(Bytes) /\ cursor \in Nat /\ Len(h) <= cursor
              /\ (Len(g) > 0 => Len(h) = cursor)
          BY <1>1, <1>4, <1>7, <3>4
        <4>3. Padded(h, cursor) \o Padded(g, n) = Padded(h \o g, cursor + n)
          BY <4>2, <4>4, PaddedOn, Zenon
        <4> QED
          BY <3>1, <3>2, <4>1, <4>3
      <3>7. Stored(Stored(entry, call.dst, a), Plus(call.dst, Len(a)), b) =
              Stored(entry, call.dst, a \o b)
        BY <1>1, <1>9, <3>5, StoredBehind
      <3> QED
        BY <3>3, <3>5, <3>6, <3>7
    <2>2. CASE ~call.dst.far
      <3>1. Len(h) = cursor /\ mem = Stored(entry, call.dst, h)
        BY <1>1, <1>3, <1>5, <2>2
      <3>2. Stored(Stored(entry, call.dst, h), Plus(call.dst, Len(h)), g) =
              Stored(entry, call.dst, h \o g)
        BY <1>1, <1>4, <1>7, <1>9, StoredBehind
      <3> QED
        BY <2>2, <3>1, <3>2 DEF Whole
    <2> QED
      BY <2>1, <2>2
  <1> QED
    BY <1>2, <1>5, <1>6, <1>8, <1>10

(* One portion of carm_fread. *)
LEMMA FreadPortionKeeps ==
    ASSUME StdioInv, Faithful, pc = "fread", ~LoopOver,
           ~call.dst.far \/ OBJ_SIZE % call.c = 0, FreadPortion
    PROVE  StdioInv'
  <1>1. PICK d : d = call.dst
    OBVIOUS
  <1>2. pc \in Streams /\ pc # "done"
    BY DEF Streams
  <1>3. /\ call.fn = "fread" /\ d \in Pointers /\ d \in Places /\ call.src = d
        /\ call.c \in Nat \ {0} /\ call.n \in Nat /\ size = call.n * call.c /\ size \in Nat
        /\ Room(d, size)
        /\ cursor \in Nat /\ cursor < size
        /\ Portion \in Nat /\ cursor + Portion <= size /\ (cursor + Portion) % call.c = 0
        /\ ~d.far => cursor = 0 /\ Portion = size
        /\ Now(d) = Plus(d, cursor)
    BY <1>1, <1>2, PortionLeft
  <1>4. /\ file \in Seq(Bytes) /\ Len(file) \in Nat /\ call.input \in Seq(Bytes)
        /\ mem \in Memories /\ entry \in Memories
    BY <1>3, StdioTypes, LenProperties DEF StdioInv, StreamInv, Streams
  <1>5. PICK k \in 0 .. Smaller(Portion, Len(file)) :
          /\ mem' = Stored(mem, Now(d), IF d.far THEN Take(file, k) \o Zeros(Portion - k)
                                        ELSE Take(file, k))
          /\ file' = Drop(file, k)
          /\ GoOn(k)
    BY <1>1 DEF FreadPortion
  <1>6. k \in 0 .. Portion /\ k <= Len(file) /\ k \in Nat
    BY <1>3, <1>4 DEF Smaller
  <1>7. PICK g : g = Take(file, k)
    OBVIOUS
  <1>8. g \in Seq(Bytes) /\ Len(g) = k /\ file' \in Seq(Bytes)
    <2>1. g \in Seq(Bytes) /\ Len(g) = Smaller(k, Len(file))
      BY <1>4, <1>6, <1>7, TakeIs
    <2>2. Len(g) = k
      BY <1>4, <1>6, <2>1 DEF Smaller
    <2> QED
      BY <1>4, <1>5, <1>6, <2>1, <2>2, DropIs
  <1>9. PICK put : put = Whole(g, Portion)
    OBVIOUS
  <1>10. put \in Seq(Bytes) /\ Len(put) \in Nat /\ cursor + Len(put) <= size
    <2>1. put \in Seq(Bytes) /\ Len(put) <= Portion
      <3>1. CASE d.far
        <4>1. PICK n : n = Portion
          OBVIOUS
        <4>2. put = Padded(g, n) /\ n \in Nat /\ Len(g) <= n
          BY <1>1, <1>3, <1>6, <1>8, <1>9, <3>1, <4>1 DEF Whole
        <4>3. Padded(g, n) \in Seq(Bytes) /\ Len(Padded(g, n)) = n
          BY <1>8, <4>2, PaddedIs
        <4> QED
          BY <4>1, <4>2, <4>3
      <3>2. CASE ~d.far
        BY <1>1, <1>6, <1>8, <1>9, <3>2 DEF Whole
      <3> QED
        BY <3>1, <3>2
    <2> QED
      BY <1>3, <2>1, LenProperties
  <1>11. mem' = Stored(mem, Plus(d, cursor), put)
    BY <1>1, <1>3, <1>5, <1>7, <1>8, <1>9 DEF Whole, Padded
  <1>12. mem' \in Memories
    <2>1. d.addr + cursor \in Nat
      BY <1>3 DEF Places
    <2>2. Plus(d, cursor) \in Places
      BY <1>3, <2>1, PlusIs
    <2> QED
      BY <1>4, <1>10, <1>11, <2>2, StoredType
  <1>13. /\ cursor' = cursor + Portion /\ Passed' = cursor + Portion
         /\ pc' = pc /\ call' = call /\ size' = size /\ entry' = entry
         /\ result' \in Nat /\ device' \in {"ok", "short", "resumed"}
         /\ device' # "resumed" =>
              /\ device # "resumed"
              /\ Transferred \in Nat /\ Transferred <= cursor
              /\ k > 0 => Transferred = cursor
              /\ Transferred + k \in 0 .. cursor + Portion
              /\ device' = "ok" => Transferred + k = cursor + Portion
              /\ result' = (Transferred + k) \div call.c
    BY <1>2, <1>5, <1>6, PortionMoved
  <1>14. LibcInv'
    BY <1>2, <1>3, <1>4, <1>12, <1>13, LibcElsewhere DEF Streams
  <1>15. PICK t : t = Take(call.input, Transferred) \o g
    OBVIOUS
  <1>21. PICK e : e = cursor + Portion
    OBVIOUS
  <1>16. ASSUME device' # "resumed"
         PROVE  /\ Len(call.input) - Len(file') = Transferred + k
                /\ Take(call.input, Transferred + k) = t
                /\ t \o file' = call.input
                /\ mem' = Stored(entry, d,
                                 IF d.far THEN t \o Zeros(e - Len(t)) ELSE t)
    <2>1. /\ Len(Drop(file, k)) = Len(file) - k
          /\ Len(t) = Transferred + k
          /\ t \o Drop(file, k) = call.input
          /\ Take(call.input, Transferred + k) = t
          /\ Stored(mem, Plus(d, cursor), put) = Stored(entry, d, Whole(t, cursor + Portion))
      BY <1>1, <1>6, <1>7, <1>9, <1>13, <1>15, <1>16, FreadStores
    <2>2. Transferred = Len(call.input) - Len(file) /\ Len(call.input) \in Nat
      BY <1>3, <1>4, LenProperties DEF Transferred
    <2>3. Len(call.input) - Len(file') = Transferred + k
      BY <1>4, <1>5, <1>6, <2>1, <2>2
    <2>4. mem' = Stored(entry, d, Whole(t, e))
      BY <1>11, <1>21, <2>1
    <2>5. Whole(t, e) = IF d.far THEN t \o Zeros(e - Len(t)) ELSE t
      <3>1. CASE d.far
        BY <1>1, <3>1 DEF Whole, Padded
      <3>2. CASE ~d.far
        BY <1>1, <3>2 DEF Whole
      <3> QED
        BY <3>1, <3>2
    <2> QED
      BY <1>5, <2>1, <2>3, <2>4, <2>5
  <1>17. StreamInv'
    <2>1. device' # "resumed" =>
            /\ Len(call'.input) - Len(file') \in 0 .. Passed'
            /\ device' = "ok" => Len(call'.input) - Len(file') = Passed'
            /\ result' = (Len(call'.input) - Len(file')) \div call'.c
      BY <1>13, <1>16
    <2>2. ASSUME device' # "resumed"
          PROVE  LET got == Take(call'.input, Len(call'.input) - Len(file'))
                 IN  /\ got \o file' = call'.input
                     /\ mem' = Stored(entry', call'.dst,
                            IF call'.dst.far THEN got \o Zeros(Passed' - Len(got)) ELSE got)
      <3>1. PICK got : got = Take(call'.input, Len(call'.input) - Len(file'))
        OBVIOUS
      <3>2. got = t
        BY <1>13, <1>16, <2>2, <3>1
      <3>3. got \o file' = call'.input
        BY <1>13, <1>16, <2>2, <3>2
      <3>4. mem' = Stored(entry', call'.dst,
                          IF call'.dst.far THEN got \o Zeros(Passed' - Len(got)) ELSE got)
        <4>1. mem' = Stored(entry, d,
                            IF d.far THEN t \o Zeros(e - Len(t)) ELSE t)
          BY <1>16, <2>2
        <4>2. entry' = entry /\ call'.dst = d /\ Passed' = e
          BY <1>1, <1>13, <1>21
        <4>3. CASE d.far
          BY <3>2, <4>1, <4>2, <4>3
        <4>4. CASE ~d.far
          BY <3>2, <4>1, <4>2, <4>4
        <4> QED
          BY <4>3, <4>4
      <3> QED
        BY <3>1, <3>3, <3>4, Zenon
    <2>3. /\ call'.fn = "fread" /\ pc' = "fread"
          /\ call'.dst \in Pointers /\ call'.src = call'.dst
          /\ call'.n \in Nat /\ call'.c \in Nat \ {0} /\ call'.input \in Seq(Bytes)
          /\ size' = call'.n * call'.c /\ Room(call'.dst, size')
      BY <1>1, <1>3, <1>4, <1>13
    <2>4. /\ Passed' <= size' /\ Passed' % call'.c = 0
          /\ ~call'.dst.far => Passed' \in {0, size'}
          /\ file' \in Seq(Bytes) /\ result' \in Nat
          /\ device' \in {"ok", "short", "resumed"}
      BY <1>1, <1>3, <1>8, <1>13
    <2> QED
      BY <2>1, <2>2, <2>3, <2>4 DEF StreamInv
  <1>18. PrintInv' /\ PrintedText'
    BY <1>3, <1>13 DEF PrintInv, PrintedText, Prints
  <1>19. StdioWithinReach'
    <2>1. Reach = size /\ \A p \in Pointers : mem[p] # entry[p] => Within(p, d, size)
      BY <1>1, <1>3, StreamReach DEF Streams
    <2>2. Reach' = size
      BY <1>3, <1>13 DEF Reach, Extent, Streams, Prints
    <2>3. ASSUME NEW p \in Pointers, mem'[p] # entry[p] PROVE Within(p, d, size)
      <3>1. CASE mem[p] # entry[p]
        BY <2>1, <3>1
      <3>2. CASE mem[p] = entry[p]
        BY <1>3, <1>4, <1>10, <1>11, <2>3, <3>2, StoredWithin
      <3> QED
        BY <3>1, <3>2
    <2> QED
      BY <1>1, <1>13, <2>2, <2>3 DEF StdioWithinReach
  <1>20. pc' # "idle" /\ call'.fn \in Streams
    BY <1>2, <1>3, <1>13 DEF Streams
  <1> QED
    BY <1>14, <1>17, <1>18, <1>19, <1>20 DEF StdioInv

(* One portion of carm_fwrite. *)
LEMMA FwritePortionKeeps ==
    ASSUME StdioInv, Faithful, pc = "fwrite", ~LoopOver,
           ~call.dst.far \/ OBJ_SIZE % call.c = 0, FwritePortion
    PROVE  StdioInv'
  <1>1. PICK d : d = call.dst
    OBVIOUS
  <1>2. pc \in Streams /\ pc # "done"
    BY DEF Streams
  <1>3. /\ call.fn = "fwrite" /\ d \in Pointers /\ d \in Places /\ call.src = d
        /\ call.c \in Nat \ {0} /\ call.n \in Nat /\ size = call.n * call.c /\ size \in Nat
        /\ Room(d, size)
        /\ cursor \in Nat /\ cursor < size
        /\ Portion \in Nat /\ cursor + Portion <= size /\ (cursor + Portion) % call.c = 0
        /\ ~d.far => cursor = 0 /\ Portion = size
        /\ Now(d) = Plus(d, cursor)
    BY <1>1, <1>2, PortionLeft
  <1>4. PICK k \in 0 .. Portion : file' = file \o BytesAt(mem, Now(d), k) /\ GoOn(k) /\ mem' = mem
    BY <1>3 DEF FwritePortion
  <1>5. /\ call.input \in Seq(Bytes) /\ mem = entry /\ file \in Seq(Bytes) /\ Len(file) \in Nat
        /\ device # "resumed" => file = BytesAt(entry, d, Len(file))
        /\ mem \in Memories
    BY <1>3, StdioTypes, LenProperties DEF StdioInv, StreamInv, Streams
  <1>6. PICK p : p = BytesAt(entry, Plus(d, cursor), k)
    OBVIOUS
  <1>7. /\ p \in Seq(Bytes) /\ Len(p) = k /\ file' = file \o p
        /\ file \o p \in Seq(Bytes) /\ Len(file \o p) = Len(file) + k
    <2>1. k \in Nat
      BY <1>3
    <2>2. p \in Seq(Bytes) /\ Len(p) = k
      BY <1>5, <1>6, <2>1, BytesAtIs
    <2> QED
      BY <1>3, <1>4, <1>5, <1>6, <2>2, ConcatProperties
  <1>8. /\ cursor' = cursor + Portion /\ Passed' = cursor + Portion
        /\ pc' = pc /\ call' = call /\ size' = size /\ entry' = entry
        /\ result' \in Nat /\ device' \in {"ok", "short", "resumed"}
        /\ device' # "resumed" =>
             /\ device # "resumed"
             /\ Transferred \in Nat /\ Transferred <= cursor
             /\ k > 0 => Transferred = cursor
             /\ Transferred + k \in 0 .. cursor + Portion
             /\ device' = "ok" => Transferred + k = cursor + Portion
             /\ result' = (Transferred + k) \div call.c
    BY <1>2, <1>4, PortionMoved
  <1>9. Transferred = Len(file)
    BY <1>3 DEF Transferred
  <1>10. LibcInv'
    BY <1>2, <1>3, <1>4, <1>5, <1>8, LibcElsewhere DEF Streams
  <1>11. ASSUME device' # "resumed" PROVE file' = BytesAt(entry, d, Len(file'))
    <2>1. PICK l : l = Len(file)
      OBVIOUS
    <2>2. l \in Nat /\ file = BytesAt(entry, d, l) /\ (k > 0 => l = cursor) /\ k \in Nat
      BY <1>3, <1>5, <1>8, <1>9, <1>11, <2>1
    <2>3. CASE k > 0
      <3>1. BytesAt(entry, d, l) \o BytesAt(entry, Plus(d, l), k) = BytesAt(entry, d, l + k)
        <4>1. entry \in Memories /\ d \in Places /\ l \in Nat /\ k \in Nat
          BY <1>3, <1>5, <2>2
        <4> QED
          BY <4>1, BytesBehind, Zenon
      <3> QED
        BY <1>6, <1>7, <2>1, <2>2, <2>3, <3>1
    <2>4. CASE k = 0
      <3>1. p = <<>>
        BY <1>7, <2>4, EmptySeq
      <3>2. file \o p = file
        BY <1>5, <3>1, ConcatEmptySeq
      <3> QED
        BY <1>7, <2>1, <2>2, <3>2
    <2> QED
      BY <2>2, <2>3, <2>4
  <1>12. StreamInv'
    <2>1. device' # "resumed" =>
            /\ Len(file') \in 0 .. Passed'
            /\ device' = "ok" => Len(file') = Passed'
            /\ result' = Len(file') \div call'.c
      BY <1>7, <1>8, <1>9
    <2>2. mem' = entry' /\ (device' # "resumed" => file' = BytesAt(entry', call'.src, Len(file')))
      BY <1>3, <1>4, <1>5, <1>8, <1>11
    <2>3. /\ call'.fn = "fwrite" /\ pc' = "fwrite"
          /\ call'.dst \in Pointers /\ call'.src = call'.dst
          /\ call'.n \in Nat /\ call'.c \in Nat \ {0} /\ call'.input \in Seq(Bytes)
          /\ size' = call'.n * call'.c /\ Room(call'.dst, size')
      BY <1>1, <1>3, <1>5, <1>8
    <2>4. /\ Passed' <= size' /\ Passed' % call'.c = 0
          /\ ~call'.dst.far => Passed' \in {0, size'}
          /\ file' \in Seq(Bytes) /\ result' \in Nat
          /\ device' \in {"ok", "short", "resumed"}
      BY <1>1, <1>3, <1>7, <1>8
    <2> QED
      BY <2>1, <2>2, <2>3, <2>4 DEF StreamInv
  <1>13. PrintInv' /\ PrintedText'
    BY <1>3, <1>8 DEF PrintInv, PrintedText, Prints
  <1>14. StdioWithinReach'
    BY <1>4, <1>5, <1>8 DEF StdioWithinReach
  <1>15. pc' # "idle" /\ call'.fn \in Streams
    BY <1>2, <1>3, <1>8 DEF Streams
  <1> QED
    BY <1>10, <1>12, <1>13, <1>14, <1>15 DEF StdioInv

(* A stream that is over returns. *)
LEMMA StreamReturns ==
    ASSUME StdioInv, Faithful, pc \in Streams, LoopOver, Return(result), UNCHANGED <<mem, stream>>
    PROVE  StdioInv'
  <1>1. /\ call.fn = pc /\ pc \in {"fread", "fwrite"} /\ pc # "done"
        /\ mem \in Memories /\ entry \in Memories /\ cursor \in Nat
    BY Running, StdioTypes DEF Streams
  <1>2. /\ pc' = "done" /\ result' = result /\ cursor' = 0 /\ call' = call /\ size' = size
        /\ entry' = entry /\ mem' = mem /\ file' = file /\ device' = device
    BY DEF Return, stream
  <1>3. LibcInv'
    BY <1>1, <1>2, LibcElsewhere DEF Streams
  <1>4. Passed = cursor /\ Passed' = size /\ Passed <= size /\ size \in Nat
    <2>1. call.n \in Nat /\ call.c \in Nat \ {0} /\ size = call.n * call.c /\ Passed <= size
      BY <1>1 DEF StdioInv, StreamInv, Streams
    <2> QED
      BY <1>1, <1>2, <2>1 DEF Passed
  <1>5. Passed' = Passed
    BY <1>1, <1>4 DEF LoopOver
  <1>6. StreamInv'
    BY <1>1, <1>2, <1>5 DEF StdioInv, StreamInv, Streams
  <1>7. PrintInv' /\ PrintedText'
    BY <1>1, <1>2 DEF PrintInv, PrintedText, Prints
  <1>8. StdioWithinReach'
    <2>1. Reach' = Reach
      BY <1>1, <1>2 DEF Reach, Extent, Streams, Prints
    <2> QED
      BY <1>2, <2>1 DEF StdioInv, StdioWithinReach
  <1> QED
    BY <1>1, <1>2, <1>3, <1>6, <1>7, <1>8 DEF StdioInv, Streams

(* A stream whose elements do not fit ends the program. *)
LEMMA UnsupportedKeeps ==
    ASSUME StdioInv, Faithful, pc \in Streams, Unsupported
    PROVE  StdioInv'
  <1>1. /\ call.fn = pc /\ pc \in {"fread", "fwrite"} /\ pc # "done"
        /\ mem \in Memories /\ entry \in Memories /\ cursor \in Nat
    BY Running, StdioTypes DEF Streams
  <1>2. /\ pc' = "exited" /\ result' = result /\ cursor' = cursor /\ call' = call /\ size' = size
        /\ entry' = entry /\ mem' = mem /\ file' = file /\ device' = device
    BY DEF Unsupported, stream
  <1>3. LibcInv'
    BY <1>1, <1>2, LibcElsewhere DEF Streams
  <1>4. Passed' = Passed
    BY <1>1, <1>2 DEF Passed
  <1>5. StreamInv'
    BY <1>1, <1>2, <1>4 DEF StdioInv, StreamInv, Streams
  <1>6. PrintInv' /\ PrintedText'
    BY <1>1, <1>2 DEF PrintInv, PrintedText, Prints
  <1>7. StdioWithinReach'
    <2>1. Reach' = Reach
      BY <1>1, <1>2 DEF Reach, Extent, Streams, Prints
    <2> QED
      BY <1>2, <2>1 DEF StdioInv, StdioWithinReach
  <1> QED
    BY <1>1, <1>2, <1>3, <1>5, <1>6, <1>7 DEF StdioInv, Streams

(* carm_fread and carm_fwrite. *)
LEMMA FreadKeeps ==
    ASSUME StdioInv, Faithful, carm_fread PROVE StdioInv'
  BY FreadPortionKeeps, StreamReturns, UnsupportedKeeps DEF carm_fread, Streams

(* carm_fwrite: a portion, the return or the unsupported case. *)
LEMMA FwriteKeeps ==
    ASSUME StdioInv, Faithful, carm_fwrite PROVE StdioInv'
  BY FwritePortionKeeps, StreamReturns, UnsupportedKeeps DEF carm_fwrite, Streams

(* Nothing is stored. *)
LEMMA StoredNothing ==
    ASSUME NEW m \in Memories, NEW d \in Places, NEW b, Len(b) = 0
    PROVE  Stored(m, d, b) = m
  <1>1. PICK n : n = Len(b)
    OBVIOUS
  <1>2. ASSUME NEW p \in Pointers PROVE Stored(m, d, b)[p] = m[p]
    <2>1. p \in Places /\ p.addr \in Nat /\ d.addr \in Nat
      BY InPointers DEF Places
    <2>2. ~Within(p, d, n)
      BY <1>1, <2>1, WithinIs
    <2> QED
      BY <1>1, <2>2, StoredAt
  <1>3. Stored(m, d, b) = [p \in Pointers |-> Stored(m, d, b)[p]] /\ m = [p \in Pointers |-> m[p]]
    BY Zenon DEF Stored, Memories
  <1> QED
    BY <1>2, <1>3, Zenon

(* A stream begins. *)
LEMMA CallStreamKeeps ==
    ASSUME StdioInv, Faithful, CallStream PROVE StdioInv'
  <1>1. PICK fn \in Streams, p \in Pointers, e \in ElementSizes, k \in 0 .. HeapSize :
        \E f \in IF fn = "fread" THEN Files ELSE {<<>>} :
          /\ Room(p, e * k)
          /\ call' = [fn |-> fn, dst |-> p, src |-> p, n |-> k, c |-> e, input |-> f]
          /\ pc' = fn
          /\ size' = e * k
          /\ file' = f
          /\ device' = "ok"
    BY DEF CallStream
  <1>2. PICK f \in IF fn = "fread" THEN Files ELSE {<<>>} :
          /\ Room(p, e * k)
          /\ call' = [fn |-> fn, dst |-> p, src |-> p, n |-> k, c |-> e, input |-> f]
          /\ pc' = fn
          /\ size' = e * k
          /\ file' = f
          /\ device' = "ok"
    BY <1>1
  <1>3. /\ pc = "idle" /\ mem' = mem /\ cursor' = cursor /\ result' = result /\ entry' = entry
        /\ fn \in {"fread", "fwrite"}
    BY DEF CallStream, Streams
  <1>4. mem \in Memories /\ entry \in Memories /\ mem = entry /\ cursor = 0 /\ result = 0
    BY <1>3, StdioTypes DEF StdioInv, LibcInv, CallInv
  <1>5. /\ e \in Nat \ {0} /\ k \in Nat /\ f \in Seq(Bytes) /\ e * k = k * e /\ e * k \in Nat
        /\ fn = "fwrite" => f = <<>>
    <2>1. f \in Files \/ f = <<>>
      OBVIOUS
    <2>2. f \in Seq(Bytes)
      BY <2>1, StdioAssumption, EmptySeq
    <2>3. e \in Nat \ {0} /\ k \in Nat
      BY StdioAssumption, Sizes
    <2> QED
      BY <1>3, <2>2, <2>3
  <1>6. /\ call'.fn = fn /\ call'.dst = p /\ call'.src = p /\ call'.n = k /\ call'.c = e
        /\ call'.input = f
    BY <1>2
  <1>7. LibcInv'
    BY <1>2, <1>3, <1>4, <1>6, LibcElsewhere DEF Streams
  <1>8. Passed' = 0
    BY <1>2, <1>3, <1>4 DEF Passed
  <1>9. /\ Take(f, 0) = <<>> /\ Len(<<>>) = 0 /\ Len(f) - Len(f) = 0
        /\ 0 \div e = 0 /\ 0 % e = 0 /\ 0 <= e * k
    BY <1>5, TakeNone, Divided, EmptySeq, LenProperties
  <1>10. StreamInv'
    <2>1. ASSUME fn = "fread"
          PROVE  LET got == Take(f, Len(f) - Len(f))
                 IN  /\ got \o f = f
                     /\ mem = Stored(entry, p, IF p.far THEN got \o Zeros(0 - Len(got)) ELSE got)
      <3>1. PICK g : g = Take(f, Len(f) - Len(f))
        OBVIOUS
      <3>2. PICK o : o = IF p.far THEN Padded(g, 0) ELSE g
        OBVIOUS
      <3>3. g = <<>> /\ g \in Seq(Bytes) /\ Len(g) = 0
        BY <1>9, <3>1, EmptySeq
      <3>4. g \o f = f
        BY <1>5, <3>3, ConcatEmptySeq
      <3>5. Len(o) = 0
        <4>1. CASE p.far
          <5>1. PICK n : n = 0
            OBVIOUS
          <5>2. n \in Nat /\ Len(g) <= n
            BY <3>3, <5>1
          <5>3. Len(Padded(g, n)) = n
            BY <3>3, <5>2, PaddedIs
          <5> QED
            BY <3>2, <4>1, <5>1, <5>3
        <4>2. CASE ~p.far
          BY <3>2, <3>3, <4>2
        <4> QED
          BY <4>1, <4>2
      <3>6. Stored(entry, p, o) = entry
        BY <1>4, <3>5, InPointers, StoredNothing
      <3> QED
        BY <1>4, <3>1, <3>2, <3>4, <3>6 DEF Padded
    <2>2. ASSUME fn = "fwrite" PROVE f = BytesAt(entry, p, Len(f)) /\ Len(f) = 0
      <3>1. PICK n : n = Len(f)
        OBVIOUS
      <3>2. n = 0 /\ n \in Nat
        BY <1>5, <1>9, <2>2, <3>1
      <3>3. BytesAt(entry, p, n) = <<>>
        BY <1>4, <3>2, BytesAtIs, EmptySeq
      <3> QED
        BY <1>5, <2>2, <3>1, <3>2, <3>3
    <2>3. /\ call'.fn = fn /\ pc' = fn /\ call'.dst \in Pointers /\ call'.src = call'.dst
          /\ call'.n \in Nat /\ call'.c \in Nat \ {0} /\ call'.input \in Seq(Bytes)
          /\ size' = call'.n * call'.c /\ Room(call'.dst, size')
      BY <1>2, <1>5, <1>6
    <2>4. /\ Passed' <= size' /\ Passed' % call'.c = 0 /\ Passed' = 0
          /\ file' = f /\ file' \in Seq(Bytes) /\ result' = 0 /\ device' = "ok"
      BY <1>2, <1>3, <1>4, <1>5, <1>6, <1>8, <1>9
    <2>5. 0 \in 0 .. 0 /\ 0 = 0 \div call'.c
      BY <1>6, <1>9
    <2>6. LET passed == IF call'.fn = "fread" THEN Len(call'.input) - Len(file') ELSE Len(file')
          IN  passed = 0
      BY <1>2, <1>3, <1>6, <1>9, <2>2
    <2>7. mem' = mem /\ entry' = entry /\ mem = entry
      BY <1>3, <1>4
    <2>8. call'.fn = "fread" =>
            LET got == Take(call'.input, Len(call'.input) - Len(file'))
            IN  /\ got \o file' = call'.input
                /\ mem' = Stored(entry', call'.dst,
                            IF call'.dst.far THEN got \o Zeros(Passed' - Len(got)) ELSE got)
      BY <1>2, <1>6, <1>8, <2>1, <2>7
    <2>9. call'.fn = "fwrite" =>
            mem' = entry' /\ file' = BytesAt(entry', call'.src, Len(file'))
      BY <1>2, <1>6, <2>2, <2>7
    <2> QED
      BY <2>3, <2>4, <2>5, <2>6, <2>8, <2>9 DEF StreamInv
  <1>11. PrintInv' /\ PrintedText'
    BY <1>3, <1>6 DEF PrintInv, PrintedText, Prints
  <1>12. StdioWithinReach'
    BY <1>3, <1>4 DEF StdioWithinReach
  <1> QED
    BY <1>2, <1>3, <1>6, <1>7, <1>10, <1>11, <1>12 DEF StdioInv, Streams


-----------------------------------------------------------------------------
(* Texts *)

(* The text of the first n pieces is t[n]. *)
IsText(t, fmt, str, n) ==
    t = [k \in 0 .. n |->
            IF k = 0 THEN <<>> ELSE t[k - 1] \o IF fmt[k] = "s" THEN str ELSE <<Char>>]

(* There are texts of every length: the least without one has one.         *)
LEMMA TextExists ==
    ASSUME NEW fmt, NEW str, NEW n \in Nat
    PROVE  \E t : IsText(t, fmt, str, n)
  <1> DEFINE Without == {k \in Nat : ~\E t : IsText(t, fmt, str, k)}
  <1>1. SUFFICES ASSUME Without # {} PROVE FALSE
    BY DEF Without
  <1>2. Without \in SUBSET Nat
    OBVIOUS
  <1>3. PICK m : m = Min(Without)
    OBVIOUS
  <1>4. m \in Without /\ \A k \in Without : m <= k
    BY <1>1, <1>2, <1>3, LeastNumber
  <1>5. CASE m = 0
    <2>1. PICK t : t = [k \in 0 .. 0 |-> <<>>]
      OBVIOUS
    <2>2. t = [k \in 0 .. 0 |->
                 IF k = 0 THEN <<>> ELSE t[k - 1] \o IF fmt[k] = "s" THEN str ELSE <<Char>>]
      BY <2>1
    <2> QED
      BY <1>4, <1>5, <2>2, Zenon DEF IsText
  <1>6. CASE m # 0
    <2>1. PICK j : j = m - 1
      OBVIOUS
    <2>2. j \in Nat /\ j + 1 = m /\ ~(m <= j) /\ m \in Nat
      BY <1>2, <1>4, <1>6, <2>1
    <2>3. j \notin Without
      BY <1>4, <2>2
    <2>4. PICK t : IsText(t, fmt, str, j)
      BY <2>2, <2>3
    <2>5. PICK new : new = t[j] \o IF fmt[m] = "s" THEN str ELSE <<Char>>
      OBVIOUS
    <2>6. PICK u : u = [k \in 0 .. m |-> IF k = m THEN new ELSE t[k]]
      OBVIOUS
    <2>7. \A k \in 0 .. m : u[k] = IF k = m THEN new ELSE t[k]
      BY <2>6
    <2>8. \A k \in 0 .. j :
             t[k] = IF k = 0 THEN <<>> ELSE t[k - 1] \o IF fmt[k] = "s" THEN str ELSE <<Char>>
      BY <2>4, Zenon DEF IsText
    <2>9. ASSUME NEW k \in 0 .. m
          PROVE  (IF k = m THEN new ELSE t[k]) =
                   IF k = 0 THEN <<>> ELSE u[k - 1] \o IF fmt[k] = "s" THEN str ELSE <<Char>>
      <3>1. CASE k = m
        <4>1. u[k - 1] = t[j] /\ k # 0
          BY <2>1, <2>2, <2>7, <3>1
        <4> QED
          BY <2>5, <3>1, <4>1
      <3>2. CASE k # m /\ k # 0
        <4>1. k \in 0 .. j /\ u[k - 1] = t[k - 1]
          BY <2>1, <2>2, <2>7, <3>2
        <4> QED
          BY <2>8, <3>2, <4>1
      <3>3. CASE k # m /\ k = 0
        <4>1. k \in 0 .. j
          BY <2>2, <3>3
        <4> QED
          BY <2>8, <3>3, <4>1
      <3> QED
        BY <3>1, <3>2, <3>3
    <2>10. u = [k \in 0 .. m |->
                  IF k = 0 THEN <<>> ELSE u[k - 1] \o IF fmt[k] = "s" THEN str ELSE <<Char>>]
      BY <2>6, <2>9, Zenon
    <2> QED
      BY <1>4, <2>10, Zenon DEF IsText
  <1> QED
    BY <1>5, <1>6

(* Pieces is such a text. *)
LEMMA PiecesAre ==
    ASSUME NEW fmt, NEW str, Len(fmt) \in Nat
    PROVE  \E t : IsText(t, fmt, str, Len(fmt)) /\ Pieces(fmt, str) = t[Len(fmt)]
  <1>1. \E t : IsText(t, fmt, str, Len(fmt))
    BY TextExists
  <1> QED
    BY <1>1, Zenon DEF IsText, Pieces

Spelled(t, fmt, str, n) ==
    /\ t[0] = <<>>
    /\ \A k \in 1 .. n : t[k] = t[k - 1] \o IF fmt[k] = "s" THEN str ELSE <<Char>>

(* A text is made of its pieces. *)
LEMMA TextIs ==
    ASSUME NEW fmt, NEW str, NEW n \in Nat, NEW t, IsText(t, fmt, str, n)
    PROVE  Spelled(t, fmt, str, n)
  <1>1. \A k \in 0 .. n :
           t[k] = IF k = 0 THEN <<>> ELSE t[k - 1] \o IF fmt[k] = "s" THEN str ELSE <<Char>>
    BY Zenon DEF IsText
  <1>2. 0 \in 0 .. n
    OBVIOUS
  <1>3. ASSUME NEW k \in 1 .. n
        PROVE  t[k] = t[k - 1] \o IF fmt[k] = "s" THEN str ELSE <<Char>>
    <2>1. k \in 0 .. n /\ k # 0
      OBVIOUS
    <2> QED
      BY <1>1, <2>1, Zenon
  <1>4. t[0] = <<>>
    BY <1>1, <1>2, Zenon
  <1> QED
    BY <1>3, <1>4 DEF Spelled

(* Texts consist of bytes: the shortest that does not would be one.        *)
LEMMA TextBytes ==
    ASSUME NEW fmt, NEW str \in Seq(Bytes), NEW n \in Nat, NEW t, IsText(t, fmt, str, n)
    PROVE  \A k \in 0 .. n : t[k] \in Seq(Bytes)
  <1> DEFINE Wrong == {k \in 0 .. n : t[k] \notin Seq(Bytes)}
  <1>7. /\ t[0] = <<>>
        /\ \A k \in 1 .. n : t[k] = t[k - 1] \o IF fmt[k] = "s" THEN str ELSE <<Char>>
    BY TextIs DEF Spelled
  <1>1. SUFFICES ASSUME Wrong # {} PROVE FALSE
    OBVIOUS
  <1>2. PICK m : m = Min(Wrong)
    OBVIOUS
  <1>6. Wrong \in SUBSET Nat
    OBVIOUS
  <1>3. m \in Wrong /\ \A k \in Wrong : m <= k
    BY <1>1, <1>2, <1>6, LeastNumber
  <1>4. CASE m = 0
    <2>1. t[0] \in Seq(Bytes)
      BY <1>7, EmptySeq
    <2> QED
      BY <1>3, <1>4, <2>1
  <1>5. CASE m # 0
    <2>1. m \in 1 .. n /\ m - 1 \in 0 .. n /\ ~(m <= m - 1)
      BY <1>3, <1>5
    <2>2. t[m - 1] \in Seq(Bytes)
      BY <1>3, <2>1
    <2>3. PICK x : x = IF fmt[m] = "s" THEN str ELSE <<Char>>
      OBVIOUS
    <2>4. x \in Seq(Bytes)
      BY <2>3, StdioAssumption
    <2>5. t[m] = t[m - 1] \o x
      BY <1>7, <2>1, <2>3
    <2>6. PICK y : y = t[m - 1]
      OBVIOUS
    <2>7. y \o x \in Seq(Bytes)
      BY <2>2, <2>4, <2>6, ConcatProperties
    <2> QED
      BY <1>3, <2>5, <2>6, <2>7
  <1> QED
    BY <1>4, <1>5

(* Texts without strings do not depend on the string. *)
LEMMA TextWithout ==
    ASSUME NEW fmt, NEW str, NEW alt, NEW n \in Nat, NEW t, NEW u,
           IsText(t, fmt, str, n), IsText(u, fmt, alt, n), NEW j \in 0 .. n,
           \A k \in 1 .. j : fmt[k] # "s"
    PROVE  t[j] = u[j]
  <1> DEFINE Wrong == {k \in 0 .. j : t[k] # u[k]}
  <1>7. /\ t[0] = <<>>
        /\ \A k \in 1 .. n : t[k] = t[k - 1] \o IF fmt[k] = "s" THEN str ELSE <<Char>>
    BY TextIs DEF Spelled
  <1>8. /\ u[0] = <<>>
        /\ \A k \in 1 .. n : u[k] = u[k - 1] \o IF fmt[k] = "s" THEN alt ELSE <<Char>>
    BY TextIs DEF Spelled
  <1>1. SUFFICES ASSUME Wrong # {} PROVE FALSE
    OBVIOUS
  <1>2. PICK m : m = Min(Wrong)
    OBVIOUS
  <1>6. Wrong \in SUBSET Nat
    OBVIOUS
  <1>3. m \in Wrong /\ \A k \in Wrong : m <= k
    BY <1>1, <1>2, <1>6, LeastNumber
  <1>4. CASE m = 0
    BY <1>3, <1>4, <1>7, <1>8
  <1>5. CASE m # 0
    <2>1. m \in 1 .. j /\ m \in 1 .. n /\ m - 1 \in 0 .. j /\ ~(m <= m - 1)
      BY <1>3, <1>5
    <2>2. t[m - 1] = u[m - 1] /\ fmt[m] # "s"
      BY <1>3, <2>1
    <2>3. t[m] = t[m - 1] \o <<Char>> /\ u[m] = u[m - 1] \o <<Char>>
      BY <1>7, <1>8, <2>1, <2>2
    <2> QED
      BY <1>3, <2>2, <2>3
  <1> QED
    BY <1>4, <1>5

(* Numbers of pieces are numbers. *)
LEMMA CountsAre ==
    ASSUME NEW S, NEW fmt \in Seq(S)
    PROVE  /\ Strings(fmt) \in Nat /\ Directives(fmt) \in Nat
           /\ Strings(fmt) = 1 =>
                 \E x \in 1 .. Len(fmt) :
                    fmt[x] = "s" /\ \A k \in 1 .. Len(fmt) : fmt[k] = "s" => k = x
  <1>1. Len(fmt) \in Nat /\ DOMAIN fmt = 1 .. Len(fmt)
    BY LenProperties
  <1>2. IsFiniteSet(1 .. Len(fmt))
    BY <1>1, FS_Interval
  <1> DEFINE A == {k \in DOMAIN fmt : fmt[k] = "s"}
             B == {k \in DOMAIN fmt : fmt[k] # "lit"}
  <1>3. IsFiniteSet(A) /\ IsFiniteSet(B)
    <2>1. A \subseteq 1 .. Len(fmt) /\ B \subseteq 1 .. Len(fmt)
      BY <1>1
    <2> QED
      BY <1>2, <2>1, FS_Subset
  <1>4. Cardinality(A) \in Nat /\ Cardinality(B) \in Nat
    BY <1>3, FS_CardinalityType
  <1>5. ASSUME Cardinality(A) = 1
        PROVE  \E x \in 1 .. Len(fmt) :
                    fmt[x] = "s" /\ \A k \in 1 .. Len(fmt) : fmt[k] = "s" => k = x
    <2>1. PICK x : A = {x}
      BY <1>3, <1>5, FS_Singleton
    <2> QED
      BY <1>1, <2>1
  <1> QED
    BY <1>4, <1>5 DEF Strings, Directives

(* The pieces of a format are bytes. *)
LEMMA PiecesBytes ==
    ASSUME NEW S, NEW fmt \in Seq(S), NEW str \in Seq(Bytes)
    PROVE  Pieces(fmt, str) \in Seq(Bytes)
  <1>1. Len(fmt) \in Nat /\ Len(fmt) \in 0 .. Len(fmt)
    BY LenProperties
  <1>2. PICK t : IsText(t, fmt, str, Len(fmt)) /\ Pieces(fmt, str) = t[Len(fmt)]
    BY <1>1, PiecesAre
  <1> QED
    BY <1>1, <1>2, TextBytes

(* One string at the end: the text ends with it, and with what it ends.    *)
LEMMA LastString ==
    ASSUME NEW S, NEW fmt \in Seq(S), NEW str \in Seq(Bytes),
           Strings(fmt) = 1, Last(fmt) = "s"
    PROVE  Pieces(fmt, Append(str, NUL)) = Append(Pieces(fmt, str), NUL)
  <1>1. PICK n : n = Len(fmt)
    OBVIOUS
  <1>2. n \in Nat
    BY <1>1, LenProperties
  <1>3. PICK x \in 1 .. n : fmt[x] = "s" /\ \A k \in 1 .. n : fmt[k] = "s" => k = x
    BY <1>1, CountsAre
  <1>4. fmt[n] = "s" /\ n \in 1 .. n
    BY <1>1, <1>2, <1>3 DEF Last
  <1>5. n - 1 \in 0 .. n /\ \A k \in 1 .. n - 1 : fmt[k] # "s"
    BY <1>2, <1>3, <1>4
  <1>6. PICK t : IsText(t, fmt, str, n) /\ Pieces(fmt, str) = t[n]
    BY <1>1, <1>2, PiecesAre
  <1>7. PICK alt : alt = Append(str, NUL)
    OBVIOUS
  <1>8. PICK u : IsText(u, fmt, alt, n) /\ Pieces(fmt, alt) = u[n]
    BY <1>1, <1>2, PiecesAre
  <1>9. t[n - 1] = u[n - 1]
    BY <1>2, <1>5, <1>6, <1>8, TextWithout
  <1>10. t[n] = t[n - 1] \o str /\ u[n] = u[n - 1] \o alt
    <2>1. /\ t[0] = <<>>
          /\ \A k \in 1 .. n : t[k] = t[k - 1] \o IF fmt[k] = "s" THEN str ELSE <<Char>>
      <3>1. IsText(t, fmt, str, n)
        BY <1>6
      <3> QED
        <4>1. Spelled(t, fmt, str, n)
          BY <1>2, <3>1, TextIs
        <4> QED
          BY <4>1 DEF Spelled
    <2>2. /\ u[0] = <<>>
          /\ \A k \in 1 .. n : u[k] = u[k - 1] \o IF fmt[k] = "s" THEN alt ELSE <<Char>>
      <3>1. IsText(u, fmt, alt, n)
        BY <1>8
      <3> QED
        <4>1. Spelled(u, fmt, alt, n)
          BY <1>2, <3>1, TextIs
        <4> QED
          BY <4>1 DEF Spelled
    <2> QED
      BY <1>4, <2>1, <2>2
  <1>11. t[n - 1] \in Seq(Bytes)
    BY <1>2, <1>5, <1>6, TextBytes
  <1>12. PICK v : v = t[n - 1]
    OBVIOUS
  <1>13. v \o alt = Append(v \o str, NUL)
    <2>1. <<NUL>> \in Seq(Bytes) /\ NUL \in Bytes
      BY Sizes
    <2>2. v \in Seq(Bytes) /\ v \o str \in Seq(Bytes)
      BY <1>11, <1>12, ConcatProperties
    <2>3. alt = str \o <<NUL>>
      BY <1>7, <2>1, AppendIsConcat
    <2>4. v \o (str \o <<NUL>>) = (v \o str) \o <<NUL>>
      BY <2>1, <2>2, ConcatAssociative
    <2>5. (v \o str) \o <<NUL>> = Append(v \o str, NUL)
      BY <2>1, <2>2, AppendIsConcat
    <2> QED
      BY <2>3, <2>4, <2>5
  <1> QED
    BY <1>6, <1>7, <1>8, <1>9, <1>10, <1>12, <1>13

Many(fmt, j) == {k \in 1 .. j : fmt[k] = "s"}

(* One piece more is at most one string more. *)
LEMMA ManyOn ==
    ASSUME NEW fmt, NEW m \in Nat \ {0}
    PROVE  /\ Cardinality(Many(fmt, m)) \in Nat /\ Cardinality(Many(fmt, m - 1)) \in Nat
           /\ Cardinality(Many(fmt, m)) =
                Cardinality(Many(fmt, m - 1)) + IF fmt[m] = "s" THEN 1 ELSE 0
  <1>1. PICK j : j = m - 1
    OBVIOUS
  <1>2. j \in Nat /\ m = j + 1
    BY <1>1
  <1>3. IsFiniteSet(Many(fmt, j)) /\ m \notin Many(fmt, j)
    <2>1. IsFiniteSet(1 .. j) /\ Many(fmt, j) \subseteq 1 .. j
      BY <1>2, FS_Interval DEF Many
    <2>2. m \notin 1 .. j
      BY <1>2
    <2> QED
      BY <2>1, <2>2, FS_Subset
  <1>4. Many(fmt, m) = IF fmt[m] = "s" THEN Many(fmt, j) \cup {m} ELSE Many(fmt, j)
    BY <1>2 DEF Many
  <1>5. Cardinality(Many(fmt, j)) \in Nat
    BY <1>3, FS_CardinalityType
  <1>6. Cardinality(Many(fmt, j) \cup {m}) = Cardinality(Many(fmt, j)) + 1
    BY <1>3, FS_AddElement
  <1> QED
    BY <1>1, <1>4, <1>5, <1>6

(* With a NUL behind every string a text is longer by as many bytes as it  *)
(* has strings: the fewest pieces of which this is not true would have one *)
(* piece more than some of which it is.                                    *)
LEMMA TextLonger ==
    ASSUME NEW fmt, NEW str \in Seq(Bytes), NEW alt \in Seq(Bytes), Len(alt) = Len(str) + 1,
           NEW n \in Nat, NEW t, NEW u, IsText(t, fmt, str, n), IsText(u, fmt, alt, n)
    PROVE  \A k \in 0 .. n : Len(u[k]) = Len(t[k]) + Cardinality(Many(fmt, k))
  <1> DEFINE Wrong == {k \in 0 .. n : Len(u[k]) # Len(t[k]) + Cardinality(Many(fmt, k))}
  <1>1. /\ t[0] = <<>>
        /\ \A k \in 1 .. n : t[k] = t[k - 1] \o IF fmt[k] = "s" THEN str ELSE <<Char>>
    BY TextIs DEF Spelled
  <1>2. /\ u[0] = <<>>
        /\ \A k \in 1 .. n : u[k] = u[k - 1] \o IF fmt[k] = "s" THEN alt ELSE <<Char>>
    BY TextIs DEF Spelled
  <1>3. \A k \in 0 .. n : t[k] \in Seq(Bytes) /\ u[k] \in Seq(Bytes)
    BY TextBytes
  <1>4. SUFFICES ASSUME Wrong # {} PROVE FALSE
    OBVIOUS
  <1>5. PICK m : m = Min(Wrong)
    OBVIOUS
  <1>6. Wrong \in SUBSET Nat
    OBVIOUS
  <1>7. m \in Wrong /\ \A k \in Wrong : m <= k
    BY <1>4, <1>5, <1>6, LeastNumber
  <1>8. CASE m = 0
    <2>1. Many(fmt, 0) = {}
      BY DEF Many
    <2>2. Cardinality(Many(fmt, 0)) = 0 /\ Len(<<>>) = 0
      BY <2>1, FS_EmptySet, EmptySeq
    <2> QED
      BY <1>1, <1>2, <1>7, <1>8, <2>2
  <1>9. CASE m # 0
    <2>1. m \in 1 .. n /\ m - 1 \in 0 .. n /\ ~(m <= m - 1) /\ m \in Nat \ {0}
      BY <1>7, <1>9
    <2>2. PICK a : a = t[m - 1]
      OBVIOUS
    <2>3. PICK b : b = u[m - 1]
      OBVIOUS
    <2>4. a \in Seq(Bytes) /\ b \in Seq(Bytes) /\ Len(a) \in Nat /\ Len(b) \in Nat
      BY <1>3, <2>1, <2>2, <2>3, LenProperties
    <2>5. PICK c : c = Cardinality(Many(fmt, m - 1))
      OBVIOUS
    <2>6. Len(b) = Len(a) + c
      BY <1>7, <2>1, <2>2, <2>3, <2>5
    <2>7. c \in Nat /\ Cardinality(Many(fmt, m)) = c + IF fmt[m] = "s" THEN 1 ELSE 0
      BY <2>1, <2>5, ManyOn
    <2>8. PICK x : x = IF fmt[m] = "s" THEN str ELSE <<Char>>
      OBVIOUS
    <2>9. PICK y : y = IF fmt[m] = "s" THEN alt ELSE <<Char>>
      OBVIOUS
    <2>10. /\ x \in Seq(Bytes) /\ y \in Seq(Bytes) /\ Len(x) \in Nat /\ Len(y) \in Nat
           /\ Len(y) = Len(x) + IF fmt[m] = "s" THEN 1 ELSE 0
      BY <2>8, <2>9, StdioAssumption, LenProperties
    <2>11. t[m] = a \o x /\ u[m] = b \o y
      BY <1>1, <1>2, <2>1, <2>2, <2>3, <2>8, <2>9
    <2>12. Len(a \o x) = Len(a) + Len(x) /\ Len(b \o y) = Len(b) + Len(y)
      BY <2>4, <2>10, ConcatProperties
    <2>14. PICK z : z = IF fmt[m] = "s" THEN 1 ELSE 0
      OBVIOUS
    <2>15. z \in Nat /\ Cardinality(Many(fmt, m)) = c + z /\ Len(y) = Len(x) + z
      BY <2>7, <2>10, <2>14
    <2>16. PICK i : i = Len(a)
      OBVIOUS
    <2>17. PICK j : j = Len(x)
      OBVIOUS
    <2>18. i \in Nat /\ j \in Nat /\ Len(t[m]) = i + j /\ Len(u[m]) = i + c + (j + z)
      BY <2>4, <2>6, <2>10, <2>11, <2>12, <2>15, <2>16, <2>17
    <2>13. Len(u[m]) = Len(t[m]) + Cardinality(Many(fmt, m))
      BY <2>7, <2>15, <2>18
    <2> QED
      BY <1>7, <2>13
  <1> QED
    BY <1>8, <1>9

(* The text with the NULs of its strings. *)
LEMMA PiecesLength ==
    ASSUME NEW S, NEW fmt \in Seq(S), NEW str \in Seq(Bytes)
    PROVE  Len(Pieces(fmt, Append(str, NUL))) = Len(Pieces(fmt, str)) + Strings(fmt)
  <1>1. PICK n : n = Len(fmt)
    OBVIOUS
  <1>2. n \in Nat /\ DOMAIN fmt = 1 .. n /\ n \in 0 .. n
    BY <1>1, LenProperties
  <1>3. PICK alt : alt = Append(str, NUL)
    OBVIOUS
  <1>4. alt \in Seq(Bytes) /\ Len(alt) = Len(str) + 1
    BY <1>3, Sizes, AppendProperties
  <1>5. PICK t : IsText(t, fmt, str, n) /\ Pieces(fmt, str) = t[n]
    BY <1>1, <1>2, PiecesAre
  <1>6. PICK u : IsText(u, fmt, alt, n) /\ Pieces(fmt, alt) = u[n]
    BY <1>1, <1>2, PiecesAre
  <1>7. Strings(fmt) = Cardinality(Many(fmt, n))
    BY <1>2 DEF Strings, Many
  <1>8. Len(u[n]) = Len(t[n]) + Cardinality(Many(fmt, n))
    BY <1>2, <1>4, <1>5, <1>6, TextLonger
  <1> QED
    BY <1>3, <1>5, <1>6, <1>7, <1>8

-----------------------------------------------------------------------------
(* Prints *)

(* A buffer holds what is stored at its beginning. *)
LEMMA StoredPrefix ==
    ASSUME NEW m \in Memories, NEW d \in Places, NEW b \in Seq(Bytes), NEW s \in Seq(Bytes),
           Room(d, Len(s)), Len(s) <= Len(b), \A i \in 1 .. Len(s) : b[i] = s[i]
    PROVE  BytesAt(Stored(m, d, b), d, Len(s)) = s
  <1>1. PICK w : w = Stored(m, d, b)
    OBVIOUS
  <1>2. PICK n : n = Len(s)
    OBVIOUS
  <1>3. n \in Nat /\ Len(b) \in Nat /\ Room(d, n) /\ n <= Len(b)
    BY <1>2, LenProperties
  <1>4. w \in Memories
    BY <1>1, StoredType
  <1>5. /\ BytesAt(w, d, n) \in Seq(Bytes) /\ Len(BytesAt(w, d, n)) = n
        /\ \A i \in 1 .. n : BytesAt(w, d, n)[i] = Byte(w, Plus(d, i - 1))
    BY <1>3, <1>4, BytesAtIs
  <1>6. ASSUME NEW k \in 1 .. n PROVE BytesAt(w, d, n)[k] = s[k]
    <2>1. PICK c : c = 0
      OBVIOUS
    <2>2. Plus(d, c) = d /\ c \in Nat
      BY <2>1, PlusZero
    <2>3. Byte(Stored(m, Plus(d, c), b), Plus(d, k - 1)) =
            IF c < k /\ k <= c + Len(b) THEN b[k - c] ELSE Byte(m, Plus(d, k - 1))
      BY <1>3, <2>2, StoredBytes
    <2>4. c < k /\ k <= c + Len(b) /\ k - c = k
      BY <1>3, <2>1
    <2> QED
      BY <1>1, <1>2, <1>5, <2>2, <2>3, <2>4
  <1> QED
    BY <1>1, <1>2, <1>5, <1>6, SeqEqual

(* Less room than there is. *)
LEMMA LessRoom ==
    ASSUME NEW d \in Places, NEW n \in Nat, NEW k \in Nat, k <= n, Room(d, n)
    PROVE  Room(d, k)
  <1>1. d.addr \in Nat /\ d.addr + n <= Limit(d) /\ Limit(d) \in Nat
    BY Sizes DEF Places, Room, Limit
  <1> QED
    BY <1>1, RoomLimit

(* What libc prints into a buffer of n bytes. *)
LEMMA VsnprintfIs ==
    ASSUME NEW s \in Seq(Bytes), NEW n \in Nat
    PROVE  /\ vsnprintf(s, n) \in Seq(Bytes)
           /\ Len(vsnprintf(s, n)) \in Nat /\ Len(vsnprintf(s, n)) <= n
           /\ Len(vsnprintf(s, n)) <= Len(s) + 1
           /\ n > 0 => /\ vsnprintf(s, n) = Append(Take(s, n - 1), NUL)
                       /\ Take(s, n - 1) \in Seq(Bytes)
  <1>1. CASE n = 0
    <2>1. vsnprintf(s, n) = <<>>
      BY <1>1 DEF vsnprintf
    <2>2. vsnprintf(s, n) \in Seq(Bytes) /\ Len(vsnprintf(s, n)) = 0
      BY <2>1, EmptySeq
    <2> QED
      BY <1>1, <2>2, LenProperties
  <1>2. CASE n > 0
    <2>1. PICK k : k = n - 1
      OBVIOUS
    <2>2. k \in Nat /\ NUL \in Bytes
      BY <1>2, <2>1, Sizes
    <2>3. PICK t : t = Take(s, k)
      OBVIOUS
    <2>4. t \in Seq(Bytes) /\ Len(t) = Smaller(k, Len(s)) /\ Len(s) \in Nat
      BY <2>2, <2>3, TakeIs
    <2>5. Append(t, NUL) \in Seq(Bytes) /\ Len(Append(t, NUL)) = Len(t) + 1
          /\ Append(t, NUL) = t \o <<NUL>>
      BY <2>2, <2>4, AppendProperties, AppendIsConcat
    <2>6. vsnprintf(s, n) = t \o <<NUL>>
      BY <1>2, <2>1, <2>3 DEF vsnprintf
    <2>7. Len(t) \in Nat /\ Len(t) + 1 <= n /\ Len(t) + 1 <= Len(s) + 1
      BY <2>1, <2>2, <2>4 DEF Smaller
    <2> QED
      BY <2>1, <2>3, <2>4, <2>5, <2>6, <2>7
  <1> QED
    BY <1>1, <1>2

(* The arguments of a print. *)
LEMMA PrintArguments ==
    ASSUME StdioInv, call.fn \in Prints
    PROVE  /\ call.dst \in Pointers /\ call.dst \in Places /\ call.src \in Pointers
           /\ call.n \in Nat /\ call.fmt \in Seq({"lit", "d", "s"})
           /\ "s" \in Range(call.fmt) => String(entry, call.src) \in Seq(Bytes)
           /\ Text(call, entry) \in Seq(Bytes) /\ Len(Text(call, entry)) \in Nat
           /\ Strings(call.fmt) \in Nat /\ get_size_of_valist(call, entry) \in Nat
           /\ Extent = IF call.fn = "snprintf" THEN call.n ELSE Len(Text(call, entry)) + 1
           /\ Extent \in Nat /\ Room(call.dst, Extent) /\ size \in Nat
  <1>1. /\ call.dst \in Pointers /\ call.dst \in Places /\ call.src \in Pointers
        /\ call.n \in Nat /\ call.fmt \in Seq({"lit", "d", "s"})
        /\ "s" \in Range(call.fmt) => IsString(entry, call.src)
        /\ Room(call.dst, Extent) /\ entry \in Memories
        /\ size = IF call.fn = "snprintf" \/ pc = "measure" THEN call.n
                  ELSE get_size_of_valist(call, entry)
    BY InPointers, StdioTypes, StdioAssumption DEF StdioInv, PrintInv
  <1>2. ASSUME "s" \in Range(call.fmt) PROVE String(entry, call.src) \in Seq(Bytes)
    BY <1>1, <1>2, LengthIs, BytesAtIs DEF String
  <1>3. Text(call, entry) \in Seq(Bytes)
    <2>1. PICK str : str = IF "s" \in Range(call.fmt) THEN String(entry, call.src) ELSE <<>>
      OBVIOUS
    <2>2. str \in Seq(Bytes)
      BY <1>2, <2>1, EmptySeq
    <2>3. Text(call, entry) = Pieces(call.fmt, str)
      BY <2>1 DEF Text
    <2> QED
      BY <1>1, <2>2, <2>3, PiecesBytes
  <1>4. Len(Text(call, entry)) \in Nat
    BY <1>3, LenProperties
  <1>5. Strings(call.fmt) \in Nat
    BY <1>1, CountsAre
  <1>6. get_size_of_valist(call, entry) \in Nat
    BY <1>4, <1>5 DEF get_size_of_valist
  <1>7. Extent = IF call.fn = "snprintf" THEN call.n ELSE Len(Text(call, entry)) + 1
    BY DEF Extent, Prints
  <1> QED
    BY <1>1, <1>2, <1>3, <1>4, <1>5, <1>6, <1>7

(* carm_sprintf measures its text. *)
LEMMA MeasureKeeps ==
    ASSUME StdioInv, Faithful, carm_vsprintf PROVE StdioInv'
  <1>1. /\ pc = "measure" /\ pc' = "vsnprintf" /\ size' = get_size_of_valist(call, mem)
        /\ mem' = mem /\ call' = call /\ cursor' = cursor /\ result' = result /\ entry' = entry
        /\ file' = file
    BY DEF carm_vsprintf, stream
  <1>2. /\ call.fn = "sprintf" /\ call.fn \in Prints /\ mem = entry
        /\ mem \in Memories /\ cursor \in Nat
    BY <1>1, Running, StdioTypes DEF StdioInv, PrintInv
  <1>3. LibcInv'
    BY <1>1, <1>2, LibcElsewhere
  <1>4. Extent' = Extent
    BY <1>1 DEF Extent
  <1>5. PrintInv'
    BY <1>1, <1>2, <1>4 DEF StdioInv, PrintInv
  <1>6. StreamInv'
    BY <1>1, <1>2 DEF StreamInv, Streams
  <1>7. StdioWithinReach' /\ PrintedText'
    BY <1>1, <1>2 DEF StdioWithinReach, PrintedText
  <1> QED
    BY <1>1, <1>2, <1>3, <1>5, <1>6, <1>7 DEF StdioInv

(* What carm_vsnprintf prints: bytes within the reach of the call, and     *)
(* when it may be trusted with the call, those of libc first.              *)
LEMMA PrintedBytes ==
    ASSUME StdioInv, pc = "vsnprintf",
           NEW bytes \in IF FarArguments THEN {__vsn_printf} ELSE PrintedNear
    PROVE  /\ bytes \in Seq(Bytes) /\ Len(bytes) \in Nat
           /\ Len(bytes) <= Reach
           /\ Printable /\ size > 0 =>
                LET out == IF call.fn = "sprintf" THEN Text(call, entry)
                           ELSE Take(Text(call, entry), call.n - 1)
                IN  /\ out \in Seq(Bytes) /\ Len(out) \in Nat /\ Len(out) + 1 <= Extent
                    /\ Append(out, NUL) \in Seq(Bytes)
                    /\ Len(Append(out, NUL)) = Len(out) + 1
                    /\ Len(out) + 1 <= Len(bytes)
                    /\ \A i \in 1 .. Len(out) + 1 : bytes[i] = Append(out, NUL)[i]
  <1>1. call.fn \in Prints /\ mem = entry /\ pc # "done"
    BY Running DEF StdioInv, PrintInv
  <1>2. PICK fmt : fmt = call.fmt
    OBVIOUS
  <1>3. PICK text : text = Text(call, entry)
    OBVIOUS
  <1>4. /\ fmt \in Seq({"lit", "d", "s"}) /\ call.n \in Nat
        /\ "s" \in Range(fmt) => String(entry, call.src) \in Seq(Bytes)
        /\ text \in Seq(Bytes) /\ Len(text) \in Nat
        /\ Strings(fmt) \in Nat /\ Directives(fmt) \in Nat
        /\ Extent = IF call.fn = "snprintf" THEN call.n ELSE Len(text) + 1
        /\ Extent \in Nat /\ size \in Nat
        /\ size = IF call.fn = "snprintf" THEN call.n ELSE Len(text) + Strings(fmt)
        /\ NUL \in Bytes
        /\ Reach = IF FarArguments
                   THEN Larger(Extent, Len(text) + Strings(fmt) + Directives(fmt))
                   ELSE IF call.fn = "sprintf" /\ call.dst.far
                   THEN Larger(Extent, Len(text) + Strings(fmt))
                   ELSE Extent
    BY <1>1, <1>2, <1>3, PrintArguments, CountsAre, Sizes
       DEF StdioInv, PrintInv, get_size_of_valist, Reach
  <1>5. call.fn # "snprintf" => call.fn = "sprintf"
    BY <1>1 DEF Prints
  <1>6. PICK out : out = IF call.fn = "sprintf" THEN text ELSE Take(text, call.n - 1)
    OBVIOUS
  <1>7. CASE ~FarArguments
    <2>1. PICK o : o = vsnprintf(text, size)
      OBVIOUS
    <2>2. /\ o \in Seq(Bytes) /\ Len(o) \in Nat /\ Len(o) <= size
          /\ Len(o) <= Len(text) + 1
          /\ size > 0 => o = Append(Take(text, size - 1), NUL) /\ Take(text, size - 1) \in Seq(Bytes)
      BY <1>4, <2>1, VsnprintfIs
    <2>3. bytes \in IF call.dst.far THEN {o \o tail : tail \in [1 .. size - Len(o) -> Bytes]}
                    ELSE {o}
      BY <1>1, <1>3, <1>7, <2>1 DEF PrintedNear
    <2>4. /\ bytes \in Seq(Bytes) /\ Len(o) <= Len(bytes) /\ Len(bytes) <= size
          /\ ~call.dst.far => Len(bytes) = Len(o)
          /\ \A i \in 1 .. Len(o) : bytes[i] = o[i]
      <3>1. CASE call.dst.far
        <4>1. PICK tail \in [1 .. size - Len(o) -> Bytes] : bytes = o \o tail
          BY <2>3, <3>1
        <4>2. PICK k : k = size - Len(o)
          OBVIOUS
        <4>3. k \in Nat /\ Len(o) + k = size
          <5>1. Len(o) \in Nat /\ size \in Nat /\ Len(o) <= size
            BY <1>4, <2>2
          <5> QED
            BY <4>2, <5>1
        <4>7. tail \in [1 .. k -> Bytes]
          BY <4>2
        <4>4. tail \in Seq(Bytes) /\ Len(tail) = k
          BY <4>3, <4>7
        <4>5. /\ o \o tail \in Seq(Bytes) /\ Len(o \o tail) = Len(o) + Len(tail)
              /\ \A i \in 1 .. Len(o) + Len(tail) :
                   (o \o tail)[i] = IF i <= Len(o) THEN o[i] ELSE tail[i - Len(o)]
          BY <2>2, <4>4, ConcatProperties
        <4>6. \A i \in 1 .. Len(o) : (o \o tail)[i] = o[i]
          BY <2>2, <4>3, <4>4, <4>5
        <4>8. PICK l : l = Len(o)
          OBVIOUS
        <4>9. Len(bytes) = l + k /\ l \in Nat /\ l + k = size
          BY <2>2, <4>1, <4>3, <4>4, <4>5, <4>8
        <4>10. l <= l + k
          BY <4>3, <4>9
        <4>11. Len(o) <= Len(bytes) /\ Len(bytes) <= size
          BY <1>4, <4>8, <4>9, <4>10
        <4> QED
          BY <3>1, <4>1, <4>5, <4>6, <4>11
      <3>2. CASE ~call.dst.far
        <4>1. bytes = o
          BY <2>3, <3>2
        <4> QED
          BY <2>2, <4>1
      <3> QED
        BY <3>1, <3>2
    <2>5. Len(bytes) <= Reach
      <3>1. Len(bytes) \in Nat
        BY <2>4, LenProperties
      <3>2. CASE call.fn = "snprintf"
        BY <1>4, <1>7, <2>4, <3>1, <3>2
      <3>3. CASE call.fn = "sprintf" /\ call.dst.far
        BY <1>4, <1>7, <2>4, <3>1, <3>3 DEF Larger
      <3>4. CASE call.fn = "sprintf" /\ ~call.dst.far
        BY <1>4, <1>7, <2>2, <2>4, <3>1, <3>4
      <3> QED
        BY <1>5, <3>2, <3>3, <3>4
    <2>6. ASSUME Printable, size > 0
          PROVE  o = Append(out, NUL) /\ out \in Seq(Bytes)
      <3>1. CASE call.fn = "sprintf"
        <4>1. size >= Len(text) + 1
          BY <1>2, <1>4, <2>6, <3>1 DEF Printable
        <4>2. PICK k : k = size - 1
          OBVIOUS
        <4>7. Len(text) \in Nat /\ size \in Nat
          BY <1>4
        <4>3. k \in Nat /\ Len(text) <= k
          BY <4>1, <4>2, <4>7
        <4>4. Take(text, k) = text
          BY <1>4, <4>3, TakeAll
        <4>5. o = Append(Take(text, k), NUL)
          BY <2>2, <2>6, <4>2
        <4>6. out = text
          BY <1>6, <3>1
        <4> QED
          BY <1>4, <4>4, <4>5, <4>6
      <3>2. CASE call.fn = "snprintf"
        BY <1>4, <1>6, <2>2, <2>6, <3>2
      <3> QED
        BY <1>5, <3>1, <3>2
    <2>7. ASSUME Printable, size > 0
          PROVE  /\ Append(out, NUL) \in Seq(Bytes) /\ Len(out) \in Nat
                 /\ Len(Append(out, NUL)) = Len(out) + 1
                 /\ Len(out) + 1 <= Extent
      <3>1. /\ o = Append(out, NUL) /\ Append(out, NUL) \in Seq(Bytes) /\ Len(out) \in Nat
            /\ Len(Append(out, NUL)) = Len(out) + 1
        BY <1>4, <2>6, <2>7, AppendProperties, LenProperties
      <3> QED
        BY <1>4, <1>5, <2>2, <3>1
    <2> QED
      <3>1. Len(bytes) \in Nat
        BY <2>4, LenProperties
      <3>2. ASSUME Printable, size > 0
            PROVE  /\ Len(out) + 1 <= Len(bytes)
                   /\ \A i \in 1 .. Len(out) + 1 : bytes[i] = Append(out, NUL)[i]
        BY <2>4, <2>6, <2>7, <3>2
      <3> QED
        BY <1>3, <1>6, <2>4, <2>5, <2>6, <2>7, <3>1, <3>2
  <1>8. CASE FarArguments
    <2>1. "s" \in Range(fmt) /\ call.src.far
      BY <1>2, <1>8 DEF FarArguments
    <2>2. PICK str : str = String(entry, call.src)
      OBVIOUS
    <2>3. str \in Seq(Bytes) /\ text = Pieces(fmt, str)
      BY <1>2, <1>3, <1>4, <2>1, <2>2 DEF Text
    <2>4. PICK p : p = Pieces(fmt, Append(str, NUL))
      OBVIOUS
    <2>5. p \in Seq(Bytes) /\ Len(p) \in Nat
      <3>1. Append(str, NUL) \in Seq(Bytes)
        BY <1>4, <2>3, AppendProperties
      <3>2. p \in Seq(Bytes)
        BY <1>4, <2>4, <3>1, PiecesBytes
      <3> QED
        BY <3>2, LenProperties
    <2>6. PICK z : z = Zeros(Directives(fmt))
      OBVIOUS
    <2>7. z \in Seq(Bytes) /\ Len(z) \in Nat /\ Len(z) = Directives(fmt)
      <3>1. PICK k : k = Directives(fmt)
        OBVIOUS
      <3>2. z \in [1 .. k -> Bytes]
        BY <1>4, <2>6, <3>1, Zenon DEF Zeros
      <3>3. z \in Seq(Bytes) /\ Len(z) = k
        BY <1>4, <3>1, <3>2
      <3> QED
        BY <1>4, <3>1, <3>3
    <2>8. bytes = p \o z
      BY <1>1, <1>2, <1>8, <2>2, <2>4, <2>6 DEF __vsn_printf
    <2>9. /\ p \o z \in Seq(Bytes) /\ Len(p \o z) = Len(p) + Len(z)
          /\ \A i \in 1 .. Len(p) + Len(z) : (p \o z)[i] = IF i <= Len(p) THEN p[i] ELSE z[i - Len(p)]
      BY <2>5, <2>7, ConcatProperties
    <2>10. /\ bytes \in Seq(Bytes) /\ Len(bytes) \in Nat /\ Len(p) <= Len(bytes)
           /\ \A i \in 1 .. Len(p) : bytes[i] = p[i]
           /\ Len(bytes) = Len(p) + Directives(fmt)
      BY <2>5, <2>7, <2>8, <2>9
    <2>14. Len(bytes) <= Reach
      <3>1. Len(p) = Len(text) + Strings(fmt)
        BY <1>4, <2>3, <2>4, PiecesLength
      <3>2. Reach = Larger(Extent, Len(bytes))
        BY <1>4, <1>8, <2>10, <3>1
      <3>3. PICK b : b = Len(bytes)
        OBVIOUS
      <3>4. b \in Nat /\ Extent \in Nat /\ b <= Larger(Extent, b)
        BY <1>4, <2>10, <3>3 DEF Larger
      <3> QED
        BY <3>2, <3>3, <3>4
    <2>11. ASSUME Printable, size > 0
           PROVE  out = text /\ p = Append(text, NUL) /\ Len(text) + 1 <= Extent
      <3>1. Strings(fmt) = 1 /\ Last(fmt) = "s"
        BY <1>2, <1>8, <2>11 DEF Printable
      <3>2. p = Append(text, NUL)
        BY <1>4, <2>3, <2>4, <3>1, LastString
      <3>3. CASE call.fn = "sprintf"
        BY <1>4, <1>6, <3>2, <3>3
      <3>4. CASE call.fn = "snprintf"
        <4>1. Len(text) < call.n
          BY <1>3, <1>8, <2>11, <3>4 DEF Printable
        <4>2. PICK k : k = call.n - 1
          OBVIOUS
        <4>3. k \in Nat /\ Len(text) <= k /\ Len(text) + 1 <= call.n
          BY <1>4, <4>1, <4>2
        <4>4. Take(text, k) = text
          BY <1>4, <4>3, TakeAll
        <4> QED
          BY <1>4, <1>6, <3>2, <3>4, <4>2, <4>3, <4>4
      <3> QED
        BY <1>5, <3>3, <3>4
    <2>12. /\ Append(text, NUL) \in Seq(Bytes)
           /\ Len(Append(text, NUL)) = Len(text) + 1
      BY <1>4, AppendProperties
    <2>13. ASSUME Printable, size > 0
           PROVE  /\ out \in Seq(Bytes) /\ Len(out) \in Nat /\ Len(out) + 1 <= Extent
                  /\ Append(out, NUL) \in Seq(Bytes)
                  /\ Len(Append(out, NUL)) = Len(out) + 1
                  /\ Len(out) + 1 <= Len(bytes)
                  /\ \A i \in 1 .. Len(out) + 1 : bytes[i] = Append(out, NUL)[i]
      BY <1>4, <2>10, <2>11, <2>12, <2>13
    <2> QED
      BY <1>3, <1>6, <1>8, <2>10, <2>13, <2>14
  <1> QED
    BY <1>7, <1>8

(* carm_vsnprintf prints. *)
LEMMA PrintKeeps ==
    ASSUME StdioInv, Faithful, carm_vsnprintf PROVE StdioInv'
  <1>1. PICK bytes \in IF FarArguments THEN {__vsn_printf} ELSE PrintedNear :
          /\ mem' = Stored(mem, call.dst, bytes)
          /\ Return(Len(IF FarArguments THEN bytes ELSE Text(call, mem)))
    BY DEF carm_vsnprintf
  <1>2. /\ pc = "vsnprintf" /\ pc' = "done" /\ cursor' = 0
        /\ call' = call /\ size' = size /\ entry' = entry
        /\ result' = Len(IF FarArguments THEN bytes ELSE Text(call, mem))
    BY <1>1 DEF carm_vsnprintf, Return
  <1>3. /\ call.fn \in Prints /\ call.fn \notin Streams /\ mem = entry
        /\ mem \in Memories /\ entry \in Memories
    BY <1>2, Running, StdioTypes DEF StdioInv, PrintInv, Prints, Streams
  <1>4. /\ call.dst \in Places /\ call.fmt \in Seq({"lit", "d", "s"})
        /\ Extent \in Nat /\ Room(call.dst, Extent)
    BY <1>3, PrintArguments
  <1>5. bytes \in Seq(Bytes)
    BY <1>2, PrintedBytes
  <1>6. mem' \in Memories
    BY <1>1, <1>3, <1>4, <1>5, StoredType
  <1>7. LibcInv'
    BY <1>2, <1>3, <1>6, LibcElsewhere
  <1>8. /\ Extent' = Extent /\ Reach' = Reach
        /\ (Printable' <=> Printable) /\ (FarArguments' <=> FarArguments)
    BY <1>2 DEF Extent, Printable, FarArguments, Reach
  <1>9. PrintInv'
    BY <1>2, <1>3, <1>8 DEF StdioInv, PrintInv
  <1>10. StreamInv'
    BY <1>2, <1>3 DEF StreamInv
  <1>11. StdioWithinReach'
    <2>1. Len(bytes) \in Nat /\ Len(bytes) <= Reach /\ Reach \in Nat
      <3>1. Len(bytes) \in Nat /\ Len(bytes) <= Reach
        BY <1>2, PrintedBytes
      <3>2. Reach \in Nat
        <4>1. Len(Text(call, entry)) \in Nat /\ Strings(call.fmt) \in Nat
              /\ Directives(call.fmt) \in Nat
          BY <1>3, <1>4, PrintArguments, CountsAre
        <4> QED
          BY <1>4, <4>1 DEF Reach, Larger
      <3> QED
        BY <3>1, <3>2
    <2>2. ASSUME NEW p \in Pointers, mem'[p] # entry[p]
          PROVE  Within(p, call.dst, Reach)
      <3>2. PICK c : c = 0
        OBVIOUS
      <3>3. Plus(call.dst, c) = call.dst /\ c \in Nat /\ c + Len(bytes) <= Reach
        BY <1>4, <2>1, <3>2, PlusZero
      <3>4. Stored(mem, Plus(call.dst, c), bytes)[p] # mem[p]
        BY <1>1, <1>3, <2>2, <3>3
      <3> QED
        BY <1>3, <1>4, <1>5, <2>1, <3>3, <3>4, StoredWithin
    <2> QED
      BY <1>2, <1>8, <2>2 DEF StdioWithinReach
  <1>12. PrintedText'
    <2> DEFINE out == IF call.fn = "sprintf" THEN Text(call, entry)
                      ELSE Take(Text(call, entry), call.n - 1)
    <2>1. ASSUME Printable, size > 0
          PROVE  BytesAt(mem', call.dst, Len(out) + 1) = Append(out, NUL)
      <3>1. /\ out \in Seq(Bytes) /\ Len(out) \in Nat /\ Len(out) + 1 <= Extent
            /\ Append(out, NUL) \in Seq(Bytes)
            /\ Len(Append(out, NUL)) = Len(out) + 1
            /\ Len(out) + 1 <= Len(bytes)
            /\ \A i \in 1 .. Len(out) + 1 : bytes[i] = Append(out, NUL)[i]
        BY <1>2, <2>1, PrintedBytes
      <3> HIDE DEF out
      <3>2. PICK s : s = Append(out, NUL)
        OBVIOUS
      <3>3. PICK l : l = Len(out) + 1
        OBVIOUS
      <3>4. /\ s \in Seq(Bytes) /\ Len(s) = l /\ l \in Nat /\ l <= Extent /\ l <= Len(bytes)
            /\ \A i \in 1 .. l : bytes[i] = s[i]
        BY <3>1, <3>2, <3>3
      <3>5. Room(call.dst, l)
        BY <1>4, <3>4, LessRoom
      <3>6. BytesAt(Stored(mem, call.dst, bytes), call.dst, l) = s
        <4>1. Room(call.dst, Len(s)) /\ Len(s) <= Len(bytes)
              /\ \A i \in 1 .. Len(s) : bytes[i] = s[i]
          BY <3>4, <3>5
        <4>2. BytesAt(Stored(mem, call.dst, bytes), call.dst, Len(s)) = s
          BY <1>3, <1>4, <1>5, <3>4, <4>1, StoredPrefix
        <4> QED
          BY <3>4, <4>2
      <3> QED
        BY <1>1, <3>2, <3>3, <3>6
    <2>2. ~FarArguments => result' = Len(Text(call, entry))
      BY <1>2, <1>3
    <2> QED
      BY <1>2, <1>8, <2>1, <2>2 DEF PrintedText
  <1> QED
    BY <1>2, <1>3, <1>7, <1>9, <1>10, <1>11, <1>12 DEF StdioInv

(* A print begins. *)
LEMMA CallPrintKeeps ==
    ASSUME StdioInv, Faithful, CallPrint PROVE StdioInv'
  <1>1. PICK fn \in Prints, fmt \in Formats, d \in Pointers, s \in Pointers :
        \E n \in IF fn = "snprintf" THEN PrintSizes ELSE {0} :
          LET c == [fn |-> fn, dst |-> d, src |-> s, n |-> n, c |-> NUL, fmt |-> fmt]
              room == IF fn = "snprintf" THEN n ELSE Len(Text(c, mem)) + 1
          IN  /\ IF "s" \in Range(fmt) THEN IsString(mem, s) ELSE s = d
              /\ Room(d, room)
              /\ "s" \in Range(fmt) => Disjoint(d, s, Larger(room, Length(mem, s) + 1))
              /\ call' = c
              /\ pc' = IF fn = "sprintf" THEN "measure" ELSE "vsnprintf"
              /\ size' = n
    BY DEF CallPrint
  <1>11. PICK n \in IF fn = "snprintf" THEN PrintSizes ELSE {0} :
          LET c == [fn |-> fn, dst |-> d, src |-> s, n |-> n, c |-> NUL, fmt |-> fmt]
              room == IF fn = "snprintf" THEN n ELSE Len(Text(c, mem)) + 1
          IN  /\ IF "s" \in Range(fmt) THEN IsString(mem, s) ELSE s = d
              /\ Room(d, room)
              /\ "s" \in Range(fmt) => Disjoint(d, s, Larger(room, Length(mem, s) + 1))
              /\ call' = c
              /\ pc' = IF fn = "sprintf" THEN "measure" ELSE "vsnprintf"
              /\ size' = n
    BY <1>1
  <1>2. /\ pc = "idle" /\ mem' = mem /\ cursor' = cursor /\ entry' = entry
        /\ fn \in {"sprintf", "snprintf"}
    BY DEF CallPrint, Prints
  <1>3. mem \in Memories /\ entry \in Memories /\ mem = entry /\ cursor \in Nat
    BY <1>2, StdioTypes DEF StdioInv, LibcInv, CallInv
  <1>4. /\ call'.fn = fn /\ call'.dst = d /\ call'.src = s /\ call'.n = n /\ call'.fmt = fmt
        /\ size' = n /\ pc' = IF fn = "sprintf" THEN "measure" ELSE "vsnprintf"
        /\ "s" \in Range(fmt) => IsString(mem, s)
        /\ Room(d, IF fn = "snprintf" THEN n ELSE Len(Text(call', mem)) + 1)
    BY <1>11
  <1>5. n \in Nat
    BY StdioAssumption
  <1>6. LibcInv'
    BY <1>2, <1>3, <1>4, LibcElsewhere DEF Prints
  <1>7. Room(call'.dst, Extent')
    <2>1. Extent' = IF fn = "snprintf" THEN n ELSE Len(Text(call', mem)) + 1
      BY <1>2, <1>3, <1>4 DEF Extent
    <2> QED
      BY <1>4, <2>1
  <1>8. PrintInv'
    BY <1>2, <1>3, <1>4, <1>5, <1>7 DEF PrintInv
  <1>9. StreamInv'
    BY <1>2, <1>4 DEF StreamInv, Streams
  <1>10. StdioWithinReach' /\ PrintedText'
    BY <1>2, <1>3, <1>4 DEF StdioWithinReach, PrintedText
  <1> QED
    BY <1>2, <1>4, <1>6, <1>8, <1>9, <1>10 DEF StdioInv

-----------------------------------------------------------------------------
(* The steps of CarmLibc *)

(* Nothing of this module looks at the calls of CarmLibc. *)
LEMMA StdioElsewhere ==
    ASSUME Faithful, LibcInv', call'.fn \in Fns, pc' # "idle"
    PROVE  StdioInv'
  <1>1. call'.fn \notin Streams \cup Prints
    BY OtherFunctions
  <1> QED
    BY <1>1 DEF StdioInv, StreamInv, PrintInv, StdioWithinReach, PrintedText

(* No step of CarmLibc changes the call or ends it but Resume. *)
LEMMA StepCall ==
    ASSUME Step PROVE pc \in Loops /\ pc' # "idle" /\ call' = call
  BY DEF Step, carm_read, carm_memcpy, CopyOne, CopyBoth, carm_memset, SetChunk, carm_memcmp, CompareOne,
         CompareBoth, carm_strlen, ScanString, carm_memchr, SearchChunk, carm_strtoul, Measured,
         Return, EnterLoop, Loops

(* A step of a call that is no stream and no printf. *)
LEMMA LibcStepKeeps ==
    ASSUME StdioInv, Faithful, LibcStep PROVE StdioInv'
  <1>1. LibcInv'
    BY StepKeeps DEF StdioInv, LibcStep
  <1>2. pc' # "idle" /\ call'.fn \in Fns
    BY StepCall, Running DEF LibcStep
  <1> QED
    BY <1>1, <1>2, StdioElsewhere

(* A call that is no stream and no printf begins. *)
LEMMA LibcCallKeeps ==
    ASSUME StdioInv, Faithful, Call PROVE StdioInv'
  <1>1. LibcInv'
    BY CallKeeps DEF StdioInv
  <1>2. pc' # "idle" /\ call'.fn \in Fns
    BY DEF Call, FirstFunction, Copies, StringCopies, Faithful
  <1> QED
    BY <1>1, <1>2, StdioElsewhere

(* The program goes on behind a stream or a printf. *)
LEMMA StdioResumeKeeps ==
    ASSUME StdioInv, Faithful, Resume, file' = <<>> PROVE StdioInv'
  <1>1. LibcInv'
    BY ResumeKeeps DEF StdioInv
  <1>2. pc' = "idle" /\ call' = NoCall /\ size' = 0 /\ result' = 0 /\ call'.fn = "none"
    BY DEF Resume, NoCall
  <1> QED
    BY <1>1, <1>2 DEF StdioInv, StreamInv, PrintInv, StdioWithinReach, PrintedText, Streams, Prints

(* The beginning. *)
LEMMA StdioBegins ==
    ASSUME StdioInit, Faithful PROVE StdioInv
  <1>1. LibcInv
    BY InitLibc DEF StdioInit
  <1>2. call.fn \notin Streams \cup Prints
    BY DEF StdioInit, Init, NoCall, Streams, Prints
  <1> QED
    BY <1>1, <1>2 DEF StdioInit, Init, StdioInv, StreamInv, PrintInv, StdioWithinReach, PrintedText

(* Every step keeps the invariant. *)
LEMMA StdioKeeps ==
    ASSUME StdioInv, Faithful, [StdioNext]_stdioVars PROVE StdioInv'
  <1>1. CASE Call /\ UNCHANGED stream
    BY <1>1, LibcCallKeeps
  <1>2. CASE CallStream
    BY <1>2, CallStreamKeeps
  <1>3. CASE CallPrint
    BY <1>3, CallPrintKeeps
  <1>4. CASE LibcStep
    BY <1>4, LibcStepKeeps
  <1>5. CASE StdioStep
    BY <1>5, FreadKeeps, FwriteKeeps, MeasureKeeps, PrintKeeps DEF StdioStep
  <1>6. CASE Resume /\ file' = <<>> /\ device' = "ok"
    BY <1>6, StdioResumeKeeps
  <1>7. CASE UNCHANGED stdioVars
    <2>1. /\ mem' = mem /\ pc' = pc /\ call' = call /\ size' = size /\ cursor' = cursor
          /\ ptr' = ptr /\ result' = result /\ entry' = entry /\ file' = file
          /\ device' = device
      BY <1>7 DEF stdioVars, vars, stream
    <2>2. LibcInv'
      BY <2>1 DEF StdioInv, LibcInv, CallInv, CopyInv, SetInv, CompareInv, ScanInv, SearchInv,
                  EntryInv, AgreesWithLibc, PtrAt, FarSide, BothFar, Asked
    <2>3. /\ Extent' = Extent /\ Reach' = Reach /\ Passed' = Passed
          /\ (Printable' <=> Printable) /\ (FarArguments' <=> FarArguments)
      BY <2>1 DEF Extent, Reach, Printable, FarArguments, Passed
    <2>4. StreamInv'
      BY <2>1, <2>3 DEF StdioInv, StreamInv
    <2>5. PrintInv'
      BY <2>1, <2>3 DEF StdioInv, PrintInv
    <2>6. StdioWithinReach'
      BY <2>1, <2>3 DEF StdioInv, StdioWithinReach
    <2>7. PrintedText'
      BY <2>1, <2>3 DEF StdioInv, PrintedText
    <2> QED
      BY <2>1, <2>2, <2>4, <2>5, <2>6, <2>7 DEF StdioInv
  <1> QED
    BY <1>1, <1>2, <1>3, <1>4, <1>5, <1>6, <1>7 DEF StdioNext

(* The streams are over when they have passed all of their bytes. *)
LEMMA StreamsOver ==
    ASSUME StdioInv PROVE StreamsAgree
  <1>1. ASSUME pc = "done", call.fn = "fread", device # "resumed"
        PROVE  LET got == Take(call.input, Len(call.input) - Len(file))
               IN  /\ Len(got) <= size /\ (device = "ok" => Len(got) = size)
                   /\ got \o file = call.input
                   /\ result = Len(got) \div call.c
                   /\ mem = Stored(entry, call.dst,
                                   IF call.dst.far THEN got \o Zeros(size - Len(got)) ELSE got)
    <2>1. PICK n : n = Len(call.input) - Len(file)
      OBVIOUS
    <2>2. PICK got : got = Take(call.input, n)
      OBVIOUS
    <2>3. /\ call.input \in Seq(Bytes) /\ file \in Seq(Bytes) /\ Passed = size
          /\ n \in 0 .. Passed /\ (device = "ok" => n = Passed) /\ result = n \div call.c
          /\ got \o file = call.input
          /\ mem = Stored(entry, call.dst,
                          IF call.dst.far THEN got \o Zeros(size - Len(got)) ELSE got)
      BY <1>1, <2>1, <2>2 DEF StdioInv, StreamInv, Streams, Passed
    <2>4. Len(call.input) \in Nat /\ Len(file) \in Nat /\ n <= Len(call.input) /\ n \in Nat
      BY <2>1, <2>3, LenProperties
    <2>5. Len(got) = n
      BY <2>2, <2>3, <2>4, TakeIs DEF Smaller
    <2>6. n <= size
      <3>1. size \in Nat
        BY <1>1 DEF StdioInv, StreamInv, Streams
      <3> QED
        BY <2>3, <3>1
    <2> QED
      BY <2>1, <2>2, <2>3, <2>5, <2>6
  <1>2. ASSUME pc = "done", call.fn = "fwrite", device # "resumed"
        PROVE  /\ Len(file) <= size /\ (device = "ok" => Len(file) = size)
               /\ file = BytesAt(entry, call.src, Len(file))
               /\ result = Len(file) \div call.c
               /\ mem = entry
    <2>1. PICK n : n = Len(file)
      OBVIOUS
    <2>2. /\ Passed = size /\ size \in Nat
          /\ n \in 0 .. Passed /\ (device = "ok" => n = Passed) /\ result = n \div call.c
          /\ file = BytesAt(entry, call.src, n) /\ mem = entry
      BY <1>2, <2>1 DEF StdioInv, StreamInv, Streams, Passed
    <2> QED
      BY <2>1, <2>2
  <1> QED
    BY <1>1, <1>2 DEF StreamsAgree

-----------------------------------------------------------------------------
(* The theorems *)

(* In every state of the run, whatever functions of libc the program calls *)
(* one after the other, what a stream has passed is moved and counted, a   *)
(* text is measured before it is printed, and the loops of CarmLibc have   *)
(* done what LibcInv says.                                                 *)
THEOREM StdioInductive == Faithful => (StdioSpec => []StdioInv)
  <1> SUFFICES ASSUME Faithful PROVE StdioSpec => []StdioInv
    OBVIOUS
  <1>1. StdioInit => StdioInv
    BY StdioBegins
  <1>2. StdioInv /\ [StdioNext]_stdioVars => StdioInv'
    BY StdioKeeps
  <1> QED
    BY <1>1, <1>2, PTL DEF StdioSpec

(* carm_fread and carm_fwrite move the bytes and count the elements that   *)
(* one call of libc would that moves as many, for every file, element size *)
(* and position and wherever libc stops, as long as it does not go on      *)
(* after that; a short carm_fread leaves zeros behind them in far memory.  *)
THEOREM StdioStreams == Faithful => (StdioSpec => []StreamsAgree)
  <1> SUFFICES ASSUME Faithful PROVE StdioSpec => []StreamsAgree
    OBVIOUS
  <1>1. StdioInv => StreamsAgree
    BY StreamsOver
  <1> QED
    BY <1>1, StdioInductive, PTL

(* What carm_vsnprintf leaves in a buffer, where it may be trusted with    *)
(* the call, is the text of libc and its NUL, for every format; the result *)
(* is the length of the text, but for far strings.                         *)
THEOREM StdioPrints == Faithful => (StdioSpec => []PrintedText)
  <1> SUFFICES ASSUME Faithful PROVE StdioSpec => []PrintedText
    OBVIOUS
  <1>1. StdioInv => PrintedText
    BY DEF StdioInv
  <1> QED
    BY <1>1, StdioInductive, PTL

(* No stream writes behind its buffer.  A print writes within its Reach,   *)
(* for every format: behind the text there are, at the most, one byte for  *)
(* each of its directives and strings.                                     *)
THEOREM StdioStaysInside == Faithful => (StdioSpec => []StdioWithinReach)
  <1> SUFFICES ASSUME Faithful PROVE StdioSpec => []StdioWithinReach
    OBVIOUS
  <1>1. StdioInv => StdioWithinReach
    BY DEF StdioInv
  <1> QED
    BY <1>1, StdioInductive, PTL

(* The loops of CarmLibc agree with libc also between streams and prints. *)
THEOREM StdioAgrees == Faithful => (StdioSpec => [](AgreesWithLibc /\ OnlyDestinationWritten))
  <1> SUFFICES ASSUME Faithful PROVE StdioSpec => [](AgreesWithLibc /\ OnlyDestinationWritten)
    OBVIOUS
  <1>1. StdioInv => AgreesWithLibc /\ OnlyDestinationWritten
    BY OnlyDestination DEF StdioInv, LibcInv
  <1> QED
    BY <1>1, StdioInductive, PTL

-----------------------------------------------------------------------------
(* Types *)

(* value[k] is the number that the first k digits at p denote. *)
IsValue(value, m, p, n) ==
    value = [k \in 0 .. n |->
                IF k = 0 THEN 0 ELSE 10 * value[k - 1] + Byte(m, Plus(p, k - 1))]

(* There are values for every number of digits: the least without one has  *)
(* one.                                                                    *)
LEMMA ValueExists ==
    ASSUME NEW m, NEW p, NEW n \in Nat
    PROVE  \E v : IsValue(v, m, p, n)
  <1> DEFINE Without == {k \in Nat : ~\E v : IsValue(v, m, p, k)}
  <1>1. SUFFICES ASSUME Without # {} PROVE FALSE
    BY DEF Without
  <1>2. Without \in SUBSET Nat
    OBVIOUS
  <1>3. PICK l : l = Min(Without)
    OBVIOUS
  <1>4. l \in Without /\ \A k \in Without : l <= k
    BY <1>1, <1>2, <1>3, LeastNumber
  <1>5. CASE l = 0
    <2>1. PICK v : v = [k \in 0 .. 0 |-> 0]
      OBVIOUS
    <2>2. v = [k \in 0 .. 0 |-> IF k = 0 THEN 0 ELSE 10 * v[k - 1] + Byte(m, Plus(p, k - 1))]
      BY <2>1
    <2> QED
      BY <1>4, <1>5, <2>2, Zenon DEF IsValue
  <1>6. CASE l # 0
    <2>1. PICK j : j = l - 1
      OBVIOUS
    <2>2. j \in Nat /\ j + 1 = l /\ ~(l <= j) /\ l \in Nat
      BY <1>2, <1>4, <1>6, <2>1
    <2>3. j \notin Without
      BY <1>4, <2>2
    <2>4. PICK v : IsValue(v, m, p, j)
      BY <2>2, <2>3
    <2>5. PICK new : new = 10 * v[j] + Byte(m, Plus(p, l - 1))
      OBVIOUS
    <2>6. PICK u : u = [k \in 0 .. l |-> IF k = l THEN new ELSE v[k]]
      OBVIOUS
    <2>7. \A k \in 0 .. l : u[k] = IF k = l THEN new ELSE v[k]
      BY <2>6
    <2>8. \A k \in 0 .. j :
             v[k] = IF k = 0 THEN 0 ELSE 10 * v[k - 1] + Byte(m, Plus(p, k - 1))
      BY <2>4, Zenon DEF IsValue
    <2>9. ASSUME NEW k \in 0 .. l
          PROVE  (IF k = l THEN new ELSE v[k]) =
                   IF k = 0 THEN 0 ELSE 10 * u[k - 1] + Byte(m, Plus(p, k - 1))
      <3>1. CASE k = l
        <4>1. u[k - 1] = v[j] /\ k # 0
          BY <2>1, <2>2, <2>7, <3>1
        <4> QED
          BY <2>5, <3>1, <4>1
      <3>2. CASE k # l /\ k # 0
        <4>1. k \in 0 .. j /\ u[k - 1] = v[k - 1]
          BY <2>1, <2>2, <2>7, <3>2
        <4> QED
          BY <2>8, <3>2, <4>1
      <3>3. CASE k # l /\ k = 0
        <4>1. k \in 0 .. j
          BY <2>2, <3>3
        <4> QED
          BY <2>8, <3>3, <4>1
      <3> QED
        BY <3>1, <3>2, <3>3
    <2>10. u = [k \in 0 .. l |->
                  IF k = 0 THEN 0 ELSE 10 * u[k - 1] + Byte(m, Plus(p, k - 1))]
      BY <2>6, <2>9, Zenon
    <2> QED
      BY <1>4, <2>10, Zenon DEF IsValue
  <1> QED
    BY <1>5, <1>6

(* What the digits of a number denote is a natural number: the fewest      *)
(* digits that do not would be one more than some that do.                 *)
LEMMA NumberType ==
    ASSUME NEW m \in Memories, NEW p, NEW n \in Nat
    PROVE  Number(m, p, n) \in Nat
  <1>1. \E v : IsValue(v, m, p, n)
    BY ValueExists
  <1>2. PICK v : IsValue(v, m, p, n) /\ Number(m, p, n) = v[n]
    BY <1>1, Zenon DEF IsValue, Number
  <1>3. \A k \in 0 .. n :
           v[k] = IF k = 0 THEN 0 ELSE 10 * v[k - 1] + Byte(m, Plus(p, k - 1))
    BY <1>2, Zenon DEF IsValue
  <1> DEFINE Wrong == {k \in 0 .. n : v[k] \notin Nat}
  <1>4. Wrong = {}
    <2>1. SUFFICES ASSUME Wrong # {} PROVE FALSE
      OBVIOUS
    <2>2. PICK l : l = Min(Wrong)
      OBVIOUS
    <2>3. Wrong \in SUBSET Nat
      OBVIOUS
    <2>4. l \in Wrong /\ \A k \in Wrong : l <= k
      BY <2>1, <2>2, <2>3, LeastNumber
    <2>5. l \in 0 .. n /\ v[l] \notin Nat
      BY <2>4
    <2>6. l # 0
      BY <1>3, <2>5
    <2>7. l - 1 \in 0 .. n /\ ~(l <= l - 1)
      BY <2>5, <2>6
    <2>8. v[l - 1] \in Nat
      BY <2>4, <2>7
    <2>9. PICK b : b = Byte(m, Plus(p, l - 1))
      OBVIOUS
    <2>10. b \in Nat
      BY <2>9, ByteType
    <2>11. v[l] = 10 * v[l - 1] + b
      BY <1>3, <2>5, <2>6, <2>9
    <2>12. 10 * v[l - 1] + b \in Nat
      BY <2>8, <2>10
    <2> QED
      BY <2>5, <2>11, <2>12
  <1>5. n \in 0 .. n
    OBVIOUS
  <1> QED
    BY <1>2, <1>4, <1>5

(* The C library returns integers. *)
LEMMA ResultType ==
    ASSUME CallInv, Faithful, call.fn \in Fns
    PROVE  ResultOf(call, entry) \in Int
  <1>1. /\ call.dst \in Pointers /\ call.src \in Pointers /\ call.n \in Nat /\ call.c \in Int
        /\ entry \in Memories
    BY ArgumentTypes DEF CallInv, Memories
  <1>2. call.dst.addr \in Nat /\ call.src.addr \in Nat
    BY <1>1, InPointers DEF Places
  <1>3. CASE call.fn \in CopyFns
    <2>1. ResultOf(call, entry) = CopyResult
      BY <1>3, CopyReference
    <2>2. CASE call.fn = "read"
      BY <2>1, <2>2, ReadAnswer DEF CopyResult
    <2>3. CASE call.fn # "read"
      BY <1>1, <1>2, <2>1, <2>3 DEF CopyResult
    <2> QED
      BY <2>2, <2>3
  <1>4. CASE call.fn = "memset"
    BY <1>2, <1>4, SetReference
  <1>5. CASE call.fn \in {"memcmp", "strcmp"}
    <2>1. ResultOf(call, entry) = Compared(entry, call.dst, call.src, Asked)
      BY <1>1, <1>5, CompareArguments
    <2> QED
      BY <2>1 DEF Compared
  <1>6. CASE call.fn = "strlen"
    BY <1>1, <1>6, StringArguments, LengthIs, ResultReference
  <1>7. CASE call.fn = "memchr"
    <2>1. PICK hits : hits = Found(entry, call.src, AsByte(call.c), call.n)
      OBVIOUS
    <2>2. hits \in SUBSET Nat
      BY <1>1, <2>1 DEF Found
    <2>3. hits # {} => Min(hits) \in Nat
      BY <2>2, LeastNumber
    <2>4. ResultOf(call, entry) = IF hits = {} THEN Null ELSE call.src.addr + Min(hits)
      BY <1>7, <2>1, ResultReference
    <2> QED
      BY <1>2, <2>3, <2>4 DEF Null
  <1>8. CASE call.fn = "strtoul"
    <2>1. Length(entry, call.src) \in Nat
      BY <1>1, <1>8, StringArguments, LengthIs
    <2> QED
      BY <1>1, <1>8, <2>1, NumberType, ResultReference
  <1> QED
    BY <1>3, <1>4, <1>5, <1>6, <1>7, <1>8 DEF Faithful, CopyFns

MemorySizes == HeapSize + LocalSize

ObjectPtrs == [obj_index : 0 .. NumObjects, offset : 0 .. OBJ_SIZE - 1]

(* A Carm_Ptr in the heap, or at its end, is one of an object or the next. *)
LEMMA ObjectPtr ==
    ASSUME NEW q \in CarmPtrs, _ptrDeref(q).addr <= HeapSize
    PROVE  q \in ObjectPtrs
  <1>1. PICK i : i = q.obj_index
    OBVIOUS
  <1>2. i \in Nat /\ q.offset \in 0 .. OBJ_SIZE - 1
    BY <1>1, DerefIs
  <1>3. PICK a : a = i * OBJ_SIZE
    OBVIOUS
  <1>4. PICK b : b = NumObjects * OBJ_SIZE
    OBVIOUS
  <1>5. a \in Nat /\ a + q.offset <= b
    BY <1>1, <1>2, <1>3, <1>4, DerefIs, Multiples DEF HeapSize
  <1>6. NumObjects < i => b + OBJ_SIZE <= a
    BY <1>2, <1>3, <1>4, Multiples, Sizes
  <1>7. i <= NumObjects
    BY <1>2, <1>4, <1>5, <1>6, Sizes
  <1> QED
    BY <1>1, <1>2, <1>7, Sizes DEF CarmPtrs, ObjectPtrs

(* A loop that stays in its buffer keeps its Carm_Ptr in the heap. *)
LEMMA PtrInHeap ==
    ASSUME NEW p \in Pointers, PtrAt(p), cursor \in Nat, Room(p, cursor)
    PROVE  ptr \in ObjectPtrs /\ cursor <= MemorySizes
  <1>1. p \in Places /\ p.far /\ ptr \in CarmPtrs /\ _ptrDeref(ptr) = Plus(p, cursor)
    BY InPointers DEF PtrAt, CarmPtrs
  <1>2. p.addr + cursor <= HeapSize /\ cursor <= HeapSize
    BY <1>1, FarRoom
  <1>3. _ptrDeref(ptr).addr <= HeapSize
    BY <1>1, <1>2, PlusIs
  <1> QED
    BY <1>1, <1>2, <1>3, ObjectPtr, Sizes DEF MemorySizes

(* A cursor in a buffer is in one of the memories. *)
LEMMA RoomFits ==
    ASSUME NEW p \in Pointers, NEW n \in Nat, Room(p, n)
    PROVE  n <= MemorySizes
  <1>1. p \in Places /\ p.addr \in Nat
    BY InPointers DEF Places
  <1>2. p.addr + n <= Limit(p) /\ Limit(p) <= MemorySizes /\ Limit(p) \in Nat
    BY <1>1, RoomLimit, Sizes DEF Limit, MemorySizes
  <1> QED
    BY <1>1, <1>2, Sizes DEF MemorySizes

PtrLoops == {"copyOne", "set", "compareOne", "scan", "search"}

(* No loop of CarmLibc leaves its buffer; carm_strtoul has none.           *)
LEMMA LoopTypes ==
    ASSUME LibcInv, Faithful, pc \in Loops
    PROVE  /\ pc # "strtoul" => cursor \in Nat /\ cursor <= MemorySizes
           /\ pc \in PtrLoops => ptr \in ObjectPtrs
           /\ pc \in {"memcpy", "memcmp"} => size \in Nat
  <1>1. /\ call.fn \in Fns /\ cursor \in Nat /\ entry \in Memories
        /\ call.dst \in Pointers /\ call.src \in Pointers
        /\ call.dst \in Places /\ call.src \in Places
        /\ call.n \in Nat /\ CallInv
    BY LoopCall DEF LibcInv
  <1>2. 0 <= MemorySizes
    BY Sizes DEF MemorySizes
  <1>3. FarSide \in Pointers
    BY <1>1 DEF FarSide
  <1>4. CASE pc \in {"memcpy", "copyOne", "copyBoth"}
    <2>1. /\ call.fn \in CopyFns /\ size = Asked /\ cursor <= size
          /\ pc = "copyOne" => PtrAt(FarSide)
      BY <1>4 DEF LibcInv, CopyInv, CopyFns
    <2>2. Asked \in Nat /\ Room(call.dst, Asked) /\ Room(call.src, Asked)
      BY <1>1, <2>1, CopyArguments
    <2>3. Room(call.dst, cursor) /\ Room(call.src, cursor)
      BY <1>1, <2>1, <2>2, LessRoom
    <2>4. Room(FarSide, cursor)
      BY <2>3 DEF FarSide
    <2>5. pc = "copyOne" => ptr \in ObjectPtrs
      BY <1>1, <1>3, <2>1, <2>4, PtrInHeap
    <2>6. cursor <= MemorySizes
      BY <1>1, <2>3, RoomFits
    <2> QED
      BY <1>1, <1>4, <2>1, <2>2, <2>5, <2>6 DEF PtrLoops
  <1>5. CASE pc = "set"
    <2>1. PtrAt(call.dst) /\ call.dst.addr + cursor <= HeapSize
      BY <1>5 DEF LibcInv, SetInv
    <2>2. Room(call.dst, cursor)
      BY <2>1 DEF Room, PtrAt
    <2> QED
      BY <1>1, <1>5, <2>1, <2>2, PtrInHeap
  <1>6. CASE pc \in {"memcmp", "compareOne", "compareBoth"}
    <2>1. /\ call.fn \in {"memcmp", "strcmp"} /\ size = Asked
          /\ Same(entry, call.dst, call.src, Smaller(cursor, size))
          /\ pc = "compareOne" => cursor <= size /\ PtrAt(FarSide)
          /\ pc = "compareBoth" => BothFar /\ call.dst.addr + cursor <= HeapSize
          /\ pc = "memcmp" => cursor = 0
      BY <1>6 DEF LibcInv, CompareInv, CallInv
    <2>2. /\ Asked \in Nat /\ Common \in Nat
          /\ Room(call.dst, Common) /\ Room(call.src, Common)
          /\ \A c \in Nat : c < Asked /\ Same(entry, call.dst, call.src, c) => c < Common
      BY <1>1, <2>1, CompareArguments
    <2>3. CASE pc = "compareOne"
      <3>1. Smaller(cursor, size) = cursor
        BY <1>1, <2>1, <2>2, <2>3 DEF Smaller
      <3>2. cursor <= Common
        <4>1. CASE cursor < Asked
          BY <1>1, <2>1, <2>2, <3>1, <4>1
        <4>2. CASE cursor = 0
          BY <2>2, <4>2
        <4>3. CASE cursor = Asked /\ cursor # 0
          <5>1. PICK c : c = cursor - 1
            OBVIOUS
          <5>2. c \in Nat /\ c < Asked /\ c + 1 = cursor
            BY <1>1, <4>3, <5>1
          <5>3. Same(entry, call.dst, call.src, c)
            BY <1>1, <2>1, <3>1, <5>2 DEF Same
          <5>4. c < Common
            BY <2>2, <5>2, <5>3
          <5> QED
            BY <2>2, <5>2, <5>4
        <4> QED
          BY <1>1, <2>1, <2>2, <2>3, <4>1, <4>2, <4>3
      <3>3. Room(call.dst, cursor) /\ Room(call.src, cursor)
        BY <1>1, <2>2, <3>2, LessRoom
      <3>4. Room(FarSide, cursor)
        BY <3>3 DEF FarSide
      <3> QED
        BY <1>1, <1>3, <2>1, <2>3, <3>4, PtrInHeap
    <2>4. CASE pc = "compareBoth"
      <3>1. Room(call.dst, cursor)
        BY <2>1, <2>4 DEF Room, BothFar
      <3> QED
        BY <1>1, <2>4, <3>1, RoomFits DEF PtrLoops
    <2>5. CASE pc = "memcmp"
      BY <1>1, <1>2, <2>1, <2>2, <2>5 DEF PtrLoops
    <2> QED
      BY <1>6, <2>3, <2>4, <2>5
  <1>7. CASE pc = "scan"
    <2>1. /\ call.fn \in StringCopies \cup {"strlen", "strcmp"}
          /\ Found(entry, call.src, NUL, cursor) = {} /\ PtrAt(call.src)
      BY <1>7 DEF LibcInv, ScanInv
    <2>2. IsString(entry, call.src)
      BY <1>1, <2>1, StringArguments
    <2>3. PICK l : l = Length(entry, call.src)
      OBVIOUS
    <2>4. l \in Nat /\ Byte(entry, Plus(call.src, l)) = NUL
      BY <1>1, <2>2, <2>3, LengthIs
    <2>5. cursor <= l + 1
      BY <1>1, <2>1, <2>4 DEF Found
    <2>6. Room(call.src, l + 1)
      BY <1>1, <2>2, <2>3, StringRoom
    <2>7. Room(call.src, cursor)
      BY <1>1, <2>4, <2>5, <2>6, LessRoom
    <2> QED
      BY <1>1, <1>7, <2>1, <2>7, PtrInHeap
  <1>8. CASE pc = "search"
    <2>1. call.fn = "memchr" /\ size = call.n /\ cursor <= size /\ PtrAt(call.src)
      BY <1>8 DEF LibcInv, SearchInv
    <2>2. Room(call.src, cursor)
      BY <1>1, <2>1, BufferArguments, LessRoom
    <2> QED
      BY <1>1, <1>8, <2>1, <2>2, PtrInHeap
  <1>9. CASE pc \in {"memset", "strlen", "memchr"}
    BY <1>1, <1>2, <1>9 DEF CallInv, PtrLoops
  <1>10. CASE pc \in {"read", "strtoul"}
    BY <1>1, <1>2, <1>10 DEF CallInv, PtrLoops
  <1> QED
    BY <1>4, <1>5, <1>6, <1>7, <1>8, <1>9, <1>10 DEF Loops

(* The types that follow from the inductive invariant alone. *)
StateTypes ==
    /\ mem \in Memories /\ entry \in Memories
    /\ pc \in Loops \cup Streams \cup {"idle", "done", "exited", "measure", "vsnprintf"}
    /\ call # NoCall => call.dst \in Pointers /\ call.src \in Pointers
    /\ pc \notin {"strtoul", "exited", "measure", "vsnprintf"} => cursor \in 0 .. MemorySizes
    /\ pc \in PtrLoops => ptr \in ObjectPtrs
    /\ pc \in {"memcpy", "memcmp", "vsnprintf"} => size \in Nat
    /\ call.fn \in Streams => /\ size \in Nat /\ result \in Int /\ file \in Seq(Bytes)
                              /\ device \in {"ok", "short", "resumed"}
    /\ call.fn \in Streams /\ pc # "done" => cursor \in 0 .. MemorySizes
    /\ call.fn \in Fns /\ pc = "done" => result \in Int
    /\ call.fn \in Prints => Len(Text(call, entry)) \in Nat

(* The bytes and the count of a stream, which stays in its buffer. *)
LEMMA StreamTypes ==
    ASSUME StdioInv, call.fn \in Streams
    PROVE  /\ call.dst \in Pointers /\ call.src \in Pointers
           /\ size \in Nat /\ result \in Int /\ file \in Seq(Bytes)
           /\ device \in {"ok", "short", "resumed"}
           /\ pc # "done" => cursor \in 0 .. MemorySizes
  <1>1. /\ call.dst \in Pointers /\ call.src = call.dst
        /\ call.n \in Nat /\ call.c \in Nat \ {0}
        /\ size = call.n * call.c /\ Room(call.dst, size)
        /\ Passed <= size /\ file \in Seq(Bytes) /\ result \in Nat /\ cursor \in Nat
        /\ device \in {"ok", "short", "resumed"}
    BY StdioTypes DEF StdioInv, StreamInv
  <1>2. size \in Nat
    BY <1>1
  <1>3. ASSUME pc # "done" PROVE cursor \in 0 .. MemorySizes
    <2>1. cursor <= size
      BY <1>1, <1>3 DEF Passed
    <2>2. size <= MemorySizes
      BY <1>1, <1>2, RoomFits
    <2> QED
      BY <1>1, <1>2, <2>1, <2>2, Sizes DEF MemorySizes
  <1> QED
    BY <1>1, <1>2, <1>3

(* The inductive invariant implies these types. *)
LEMMA InvTypes ==
    ASSUME StdioInv, Faithful PROVE StateTypes
  <1>1. /\ mem \in Memories /\ entry \in Memories /\ cursor \in Nat
        /\ LibcInv /\ CallInv
    BY StdioTypes DEF StdioInv, LibcInv
  <1>2. 0 \in 0 .. MemorySizes
    BY Sizes DEF MemorySizes
  <1>3. CASE pc = "idle"
    <2>1. call = NoCall /\ cursor = 0
      BY <1>1, <1>3 DEF StdioInv, CallInv
    <2>2. call.fn \notin Streams \cup Prints \cup Fns
      BY <2>1, OtherFunctions DEF NoCall, Streams, Prints
    <2> QED
      BY <1>1, <1>2, <1>3, <2>1, <2>2 DEF StateTypes, PtrLoops
  <1>4. CASE call.fn \in Fns
    <2>1. pc \in Loops \cup {"done"} /\ call.dst \in Pointers /\ call.src \in Pointers
      BY <1>1, <1>4 DEF CallInv
    <2>2. call.fn \notin Streams \cup Prints
      BY <1>4, OtherFunctions
    <2>3. pc = "done" => cursor = 0 /\ result \in Int
      BY <1>1, <1>4, ResultType DEF LibcInv, CallInv, AgreesWithLibc
    <2>4. pc \in Loops =>
            /\ pc # "strtoul" => cursor \in Nat /\ cursor <= MemorySizes
            /\ pc \in PtrLoops => ptr \in ObjectPtrs
            /\ pc \in {"memcpy", "memcmp"} => size \in Nat
      BY <1>1, LoopTypes
    <2>5. cursor \in Nat /\ cursor <= MemorySizes => cursor \in 0 .. MemorySizes
      BY Sizes DEF MemorySizes
    <2> QED
      BY <1>1, <1>2, <2>1, <2>2, <2>3, <2>4, <2>5 DEF StateTypes, PtrLoops, Loops
  <1>5. CASE call.fn \in Streams
    <2>1. pc \in Streams \cup {"done", "exited"} /\ call.fn \notin Fns \cup Prints
      BY <1>5, OtherFunctions DEF StdioInv, StreamInv, Streams, Prints
    <2>2. pc = "done" => cursor = 0
      BY <1>1 DEF CallInv
    <2> QED
      BY <1>1, <1>2, <1>5, <2>1, <2>2, StreamTypes DEF StateTypes, PtrLoops, Streams
  <1>6. CASE call.fn \in Prints
    <2>1. pc \in {"measure", "vsnprintf", "done"} /\ call.fn \notin Fns \cup Streams
      BY <1>6, OtherFunctions DEF StdioInv, PrintInv, Streams, Prints
    <2>2. pc = "done" => cursor = 0
      BY <1>1 DEF CallInv
    <2> QED
      BY <1>1, <1>2, <1>6, <2>1, <2>2, PrintArguments DEF StateTypes, PtrLoops
  <1> QED
    BY <1>3, <1>4, <1>5, <1>6 DEF StdioInv

(* What a step of CarmLibc does to the numbers whose types do not follow   *)
(* from the inductive invariant.                                           *)
LEMMA LibcMoves ==
    ASSUME Step
    PROVE  /\ \/ ptr' = ptr \/ ptr' = NoPtr \/ pc' \in PtrLoops
              \/ BothFar /\ ptr' = Carm_Ptr(call.dst)
           /\ pc' \in (Loops \ {"strtoul"}) \cup {"done"}
           /\ size' = size \/ pc' \in {"memcpy", "memcmp"}
           /\ pc' = "done" \/ result' = result
  <1>1. CASE carm_memcpy \/ carm_memset \/ carm_memcmp \/ carm_strlen \/ carm_memchr
    BY <1>1 DEF carm_memcpy, carm_memset, carm_memcmp, carm_strlen, carm_memchr, Measured,
                Return, EnterLoop, Loops, PtrLoops
  <1>5. CASE carm_read
    BY <1>5 DEF carm_read, Return, Loops, PtrLoops
  <1>2. CASE CopyOne \/ CopyBoth \/ SetChunk
    BY <1>2 DEF CopyOne, CopyBoth, SetChunk, Return, Loops, PtrLoops
  <1>3. CASE CompareOne \/ CompareBoth
    BY <1>3 DEF CompareOne, CompareBoth, Return, Loops, PtrLoops
  <1>4. CASE ScanString \/ SearchChunk \/ carm_strtoul
    BY <1>4 DEF ScanString, SearchChunk, carm_strtoul, Measured, Return, Loops, PtrLoops
  <1> QED
    BY <1>1, <1>2, <1>3, <1>4, <1>5 DEF Step

(* A step keeps the types if the next state has those that follow from the *)
(* invariant.                                                              *)
LEMMA TypesKept ==
    ASSUME StdioInv, TypeOK, StateTypes, StateTypes', [StdioNext]_stdioVars
    PROVE  TypeOK'
  <1>1. SUFFICES ASSUME TRUE
                 PROVE  /\ size' \in Nat /\ cursor' \in 0 .. MemorySizes
                        /\ ptr' \in ObjectPtrs /\ result' \in Int /\ file' \in Seq(Bytes)
                        /\ device' \in {"ok", "short", "resumed"}
    BY DEF TypeOK, StateTypes, Memories, MemorySizes, ObjectPtrs, Loops
  <1>2. /\ size \in Nat /\ cursor \in 0 .. MemorySizes /\ ptr \in ObjectPtrs
        /\ result \in Int /\ file \in Seq(Bytes) /\ device \in {"ok", "short", "resumed"}
    BY DEF TypeOK, MemorySizes, ObjectPtrs
  <1>3. NoPtr \in ObjectPtrs
    BY Sizes DEF NoPtr, ObjectPtrs
  <1>4. <<>> \in Seq(Bytes)
    BY EmptySeq
  <1>5. 0 \in 0 .. MemorySizes
    BY Sizes DEF MemorySizes
  <1>6. CASE LibcStep
    <2>1. /\ \/ ptr' = ptr \/ ptr' = NoPtr \/ pc' \in PtrLoops
             \/ BothFar /\ ptr' = Carm_Ptr(call.dst)
          /\ pc' \in (Loops \ {"strtoul"}) \cup {"done"}
          /\ size' = size \/ pc' \in {"memcpy", "memcmp"}
          /\ pc' = "done" \/ result' = result
          /\ file' = file /\ device' = device
      BY <1>6, LibcMoves DEF LibcStep, stream
    <2>2. call' = call /\ call.fn \in Fns
      BY <1>6, StepCall, Running DEF LibcStep
    <2>3. ASSUME BothFar PROVE Carm_Ptr(call.dst) \in ObjectPtrs
      <3>1. call.dst \in Pointers /\ call.dst \in Places /\ call.dst.far
        BY <2>2, <2>3, InPointers DEF StdioInv, LibcInv, CallInv, BothFar
      <3>2. _ptrDeref(Carm_Ptr(call.dst)).addr <= HeapSize
        BY <3>1, CarmPtrIs, InPointers, Sizes DEF Limit, Places
      <3> QED
        BY <3>1, <3>2, CarmPtrIs, ObjectPtr
    <2>4. size' \in Nat /\ cursor' \in 0 .. MemorySizes /\ result' \in Int
      BY <1>2, <2>1, <2>2 DEF StateTypes, Loops
    <2>5. ptr' \in ObjectPtrs
      BY <1>2, <1>3, <2>1, <2>3 DEF StateTypes
    <2> QED
      BY <1>2, <2>1, <2>4, <2>5
  <1>7. CASE Call /\ UNCHANGED stream
    <2>1. size' \in Nat /\ UNCHANGED <<cursor, ptr, result, file, device>>
      BY <1>7, Sizes DEF Call, stream
    <2> QED
      BY <1>2, <2>1
  <1>8. CASE CallStream
    <2>1. call'.fn \in Streams /\ UNCHANGED <<cursor, ptr, result>>
      BY <1>8 DEF CallStream
    <2> QED
      BY <1>2, <2>1 DEF StateTypes
  <1>9. CASE CallPrint
    <2>1. size' \in Nat /\ UNCHANGED <<cursor, ptr, result, file, device>>
      BY <1>9, StdioAssumption DEF CallPrint, stream
    <2> QED
      BY <1>2, <2>1
  <1>10. CASE Resume /\ file' = <<>> /\ device' = "ok"
    BY <1>2, <1>4, <1>10 DEF Resume
  <1>11. CASE carm_fread \/ carm_fwrite
    <2>1. call.fn \in Streams /\ call' = call
      BY <1>11, Running DEF carm_fread, carm_fwrite, Unsupported, FreadPortion, FwritePortion, GoOn,
                            Return, Streams
    <2>2. /\ ptr' = ptr \/ ptr' = NoPtr
          /\ pc' = "done" => cursor' = 0
      BY <1>11 DEF carm_fread, carm_fwrite, Unsupported, FreadPortion, FwritePortion, GoOn, Return
    <2>3. cursor' \in 0 .. MemorySizes /\ size' \in Nat /\ result' \in Int /\ file' \in Seq(Bytes)
          /\ device' \in {"ok", "short", "resumed"}
      BY <1>5, <2>1, <2>2 DEF StateTypes
    <2> QED
      BY <1>2, <1>3, <2>2, <2>3
  <1>12. CASE carm_vsprintf
    <2>1. pc' = "vsnprintf" /\ UNCHANGED <<cursor, ptr, result, file, device>>
      BY <1>12 DEF carm_vsprintf, stream
    <2> QED
      BY <1>2, <2>1 DEF StateTypes
  <1>13. CASE carm_vsnprintf
    <2>1. PICK bytes \in IF FarArguments THEN {__vsn_printf} ELSE PrintedNear :
             Return(Len(IF FarArguments THEN bytes ELSE Text(call, mem)))
      BY <1>13 DEF carm_vsnprintf
    <2>2. pc = "vsnprintf" /\ file' = file /\ device' = device
      BY <1>13 DEF carm_vsnprintf, stream
    <2>3. call.fn \in Prints /\ mem = entry
      BY <2>2, Running DEF StdioInv, PrintInv
    <2>4. Len(bytes) \in Nat
      BY <2>1, <2>2, PrintedBytes
    <2>5. Len(Text(call, mem)) \in Nat
      BY <2>3 DEF StateTypes
    <2> QED
      BY <1>2, <1>3, <1>5, <2>1, <2>2, <2>4, <2>5 DEF Return
  <1>14. CASE UNCHANGED stdioVars
    BY <1>2, <1>14 DEF stdioVars, vars, stream
  <1> QED
    BY <1>6, <1>7, <1>8, <1>9, <1>10, <1>11, <1>12, <1>13, <1>14 DEF StdioNext, StdioStep

(* Type correctness of the chunked functions, the streams and the prints:  *)
(* no cursor and no Carm_Ptr leaves the memories, whatever is called.      *)
THEOREM StdioTypeCorrect == Faithful => (StdioSpec => []TypeOK)
  <1> SUFFICES ASSUME Faithful PROVE StdioSpec => []TypeOK
    OBVIOUS
  <1>1. StdioInit => TypeOK
    <2>1. SUFFICES ASSUME StdioInit PROVE TypeOK
      OBVIOUS
    <2>2. 0 \in 0 .. NumObjects /\ 0 \in 0 .. OBJ_SIZE - 1 /\ 0 \in 0 .. HeapSize + LocalSize
      BY Sizes
    <2> QED
      BY <2>1, <2>2, EmptySeq DEF StdioInit, Init, TypeOK, NoPtr
  <1>2. StdioInv => StateTypes
    BY InvTypes
  <1>3. TypeOK /\ StdioInv /\ StateTypes /\ StateTypes' /\ [StdioNext]_stdioVars => TypeOK'
    BY TypesKept
  <1> QED
    BY <1>1, <1>2, <1>3, StdioInductive, PTL DEF StdioSpec
=============================================================================
