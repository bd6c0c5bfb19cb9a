--------------------------- MODULE SequenceLemmas ---------------------------
(***************************************************************************)
(* Lemmas about numbers and sequences that the proofs of several           *)
(* components rest on.  The prover cannot use an induction theorem that    *)
(* takes an operator, but it can use one about a set of numbers: that      *)
(* induction is derived here from the well-foundedness of <, and what      *)
(* FlattenSeq, which is recursive, computes is proved with it.             *)
(***************************************************************************)
EXTENDS Integers, SequencesExt, FiniteSetTheorems, SequenceTheorems, WellFoundedInduction, TLAPS

LEMMA LeastNumber ==
  ASSUME NEW T \in SUBSET Nat, T # {}
  PROVE  \E x \in T : \A y \in T : x <= y
  <1>1. PICK x \in T : \A y \in T : ~(<<y, x>> \in OpToRel(<, Nat))
    BY NatLessThanWellFounded, WFMin
  <1>2. \A y \in T : ~(y < x)
    BY <1>1 DEF OpToRel
  <1> QED
    BY <1>2

(* Induction over the natural numbers, for a set.                          *)
LEMMA AllNumbers ==
  ASSUME NEW T \in SUBSET Nat, 0 \in T, \A n \in T : n + 1 \in T
  PROVE  T = Nat
  <1> SUFFICES ASSUME Nat \ T # {} PROVE FALSE
    OBVIOUS
  <1>1. PICK x \in Nat \ T : \A y \in Nat \ T : x <= y
    BY LeastNumber
  <1>2. x # 0 /\ x - 1 \in Nat /\ x - 1 \notin Nat \ T
    BY <1>1
  <1>3. (x - 1) + 1 \in T
    BY <1>2
  <1> QED
    BY <1>1, <1>3

(* A set of numbers up to n has a largest one, which Max chooses.          *)
LEMMA MaxOf ==
  ASSUME NEW n \in Nat, NEW S \in SUBSET (1 .. n), S # {}
  PROVE  Max(S) \in S
  <1> DEFINE T == {k \in Nat : n - k \in S}
  <1>1. T \in SUBSET Nat /\ T # {}
    <2>1. PICK i \in S : TRUE
      OBVIOUS
    <2>2. n - i \in Nat /\ n - (n - i) = i
      OBVIOUS
    <2>3. n - i \in T
      BY <2>2
    <2> QED
      BY <2>3
  <1> HIDE DEF T
  <1>2. PICK x \in T : \A y \in T : x <= y
    BY <1>1, LeastNumber
  <1>3. \A j \in S : n - j \in T
    <2> SUFFICES ASSUME NEW j \in S PROVE n - j \in T
      OBVIOUS
    <2>1. n - j \in Nat /\ n - (n - j) = j
      OBVIOUS
    <2> QED
      BY <2>1 DEF T
  <1>4. n - x \in S /\ x \in Nat
    BY <1>2 DEF T
  <1>5. \A j \in S : n - x >= j
    <2> SUFFICES ASSUME NEW j \in S PROVE n - x >= j
      OBVIOUS
    <2>1. x <= n - j /\ j \in Nat
      BY <1>2, <1>3
    <2> QED
      BY <1>4, <2>1
  <1> QED
    BY <1>4, <1>5 DEF Max

(* The largest number of 1 .. k.                                           *)
LEMMA MaxUpTo == ASSUME NEW k \in Nat \ {0} PROVE Max(1 .. k) = k /\ (1 .. k) \ {k} = 1 .. k - 1
  <1>1. \A x \in 1 .. k : (\A y \in 1 .. k : x >= y) => x = k
    OBVIOUS
  <1>2. k \in 1 .. k /\ \A y \in 1 .. k : k >= y
    OBVIOUS
  <1>3. Max(1 .. k) = k
    BY <1>1, <1>2 DEF Max
  <1> QED
    BY <1>3

(* A number is a multiple of n and a remainder, which is what % gives.     *)
LEMMA Divides ==
  ASSUME NEW x \in Nat, NEW n \in Nat \ {0}
  PROVE  x % n \in 0 .. n - 1 /\ \E q \in Nat : x = q * n + (x % n)
  <1> DEFINE p == x \div n
             s == x % n
  <1>1. p \in Int /\ s \in 0 .. n - 1 /\ p * n + s = x
    OBVIOUS
  <1> HIDE DEF p, s
  <1>2. p >= 0
    <2> SUFFICES ASSUME p <= -1 PROVE FALSE
      BY <1>1
    <2>1. p * n <= (-1) * n
      BY <1>1
    <2>2. p * n \in Int /\ (-1) * n = -n
      BY <1>1
    <2>3. p * n <= -n
      BY <2>1, <2>2
    <2>4. s <= n - 1 /\ s \in Int /\ n \in Int /\ p * n + s >= 0
      BY <1>1
    <2> HIDE DEF p, s
    <2> QED
      BY <2>2, <2>3, <2>4
  <1>3. s \in 0 .. n - 1 /\ \E q \in Nat : x = q * n + s
    <2>1. p \in Nat
      BY <1>1, <1>2
    <2>2. x = p * n + s
      BY <1>1
    <2>3. \E q \in Nat : x = q * n + s
      BY <2>1, <2>2, Zenon
    <2> QED
      BY <1>1, <2>3
  <1> QED
    BY <1>3 DEF s

LEMMA Quotient ==
  ASSUME NEW n \in Nat \ {0}, NEW q \in Nat, NEW r \in 0 .. n - 1
  PROVE  (q * n + r) % n = r
  <1> DEFINE x == q * n + r
             p == x \div n
             s == x % n
  <1>1. p \in Int /\ s \in 0 .. n - 1 /\ p * n + s = q * n + r
    OBVIOUS
  <1> HIDE DEF p, s
  <1>2. CASE p >= q + 1
    <2>1. p * n >= (q + 1) * n
      BY <1>1, <1>2
    <2> QED
      BY <1>1, <2>1
  <1>3. CASE q >= p + 1
    <2>1. q * n >= (p + 1) * n
      BY <1>1, <1>3
    <2> QED
      BY <1>1, <2>1
  <1>4. CASE p = q
    BY <1>1, <1>4
  <1> QED
    BY <1>1, <1>2, <1>3, <1>4 DEF s

-----------------------------------------------------------------------------
(* FlattenSeq(s) is the last element of the function it defines by         *)
(* recursion, g[i] being the first i elements of s put together.           *)
Flattens(s, g, n) == g = [i \in 1 .. n |-> IF i = 1 THEN s[i] ELSE g[i - 1] \o s[i]]

LEMMA FlattensAt ==
  ASSUME NEW s, NEW n, NEW g, Flattens(s, g, n), NEW i \in 1 .. n
  PROVE  g[i] = IF i = 1 THEN s[i] ELSE g[i - 1] \o s[i]
  <1>1. g = [j \in 1 .. n |-> IF j = 1 THEN s[j] ELSE g[j - 1] \o s[j]]
    BY DEF Flattens
  <1> QED
    BY <1>1

LEMMA FlattensExists ==
  ASSUME NEW s, NEW n \in Nat
  PROVE  \E g : Flattens(s, g, n)
  <1> DEFINE T == {k \in Nat : \E g : Flattens(s, g, k)}
  <1>1. 0 \in T
    <2>1. Flattens(s, [i \in {} |-> 0], 0)
      BY DEF Flattens
    <2> QED
      BY <2>1
  <1>2. ASSUME NEW k \in T PROVE k + 1 \in T
    <2>1. PICK g : Flattens(s, g, k)
      OBVIOUS
    <2> DEFINE last == IF k = 0 THEN s[1] ELSE g[k] \o s[k + 1]
               h == [i \in 1 .. k + 1 |-> IF i = k + 1 THEN last ELSE g[i]]
    <2>2. k \in Nat
      OBVIOUS
    <2> HIDE DEF last
    <2>3. \A i \in 1 .. k + 1 : h[i] = IF i = 1 THEN s[i] ELSE h[i - 1] \o s[i]
      <3> SUFFICES ASSUME NEW i \in 1 .. k + 1
                   PROVE  h[i] = IF i = 1 THEN s[i] ELSE h[i - 1] \o s[i]
        OBVIOUS
      <3>1. CASE i = k + 1 /\ k = 0
        BY <2>2, <3>1 DEF last
      <3>2. CASE i = k + 1 /\ k # 0
        <4>1. h[i] = last /\ h[i - 1] = g[k] /\ i # 1
          BY <2>2, <3>2
        <4> QED
          BY <3>2, <4>1 DEF last
      <3>3. CASE i # k + 1
        <4>1. i \in 1 .. k /\ h[i] = g[i] /\ (i # 1 => h[i - 1] = g[i - 1])
          BY <2>2, <3>3
        <4>2. g[i] = IF i = 1 THEN s[i] ELSE g[i - 1] \o s[i]
          BY <2>1, <4>1 DEF Flattens
        <4> QED
          BY <4>1, <4>2
      <3> QED
        BY <3>1, <3>2, <3>3
    <2>4. Flattens(s, h, k + 1)
      BY <2>3 DEF Flattens
    <2> QED
      BY <2>2, <2>4
  <1>3. T = Nat
    <2> HIDE DEF T
    <2>1. T \in SUBSET Nat
      BY DEF T
    <2> QED
      BY <1>1, <1>2, <2>1, AllNumbers
  <1> QED
    BY <1>3

LEMMA FlattenIs ==
  ASSUME NEW s, Len(s) \in Nat \ {0}
  PROVE  \E g : Flattens(s, g, Len(s)) /\ FlattenSeq(s) = g[Len(s)]
  <1>1. \E g : g = [i \in 1 .. Len(s) |-> IF i = 1 THEN s[i] ELSE g[i - 1] \o s[i]]
    BY FlattensExists DEF Flattens
  <1> QED
    BY <1>1 DEF FlattenSeq, Flattens

(* Two such functions agree as far as their sequences do, and the values   *)
(* are sequences.                                                          *)
AgreeUpTo(E, s, t, n) == \A i \in 1 .. n : s[i] = t[i] /\ s[i] \in Seq(E)

LEMMA FlattensAgree ==
  ASSUME NEW E, NEW s, NEW n \in Nat, NEW g, Flattens(s, g, n),
         NEW t, NEW m \in Nat, NEW h, Flattens(t, h, m), n <= m, AgreeUpTo(E, s, t, n)
  PROVE  AgreeUpTo(E, g, h, n)
  <1> DEFINE T == {k \in Nat : k \in 1 .. n => g[k] = h[k] /\ g[k] \in Seq(E)}
  <1>1. 0 \in T
    OBVIOUS
  <1>2. ASSUME NEW k \in T PROVE k + 1 \in T
    <2> SUFFICES ASSUME k + 1 \in 1 .. n PROVE g[k + 1] = h[k + 1] /\ g[k + 1] \in Seq(E)
      OBVIOUS
    <2>1. k \in Nat /\ k + 1 \in 1 .. m
      OBVIOUS
    <2>2. /\ g[k + 1] = IF k + 1 = 1 THEN s[k + 1] ELSE g[k + 1 - 1] \o s[k + 1]
          /\ h[k + 1] = IF k + 1 = 1 THEN t[k + 1] ELSE h[k + 1 - 1] \o t[k + 1]
      BY <2>1, FlattensAt
    <2>3. s[k + 1] \in Seq(E) /\ t[k + 1] = s[k + 1]
      BY DEF AgreeUpTo
    <2>4. CASE k = 0
      BY <2>2, <2>3, <2>4
    <2>5. CASE k # 0
      <3>1. g[k] = h[k] /\ g[k] \in Seq(E) /\ k + 1 - 1 = k /\ k + 1 # 1
        BY <2>1, <2>5
      <3>2. g[k + 1] = g[k] \o s[k + 1] /\ h[k + 1] = g[k] \o s[k + 1]
        BY <2>2, <2>3, <3>1
      <3> QED
        BY <2>3, <3>1, <3>2, ConcatProperties
    <2> QED
      BY <2>4, <2>5
  <1>3. T = Nat
    <2> HIDE DEF T
    <2>1. T \in SUBSET Nat
      BY DEF T
    <2> QED
      BY <1>1, <1>2, <2>1, AllNumbers
  <1> QED
    BY <1>3 DEF AgreeUpTo

LEMMA FlattenType ==
  ASSUME NEW E, NEW s \in Seq(Seq(E))
  PROVE  FlattenSeq(s) \in Seq(E)
  <1>1. CASE Len(s) = 0
    <2>1. s = <<>>
      BY <1>1, EmptySeq
    <2> QED
      BY <1>1, <2>1 DEF FlattenSeq
  <1>2. CASE Len(s) # 0
    <2>1. Len(s) \in Nat \ {0} /\ \A i \in 1 .. Len(s) : s[i] \in Seq(E)
      BY <1>2, LenProperties
    <2>2. PICK g : Flattens(s, g, Len(s)) /\ FlattenSeq(s) = g[Len(s)]
      BY <2>1, FlattenIs
    <2>3. \A i \in 1 .. Len(s) : g[i] \in Seq(E)
      <3>1. AgreeUpTo(E, s, s, Len(s))
        BY <2>1 DEF AgreeUpTo
      <3>2. AgreeUpTo(E, g, g, Len(s))
        BY <2>1, <2>2, <3>1, FlattensAgree
      <3> QED
        BY <3>2 DEF AgreeUpTo
    <2> QED
      BY <2>1, <2>2, <2>3
  <1> QED
    BY <1>1, <1>2

LEMMA FlattenAppend ==
  ASSUME NEW E, NEW s \in Seq(Seq(E)), NEW e \in Seq(E)
  PROVE  FlattenSeq(Append(s, e)) = FlattenSeq(s) \o e
  <1> DEFINE t == Append(s, e)
             n == Len(s)
  <1>1. t \in Seq(Seq(E)) /\ Len(t) = n + 1 /\ t[n + 1] = e /\ \A i \in 1 .. n : t[i] = s[i]
    BY AppendProperties
  <1>2. n \in Nat /\ \A i \in 1 .. n : s[i] \in Seq(E)
    BY LenProperties
  <1> HIDE DEF t
  <1>3. PICK h : Flattens(t, h, n + 1) /\ FlattenSeq(t) = h[n + 1]
    <2>1. Len(t) \in Nat \ {0}
      BY <1>1, <1>2
    <2> QED
      BY <1>1, <2>1, FlattenIs
  <1>4. h[n + 1] = IF n + 1 = 1 THEN e ELSE h[n + 1 - 1] \o e
    <2>1. n + 1 \in 1 .. n + 1
      BY <1>2
    <2> QED
      BY <1>1, <1>3, <2>1, FlattensAt
  <1>5. CASE n = 0
    <2>1. s = <<>>
      BY <1>5, EmptySeq
    <2>2. FlattenSeq(s) = <<>>
      BY <2>1, EmptySeq DEF FlattenSeq
    <2>3. <<>> \o e = e
      BY ConcatEmptySeq
    <2> QED
      BY <1>3, <1>4, <1>5, <2>2, <2>3 DEF t
  <1>6. CASE n # 0
    <2>1. PICK g : Flattens(s, g, n) /\ FlattenSeq(s) = g[n]
      BY <1>2, <1>6, FlattenIs
    <2>2. n <= n + 1 /\ n + 1 \in Nat
      BY <1>2
    <2> HIDE DEF n
    <2>3. g[n] = h[n]
      <3>1. AgreeUpTo(E, s, t, n)
        BY <1>1, <1>2 DEF AgreeUpTo
      <3>2. AgreeUpTo(E, g, h, n)
        BY <1>2, <1>3, <2>1, <2>2, <3>1, FlattensAgree
      <3> QED
        BY <1>2, <1>6, <3>2 DEF AgreeUpTo
    <2>4. n + 1 # 1 /\ n + 1 - 1 = n
      BY <1>2, <1>6
    <2> QED
      BY <1>3, <1>4, <2>1, <2>3, <2>4 DEF t
  <1> QED
    BY <1>5, <1>6

LEMMA FlattenEmpty ==
  ASSUME NEW E, NEW s \in Seq(Seq(E)), \A i \in 1 .. Len(s) : s[i] = <<>>
  PROVE  FlattenSeq(s) = <<>>
  <1> DEFINE n == Len(s)
  <1>1. n \in Nat /\ (n = 0 => s = <<>>)
    BY LenProperties, EmptySeq
  <1>2. CASE n = 0
    BY <1>1, <1>2 DEF FlattenSeq
  <1>3. CASE n # 0
    <2>1. PICK g : Flattens(s, g, n) /\ FlattenSeq(s) = g[n]
      BY <1>1, <1>3, FlattenIs
    <2> DEFINE T == {k \in Nat : k \in 1 .. n => g[k] = <<>>}
    <2>2. 0 \in T
      OBVIOUS
    <2>3. ASSUME NEW k \in T PROVE k + 1 \in T
      <3> SUFFICES ASSUME k + 1 \in 1 .. n PROVE g[k + 1] = <<>>
        OBVIOUS
      <3>1. k \in Nat
        OBVIOUS
      <3>2. g[k + 1] = IF k + 1 = 1 THEN s[k + 1] ELSE g[k + 1 - 1] \o s[k + 1]
        BY <2>1, FlattensAt
      <3>3. s[k + 1] = <<>>
        OBVIOUS
      <3>4. CASE k = 0
        BY <3>2, <3>3, <3>4
      <3>5. CASE k # 0
        <4>1. g[k] = <<>> /\ k + 1 - 1 = k /\ k + 1 # 1
          BY <1>1, <3>1, <3>5
        <4>2. <<>> \o <<>> = <<>>
          BY ConcatEmptySeq, EmptySeq
        <4> QED
          BY <3>2, <3>3, <4>1, <4>2
      <3> QED
        BY <3>4, <3>5
    <2>4. T = Nat
      <3> HIDE DEF T
      <3>1. T \in SUBSET Nat
        BY DEF T
      <3> QED
        BY <2>2, <2>3, <3>1, AllNumbers
    <2> QED
      BY <1>1, <1>3, <2>1, <2>4
  <1> QED
    BY <1>2, <1>3

-----------------------------------------------------------------------------
LEMMA SuffixOfConcat ==
  ASSUME NEW E, NEW s \in Seq(E), NEW t \in Seq(E)
  PROVE  IsSuffix(t, s \o t)
  <1> DEFINE u == s \o t
  <1>1. /\ u \in Seq(E) /\ Len(u) = Len(s) + Len(t) /\ Len(s) \in Nat /\ Len(t) \in Nat
        /\ \A i \in 1 .. Len(u) : u[i] = IF i <= Len(s) THEN s[i] ELSE t[i - Len(s)]
    BY ConcatProperties, LenProperties
  <1> HIDE DEF u
  <1>2. Len(Reverse(t)) = Len(t) /\ Len(Reverse(u)) = Len(u) /\ Len(t) <= Len(u)
    BY <1>1 DEF Reverse
  <1>3. \A i \in 1 .. Len(t) : Reverse(t)[i] = Reverse(u)[i]
    <2> SUFFICES ASSUME NEW i \in 1 .. Len(t) PROVE Reverse(t)[i] = Reverse(u)[i]
      OBVIOUS
    <2>1. Reverse(t)[i] = t[(Len(t) - i) + 1]
      BY <1>1 DEF Reverse
    <2>2. Reverse(u)[i] = u[(Len(u) - i) + 1]
      BY <1>1 DEF Reverse
    <2>3. (Len(u) - i) + 1 \in 1 .. Len(u) /\ ~((Len(u) - i) + 1 <= Len(s))
          /\ ((Len(u) - i) + 1) - Len(s) = (Len(t) - i) + 1
      BY <1>1
    <2> QED
      BY <1>1, <2>1, <2>2, <2>3
  <1>4. SubSeq(Reverse(t), 1, Len(t)) = SubSeq(Reverse(u), 1, Len(t))
    <2>1. /\ \A i \in 1 .. Len(t) : Reverse(t)[i] \in E
          /\ \A i \in 1 .. Len(t) : Reverse(u)[i] \in E
      <3>1. \A i \in 1 .. Len(t) : Reverse(t)[i] \in E
        <4> SUFFICES ASSUME NEW i \in 1 .. Len(t) PROVE Reverse(t)[i] \in E
          OBVIOUS
        <4>1. (Len(t) - i) + 1 \in 1 .. Len(t)
          BY <1>1
        <4>2. t[(Len(t) - i) + 1] \in E
          BY <4>1, ElementOfSeq
        <4> QED
          BY <1>1, <4>2 DEF Reverse
      <3> QED
        BY <1>3, <3>1
    <2> DEFINE a == SubSeq(Reverse(t), 1, Len(t))
               b == SubSeq(Reverse(u), 1, Len(t))
    <2>2. a \in Seq(E) /\ Len(a) = Len(t) /\ \A i \in 1 .. Len(t) : a[i] = Reverse(t)[i]
      <3>1. a \in Seq(E) /\ Len(a) = (IF 1 <= Len(t) THEN Len(t) - 1 + 1 ELSE 0)
            /\ \A i \in 1 .. Len(t) - 1 + 1 : a[i] = Reverse(t)[1 + i - 1]
        BY <1>1, <2>1, SubSeqProperties
      <3> QED
        BY <1>1, <3>1
    <2>3. b \in Seq(E) /\ Len(b) = Len(t) /\ \A i \in 1 .. Len(t) : b[i] = Reverse(u)[i]
      <3>1. b \in Seq(E) /\ Len(b) = (IF 1 <= Len(t) THEN Len(t) - 1 + 1 ELSE 0)
            /\ \A i \in 1 .. Len(t) - 1 + 1 : b[i] = Reverse(u)[1 + i - 1]
        BY <1>1, <2>1, SubSeqProperties
      <3> QED
        BY <1>1, <3>1
    <2> HIDE DEF a, b
    <2>4. a = b
      BY <1>3, <2>2, <2>3, SeqEqual
    <2> QED
      BY <2>4 DEF a, b
  <1> QED
    BY <1>2, <1>4 DEF IsSuffix, IsPrefix, u

LEMMA RemoveFirstType ==
  ASSUME NEW E, NEW s \in Seq(E), NEW e
  PROVE  RemoveFirst(s, e) \in Seq(E)
  <1>1. CASE ~ \E i \in 1 .. Len(s) : s[i] = e
    BY <1>1 DEF RemoveFirst
  <1>2. CASE \E i \in 1 .. Len(s) : s[i] = e
    <2> DEFINE I == {i \in 1 .. Len(s) : s[i] = e}
               n == CHOOSE i \in I : \A j \in I : i <= j
    <2>1. Len(s) \in Nat /\ I \in SUBSET Nat /\ I # {}
      BY <1>2, LenProperties
    <2>2. \E i \in I : \A j \in I : i <= j
      <3> HIDE DEF I
      <3> QED
        BY <2>1, LeastNumber
    <2>3. n \in 1 .. Len(s)
      BY <2>2
    <2>4. RemoveFirst(s, e) = SubSeq(s, 1, n - 1) \o SubSeq(s, n + 1, Len(s))
      BY <1>2, <2>1 DEF RemoveFirst, RemoveAt, SelectInSeq, Min
    <2> HIDE DEF n
    <2>5. SubSeq(s, 1, n - 1) \in Seq(E) /\ SubSeq(s, n + 1, Len(s)) \in Seq(E)
      <3>1. \A i \in 1 .. Len(s) : s[i] \in E
        BY LenProperties
      <3> QED
        BY <2>1, <2>3, <3>1, SubSeqProperties
    <2> QED
      BY <2>4, <2>5, ConcatProperties
  <1> QED
    BY <1>1, <1>2

-----------------------------------------------------------------------------
(* Sequences that are cut and put together.                                *)
LEMMA JoinIs ==
  ASSUME NEW E, NEW s \in Seq(E), NEW t \in Seq(E)
  PROVE  /\ s \o t \in Seq(E) /\ Len(s \o t) = Len(s) + Len(t) /\ Len(s) \in Nat /\ Len(t) \in Nat
         /\ \A i \in 1 .. Len(s) + Len(t) : (s \o t)[i] = IF i <= Len(s) THEN s[i] ELSE t[i - Len(s)]
  BY ConcatProperties

LEMMA JoinRegroups ==
  ASSUME NEW E, NEW s \in Seq(E), NEW t \in Seq(E), NEW u \in Seq(E)
  PROVE  (s \o t) \o u = s \o (t \o u)
  BY ConcatAssociative

LEMMA JoinEmpty ==
  ASSUME NEW E, NEW s \in Seq(E)
  PROVE  s \o <<>> = s /\ <<>> \o s = s
  OBVIOUS

(* The two parts of a sequence that is cut after k elements, which make    *)
(* it up again.                                                            *)
LEMMA CutIs ==
  ASSUME NEW E, NEW b \in Seq(E), NEW k \in 0 .. Len(b)
  PROVE  /\ SubSeq(b, 1, k) \in Seq(E) /\ SubSeq(b, k + 1, Len(b)) \in Seq(E)
         /\ Len(SubSeq(b, 1, k)) = k /\ Len(SubSeq(b, k + 1, Len(b))) = Len(b) - k
         /\ \A i \in 1 .. k : SubSeq(b, 1, k)[i] = b[i]
         /\ \A i \in 1 .. Len(b) - k : SubSeq(b, k + 1, Len(b))[i] = b[k + i]
  <1>1. Len(b) \in Nat /\ \A i \in 1 .. Len(b) : b[i] \in E
    BY LenProperties
  <1>2. /\ SubSeq(b, 1, k) \in Seq(E) /\ Len(SubSeq(b, 1, k)) = k
        /\ \A i \in 1 .. k : SubSeq(b, 1, k)[i] = b[i]
    OBVIOUS
  <1>3. /\ SubSeq(b, k + 1, Len(b)) \in Seq(E) /\ Len(SubSeq(b, k + 1, Len(b))) = Len(b) - k
        /\ \A i \in 1 .. Len(b) - k : SubSeq(b, k + 1, Len(b))[i] = b[k + i]
    OBVIOUS
  <1> QED
    BY <1>2, <1>3

LEMMA CutJoins ==
  ASSUME NEW E, NEW b \in Seq(E), NEW k \in 0 .. Len(b)
  PROVE  SubSeq(b, 1, k) \o SubSeq(b, k + 1, Len(b)) = b
  <1> DEFINE x == SubSeq(b, 1, k)
             y == SubSeq(b, k + 1, Len(b))
  <1>1. /\ x \in Seq(E) /\ y \in Seq(E) /\ Len(x) = k /\ Len(y) = Len(b) - k
        /\ \A i \in 1 .. k : x[i] = b[i]
        /\ \A i \in 1 .. Len(b) - k : y[i] = b[k + i]
    BY CutIs
  <1> HIDE DEF x, y
  <1>2. /\ x \o y \in Seq(E) /\ Len(x \o y) = Len(b) /\ Len(b) \in Nat
        /\ \A i \in 1 .. Len(b) : (x \o y)[i] = IF i <= k THEN x[i] ELSE y[i - k]
    BY <1>1, JoinIs
  <1>3. \A i \in 1 .. Len(b) : (x \o y)[i] = b[i]
    <2> SUFFICES ASSUME NEW i \in 1 .. Len(b) PROVE (x \o y)[i] = b[i]
      OBVIOUS
    <2>1. CASE i <= k
      BY <1>1, <1>2, <2>1
    <2>2. CASE ~(i <= k)
      <3>1. i - k \in 1 .. Len(b) - k /\ k + (i - k) = i
        BY <1>2, <2>2
      <3> QED
        BY <1>1, <1>2, <2>2, <3>1
    <2> QED
      BY <2>1, <2>2
  <1>4. x \o y = b
    BY <1>2, <1>3, SeqEqual
  <1> QED
    BY <1>4 DEF x, y

(* What is cut off a join whose first part is long enough.                 *)
LEMMA CutOfJoin ==
  ASSUME NEW E, NEW s \in Seq(E), NEW t \in Seq(E), NEW k \in 0 .. Len(s)
  PROVE  /\ SubSeq(s \o t, 1, k) = SubSeq(s, 1, k)
         /\ SubSeq(s \o t, k + 1, Len(s \o t)) = SubSeq(s, k + 1, Len(s)) \o t
  <1> DEFINE u == s \o t
             x == SubSeq(u, 1, k)
             y == SubSeq(u, k + 1, Len(u))
             v == SubSeq(s, 1, k)
             w == SubSeq(s, k + 1, Len(s))
  <1>1. /\ u \in Seq(E) /\ Len(u) = Len(s) + Len(t) /\ Len(s) \in Nat /\ Len(t) \in Nat
        /\ \A i \in 1 .. Len(s) + Len(t) : u[i] = IF i <= Len(s) THEN s[i] ELSE t[i - Len(s)]
    BY JoinIs
  <1>2. /\ v \in Seq(E) /\ w \in Seq(E) /\ Len(v) = k /\ Len(w) = Len(s) - k
        /\ \A i \in 1 .. k : v[i] = s[i]
        /\ \A i \in 1 .. Len(s) - k : w[i] = s[k + i]
    BY CutIs
  <1> HIDE DEF u, v, w
  <1>3. k \in 0 .. Len(u)
    BY <1>1
  <1>4. /\ x \in Seq(E) /\ y \in Seq(E) /\ Len(x) = k /\ Len(y) = Len(u) - k
        /\ \A i \in 1 .. k : x[i] = u[i]
        /\ \A i \in 1 .. Len(u) - k : y[i] = u[k + i]
    BY <1>1, <1>3, CutIs
  <1> HIDE DEF x, y
  <1>5. \A i \in 1 .. k : x[i] = v[i]
    BY <1>1, <1>2, <1>4
  <1>6. x = v
    BY <1>2, <1>4, <1>5, SeqEqual
  <1>7. /\ w \o t \in Seq(E) /\ Len(w \o t) = Len(s) - k + Len(t)
        /\ \A i \in 1 .. Len(s) - k + Len(t) : (w \o t)[i] = IF i <= Len(s) - k THEN w[i] ELSE t[i - (Len(s) - k)]
    <2>1. /\ w \o t \in Seq(E) /\ Len(w \o t) = Len(w) + Len(t)
          /\ \A i \in 1 .. Len(w) + Len(t) : (w \o t)[i] = IF i <= Len(w) THEN w[i] ELSE t[i - Len(w)]
      BY <1>2, JoinIs
    <2> QED
      BY <1>2, <2>1
  <1>8. Len(y) = Len(w \o t)
    BY <1>1, <1>4, <1>7
  <1>9. \A i \in 1 .. Len(y) : y[i] = (w \o t)[i]
    <2> SUFFICES ASSUME NEW i \in 1 .. Len(y) PROVE y[i] = (w \o t)[i]
      OBVIOUS
    <2>1. i \in 1 .. Len(u) - k /\ i \in 1 .. Len(s) - k + Len(t) /\ k + i \in 1 .. Len(s) + Len(t)
      BY <1>1, <1>4
    <2>2. y[i] = u[k + i]
      BY <1>4, <2>1
    <2>3. CASE i <= Len(s) - k
      <3>1. k + i <= Len(s) /\ i \in 1 .. Len(s) - k
        BY <1>1, <2>1, <2>3
      <3>2. u[k + i] = s[k + i] /\ w[i] = s[k + i]
        BY <1>1, <1>2, <2>1, <3>1
      <3> QED
        BY <1>7, <2>1, <2>2, <2>3, <3>2
    <2>4. CASE ~(i <= Len(s) - k)
      <3>1. ~(k + i <= Len(s)) /\ k + i - Len(s) = i - (Len(s) - k)
        BY <1>1, <2>1, <2>4
      <3>2. u[k + i] = t[k + i - Len(s)]
        BY <1>1, <2>1, <3>1
      <3> QED
        BY <1>7, <2>1, <2>2, <2>4, <3>1, <3>2
    <2> QED
      BY <2>3, <2>4
  <1>10. y = w \o t
    BY <1>4, <1>7, <1>8, <1>9, SeqEqual
  <1> QED
    BY <1>6, <1>10 DEF x, y, u, v, w

(* What a join begins with.                                                *)
LEMMA JoinIsPrefix ==
  ASSUME NEW E, NEW s \in Seq(E), NEW t \in Seq(E)
  PROVE  IsPrefix(s, s \o t)
  <1>1. Len(s) \in Nat /\ Len(s \o t) = Len(s) + Len(t) /\ Len(t) \in Nat
    BY JoinIs
  <1>2. SubSeq(s \o t, 1, Len(s)) = SubSeq(s, 1, Len(s))
    BY <1>1, CutOfJoin
  <1> QED
    BY <1>1, <1>2 DEF IsPrefix

LEMMA PrefixOfJoin ==
  ASSUME NEW E, NEW s \in Seq(E), NEW t \in Seq(E), NEW u \in Seq(E), IsPrefix(s, t)
  PROVE  IsPrefix(s, t \o u)
  <1>1. Len(s) \in Nat /\ Len(t \o u) = Len(t) + Len(u) /\ Len(u) \in Nat /\ Len(t) \in Nat
    BY JoinIs, LenProperties
  <1>2. Len(s) <= Len(t) /\ SubSeq(s, 1, Len(s)) = SubSeq(t, 1, Len(s))
    BY DEF IsPrefix
  <1>3. SubSeq(t \o u, 1, Len(s)) = SubSeq(t, 1, Len(s))
    BY <1>1, <1>2, CutOfJoin
  <1> QED
    BY <1>1, <1>2, <1>3 DEF IsPrefix

(* What is left of what is left.                                           *)
LEMMA CutAgain ==
  ASSUME NEW E, NEW b \in Seq(E), NEW k \in 0 .. Len(b), NEW j \in 0 .. Len(b) - k,
         NEW c, c = SubSeq(b, k + 1, Len(b))
  PROVE  SubSeq(c, j + 1, Len(c)) = SubSeq(b, k + j + 1, Len(b))
  <1> DEFINE m == k + j
             x == SubSeq(c, j + 1, Len(c))
             y == SubSeq(b, m + 1, Len(b))
  <1>1. /\ Len(b) \in Nat /\ c \in Seq(E) /\ Len(c) = Len(b) - k
        /\ \A i \in 1 .. Len(b) - k : c[i] = b[k + i]
    BY CutIs, LenProperties
  <1>2. m \in 0 .. Len(b) /\ j \in 0 .. Len(c)
    BY <1>1
  <1>3. /\ x \in Seq(E) /\ Len(x) = Len(c) - j
        /\ \A i \in 1 .. Len(c) - j : x[i] = c[j + i]
    BY <1>1, <1>2, CutIs
  <1> HIDE DEF m
  <1>4. /\ y \in Seq(E) /\ Len(y) = Len(b) - m
        /\ \A i \in 1 .. Len(b) - m : y[i] = b[m + i]
    BY <1>2, CutIs
  <1> HIDE DEF x, y
  <1>5. \A i \in 1 .. Len(x) : x[i] = y[i]
    <2> SUFFICES ASSUME NEW i \in 1 .. Len(x) PROVE x[i] = y[i]
      OBVIOUS
    <2>1. /\ j + i \in 1 .. Len(b) - k /\ k + (j + i) = m + i
          /\ i \in 1 .. Len(c) - j /\ i \in 1 .. Len(b) - m
      BY <1>1, <1>3 DEF m
    <2>2. x[i] = c[j + i] /\ c[j + i] = b[k + (j + i)] /\ y[i] = b[m + i]
      BY <1>1, <1>3, <1>4, <2>1
    <2> QED
      BY <2>1, <2>2
  <1>6. Len(x) = Len(y)
    BY <1>1, <1>3, <1>4 DEF m
  <1>7. x = y
    BY <1>3, <1>4, <1>5, <1>6, SeqEqual
  <1> QED
    BY <1>7 DEF x, y, m

(* FlattenSeq from the front.                                              *)
LEMMA FlattenFront ==
  ASSUME NEW E, NEW s \in Seq(Seq(E)), s # <<>>
  PROVE  FlattenSeq(s) = Head(s) \o FlattenSeq(Tail(s)) /\ Tail(s) \in Seq(Seq(E)) /\ Head(s) \in Seq(E)
  <1> DEFINE t == Tail(s)
             n == Len(s)
  <1>1. /\ t \in Seq(Seq(E)) /\ Head(s) = s[1] /\ s[1] \in Seq(E) /\ n \in Nat \ {0} /\ Len(t) = n - 1
        /\ \A i \in 1 .. n - 1 : t[i] = s[i + 1]
    <2>1. Len(s) \in Nat \ {0}
      BY EmptySeq, LenProperties
    <2> QED
      BY <2>1, HeadTailProperties, LenProperties
  <1>2. \A i \in 1 .. n - 1 : t[i] \in Seq(E)
    BY <1>1, LenProperties
  <1> HIDE DEF t, n
  <1>3. PICK g : Flattens(s, g, n) /\ FlattenSeq(s) = g[n]
    BY <1>1, FlattenIs DEF n
  <1>9. ASSUME NEW i \in 1 .. n PROVE g[i] = IF i = 1 THEN s[i] ELSE g[i - 1] \o s[i]
    BY <1>3, FlattensAt
  <1>4. g[1] = s[1]
    BY <1>1, <1>9
  <1>5. CASE n = 1
    <2>1. t = <<>>
      BY <1>1, <1>5, EmptySeq
    <2>2. FlattenSeq(t) = <<>>
      BY <2>1 DEF FlattenSeq
    <2>3. s[1] \o <<>> = s[1]
      BY <1>1, JoinEmpty
    <2> QED
      BY <1>1, <1>3, <1>4, <1>5, <2>2, <2>3 DEF t
  <1>6. CASE n # 1
    <2>1. n - 1 \in Nat \ {0}
      BY <1>1, <1>6
    <2>2. PICK h : Flattens(t, h, n - 1) /\ FlattenSeq(t) = h[n - 1]
      BY <1>1, <2>1, FlattenIs
    <2>6. ASSUME NEW i \in 1 .. n - 1 PROVE h[i] = IF i = 1 THEN t[i] ELSE h[i - 1] \o t[i]
      BY <2>2, FlattensAt
    <2> DEFINE T == {k \in Nat : k \in 1 .. n - 1 => g[k + 1] = s[1] \o h[k] /\ h[k] \in Seq(E)}
    <2>3. 0 \in T
      OBVIOUS
    <2>4. ASSUME NEW k \in T PROVE k + 1 \in T
      <3>1. ASSUME NEW j, j = k + 1, j \in 1 .. n - 1
            PROVE  g[j + 1] = s[1] \o h[j] /\ h[j] \in Seq(E)
        <4>1. k \in Nat /\ j \in Nat /\ j + 1 \in 1 .. n /\ j + 1 # 1 /\ j + 1 - 1 = j /\ j - 1 = k
          BY <1>1, <3>1
        <4>2. g[j + 1] = g[j] \o s[j + 1]
          <5>1. PICK i : i = j + 1
            OBVIOUS
          <5>2. i \in 1 .. n /\ i # 1 /\ i - 1 = j
            BY <4>1, <5>1
          <5>3. g[i] = IF i = 1 THEN s[i] ELSE g[i - 1] \o s[i]
            BY <5>2, <1>9
          <5> QED
            BY <5>1, <5>2, <5>3
        <4>3. t[j] = s[j + 1] /\ t[j] \in Seq(E)
          BY <1>1, <1>2, <3>1
        <4>4. h[j] = IF j = 1 THEN t[j] ELSE h[k] \o t[j]
          <5>1. h[j] = IF j = 1 THEN t[j] ELSE h[j - 1] \o t[j]
            BY <2>6, <3>1
          <5> QED
            BY <4>1, <5>1
        <4>5. CASE j = 1
          BY <1>4, <4>2, <4>3, <4>4, <4>5
        <4>6. CASE j # 1
          <5>1. k \in 1 .. n - 1
            BY <3>1, <4>1, <4>6, <1>1
          <5>2. g[k + 1] = s[1] \o h[k] /\ h[k] \in Seq(E)
            BY <5>1
          <5>3. g[j] = s[1] \o h[k]
            BY <3>1, <5>2
          <5>4. (s[1] \o h[k]) \o t[j] = s[1] \o (h[k] \o t[j])
            <6>1. \A x, y, z \in Seq(E) : (x \o y) \o z = x \o (y \o z)
              BY JoinRegroups
            <6> QED
              BY <1>1, <4>3, <5>2, <6>1
          <5>5. h[k] \o t[j] \in Seq(E)
            BY <4>3, <5>2, JoinIs
          <5> QED
            BY <4>2, <4>3, <4>4, <4>6, <5>3, <5>4, <5>5
        <4> QED
          BY <4>5, <4>6
      <3>2. k + 1 \in Nat
        OBVIOUS
      <3> QED
        BY <3>1, <3>2
    <2> HIDE DEF T
    <2>5. T = Nat
      <3>1. T \in SUBSET Nat
        BY DEF T
      <3> QED
        BY <2>3, <2>4, <3>1, AllNumbers
    <2>7. n - 1 \in T /\ n - 1 \in 1 .. n - 1 /\ n - 1 + 1 = n
      BY <1>1, <2>1, <2>5
    <2>8. g[n] = s[1] \o h[n - 1]
      BY <2>7 DEF T
    <2> QED
      BY <1>1, <1>3, <2>2, <2>8 DEF t
  <1> QED
    BY <1>5, <1>6
=============================================================================
