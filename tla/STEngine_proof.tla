-------------------------- MODULE STEngine_proof --------------------------
(***************************************************************************)
(* The single-threaded engine, proved for any clients, numbers, buffers    *)
(* and failures: objects live as long as they are used, numbers lead to    *)
(* the right connection, streams stay in order, the event loop forgets     *)
(* nobody, and callbacks come in the order the engine promises.            *)
(*                                                                         *)
(* First lemmas on what the model is built from (sums of uses, calls, the  *)
(* pieces of a stream, the operations of a connection), then the inductive *)
(* invariant, then the steps one by one, at last the theorems.             *)
(***************************************************************************)
EXTENDS STEngine, SequenceLemmas

-----------------------------------------------------------------------------
(* SumSeq(s) is the last of the sums that the fold goes through.           *)
Folds(s, I, g) ==
  g = [S \in SUBSET I |-> IF S = {} THEN 0 ELSE g[S \ {Max(S)}] + s[Max(S)]]

Sums(s, p) == p = [k \in 0 .. Len(s) |-> IF k = 0 THEN 0 ELSE p[k - 1] + s[k]]

(* The function the fold defines exists: its values on small sets are      *)
(* enough for those on larger ones.                                        *)
UpTo(I, n) == {S \in SUBSET I : Cardinality(S) <= n}

FoldsTo(s, I, n, g) ==
  g = [S \in UpTo(I, n) |-> IF S = {} THEN 0 ELSE g[S \ {Max(S)}] + s[Max(S)]]

(* The function exists.                                                    *)
LEMMA FoldsExist ==
  ASSUME NEW s, NEW m \in Nat
  PROVE  \E g : Folds(s, 1 .. m, g)
  <1> DEFINE I == 1 .. m
             T == {n \in Nat : \E g : FoldsTo(s, I, n, g)}
  <1>1. \A S \in SUBSET I : IsFiniteSet(S) /\ Cardinality(S) \in Nat /\ (Cardinality(S) = 0 <=> S = {})
    <2>1. IsFiniteSet(I)
      BY FS_Interval
    <2> HIDE DEF I
    <2>2. \A S \in SUBSET I : IsFiniteSet(S)
      BY <2>1, FS_Subset
    <2> QED
      BY <2>2, FS_CardinalityType, FS_EmptySet
  <1>2. \A S \in SUBSET I : S # {} =>
          /\ Max(S) \in S /\ S \ {Max(S)} \in SUBSET I
          /\ Cardinality(S \ {Max(S)}) = Cardinality(S) - 1
    BY <1>1, MaxOf, FS_RemoveElement
  <1>3. Cardinality(I) = m
    BY FS_Interval
  <1>4. \A S \in SUBSET I : Cardinality(S) <= m
    <2>1. IsFiniteSet(I)
      BY FS_Interval
    <2> HIDE DEF I
    <2> QED
      BY <1>3, <2>1, FS_Subset
  <1> HIDE DEF I
  <1>5. 0 \in T
    <2>1. UpTo(I, 0) = {{}}
      BY <1>1 DEF UpTo
    <2>2. FoldsTo(s, I, 0, [S \in {{}} |-> 0])
      BY <2>1 DEF FoldsTo
    <2> QED
      BY <2>2
  <1>6. ASSUME NEW n \in T PROVE n + 1 \in T
    <2>1. PICK g : FoldsTo(s, I, n, g)
      OBVIOUS
    <2> DEFINE h == [S \in UpTo(I, n + 1) |->
                       IF S \in UpTo(I, n) THEN g[S] ELSE g[S \ {Max(S)}] + s[Max(S)]]
    <2>2. n \in Nat
      OBVIOUS
    <2>3. UpTo(I, n) \subseteq UpTo(I, n + 1) /\ {} \in UpTo(I, n)
      BY <1>1, <2>2, FS_EmptySet DEF UpTo
    <2>4. \A S \in UpTo(I, n + 1) : S # {} => S \ {Max(S)} \in UpTo(I, n)
      BY <1>1, <1>2, <2>2 DEF UpTo
    <2>5. \A S \in UpTo(I, n) : g[S] = IF S = {} THEN 0 ELSE g[S \ {Max(S)}] + s[Max(S)]
      BY <2>1 DEF FoldsTo
    <2>6. \A S \in UpTo(I, n) : h[S] = g[S]
      BY <2>3
    <2>7. \A S \in UpTo(I, n + 1) : h[S] = IF S = {} THEN 0 ELSE g[S \ {Max(S)}] + s[Max(S)]
      BY <2>3, <2>5
    <2>8. h = [S \in UpTo(I, n + 1) |-> h[S]]
      OBVIOUS
    <2> HIDE DEF h
    <2>9. \A S \in UpTo(I, n + 1) : h[S] = IF S = {} THEN 0 ELSE h[S \ {Max(S)}] + s[Max(S)]
      BY <2>4, <2>6, <2>7
    <2>10. FoldsTo(s, I, n + 1, h)
      BY <2>8, <2>9 DEF FoldsTo
    <2> QED
      BY <2>2, <2>10
  <1>7. T = Nat
    <2> HIDE DEF T
    <2>1. T \in SUBSET Nat
      BY DEF T
    <2> QED
      BY <1>5, <1>6, <2>1, AllNumbers
  <1>8. PICK g : FoldsTo(s, I, m, g)
    BY <1>7
  <1>9. UpTo(I, m) = SUBSET I
    BY <1>4 DEF UpTo
  <1> QED
    BY <1>8, <1>9 DEF FoldsTo, Folds, I

(* The sums of the first k numbers are what SumSeq goes through.           *)
LEMMA SumIs ==
  ASSUME NEW s, Len(s) \in Nat, DOMAIN s = 1 .. Len(s)
  PROVE  \E p : Sums(s, p) /\ SumSeq(s) = p[Len(s)]
  <1>1. \E g : g = [S \in SUBSET DOMAIN s |-> IF S = {} THEN 0 ELSE g[S \ {Max(S)}] + s[Max(S)]]
    <2>1. \E g : Folds(s, DOMAIN s, g)
      BY FoldsExist
    <2> QED
      BY <2>1 DEF Folds
  <1>2. PICK g : Folds(s, DOMAIN s, g) /\ SumSeq(s) = g[DOMAIN s]
    BY <1>1 DEF SumSeq, FoldLeft, MapThenFoldSet, Folds
  <1> DEFINE p == [k \in 0 .. Len(s) |-> g[1 .. k]]
  <1>3. \A k \in 0 .. Len(s) : 1 .. k \in SUBSET DOMAIN s /\ (1 .. k = {} <=> k = 0)
    OBVIOUS
  <1>4. \A k \in 0 .. Len(s) :
          g[1 .. k] = IF k = 0 THEN 0 ELSE g[(1 .. k) \ {Max(1 .. k)}] + s[Max(1 .. k)]
    BY <1>2, <1>3 DEF Folds
  <1>5. \A k \in 0 .. Len(s) : g[1 .. k] = IF k = 0 THEN 0 ELSE g[1 .. k - 1] + s[k]
    <2> SUFFICES ASSUME NEW k \in 0 .. Len(s)
                 PROVE  g[1 .. k] = IF k = 0 THEN 0 ELSE g[1 .. k - 1] + s[k]
      OBVIOUS
    <2>1. k # 0 => Max(1 .. k) = k /\ (1 .. k) \ {k} = 1 .. k - 1
      BY MaxUpTo
    <2> QED
      BY <1>4, <2>1
  <1>6. Sums(s, p)
    BY <1>5 DEF Sums
  <1>7. p[Len(s)] = g[DOMAIN s]
    OBVIOUS
  <1> QED
    BY <1>2, <1>6, <1>7

(* The sum of the first k numbers, by that of the first k - 1.             *)
LEMMA SumsAt ==
  ASSUME NEW s, NEW p, Sums(s, p), NEW k \in 0 .. Len(s)
  PROVE  p[k] = IF k = 0 THEN 0 ELSE p[k - 1] + s[k]
  <1>1. p = [j \in 0 .. Len(s) |-> IF j = 0 THEN 0 ELSE p[j - 1] + s[j]]
    BY DEF Sums
  <1> QED
    BY <1>1

(* Nothing adds up to 0.                                                   *)
LEMMA SumEmpty == SumSeq(<<>>) = 0
  <1>1. PICK p : Sums(<<>>, p) /\ SumSeq(<<>>) = p[0]
    BY SumIs
  <1> QED
    BY <1>1, SumsAt

(* The sum of a sequence with one more at its front.                       *)
LEMMA SumFront ==
  ASSUME NEW s \in Seq(Nat), NEW x \in Nat, NEW t \in Seq(Nat),
         Len(t) = Len(s) + 1, t[1] = x, \A i \in 1 .. Len(s) : t[i + 1] = s[i]
  PROVE  SumSeq(s) \in Nat /\ SumSeq(t) = x + SumSeq(s)
  <1> DEFINE n == Len(s)
  <1>1. n \in Nat /\ DOMAIN s = 1 .. n /\ (\A i \in 1 .. n : s[i] \in Nat) /\ DOMAIN t = 1 .. n + 1
    BY LenProperties
  <1>2. PICK p : Sums(s, p) /\ SumSeq(s) = p[n]
    BY <1>1, SumIs
  <1>3. PICK q : Sums(t, q) /\ SumSeq(t) = q[n + 1]
    BY <1>1, SumIs
  <1> HIDE DEF n
  <1> DEFINE T == {k \in Nat : k <= n => p[k] \in Nat /\ q[k + 1] = x + p[k]}
  <1>4. \A k \in 0 .. n : p[k] = IF k = 0 THEN 0 ELSE p[k - 1] + s[k]
    BY <1>2, SumsAt DEF n
  <1>5. \A k \in 0 .. n + 1 : q[k] = IF k = 0 THEN 0 ELSE q[k - 1] + t[k]
    BY <1>3, SumsAt DEF n
  <1>6. 0 \in T
    <2>1. 0 \in 0 .. n /\ 0 \in 0 .. n + 1 /\ 1 \in 0 .. n + 1 /\ 1 - 1 = 0 /\ 0 + 1 = 1
      BY <1>1
    <2>2. p[0] = 0 /\ q[0] = 0 /\ q[1] = q[0] + t[1]
      BY <1>4, <1>5, <2>1
    <2> QED
      BY <2>1, <2>2
  <1>7. ASSUME NEW k \in T PROVE k + 1 \in T
    <2> SUFFICES ASSUME k + 1 <= n PROVE p[k + 1] \in Nat /\ q[k + 1 + 1] = x + p[k + 1]
      OBVIOUS
    <2>1. k \in Nat /\ k <= n /\ k + 1 \in 0 .. n /\ k + 1 \in 1 .. n /\ k + 2 \in 0 .. n + 1
      BY <1>1
    <2>2. p[k] \in Nat /\ q[k + 1] = x + p[k]
      BY <2>1
    <2>3. p[k + 1] = p[k] + s[k + 1]
      BY <1>4, <2>1
    <2>4. q[k + 2] = q[k + 1] + t[k + 2]
      BY <1>5, <2>1
    <2>5. t[k + 2] = s[k + 1] /\ s[k + 1] \in Nat
      <3>1. k + 1 + 1 = k + 2
        BY <2>1
      <3> QED
        BY <1>1, <2>1, <3>1 DEF n
    <2>6. k + 1 + 1 = k + 2
      BY <2>1
    <2>7. PICK a \in Nat, b \in Nat : a = p[k] /\ b = s[k + 1]
      BY <2>2, <2>5
    <2>8. q[k + 2] = (x + a) + b /\ p[k + 1] = a + b
      BY <2>2, <2>3, <2>4, <2>5, <2>7
    <2>9. a + b \in Nat /\ (x + a) + b = x + (a + b)
      OBVIOUS
    <2> QED
      BY <2>6, <2>8, <2>9
  <1>8. T = Nat
    <2> HIDE DEF T
    <2>1. T \in SUBSET Nat
      BY DEF T
    <2> QED
      BY <1>6, <1>7, <2>1, AllNumbers
  <1> HIDE DEF T
  <1>9. n \in T
    BY <1>1, <1>8
  <1> USE DEF T
  <1> QED
    BY <1>1, <1>2, <1>3, <1>9

-----------------------------------------------------------------------------
(* The calls in progress, innermost first.                                 *)
Frames == [kind : Handlers \union {"monitor", "worker"}, conn : Conns, drops : Nat, looked : BOOLEAN]

CallsOf(calls, c) == {f \in ToSet(calls) : f.conn = c}

Doing(calls, K, c) == \E f \in CallsOf(calls, c) : f.kind \in K

UsedBy(c, f) == IF f.conn = c THEN f.drops ELSE 0

(* No call, no use.                                                        *)
LEMMA UsesNone == \A c : Uses(c, <<>>) = 0
  <1>1. \A c : [i \in DOMAIN <<>> |-> IF <<>>[i].conn = c THEN <<>>[i].drops ELSE 0] = <<>>
    OBVIOUS
  <1> QED
    BY <1>1, SumEmpty DEF Uses

(* A sequence with one more at its front.                                  *)
LEMMA Front1 ==
  ASSUME NEW E, NEW f \in E, NEW s \in Seq(E)
  PROVE  /\ <<f>> \o s \in Seq(E) /\ Len(<<f>> \o s) = Len(s) + 1 /\ Len(s) \in Nat
         /\ (<<f>> \o s)[1] = f /\ \A i \in 1 .. Len(s) : (<<f>> \o s)[i + 1] = s[i]
         /\ Head(<<f>> \o s) = f /\ Tail(<<f>> \o s) = s /\ <<f>> \o s # <<>>
  OBVIOUS

(* A sequence is its head in front of its tail.                            *)
LEMMA Split1 ==
  ASSUME NEW E, NEW s \in Seq(E), s # <<>>
  PROVE  Head(s) \in E /\ Tail(s) \in Seq(E) /\ s = <<Head(s)>> \o Tail(s)
  OBVIOUS

(* One more call uses the connection it is for, as often as it will drop   *)
(* it.                                                                     *)
LEMMA UsesPush ==
  ASSUME NEW c, NEW f \in Frames, NEW s \in Seq(Frames)
  PROVE  Uses(c, s) \in Nat /\ Uses(c, <<f>> \o s) = UsedBy(c, f) + Uses(c, s) /\ UsedBy(c, f) \in Nat
  <1> DEFINE t == <<f>> \o s
             u == [i \in DOMAIN s |-> IF s[i].conn = c THEN s[i].drops ELSE 0]
             v == [i \in DOMAIN t |-> IF t[i].conn = c THEN t[i].drops ELSE 0]
  <1>1. t \in Seq(Frames) /\ Len(t) = Len(s) + 1 /\ Len(s) \in Nat
        /\ t[1] = f /\ \A i \in 1 .. Len(s) : t[i + 1] = s[i]
    BY Front1
  <1>2. (\A i \in 1 .. Len(s) : s[i] \in Frames) /\ DOMAIN s = 1 .. Len(s) /\ DOMAIN t = 1 .. Len(s) + 1
        /\ \A i \in 1 .. Len(s) + 1 : t[i] \in Frames
    BY <1>1, LenProperties
  <1> HIDE DEF t
  <1>3. u \in Seq(Nat) /\ Len(u) = Len(s) /\ DOMAIN u = 1 .. Len(s)
    <2>1. \A i \in 1 .. Len(s) : u[i] \in Nat
      BY <1>2 DEF Frames
    <2>2. u \in [1 .. Len(s) -> Nat]
      BY <1>2, <2>1
    <2> HIDE DEF u
    <2> QED
      BY <1>1, <2>2
  <1>4. v \in Seq(Nat) /\ Len(v) = Len(s) + 1
    <2>1. \A i \in 1 .. Len(s) + 1 : v[i] \in Nat
      BY <1>2 DEF Frames
    <2>2. v \in [1 .. Len(s) + 1 -> Nat]
      BY <1>2, <2>1
    <2>3. Len(s) + 1 \in Nat
      BY <1>1
    <2> HIDE DEF v
    <2> QED
      BY <2>2, <2>3
  <1>5. UsedBy(c, f) \in Nat
    BY DEF UsedBy, Frames
  <1>6. v[1] = UsedBy(c, f)
    BY <1>1, <1>2 DEF UsedBy
  <1>7. \A i \in 1 .. Len(s) : v[i + 1] = u[i]
    BY <1>1, <1>2
  <1> HIDE DEF u, v
  <1>8. SumSeq(u) \in Nat /\ SumSeq(v) = UsedBy(c, f) + SumSeq(u)
    BY <1>3, <1>4, <1>5, <1>6, <1>7, SumFront
  <1> QED
    BY <1>5, <1>8 DEF Uses, u, v, t

(* The uses of the innermost call and those of the calls around it.        *)
LEMMA UsesTop ==
  ASSUME NEW c, NEW s \in Seq(Frames), s # <<>>
  PROVE  /\ Uses(c, s) = UsedBy(c, Head(s)) + Uses(c, Tail(s))
         /\ Uses(c, Tail(s)) \in Nat /\ UsedBy(c, Head(s)) \in Nat
  <1>1. Head(s) \in Frames /\ Tail(s) \in Seq(Frames) /\ s = <<Head(s)>> \o Tail(s)
    BY Split1
  <1> QED
    BY <1>1, UsesPush

(* Uses are numbers.                                                       *)
LEMMA UsesType == ASSUME NEW c, NEW s \in Seq(Frames) PROVE Uses(c, s) \in Nat
  <1>1. CASE s = <<>>
    BY <1>1, UsesNone
  <1>2. CASE s # <<>>
    BY <1>2, UsesTop
  <1> QED
    BY <1>1, <1>2


(* The calls in progress with one more.                                    *)
LEMMA CallsPush ==
  ASSUME NEW E, NEW f \in E, NEW s \in Seq(E)
  PROVE  ToSet(<<f>> \o s) = {f} \union ToSet(s)
  <1> DEFINE t == <<f>> \o s
  <1>1. t \in Seq(E) /\ Len(t) = Len(s) + 1 /\ Len(s) \in Nat
        /\ t[1] = f /\ \A i \in 1 .. Len(s) : t[i + 1] = s[i]
    BY Front1
  <1>2. DOMAIN s = 1 .. Len(s) /\ DOMAIN t = 1 .. Len(s) + 1
    BY <1>1, LenProperties
  <1> HIDE DEF t
  <1>3. ToSet(t) \subseteq {f} \union ToSet(s)
    <2> SUFFICES ASSUME NEW i \in 1 .. Len(s) + 1 PROVE t[i] = f \/ \E j \in 1 .. Len(s) : t[i] = s[j]
      BY <1>2 DEF ToSet
    <2>1. CASE i = 1
      BY <1>1, <2>1
    <2>2. CASE i # 1
      <3>1. i - 1 \in 1 .. Len(s) /\ i - 1 + 1 = i
        BY <1>1, <2>2
      <3> QED
        BY <1>1, <3>1
    <2> QED
      BY <2>1, <2>2
  <1>4. f \in ToSet(t)
    BY <1>1, <1>2 DEF ToSet
  <1>5. ToSet(s) \subseteq ToSet(t)
    <2> SUFFICES ASSUME NEW i \in 1 .. Len(s) PROVE s[i] \in ToSet(t)
      BY <1>2 DEF ToSet
    <2>1. i + 1 \in 1 .. Len(s) + 1 /\ t[i + 1] = s[i]
      BY <1>1
    <2> QED
      BY <1>2, <2>1 DEF ToSet
  <1> QED
    BY <1>3, <1>4, <1>5 DEF t

(* The innermost call and the calls around it.                             *)
LEMMA CallsTop ==
  ASSUME NEW E, NEW s \in Seq(E), s # <<>>
  PROVE  ToSet(s) = {Head(s)} \union ToSet(Tail(s))
  <1>1. Head(s) \in E /\ Tail(s) \in Seq(E) /\ s = <<Head(s)>> \o Tail(s)
    BY Split1
  <1> DEFINE h == Head(s)
             t == Tail(s)
  <1> HIDE DEF h, t
  <1>2. ToSet(<<h>> \o t) = {h} \union ToSet(t)
    BY <1>1, CallsPush DEF h, t
  <1> QED
    BY <1>1, <1>2 DEF h, t

(* No call.                                                                *)
LEMMA CallsNone == ToSet(<<>>) = {}
  BY DEF ToSet

(* The calls in progress are calls.                                        *)
LEMMA CallsType == ASSUME NEW E, NEW s \in Seq(E) PROVE ToSet(s) \subseteq E
  BY LenProperties DEF ToSet

(* A connection has a use for each call that goes on for it.               *)
LEMMA CallUses ==
  ASSUME NEW s \in Seq(Frames), NEW f \in ToSet(s)
  PROVE  f.drops <= Uses(f.conn, s)
  <1> DEFINE T == {n \in Nat : \A r \in Seq(Frames) : Len(r) = n =>
                                  \A g \in ToSet(r) : g.drops <= Uses(g.conn, r)}
  <1>1. 0 \in T
    <2>1. \A r \in Seq(Frames) : Len(r) = 0 => r = <<>>
      BY EmptySeq
    <2> QED
      BY <2>1, CallsNone
  <1>2. ASSUME NEW n \in T PROVE n + 1 \in T
    <2>0. n \in Nat
      OBVIOUS
    <2> SUFFICES ASSUME NEW r \in Seq(Frames), Len(r) = n + 1, NEW g \in ToSet(r)
                 PROVE  g.drops <= Uses(g.conn, r)
      BY <2>0
    <2>1. r # <<>> /\ Tail(r) \in Seq(Frames) /\ Len(Tail(r)) = n
      BY <2>0
    <2>2. g \in {Head(r)} \union ToSet(Tail(r))
      BY <2>1, CallsTop
    <2>3. Uses(g.conn, r) = UsedBy(g.conn, Head(r)) + Uses(g.conn, Tail(r))
          /\ Uses(g.conn, Tail(r)) \in Nat /\ UsedBy(g.conn, Head(r)) \in Nat
      BY <2>1, UsesTop
    <2>4. CASE g = Head(r)
      BY <2>3, <2>4 DEF UsedBy
    <2>5. CASE g \in ToSet(Tail(r))
      <3>1. g.drops <= Uses(g.conn, Tail(r))
        BY <2>1, <2>5
      <3>2. g.drops \in Nat
        BY <2>1, <2>5, CallsType DEF Frames
      <3> QED
        BY <2>3, <3>1, <3>2
    <2> QED
      BY <2>2, <2>4, <2>5
  <1>3. T = Nat
    <2> HIDE DEF T
    <2>1. T \in SUBSET Nat
      BY DEF T
    <2> QED
      BY <1>1, <1>2, <2>1, AllNumbers
  <1>4. Len(s) \in Nat
    OBVIOUS
  <1>5. Len(s) \in T
    <2> HIDE DEF T
    <2> QED
      BY <1>3, <1>4
  <1> QED
    BY <1>5

-----------------------------------------------------------------------------
(* How calls nest: what is not a call of OnCloseConnect is the outermost   *)
(* one, and there is one call of OnCloseConnect for each connection.       *)
Nested(s) ==
  /\ \A i \in 1 .. Len(s) : s[i].kind # "close" => i = Len(s)
  /\ \A i, j \in 1 .. Len(s) : s[i].kind = "close" /\ s[j].kind = "close" /\ s[i].conn = s[j].conn => i = j

(* Calls stay nested with one more: OnCloseConnect may be called within    *)
(* any call, but for a connection once; everything else is called by the   *)
(* loop.                                                                   *)
LEMMA NestedPush ==
  ASSUME NEW f \in Frames, NEW s \in Seq(Frames), Nested(s),
         f.kind = "close" \/ s = <<>>, f.kind = "close" => ~Doing(s, {"close"}, f.conn)
  PROVE  Nested(<<f>> \o s)
  <1> DEFINE t == <<f>> \o s
  <1>1. t \in Seq(Frames) /\ Len(t) = Len(s) + 1 /\ Len(s) \in Nat
        /\ t[1] = f /\ \A i \in 1 .. Len(s) : t[i + 1] = s[i]
    BY Front1
  <1>2. f.kind = "close" => \A i \in 1 .. Len(s) : ~(s[i].conn = f.conn /\ s[i].kind = "close")
    BY LenProperties DEF Doing, CallsOf, ToSet
  <1> HIDE DEF t
  <1>3. \A i \in 2 .. Len(t) : i - 1 \in 1 .. Len(s) /\ t[i] = s[i - 1]
    <2> SUFFICES ASSUME NEW i \in 2 .. Len(t) PROVE i - 1 \in 1 .. Len(s) /\ t[i] = s[i - 1]
      OBVIOUS
    <2>1. i - 1 \in 1 .. Len(s) /\ i - 1 + 1 = i
      BY <1>1
    <2> QED
      BY <1>1, <2>1
  <1>4. \A i \in 1 .. Len(t) : t[i].kind # "close" => i = Len(t)
    <2> SUFFICES ASSUME NEW i \in 1 .. Len(t), t[i].kind # "close" PROVE i = Len(t)
      OBVIOUS
    <2>1. CASE i = 1
      <3>1. s = <<>>
        BY <1>1, <2>1
      <3> QED
        BY <1>1, <2>1, <3>1
    <2>2. CASE i # 1
      <3>1. i \in 2 .. Len(t)
        BY <1>1, <2>2
      <3>2. i - 1 = Len(s)
        BY <1>3, <3>1 DEF Nested
      <3> QED
        BY <1>1, <3>1, <3>2
    <2> QED
      BY <2>1, <2>2
  <1>5. \A i, j \in 1 .. Len(t) :
          t[i].kind = "close" /\ t[j].kind = "close" /\ t[i].conn = t[j].conn => i = j
    <2> SUFFICES ASSUME NEW i \in 1 .. Len(t), NEW j \in 1 .. Len(t),
                        t[i].kind = "close", t[j].kind = "close", t[i].conn = t[j].conn
                 PROVE  i = j
      OBVIOUS
    <2>1. CASE i = 1 /\ j = 1
      BY <2>1
    <2>2. CASE i = 1 /\ j # 1
      <3>1. j \in 2 .. Len(t)
        BY <1>1, <2>2
      <3> QED
        BY <1>1, <1>2, <1>3, <2>2, <3>1
    <2>3. CASE i # 1 /\ j = 1
      <3>1. i \in 2 .. Len(t)
        BY <1>1, <2>3
      <3> QED
        BY <1>1, <1>2, <1>3, <2>3, <3>1
    <2>4. CASE i # 1 /\ j # 1
      <3>1. i \in 2 .. Len(t) /\ j \in 2 .. Len(t)
        BY <1>1, <2>4
      <3>2. i - 1 = j - 1
        BY <1>3, <3>1 DEF Nested
      <3> QED
        BY <3>1, <3>2
    <2> QED
      BY <2>1, <2>2, <2>3, <2>4
  <1> QED
    BY <1>4, <1>5 DEF Nested, t

(* Calls stay nested when the innermost one returns.                       *)
LEMMA NestedTop ==
  ASSUME NEW s \in Seq(Frames), Nested(s), s # <<>>
  PROVE  /\ Nested(Tail(s))
         /\ Head(s).kind # "close" => Tail(s) = <<>>
         /\ Head(s).kind = "close" => ~Doing(Tail(s), {"close"}, Head(s).conn)
  <1> DEFINE t == Tail(s)
  <1>1. /\ Len(s) \in Nat /\ Len(s) >= 1 /\ t \in Seq(Frames) /\ Len(t) = Len(s) - 1 /\ Head(s) = s[1]
        /\ \A i \in 1 .. Len(t) : t[i] = s[i + 1]
    OBVIOUS
  <1> HIDE DEF t
  <1>2. \A i \in 1 .. Len(t) : i + 1 \in 1 .. Len(s) /\ i + 1 # 1
    BY <1>1
  <1>3. 1 \in 1 .. Len(s)
    BY <1>1
  <1>4. Nested(t)
    <2>1. \A i \in 1 .. Len(t) : t[i].kind # "close" => i = Len(t)
      BY <1>1, <1>2 DEF Nested
    <2>2. \A i, j \in 1 .. Len(t) :
            t[i].kind = "close" /\ t[j].kind = "close" /\ t[i].conn = t[j].conn => i = j
      <3> SUFFICES ASSUME NEW i \in 1 .. Len(t), NEW j \in 1 .. Len(t),
                          t[i].kind = "close", t[j].kind = "close", t[i].conn = t[j].conn
                   PROVE  i = j
        OBVIOUS
      <3>1. i + 1 = j + 1
        BY <1>1, <1>2 DEF Nested
      <3> QED
        BY <3>1
    <2> QED
      BY <2>1, <2>2 DEF Nested
  <1>5. Head(s).kind # "close" => t = <<>>
    <2> SUFFICES ASSUME Head(s).kind # "close" PROVE t = <<>>
      OBVIOUS
    <2>1. Len(s) = 1
      BY <1>1, <1>3 DEF Nested
    <2> QED
      BY <1>1, <2>1, EmptySeq
  <1>6. Head(s).kind = "close" => ~Doing(t, {"close"}, Head(s).conn)
    <2> SUFFICES ASSUME Head(s).kind = "close", NEW f \in ToSet(t), f.conn = Head(s).conn, f.kind = "close"
                 PROVE  FALSE
      BY DEF Doing, CallsOf
    <2>1. PICK i \in 1 .. Len(t) : f = t[i]
      BY <1>1, LenProperties DEF ToSet
    <2>2. f = s[i + 1] /\ i + 1 \in 1 .. Len(s) /\ i + 1 # 1
      BY <1>1, <1>2, <2>1
    <2> QED
      BY <1>1, <1>3, <2>2 DEF Nested
  <1> QED
    BY <1>4, <1>5, <1>6 DEF t

-----------------------------------------------------------------------------
(* Numbers that follow each other, whoever has them.                       *)
Count(n) == [i \in 1 .. n |-> i]

CountsOn(d, m, n) == d = [i \in 1 .. n |-> m + i]

(* What putting two sequences together gives.                              *)
LEMMA Joined ==
  ASSUME NEW s \in Seq(Nat), NEW t \in Seq(Nat)
  PROVE  /\ s \o t \in Seq(Nat) /\ Len(s \o t) = Len(s) + Len(t) /\ Len(s) \in Nat /\ Len(t) \in Nat
         /\ \A i \in 1 .. Len(s) + Len(t) : (s \o t)[i] = IF i <= Len(s) THEN s[i] ELSE t[i - Len(s)]
  BY ConcatProperties

(* It does not matter which two of three are put together first.           *)
LEMMA Regrouped ==
  ASSUME NEW s \in Seq(Nat), NEW t \in Seq(Nat), NEW u \in Seq(Nat)
  PROVE  (s \o t) \o u = s \o (t \o u)
  BY ConcatAssociative

(* A sequence cut in two after the first k.                                *)
LEMMA Pieces ==
  ASSUME NEW b \in Seq(Nat), NEW k \in 0 .. Len(b)
  PROVE  /\ SubSeq(b, 1, k) \in Seq(Nat) /\ SubSeq(b, k + 1, Len(b)) \in Seq(Nat)
         /\ Len(SubSeq(b, 1, k)) = k /\ Len(SubSeq(b, k + 1, Len(b))) = Len(b) - k
         /\ \A i \in 1 .. k : SubSeq(b, 1, k)[i] = b[i]
         /\ \A i \in 1 .. Len(b) - k : SubSeq(b, k + 1, Len(b))[i] = b[k + i]
  <1>1. Len(b) \in Nat /\ \A i \in 1 .. Len(b) : b[i] \in Nat
    BY LenProperties
  <1>2. /\ SubSeq(b, 1, k) \in Seq(Nat) /\ Len(SubSeq(b, 1, k)) = k
        /\ \A i \in 1 .. k : SubSeq(b, 1, k)[i] = b[i]
    OBVIOUS
  <1>3. /\ SubSeq(b, k + 1, Len(b)) \in Seq(Nat) /\ Len(SubSeq(b, k + 1, Len(b))) = Len(b) - k
        /\ \A i \in 1 .. Len(b) - k : SubSeq(b, k + 1, Len(b))[i] = b[k + i]
    OBVIOUS
  <1> QED
    BY <1>2, <1>3

(* The two pieces make up the sequence.                                    *)
LEMMA JoinPieces ==
  ASSUME NEW b \in Seq(Nat), NEW k \in 0 .. Len(b)
  PROVE  SubSeq(b, 1, k) \o SubSeq(b, k + 1, Len(b)) = b
  <1> DEFINE x == SubSeq(b, 1, k)
             y == SubSeq(b, k + 1, Len(b))
  <1>1. /\ x \in Seq(Nat) /\ y \in Seq(Nat) /\ Len(x) = k /\ Len(y) = Len(b) - k
        /\ \A i \in 1 .. k : x[i] = b[i]
        /\ \A i \in 1 .. Len(b) - k : y[i] = b[k + i]
    BY Pieces
  <1> HIDE DEF x, y
  <1>2. Len(b) \in Nat
    OBVIOUS
  <1>3. /\ x \o y \in Seq(Nat) /\ Len(x \o y) = Len(b)
        /\ \A i \in 1 .. Len(b) : (x \o y)[i] = IF i <= k THEN x[i] ELSE y[i - k]
    <2>1. /\ x \o y \in Seq(Nat) /\ Len(x \o y) = Len(x) + Len(y)
          /\ \A i \in 1 .. Len(x) + Len(y) : (x \o y)[i] = IF i <= Len(x) THEN x[i] ELSE y[i - Len(x)]
      BY <1>1, Joined
    <2>2. Len(x) + Len(y) = Len(b)
      BY <1>1, <1>2
    <2> QED
      BY <1>1, <2>1, <2>2
  <1>4. \A i \in 1 .. Len(b) : (x \o y)[i] = b[i]
    <2> SUFFICES ASSUME NEW i \in 1 .. Len(b) PROVE (x \o y)[i] = b[i]
      OBVIOUS
    <2>1. CASE i <= k
      BY <1>1, <1>2, <1>3, <2>1
    <2>2. CASE i > k
      <3>1. i - k \in 1 .. Len(b) - k /\ k + (i - k) = i /\ ~(i <= k)
        BY <1>2, <2>2
      <3>2. (x \o y)[i] = y[i - k]
        BY <1>3, <3>1
      <3>3. y[i - k] = b[k + (i - k)]
        BY <1>1, <3>1
      <3> QED
        BY <3>1, <3>2, <3>3
    <2>3. i <= k \/ i > k
      BY <1>2
    <2> QED
      BY <2>1, <2>2, <2>3
  <1> QED
    BY <1>3, <1>4, SeqEqual DEF x, y

(* What is taken from the front of one and put at the end of the other.    *)
LEMMA StreamMoves ==
  ASSUME NEW w \in Seq(Nat), NEW b \in Seq(Nat), NEW k \in 0 .. Len(b)
  PROVE  (w \o SubSeq(b, 1, k)) \o SubSeq(b, k + 1, Len(b)) = w \o b
  <1> DEFINE x == SubSeq(b, 1, k)
             y == SubSeq(b, k + 1, Len(b))
  <1>1. x \in Seq(Nat) /\ y \in Seq(Nat) /\ x \o y = b
    BY Pieces, JoinPieces
  <1> HIDE DEF x, y
  <1>2. (w \o x) \o y = w \o (x \o y)
    BY <1>1, Regrouped
  <1>3. (w \o x) \o y = w \o b
    BY <1>1, <1>2
  <1> QED
    BY <1>3 DEF x, y

(* Counting on where the first m ended.                                    *)
LEMMA CountOn ==
  ASSUME NEW m \in Nat, NEW n \in Nat, NEW d, CountsOn(d, m, n)
  PROVE  d \in Seq(Nat) /\ Len(d) = n /\ Count(m) \o d = Count(m + n)
  <1>1. d \in Seq(Nat) /\ Len(d) = n /\ \A i \in 1 .. n : d[i] = m + i
    BY DEF CountsOn
  <1>2. \A j \in Nat : Count(j) \in Seq(Nat) /\ Len(Count(j)) = j /\ \A i \in 1 .. j : Count(j)[i] = i
    BY DEF Count
  <1>3. /\ Count(m) \o d \in Seq(Nat) /\ Len(Count(m) \o d) = m + n
        /\ \A i \in 1 .. m + n : (Count(m) \o d)[i] = IF i <= m THEN Count(m)[i] ELSE d[i - m]
    <2>1. Count(m) \in Seq(Nat) /\ Len(Count(m)) = m
      BY <1>2
    <2> DEFINE e == Count(m)
    <2> HIDE DEF e
    <2>2. e \in Seq(Nat) /\ Len(e) = m
      BY <2>1 DEF e
    <2>3. /\ e \o d \in Seq(Nat) /\ Len(e \o d) = Len(e) + Len(d)
          /\ \A i \in 1 .. Len(e) + Len(d) : (e \o d)[i] = IF i <= Len(e) THEN e[i] ELSE d[i - Len(e)]
      BY <1>1, <2>2, Joined
    <2> QED
      BY <1>1, <2>2, <2>3 DEF e
  <1>4. \A i \in 1 .. m + n : (Count(m) \o d)[i] = i
    <2> SUFFICES ASSUME NEW i \in 1 .. m + n PROVE (Count(m) \o d)[i] = i
      OBVIOUS
    <2>1. CASE i <= m
      BY <1>2, <1>3, <2>1
    <2>2. CASE i > m
      <3>1. i - m \in 1 .. n /\ m + (i - m) = i /\ ~(i <= m)
        BY <2>2
      <3>2. (Count(m) \o d)[i] = d[i - m]
        BY <1>3, <3>1
      <3>3. d[i - m] = m + (i - m)
        BY <1>1, <3>1
      <3> QED
        BY <3>1, <3>2, <3>3
    <2>3. i <= m \/ i > m
      OBVIOUS
    <2> QED
      BY <2>1, <2>2, <2>3
  <1>5. m + n \in Nat
    OBVIOUS
  <1>6. \A i \in 1 .. m + n : (Count(m) \o d)[i] = Count(m + n)[i]
    BY <1>2, <1>4, <1>5
  <1>7. Count(m) \o d = Count(m + n)
    BY <1>2, <1>3, <1>5, <1>6, SeqEqual
  <1> QED
    BY <1>1, <1>7

(* w and b, when k of the n numbers that follow go to w and the rest to b. *)
Grown(w, b, m, n, d, k) ==
  /\ w \o SubSeq(d, 1, k) \in Seq(Nat) /\ b \o SubSeq(d, k + 1, n) \in Seq(Nat)
  /\ k # n => b \o SubSeq(d, k + 1, n) # <<>>
  /\ k = n => b \o SubSeq(d, k + 1, n) = b
  /\ (w \o SubSeq(d, 1, k)) \o (b \o SubSeq(d, k + 1, n)) = Count(m + n)

(* What SendData does to a stream: the kernel takes k of the n bytes, or   *)
(* none when something waits already, and the rest waits.                  *)
LEMMA StreamGrows ==
  ASSUME NEW w \in Seq(Nat), NEW b \in Seq(Nat), NEW m \in Nat, w \o b = Count(m),
         NEW n \in Nat, NEW d, CountsOn(d, m, n), NEW k \in 0 .. n, b = <<>> \/ k = 0
  PROVE  Grown(w, b, m, n, d, k)
  <1> DEFINE x == SubSeq(d, 1, k)
             y == SubSeq(d, k + 1, n)
  <1>1. d \in Seq(Nat) /\ Len(d) = n /\ Count(m) \o d = Count(m + n)
    BY CountOn
  <1>2. x \in Seq(Nat) /\ y \in Seq(Nat) /\ Len(x) = k /\ Len(y) = n - k /\ x \o y = d
    <2>1. k \in 0 .. Len(d)
      BY <1>1
    <2>2. /\ SubSeq(d, 1, k) \in Seq(Nat) /\ SubSeq(d, k + 1, Len(d)) \in Seq(Nat)
          /\ Len(SubSeq(d, 1, k)) = k /\ Len(SubSeq(d, k + 1, Len(d))) = Len(d) - k
      BY <1>1, <2>1, Pieces
    <2>3. SubSeq(d, 1, k) \o SubSeq(d, k + 1, Len(d)) = d
      BY <1>1, <2>1, JoinPieces
    <2> QED
      BY <1>1, <2>2, <2>3
  <1> HIDE DEF x, y
  <1>3. w \o x \in Seq(Nat) /\ b \o y \in Seq(Nat) /\ Len(b \o y) = Len(b) + (n - k) /\ Len(b) \in Nat
    <2>1. w \o x \in Seq(Nat)
      BY <1>2, Joined
    <2>2. b \o y \in Seq(Nat) /\ Len(b \o y) = Len(b) + Len(y) /\ Len(b) \in Nat
      BY <1>2, Joined
    <2> QED
      BY <1>2, <2>1, <2>2
  <1>4. k # n => b \o y # <<>>
    BY <1>3
  <1>5. k = n => b \o y = b
    <2>1. k = n => y = <<>>
      BY <1>2, EmptySeq
    <2> QED
      BY <2>1, ConcatEmptySeq
  <1>6. (w \o x) \o (b \o y) = Count(m + n)
    <2>1. CASE b = <<>>
      <3>1. b \o y = y /\ w = Count(m)
        BY <1>2, <2>1, ConcatEmptySeq
      <3>2. (w \o x) \o y = w \o (x \o y)
        BY <1>2, Regrouped
      <3> QED
        BY <1>1, <1>2, <3>1, <3>2
    <2>2. CASE k = 0
      <3>1. x = <<>>
        BY <1>2, <2>2, EmptySeq
      <3>2. w \o x = w /\ y = d
        BY <1>2, <3>1, ConcatEmptySeq
      <3>3. w \o (b \o d) = (w \o b) \o d
        BY <1>1, Regrouped
      <3> QED
        BY <1>1, <3>2, <3>3
    <2> QED
      BY <2>1, <2>2
  <1> QED
    BY <1>3, <1>4, <1>5, <1>6 DEF x, y, Grown

-----------------------------------------------------------------------------
(* One connection.  What has been said is on its way in order; there is a  *)
(* flow, which waits for room, as long as something is in the buffer.      *)
Streams(o) ==
  /\ o.wire \o o.sendBuf = Count(o.said)
  /\ o.sendCount > 0 <=> o.sendBuf # <<>>
  /\ o.sendCount > 0 => o.monSend
  /\ "in" \in o.armed => o.monRecv

(* What sending and receiving leave alone.                                 *)
SameLife(o, p) ==
  /\ p.sock = o.sock /\ p.id = o.id /\ p.connected = o.connected /\ p.useCount = o.useCount
  /\ p.readCount = o.readCount /\ p.closeCount = o.closeCount /\ p.watched = o.watched

SameStream(o, p) ==
  /\ p.wire = o.wire /\ p.sendBuf = o.sendBuf /\ p.said = o.said
  /\ p.sendCount = o.sendCount /\ p.monSend = o.monSend

(* A connection object that has not been given out.                        *)
LEMMA UnbornOK == Unborn \in STNetConnects /\ Streams(Unborn)
  <1>1. Unborn \in STNetConnects
    BY DEF Unborn, STNetConnects
  <1>2. <<>> \o <<>> = Count(0)
    BY DEF Count
  <1> QED
    BY <1>1, <1>2 DEF Unborn, Streams

(* Release drops n uses; the last user puts the object back as it was.     *)
LEMMA ReleaseIs ==
  ASSUME NEW o \in STNetConnects, Streams(o), NEW n \in Nat, n <= o.useCount
  PROVE  /\ Release(o, n) \in STNetConnects /\ Streams(Release(o, n))
         /\ Release(o, n).useCount = o.useCount - n /\ Release(o, n).id = o.id
         /\ o.useCount = n => Release(o, n) = [Unborn EXCEPT !.id = o.id]
         /\ o.useCount # n => Release(o, n) = [o EXCEPT !.useCount = @ - n]
  <1>1. CASE o.useCount = n
    <2> DEFINE p == [Unborn EXCEPT !.id = o.id]
    <2>1. Release(o, n) = p
      BY <1>1 DEF Release
    <2>2. p \in STNetConnects /\ p.useCount = 0 /\ p.id = o.id
      BY UnbornOK DEF STNetConnects, Unborn
    <2>3. Streams(p)
      BY UnbornOK DEF Streams, Unborn
    <2> QED
      BY <1>1, <2>1, <2>2, <2>3
  <1>2. CASE o.useCount # n
    <2> DEFINE p == [o EXCEPT !.useCount = @ - n]
    <2>1. Release(o, n) = p
      BY <1>2 DEF Release
    <2>2. p \in STNetConnects /\ p.useCount = o.useCount - n /\ p.id = o.id
      <3>1. o.useCount - n \in Nat
        BY DEF STNetConnects
      <3> QED
        BY <3>1 DEF STNetConnects
    <2>3. SameStream(o, p) /\ p.armed = o.armed /\ p.monRecv = o.monRecv
      BY DEF STNetConnects, SameStream
    <2>4. Streams(p)
      BY <2>3 DEF Streams, SameStream
    <2> QED
      BY <1>2, <2>1, <2>2, <2>4
  <1> QED
    BY <1>1, <1>2

(* AddEpollRecv waits for data, and for room when a flow goes on.          *)
LEMMA AddEpollRecvIs ==
  ASSUME NEW o \in STNetConnects, Streams(o)
  PROVE  LET p == AddEpollRecv(o) IN
           /\ p \in STNetConnects /\ Streams(p) /\ SameLife(o, p) /\ SameStream(o, p)
           /\ p.watched => "in" \in p.armed /\ (p.monSend => "out" \in p.armed)
           /\ p.recvLen = o.recvLen /\ p.readable = o.readable
  <1> DEFINE q == [o EXCEPT !.monRecv = TRUE]
             p == AddEpollRecv(o)
  <1>1. q \in STNetConnects /\ SameLife(o, q) /\ SameStream(o, q) /\ q.monRecv /\ q.armed = o.armed
        /\ q.recvLen = o.recvLen /\ q.readable = o.readable
    BY DEF STNetConnects, SameLife, SameStream
  <1>2. p = AddIO(q)
    BY DEF AddEpollRecv
  <1> HIDE DEF p, q
  <1>3. p \in STNetConnects /\ SameLife(q, p) /\ SameStream(q, p) /\ p.monRecv
        /\ p.recvLen = q.recvLen /\ p.readable = q.readable
    BY <1>1, <1>2 DEF AddIO, Interest, STNetConnects, SameLife, SameStream
  <1>4. p.watched => p.armed = Interest(q)
    BY <1>1, <1>2, <1>3 DEF AddIO, STNetConnects, SameLife
  <1>5. p.watched => "in" \in p.armed /\ (p.monSend => "out" \in p.armed)
    BY <1>1, <1>3, <1>4 DEF Interest, SameStream
  <1>6. Streams(p)
    BY <1>1, <1>3 DEF Streams, SameStream
  <1>7. SameLife(o, p) /\ SameStream(o, p)
    BY <1>1, <1>3 DEF SameLife, SameStream
  <1> QED
    BY <1>1, <1>3, <1>5, <1>6, <1>7 DEF p

(* The first to have something in the buffer asks for room, and what was   *)
(* waited for before is waited for still.                                  *)
LEMMA SendStartIs ==
  ASSUME NEW o \in STNetConnects, "in" \in o.armed => o.monRecv, o.sendCount > 0 => o.monSend
  PROVE  LET p == SendStart(o) IN
           /\ p \in STNetConnects /\ SameLife(o, p)
           /\ p.wire = o.wire /\ p.sendBuf = o.sendBuf /\ p.said = o.said
           /\ p.sendCount > 0 /\ p.monSend /\ ("in" \in p.armed => p.monRecv)
           /\ "in" \in o.armed => "in" \in p.armed
           /\ o.sendCount # 0 => p.armed = o.armed
           /\ o.sendCount = 0 /\ o.watched => "out" \in p.armed
           /\ p.recvLen = o.recvLen /\ p.readable = o.readable
  <1>0. o.sendCount \in Nat
    BY DEF STNetConnects
  <1>1. CASE o.sendCount # 0
    <2> DEFINE p == [o EXCEPT !.sendCount = @ + 1]
    <2>1. SendStart(o) = p
      BY <1>1 DEF SendStart
    <2>2. /\ p \in STNetConnects /\ SameLife(o, p)
          /\ p.wire = o.wire /\ p.sendBuf = o.sendBuf /\ p.said = o.said /\ p.sendCount = o.sendCount + 1
          /\ p.monSend = o.monSend /\ p.monRecv = o.monRecv /\ p.armed = o.armed
          /\ p.recvLen = o.recvLen /\ p.readable = o.readable
      <3>1. o.sendCount + 1 \in Nat
        BY <1>0
      <3> QED
        BY <3>1 DEF STNetConnects, SameLife
    <2> HIDE DEF p
    <2> QED
      BY <1>0, <1>1, <2>1, <2>2
  <1>2. CASE o.sendCount = 0
    <2> DEFINE q == [o EXCEPT !.sendCount = 1, !.monSend = TRUE]
               p == AddIO(q)
    <2>1. SendStart(o) = p
      <3>1. [[o EXCEPT !.sendCount = 1] EXCEPT !.monSend = TRUE] = q
        BY DEF STNetConnects
      <3> QED
        BY <1>2, <3>1 DEF SendStart, AddEpollSend
    <2>2. /\ q \in STNetConnects /\ SameLife(o, q)
          /\ q.wire = o.wire /\ q.sendBuf = o.sendBuf /\ q.said = o.said /\ q.sendCount = 1
          /\ q.monSend /\ q.monRecv = o.monRecv /\ q.armed = o.armed
          /\ q.recvLen = o.recvLen /\ q.readable = o.readable
      BY DEF STNetConnects, SameLife
    <2> HIDE DEF q
    <2>3. /\ p \in STNetConnects /\ SameLife(q, p) /\ SameStream(q, p) /\ p.monRecv = q.monRecv
          /\ p.recvLen = q.recvLen /\ p.readable = q.readable
      BY <2>2 DEF AddIO, Interest, STNetConnects, SameLife, SameStream
    <2>4. p.armed = IF q.watched THEN Interest(q) ELSE q.armed
      BY <2>2 DEF AddIO, STNetConnects
    <2> HIDE DEF p
    <2>5. /\ "in" \in p.armed => p.monRecv
          /\ "in" \in o.armed => "in" \in p.armed
          /\ o.watched => "out" \in p.armed
      BY <2>2, <2>3, <2>4 DEF Interest, SameLife
    <2>6. SameLife(o, p)
      BY <2>2, <2>3 DEF SameLife
    <2>7. /\ p.wire = o.wire /\ p.sendBuf = o.sendBuf /\ p.said = o.said /\ p.sendCount = 1 /\ p.monSend
          /\ p.recvLen = o.recvLen /\ p.readable = o.readable
      BY <2>2, <2>3 DEF SameStream
    <2> QED
      BY <1>2, <2>1, <2>3, <2>5, <2>6, <2>7
  <1> QED
    BY <1>1, <1>2

-----------------------------------------------------------------------------
(* Min of two numbers is the smaller one.                                  *)
LEMMA MinTwo ==
  ASSUME NEW a \in Nat, NEW b \in Nat
  PROVE  Min({a, b}) \in Nat /\ Min({a, b}) <= a /\ Min({a, b}) <= b /\ Min({a, b}) \in {a, b}
  <1>1. \E x \in {a, b} : \A y \in {a, b} : x =< y
    OBVIOUS
  <1>2. Min({a, b}) \in {a, b} /\ \A y \in {a, b} : Min({a, b}) =< y
    BY <1>1 DEF Min
  <1> QED
    BY <1>2

(* The kernel takes no more than it has room for.                          *)
LEMMA TakenIs ==
  ASSUME NEW c, peer[c].unread \in 0 .. Room, NEW n \in Nat
  PROVE  Taken(c, n) \in 0 .. n /\ peer[c].unread + Taken(c, n) \in 0 .. Room
  <1>1. Room \in Nat /\ Room - peer[c].unread \in Nat
    BY STAssumption
  <1>2. Taken(c, n) \in Nat /\ Taken(c, n) <= n /\ Taken(c, n) <= Room - peer[c].unread
    BY <1>1, MinTwo DEF Taken
  <1> QED
    BY <1>1, <1>2

(* SendData says n bytes more, in order; when they cannot all go now,      *)
(* epoll will tell of room, if it watches the socket.                      *)
LEMMA SendDataIs ==
  ASSUME NEW c, peer[c].unread \in 0 .. Room, NEW o \in STNetConnects, Streams(o),
         NEW n \in Nat, NEW err \in BOOLEAN
  PROVE  LET p == SendData(c, o, n, err) IN
           /\ p \in STNetConnects /\ Streams(p) /\ SameLife(o, p)
           /\ "in" \in o.armed => "in" \in p.armed
           /\ o.sendBuf # <<>> => p.sendBuf # <<>> /\ p.armed = o.armed
           /\ o.sendBuf = <<>> /\ p.sendBuf # <<>> /\ o.watched => "out" \in p.armed
           /\ peer[c].unread + SendNow(c, o, n, err) \in 0 .. Room
  <1> DEFINE k == SendNow(c, o, n, err)
             rest == SubSeq(Said(o, n), k + 1, n)
             o1 == [o EXCEPT !.said = @ + n, !.wire = @ \o SubSeq(Said(o, n), 1, k),
                             !.sendBuf = @ \o rest]
             p == SendData(c, o, n, err)
  <1>1. k \in 0 .. n /\ peer[c].unread + k \in 0 .. Room
    BY TakenIs, STAssumption DEF SendNow
  <1>2. o.sendBuf = <<>> \/ k = 0
    BY DEF SendNow, Direct
  <1>3. /\ o.wire \in Seq(Nat) /\ o.sendBuf \in Seq(Nat) /\ o.said \in Nat /\ o.sendCount \in Nat
        /\ o.wire \o o.sendBuf = Count(o.said)
    BY DEF STNetConnects, Streams
  <1>4. Said(o, n) = [i \in 1 .. n |-> o.said + i]
    BY DEF Said
  <1>5. p = IF o.sendBuf = <<>> /\ err THEN o ELSE IF k = n THEN o1 ELSE SendStart(o1)
    BY DEF SendData, Direct
  <1> HIDE DEF k, p
  <1>6. /\ o.wire \o SubSeq(Said(o, n), 1, k) \in Seq(Nat) /\ o.sendBuf \o rest \in Seq(Nat)
        /\ k # n => o.sendBuf \o rest # <<>>
        /\ k = n => o.sendBuf \o rest = o.sendBuf
        /\ (o.wire \o SubSeq(Said(o, n), 1, k)) \o (o.sendBuf \o rest) = Count(o.said + n)
    <2> DEFINE w == o.wire
               b == o.sendBuf
               d == Said(o, n)
               m == o.said
    <2>1. w \in Seq(Nat) /\ b \in Seq(Nat) /\ w \o b = Count(m) /\ CountsOn(d, m, n)
          /\ (b = <<>> \/ k = 0) /\ m \in Nat /\ k \in 0 .. n
      BY <1>1, <1>2, <1>3, <1>4 DEF CountsOn
    <2> HIDE DEF w, b, d, m
    <2>2. Grown(w, b, m, n, d, k)
      BY <2>1, StreamGrows
    <2> QED
      BY <2>2 DEF w, b, d, m, Grown
  <1>7. /\ o1 \in STNetConnects /\ SameLife(o, o1) /\ o1.armed = o.armed
        /\ o1.monRecv = o.monRecv /\ o1.monSend = o.monSend /\ o1.sendCount = o.sendCount
        /\ o1.sendBuf = o.sendBuf \o rest /\ o1.wire = o.wire \o SubSeq(Said(o, n), 1, k)
        /\ o1.said = o.said + n
    <2> HIDE DEF rest
    <2>1. o.said + n \in Nat
      BY <1>3
    <2> QED
      BY <1>6, <2>1 DEF STNetConnects, SameLife
  <1> HIDE DEF o1, rest
  <1>8. "in" \in o1.armed => o1.monRecv
    BY <1>7 DEF Streams
  <1>9. o1.sendCount > 0 => o1.monSend
    BY <1>7 DEF Streams
  <1>10. CASE o.sendBuf = <<>> /\ err
    <2>1. p = o
      BY <1>5, <1>10
    <2> QED
      BY <1>1, <1>10, <2>1 DEF SameLife, k, p
  <1>11. CASE ~(o.sendBuf = <<>> /\ err) /\ k = n
    <2>1. p = o1
      BY <1>5, <1>11
    <2>2. o1.sendBuf = o.sendBuf
      BY <1>6, <1>7, <1>11
    <2>3. Streams(o1)
      BY <1>6, <1>7, <1>8, <1>9, <2>2 DEF Streams
    <2> QED
      BY <1>1, <1>7, <2>1, <2>2, <2>3 DEF k, p
  <1>12. CASE ~(o.sendBuf = <<>> /\ err) /\ k # n
    <2>1. p = SendStart(o1)
      BY <1>5, <1>12
    <2>2. /\ p \in STNetConnects /\ SameLife(o1, p)
          /\ p.wire = o1.wire /\ p.sendBuf = o1.sendBuf /\ p.said = o1.said
          /\ p.sendCount > 0 /\ p.monSend /\ ("in" \in p.armed => p.monRecv)
          /\ "in" \in o1.armed => "in" \in p.armed
          /\ o1.sendCount # 0 => p.armed = o1.armed
          /\ o1.sendCount = 0 /\ o1.watched => "out" \in p.armed
      BY <1>7, <1>8, <1>9, <2>1, SendStartIs
    <2>3. p.sendBuf # <<>> /\ p.wire \o p.sendBuf = Count(p.said)
      BY <1>6, <1>7, <1>12, <2>2
    <2>4. Streams(p)
      BY <2>2, <2>3 DEF Streams
    <2>5. SameLife(o, p)
      BY <1>7, <2>2 DEF SameLife
    <2>6. o.sendBuf # <<>> => p.armed = o.armed
      BY <1>3, <1>7, <2>2 DEF Streams
    <2>7. o.sendBuf = <<>> /\ o.watched => "out" \in p.armed
      BY <1>3, <1>7, <2>2 DEF Streams, SameLife
    <2>8. "in" \in o.armed => "in" \in p.armed
      BY <1>7, <2>2
    <2> QED
      BY <1>1, <2>2, <2>3, <2>4, <2>5, <2>6, <2>7, <2>8 DEF k, p
  <1> QED
    BY <1>10, <1>11, <1>12

-----------------------------------------------------------------------------
(* The inductive invariant.                                                *)
(*                                                                         *)
(* The fields of a connection, the list and the callbacks agree: it is on  *)
(* the list as long as its socket is open; m_nReadCount is raised while    *)
(* OnMsg runs, which holds back the report of a close; and what is open or *)
(* about to be reported is known by a call that goes on.                   *)
Worker == {"worker", "msg"}

ConnOK(c) ==
  LET o == conn[c] IN
  /\ o.connected <=> o.sock # None
  /\ o.sock # None =>
       /\ o.id = o.sock /\ table[o.sock] = c /\ told[c].close = "no" /\ o.readCount <= 1
       /\ o.readCount = 1 => Doing(stack, Worker, c)
  /\ told[c].close = "no" => o.closeCount = 0
  /\ Doing(stack, Worker, c) => o.readCount >= 1 /\ told[c].connect = "done" /\ told[c].close = "no"
  /\ o.id # None /\ o.sock = None /\ told[c].close = "no" => Doing(stack, Worker, c)
  /\ told[c].close = "running" <=> Doing(stack, {"close"}, c)
  /\ told[c].connect = "no" <=> o.id = None
  /\ told[c].connect = "running" <=> Doing(stack, {"connect"}, c)
  /\ o.id = None => o = Unborn /\ told[c].close = "no"

TableOK == \A f \in Fds : table[f] # None => conn[table[f]].sock = f

CallOK(f) ==
  /\ f.drops >= 1
  /\ f.kind # "close" => f.drops = 1
  /\ f.kind \in {"worker", "monitor"} => f = Top
  /\ f.kind = "worker" /\ ~f.looked => conn[f.conn].connected

BacklogOK ==
  /\ \A i \in 1 .. Len(backlog) : conn[backlog[i]].id = None /\ peer[backlog[i]].at # "away"
  /\ \A i, j \in 1 .. Len(backlog) : backlog[i] = backlog[j] => i = j
  /\ \A c \in Conns : peer[c].at = "away" => conn[c].id = None

(* The event loop hears of a connection: see NothingForgotten.             *)
Heard(o, marks, opening, gone) ==
  o.connected =>
    /\ opening \/ o.watched
    /\ opening \/ "in" \in o.armed \/ "r" \in marks
    /\ o.sendBuf # <<>> =>
         \/ "out" \in o.armed \/ "w" \in marks
         \/ o.monSend /\ (opening \/ "r" \in marks)
         \/ gone

OpeningNow(c) == Doing(stack, {"connect", "monitor"}, c)

AllHeard ==
  pc # "done" =>
    \A c \in Conns \ refused : Heard(conn[c], ioList[conn[c].sock], OpeningNow(c), Gone(c))

LifeInv ==
  /\ \A c \in Conns : ConnOK(c)
  /\ TableOK /\ Nested(stack) /\ (\A f \in ToSet(stack) : CallOK(f)) /\ BacklogOK
  /\ UseCounted /\ NumbersLeadHome

IInv == TypeOK /\ LifeInv /\ (\A c \in Conns : Streams(conn[c])) /\ AllHeard

-----------------------------------------------------------------------------
(* The types the proofs use most.                                          *)
LEMMA Typed ==
  ASSUME TypeOK
  PROVE  /\ stack \in Seq(Frames) /\ conn \in [Conns -> STNetConnects] /\ table \in [Fds -> Conns \union {None}]
         /\ told \in [Conns -> [connect : {"no", "running", "done"}, close : {"no", "running", "done"}]]
         /\ kept \subseteq Conns
  BY DEF TypeOK, Frames

(* None is neither a connection nor a socket number.                       *)
LEMMA NoneElse == None \notin Conns /\ None \notin Fds /\ Fds \subseteq Nat
  BY STAssumption

(* The connections on the list are those whose socket is open.             *)
LEMMA ListedIs ==
  ASSUME TypeOK, TableOK, NEW c \in Conns, ConnOK(c)
  PROVE  c \in Listed <=> conn[c].sock # None
  <1>1. c \in Listed => conn[c].sock # None
    <2> SUFFICES ASSUME c \in Listed PROVE conn[c].sock # None
      OBVIOUS
    <2>1. PICK f \in Fds : table[f] = c
      BY DEF Listed
    <2> QED
      BY <2>1, NoneElse DEF TableOK
  <1>2. conn[c].sock # None => c \in Listed
    <2> SUFFICES ASSUME conn[c].sock # None PROVE c \in Listed
      OBVIOUS
    <2>1. conn[c].sock \in Fds /\ table[conn[c].sock] = c
      BY Typed DEF ConnOK, STNetConnects
    <2> QED
      BY <2>1, NoneElse DEF Listed
  <1> QED
    BY <1>1, <1>2

(* What the calls of a connection are after one has begun or returned.     *)
LEMMA CallsOfPush ==
  ASSUME NEW f \in Frames, NEW s \in Seq(Frames), NEW c
  PROVE  CallsOf(<<f>> \o s, c) = (IF f.conn = c THEN {f} ELSE {}) \union CallsOf(s, c)
  <1>1. ToSet(<<f>> \o s) = {f} \union ToSet(s)
    BY CallsPush
  <1> QED
    BY <1>1 DEF CallsOf

(* The calls of one connection: the innermost one, if it is one of them,   *)
(* and those around it.                                                    *)
LEMMA CallsOfTop ==
  ASSUME NEW s \in Seq(Frames), s # <<>>, NEW c
  PROVE  CallsOf(s, c) = (IF Head(s).conn = c THEN {Head(s)} ELSE {}) \union CallsOf(Tail(s), c)
  <1>1. ToSet(s) = {Head(s)} \union ToSet(Tail(s))
    BY CallsTop
  <1> QED
    BY <1>1 DEF CallsOf

(* No call is one of no connection.                                        *)
LEMMA CallsOfNone == \A c : CallsOf(<<>>, c) = {} /\ \A K : ~Doing(<<>>, K, c)
  BY CallsNone DEF CallsOf, Doing

(* A connection that no call uses has no calls.                            *)
LEMMA Unused ==
  ASSUME NEW s \in Seq(Frames), \A f \in ToSet(s) : f.drops >= 1, NEW c, Uses(c, s) = 0
  PROVE  CallsOf(s, c) = {} /\ \A K : ~Doing(s, K, c)
  <1>1. ASSUME NEW f \in ToSet(s), f.conn = c PROVE FALSE
    <2>1. f.drops <= 0
      BY <1>1, CallUses
    <2>2. f.drops \in Nat
      BY CallsType DEF Frames
    <2> QED
      BY <2>1, <2>2
  <1> QED
    BY <1>1 DEF CallsOf, Doing

(* A connection that has a call is used.                                   *)
LEMMA InUse ==
  ASSUME NEW s \in Seq(Frames), \A f \in ToSet(s) : f.drops >= 1, NEW c, NEW K, Doing(s, K, c)
  PROVE  Uses(c, s) >= 1
  <1>1. PICK f \in ToSet(s) : f.conn = c
    BY DEF Doing, CallsOf
  <1>2. f.drops <= Uses(c, s) /\ f.drops \in Nat /\ f.drops >= 1 /\ Uses(c, s) \in Nat
    BY <1>1, CallUses, CallsType, UsesType DEF Frames
  <1> QED
    BY <1>2

-----------------------------------------------------------------------------
(* A step that changes one connection at most, and puts none on the list.  *)
SameFor(d) ==
  /\ SameLife(conn[d], conn'[d]) /\ (conn'[d].id = None => conn'[d] = conn[d])
  /\ told'[d] = told[d] /\ CallsOf(stack', d) = CallsOf(stack, d) /\ Uses(d, stack') = Uses(d, stack)
  /\ d \in kept' <=> d \in kept

Accepted ==
  /\ backlog' = backlog /\ \A d \in Conns : (peer'[d].at = "away" <=> peer[d].at = "away")
  /\ \A d \in Conns : conn'[d].id = conn[d].id

(* Clients that wait in the backlog have no connection object, and it      *)
(* stays that way.                                                         *)
LEMMA BacklogKept == ASSUME TypeOK, BacklogOK, Accepted PROVE BacklogOK'
  <1>1. \A i \in 1 .. Len(backlog) : backlog[i] \in Conns
    BY LenProperties DEF TypeOK
  <1>2. \A i \in 1 .. Len(backlog) : conn'[backlog[i]].id = None /\ peer'[backlog[i]].at # "away"
    BY <1>1 DEF BacklogOK, Accepted
  <1>3. \A d \in Conns : peer'[d].at = "away" => conn'[d].id = None
    BY DEF BacklogOK, Accepted
  <1> QED
    BY <1>2, <1>3 DEF BacklogOK, Accepted

(* A connection that a step does not touch stays consistent.               *)
LEMMA SameConnOK ==
  ASSUME TypeOK, NEW d \in Conns, ConnOK(d), SameFor(d),
         conn[d].sock # None => table'[conn[d].sock] = table[conn[d].sock]
  PROVE  ConnOK(d)'
  <1>1. \A K : Doing(stack', K, d) <=> Doing(stack, K, d)
    BY DEF SameFor, Doing
  <1>2. Worker' = Worker /\ Unborn' = Unborn
    BY DEF Worker, Unborn
  <1>3. /\ SameLife(conn[d], conn'[d]) /\ (conn'[d].id = None => conn'[d] = conn[d]) /\ told'[d] = told[d]
    BY DEF SameFor
  <1> QED
    BY <1>1, <1>2, <1>3 DEF ConnOK, SameLife

(* A step of one connection c: it is enough to look at c, at the table and *)
(* at the calls.                                                           *)
LEMMA LifeStep ==
  ASSUME TypeOK, TypeOK', LifeInv, Accepted,
         NEW c \in Conns, \A d \in Conns \ {c} : SameFor(d),
         \A f \in Fds : table'[f] = table[f] \/ (table[f] = c /\ table'[f] = None),
         ConnOK(c)', c \in Listed' <=> conn'[c].sock # None, conn'[c].useCount = Holders(c)',
         conn'[c].sock # None => conn'[c].sock = conn[c].sock,
         told[c].close = "done" => told'[c].close = "done",
         \A f \in Fds : table'[f] = c => conn'[c].sock # None,
         Nested(stack'), \A f \in ToSet(stack') : CallOK(f)'
  PROVE  LifeInv'
  <1>1. ASSUME NEW d \in Conns PROVE ConnOK(d)'
    <2>1. CASE d = c
      BY <2>1
    <2>2. CASE d # c
      <3>1. conn[d].sock # None => conn[d].sock \in Fds /\ table[conn[d].sock] = d
        BY Typed DEF LifeInv, ConnOK, STNetConnects
      <3>2. conn[d].sock # None => table'[conn[d].sock] = table[conn[d].sock]
        BY <2>2, <3>1
      <3> QED
        BY <2>2, <3>2, SameConnOK DEF LifeInv
    <2> QED
      BY <2>1, <2>2
  <1>2. TableOK'
    <2> SUFFICES ASSUME NEW f \in Fds, table'[f] # None PROVE conn'[table'[f]].sock = f
      BY DEF TableOK
    <2>1. table'[f] = table[f] /\ table[f] \in Conns /\ conn[table[f]].sock = f
      BY Typed DEF LifeInv, TableOK
    <2>2. CASE table[f] = c
      BY <2>1, <2>2
    <2>3. CASE table[f] # c
      <3>1. table[f] \in Conns \ {c}
        BY <2>1, <2>3
      <3>2. SameFor(table[f])
        BY <3>1
      <3> QED
        BY <2>1, <3>2 DEF SameFor, SameLife
    <2> QED
      BY <2>2, <2>3
  <1>3. BacklogOK'
    BY BacklogKept DEF LifeInv
  <1>4. UseCounted'
    <2> SUFFICES ASSUME NEW d \in Conns, d # c PROVE conn'[d].useCount = Holders(d)'
      BY DEF UseCounted
    <2>1. d \in Listed <=> d \in Listed'
      <3>1. \A f \in Fds : table'[f] = d <=> table[f] = d
        BY NoneElse
      <3> QED
        BY <3>1 DEF Listed
    <2>2. SameFor(d)
      OBVIOUS
    <2> QED
      <3>1. conn'[d].useCount = conn[d].useCount /\ Uses(d, stack') = Uses(d, stack) /\ (d \in kept' <=> d \in kept)
        BY <2>2 DEF SameFor, SameLife
      <3>2. conn[d].useCount = Holders(d)
        BY DEF LifeInv, UseCounted
      <3>3. Holders(d)' = Holders(d)
        BY <2>1, <3>1 DEF Holders
      <3> QED
        BY <3>1, <3>2, <3>3
  <1>5. NumbersLeadHome'
    <2> SUFFICES ASSUME NEW d \in Conns, conn'[d].id # None, told'[d].close # "done"
                 PROVE  table'[conn'[d].id] \in {d, None}
      BY DEF NumbersLeadHome
    <2>1. conn'[d].id = conn[d].id /\ conn[d].id \in Fds
      BY Typed DEF Accepted, STNetConnects
    <2>2. told[d].close # "done"
      BY DEF SameFor
    <2>3. table[conn[d].id] \in {d, None}
      BY <2>1, <2>2 DEF LifeInv, NumbersLeadHome
    <2> QED
      BY <2>1, <2>3
  <1> QED
    BY <1>1, <1>2, <1>3, <1>4, <1>5 DEF LifeInv

(* A step that changes no connection in what matters here.                 *)
LEMMA QuietLife ==
  ASSUME TypeOK, TypeOK', LifeInv, BacklogOK', UNCHANGED <<table, stack, told, kept>>,
         \A d \in Conns : SameLife(conn[d], conn'[d]) /\ (conn'[d].id = None => conn'[d] = conn[d])
  PROVE  LifeInv'
  <1>1. \A d \in Conns : SameFor(d)
    BY DEF SameFor
  <1>2. \A d \in Conns : ConnOK(d)'
    BY <1>1, SameConnOK DEF LifeInv
  <1>3. TableOK' /\ Nested(stack')
    <2>1. \A f \in Fds : table[f] # None => table[f] \in Conns
      BY Typed
    <2> QED
      BY <2>1 DEF LifeInv, TableOK, SameLife
  <1>4. ASSUME NEW f \in ToSet(stack') PROVE CallOK(f)'
    <2>1. f \in ToSet(stack) /\ stack \in Seq(Frames)
      BY Typed
    <2>2. f.conn \in Conns
      BY <2>1, CallsType DEF Frames
    <2> QED
      BY <2>1, <2>2 DEF LifeInv, CallOK, Top, SameLife
  <1>5. UseCounted'
    BY DEF LifeInv, UseCounted, Holders, Listed, SameLife
  <1>6. NumbersLeadHome'
    BY DEF LifeInv, NumbersLeadHome, SameLife
  <1> QED
    BY <1>2, <1>3, <1>4, <1>5, <1>6 DEF LifeInv

-----------------------------------------------------------------------------
(* What the use count of a connection stands for.                          *)
LEMMA CountIs ==
  ASSUME TypeOK, LifeInv, NEW c \in Conns
  PROVE  /\ conn[c].useCount = (IF conn[c].sock # None THEN 2 ELSE 0) + (IF c \in kept THEN 1 ELSE 0) + Uses(c, stack)
         /\ Uses(c, stack) \in Nat /\ conn[c] \in STNetConnects
  <1>1. c \in Listed <=> conn[c].sock # None
    BY ListedIs DEF LifeInv
  <1>2. conn[c].useCount = Holders(c)
    BY DEF LifeInv, UseCounted
  <1> QED
    BY <1>1, <1>2, UsesType, Typed DEF Holders

(* Every call drops its connection at least once.                          *)
LEMMA DropsOK == ASSUME LifeInv PROVE \A f \in ToSet(stack) : f.drops >= 1
  BY DEF LifeInv, CallOK

(* The innermost call.                                                     *)
LEMMA TopIs ==
  ASSUME TypeOK, LifeInv, stack # <<>>
  PROVE  /\ Top \in Frames /\ Top \in ToSet(stack) /\ CallOK(Top) /\ Top.conn \in Conns
         /\ Tail(stack) \in Seq(Frames) /\ Nested(Tail(stack))
         /\ Top.kind # "close" => Tail(stack) = <<>> /\ Top.drops = 1
         /\ Top.kind = "close" => ~Doing(Tail(stack), {"close"}, Top.conn)
         /\ \A c : CallsOf(stack, c) = (IF Top.conn = c THEN {Top} ELSE {}) \union CallsOf(Tail(stack), c)
         /\ \A c : Uses(c, stack) = UsedBy(c, Top) + Uses(c, Tail(stack)) /\ Uses(c, Tail(stack)) \in Nat
         /\ ToSet(Tail(stack)) \subseteq ToSet(stack)
  <1>1. stack \in Seq(Frames)
    BY Typed
  <1>2. Top \in Frames /\ Tail(stack) \in Seq(Frames)
    BY <1>1, Split1 DEF Top
  <1>3. ToSet(stack) = {Top} \union ToSet(Tail(stack))
    BY <1>1, CallsTop DEF Top
  <1>4. \A c : CallsOf(stack, c) = (IF Top.conn = c THEN {Top} ELSE {}) \union CallsOf(Tail(stack), c)
    BY <1>1, CallsOfTop DEF Top
  <1>5. \A c : Uses(c, stack) = UsedBy(c, Top) + Uses(c, Tail(stack)) /\ Uses(c, Tail(stack)) \in Nat
    BY <1>1, UsesTop DEF Top
  <1>6. /\ Nested(Tail(stack))
        /\ Top.kind # "close" => Tail(stack) = <<>>
        /\ Top.kind = "close" => ~Doing(Tail(stack), {"close"}, Top.conn)
    BY <1>1, NestedTop DEF Top, LifeInv
  <1>7. CallOK(Top)
    BY <1>3 DEF LifeInv
  <1> QED
    BY <1>2, <1>3, <1>4, <1>5, <1>6, <1>7 DEF CallOK, Frames

-----------------------------------------------------------------------------
(* CloseConnect of c, of which o is a copy, when the calls in progress are *)
(* those in `rest`.                                                        *)
SameConn(c, o) ==
  /\ o.sock = conn[c].sock /\ o.id = conn[c].id /\ o.connected = conn[c].connected
  /\ o.readCount = conn[c].readCount /\ o.closeCount = conn[c].closeCount

SameCalls(c, rest) ==
  /\ \A d \in Conns \ {c} : CallsOf(rest, d) = CallsOf(stack, d) /\ Uses(d, rest) = Uses(d, stack)
  /\ \A K \in {Worker, {"connect"}, {"close"}} : Doing(rest, K, c) <=> Doing(stack, K, c)
  /\ Nested(rest)
  /\ \A f \in ToSet(rest) : f \in ToSet(stack) /\ f.kind \notin {"worker", "monitor"}

Closable(c, o, more, rest) ==
  /\ o \in STNetConnects /\ Streams(o) /\ more \in Nat /\ rest \in Seq(Frames)
  /\ conn[c].sock # None /\ SameConn(c, o) /\ SameCalls(c, rest)
  /\ o.useCount + Uses(c, stack) = conn[c].useCount + Uses(c, rest) + more

(* What CloseConnect does: the connection is off the list and its socket   *)
(* closed; if OnMsg does not run for it, OnCloseConnect is called, with    *)
(* the uses of the list and of the caller still to drop.                   *)
LEMMA Closed ==
  ASSUME TypeOK, LifeInv, NEW c \in Conns, NEW o, NEW more, NEW rest, Closable(c, o, more, rest),
         CloseConnect(c, o, more, rest)
  PROVE  LET p == conn'[c]
             now == Notifies(o)
             f == Frame("close", c, 1 + more)
         IN
         /\ conn' = [conn EXCEPT ![c] = p] /\ p \in STNetConnects /\ Streams(p)
         /\ p.sock = None /\ p.id = conn[c].id /\ ~p.connected
         /\ p.readCount = conn[c].readCount + 1
         /\ p.useCount = (IF c \in kept THEN 1 ELSE 0) + (IF now THEN 1 + more ELSE 0) + Uses(c, rest)
         /\ p.closeCount = IF conn[c].readCount = 0 THEN conn[c].closeCount + 1 ELSE conn[c].closeCount
         /\ now <=> ~Doing(rest, Worker, c)
         /\ table' = [table EXCEPT ![conn[c].sock] = None]
         /\ told' = IF now THEN [told EXCEPT ![c].close = "running"] ELSE told
         /\ stack' = IF now THEN <<f>> \o rest ELSE rest
         /\ f \in Frames /\ told[c].close = "no" /\ conn[c].closeCount = 0 /\ conn[c].readCount \in Nat
         /\ (conn[c].readCount = 0 <=> now)
  <1> DEFINE now == Notifies(o)
             q == [o EXCEPT !.sock = None, !.watched = FALSE, !.armed = {}, !.connected = FALSE,
                            !.readCount = @ + 1,
                            !.closeCount = IF o.readCount = 0 THEN @ + 1 ELSE @]
             n == IF now THEN 1 ELSE 2 + more
             p == Release(q, n)
             f == Frame("close", c, 1 + more)
  <1>1. /\ o \in STNetConnects /\ Streams(o) /\ more \in Nat /\ rest \in Seq(Frames) /\ SameConn(c, o) /\ conn[c].sock # None
        /\ o.useCount + Uses(c, stack) = conn[c].useCount + Uses(c, rest) + more
    BY DEF Closable
  <1>2. conn[c] \in STNetConnects /\ Uses(c, stack) \in Nat /\ Uses(c, rest) \in Nat
        /\ conn[c].useCount = 2 + (IF c \in kept THEN 1 ELSE 0) + Uses(c, stack)
    BY <1>1, CountIs, UsesType
  <1>3. o.useCount = 2 + (IF c \in kept THEN 1 ELSE 0) + Uses(c, rest) + more
    <2>1. o.useCount \in Nat /\ conn[c].useCount \in Nat
      BY <1>1, <1>2 DEF STNetConnects
    <2> DEFINE u == IF c \in kept THEN 1 ELSE 0
    <2>2. u \in Nat
      OBVIOUS
    <2> HIDE DEF u
    <2>3. /\ conn[c].useCount = 2 + u + Uses(c, stack)
          /\ o.useCount + Uses(c, stack) = conn[c].useCount + Uses(c, rest) + more
      BY <1>1, <1>2 DEF u
    <2>4. Uses(c, stack) \in Nat /\ Uses(c, rest) \in Nat /\ more \in Nat
      BY <1>1, <1>2
    <2>5. o.useCount = 2 + u + Uses(c, rest) + more
      BY <2>1, <2>2, <2>3, <2>4
    <2> QED
      BY <2>5 DEF u
  <1>4. ConnOK(c)
    BY DEF LifeInv
  <1>5. /\ conn[c].readCount \in Nat /\ conn[c].closeCount = 0 /\ told[c].close = "no"
        /\ conn[c].readCount <= 1 /\ conn[c].id = conn[c].sock
    BY <1>1, <1>2, <1>4 DEF ConnOK, STNetConnects
  <1>6. now <=> conn[c].readCount = 0
    BY <1>1, <1>5 DEF Notifies, SameConn
  <1>7. conn[c].readCount = 0 <=> ~Doing(stack, Worker, c)
    BY <1>1, <1>4, <1>5 DEF ConnOK
  <1>8. Doing(stack, Worker, c) <=> Doing(rest, Worker, c)
    BY DEF Closable, SameCalls
  <1>9. /\ q \in STNetConnects /\ q.sock = None /\ ~q.connected /\ q.readCount = conn[c].readCount + 1
        /\ q.closeCount = (IF conn[c].readCount = 0 THEN conn[c].closeCount + 1 ELSE conn[c].closeCount)
        /\ q.useCount = o.useCount /\ q.id = conn[c].id /\ SameStream(o, q) /\ q.armed = {} /\ q.monRecv = o.monRecv
    <2>1. o.readCount + 1 \in Nat /\ o.closeCount + 1 \in Nat
      BY <1>1 DEF STNetConnects
    <2> QED
      BY <1>1, <2>1 DEF STNetConnects, SameConn, SameStream
  <1>10. Streams(q)
    BY <1>1, <1>9 DEF Streams, SameStream
  <1>11. Doing(rest, Worker, c) => Uses(c, rest) >= 1
    <2>1. \A g \in ToSet(rest) : g.drops >= 1
      BY DropsOK DEF Closable, SameCalls
    <2> QED
      BY <1>1, <2>1, InUse
  <1>12. n \in Nat /\ n < o.useCount /\ o.useCount - n = (IF c \in kept THEN 1 ELSE 0) + (IF now THEN 1 + more ELSE 0) + Uses(c, rest)
    <2> DEFINE u == IF c \in kept THEN 1 ELSE 0
    <2>1. u \in Nat /\ Uses(c, rest) \in Nat /\ more \in Nat
      BY <1>1, <1>2
    <2>2. o.useCount = 2 + u + Uses(c, rest) + more
      BY <1>3
    <2>3. now \/ Uses(c, rest) >= 1
      BY <1>6, <1>7, <1>8, <1>11
    <2> HIDE DEF u
    <2>4. CASE now
      <3>1. n = 1
        BY <2>4
      <3>2. n \in Nat /\ n < o.useCount /\ o.useCount - n = u + (1 + more) + Uses(c, rest)
        BY <2>1, <2>2, <3>1
      <3> QED
        BY <2>4, <3>2 DEF u
    <2>5. CASE ~now
      <3>1. n = 2 + more
        BY <2>5
      <3>2. n \in Nat /\ n < o.useCount /\ o.useCount - n = u + 0 + Uses(c, rest)
        BY <2>1, <2>2, <2>3, <2>5, <3>1
      <3> QED
        BY <2>5, <3>2 DEF u
    <2> QED
      BY <2>4, <2>5
  <1> HIDE DEF q, n
  <1>13. /\ p \in STNetConnects /\ Streams(p) /\ p.useCount = q.useCount - n
         /\ p = [q EXCEPT !.useCount = @ - n]
    <2>1. n <= q.useCount /\ q.useCount # n /\ q.useCount \in Nat
      BY <1>9, <1>12 DEF STNetConnects
    <2> QED
      BY <1>9, <1>10, <1>12, <2>1, ReleaseIs
  <1> HIDE DEF p
  <1>14. p.sock = None /\ p.id = conn[c].id /\ ~p.connected /\ p.readCount = conn[c].readCount + 1
         /\ p.closeCount = (IF conn[c].readCount = 0 THEN conn[c].closeCount + 1 ELSE conn[c].closeCount)
    BY <1>9, <1>13 DEF STNetConnects
  <1>15. conn' = [conn EXCEPT ![c] = p]
    BY DEF CloseConnect, p, q, n
  <1>16. conn'[c] = p
    BY <1>15, Typed
  <1>17. table' = [table EXCEPT ![conn[c].sock] = None]
    BY <1>1, <1>5 DEF CloseConnect, Unlist, SameConn
  <1>18. stack' = (IF now THEN <<f>> \o rest ELSE rest)
    BY DEF CloseConnect
  <1>19. told' = IF now THEN [told EXCEPT ![c].close = "running"] ELSE told
    BY DEF CloseConnect
  <1>20. f \in Frames
    <2>1. 1 + more \in Nat
      BY <1>1
    <2> QED
      BY <2>1 DEF Frame, Frames, Handlers
  <1> HIDE DEF now, f
  <1>21. p.useCount = (IF c \in kept THEN 1 ELSE 0) + (IF now THEN 1 + more ELSE 0) + Uses(c, rest)
    BY <1>9, <1>12, <1>13
  <1> QED
    BY <1>5, <1>6, <1>7, <1>8, <1>13, <1>14, <1>15, <1>16, <1>17, <1>18, <1>19, <1>20, <1>21 DEF now, f

(* CloseConnect keeps the life of connections consistent.                  *)
LEMMA CloseKeepsLife ==
  ASSUME TypeOK, TypeOK', LifeInv, NEW c \in Conns, NEW o, NEW more, NEW rest, Closable(c, o, more, rest),
         CloseConnect(c, o, more, rest), kept' = kept, backlog' = backlog,
         \A d \in Conns : (peer'[d].at = "away" <=> peer[d].at = "away")
  PROVE  LifeInv'
  <1> DEFINE p == conn'[c]
             now == Notifies(o)
             f == Frame("close", c, 1 + more)
  <1>1. /\ conn' = [conn EXCEPT ![c] = p] /\ p \in STNetConnects
        /\ p.sock = None /\ p.id = conn[c].id /\ ~p.connected
        /\ p.readCount = conn[c].readCount + 1
        /\ p.useCount = (IF c \in kept THEN 1 ELSE 0) + (IF now THEN 1 + more ELSE 0) + Uses(c, rest)
        /\ p.closeCount = (IF conn[c].readCount = 0 THEN conn[c].closeCount + 1 ELSE conn[c].closeCount)
        /\ now <=> ~Doing(rest, Worker, c)
        /\ table' = [table EXCEPT ![conn[c].sock] = None]
        /\ told' = (IF now THEN [told EXCEPT ![c].close = "running"] ELSE told)
        /\ stack' = (IF now THEN <<f>> \o rest ELSE rest)
        /\ f \in Frames /\ told[c].close = "no" /\ conn[c].closeCount = 0 /\ conn[c].readCount \in Nat
        /\ (conn[c].readCount = 0 <=> now)
    BY Closed
  <1>2. rest \in Seq(Frames) /\ more \in Nat /\ SameCalls(c, rest) /\ conn[c].sock # None
    BY DEF Closable
  <1>3. f.conn = c /\ f.kind = "close" /\ f.drops = 1 + more
    BY DEF Frame
  <1> HIDE DEF p, now, f
  <1>4. \A d : CallsOf(stack', d) = (IF now /\ d = c THEN {f} ELSE {}) \union CallsOf(rest, d)
    BY <1>1, <1>2, <1>3, CallsOfPush
  <1>5. \A d : Uses(d, stack') = (IF now /\ d = c THEN 1 + more ELSE 0) + Uses(d, rest) /\ Uses(d, rest) \in Nat
    <2> SUFFICES ASSUME NEW d
                 PROVE  /\ Uses(d, stack') = (IF now /\ d = c THEN 1 + more ELSE 0) + Uses(d, rest)
                        /\ Uses(d, rest) \in Nat
      OBVIOUS
    <2>1. Uses(d, rest) \in Nat
      BY <1>2, UsesType
    <2>2. CASE now
      <3>1. Uses(d, stack') = UsedBy(d, f) + Uses(d, rest)
        BY <1>1, <1>2, <2>2, UsesPush
      <3> QED
        BY <1>2, <1>3, <2>1, <2>2, <3>1 DEF UsedBy
    <2>3. CASE ~now
      BY <1>1, <2>1, <2>3
    <2> QED
      BY <2>1, <2>2, <2>3
  <1>6. conn[c].sock \in Fds /\ table[conn[c].sock] = c /\ conn[c].id = conn[c].sock
    BY <1>2, Typed DEF LifeInv, ConnOK, STNetConnects
  <1>7. \A d \in Conns \ {c} : SameFor(d)
    <2> SUFFICES ASSUME NEW d \in Conns \ {c} PROVE SameFor(d)
      OBVIOUS
    <2>1. conn'[d] = conn[d]
      BY <1>1
    <2>2. told'[d] = told[d]
      BY <1>1
    <2>3. CallsOf(stack', d) = CallsOf(stack, d)
      BY <1>2, <1>4 DEF SameCalls
    <2>4. Uses(d, stack') = Uses(d, stack)
      BY <1>2, <1>5 DEF SameCalls
    <2> QED
      BY <2>1, <2>2, <2>3, <2>4 DEF SameFor, SameLife
  <1>8. \A g \in Fds : table'[g] = table[g] \/ (table[g] = c /\ table'[g] = None)
    BY <1>1, <1>6, Typed
  <1>9. c \notin Listed'
    <2>1. \A g \in Fds : table'[g] # c
      <3> SUFFICES ASSUME NEW g \in Fds, table'[g] = c PROVE FALSE
        OBVIOUS
      <3>1. table[g] = c
        BY <1>8, NoneElse
      <3>2. g = conn[c].sock
        BY <3>1, NoneElse DEF LifeInv, TableOK
      <3> QED
        BY <1>1, <3>2, NoneElse, Typed
    <2> QED
      BY <2>1 DEF Listed
  <1>10. p = conn'[c]
    BY DEF p
  <1>11. \A K \in {Worker, {"connect"}} : Doing(stack', K, c) <=> Doing(stack, K, c)
    <2>1. "close" \notin Worker /\ "close" \notin {"connect"}
      BY DEF Worker
    <2>2. \A K \in {Worker, {"connect"}} : Doing(stack', K, c) <=> Doing(rest, K, c)
      BY <1>3, <1>4, <2>1 DEF Doing
    <2> QED
      BY <1>2, <2>2 DEF SameCalls
  <1>12. Doing(stack', {"close"}, c) <=> now
    <2>1. ~Doing(rest, {"close"}, c)
      <3>1. ~Doing(stack, {"close"}, c)
        BY <1>1 DEF LifeInv, ConnOK
      <3> QED
        BY <1>2, <3>1 DEF SameCalls
    <2>2. now => Doing(stack', {"close"}, c)
      BY <1>3, <1>4 DEF Doing
    <2>3. ~now => ~Doing(stack', {"close"}, c)
      BY <1>1, <2>1
    <2> QED
      BY <2>2, <2>3
  <1>13. told'[c] = IF now THEN [told[c] EXCEPT !.close = "running"] ELSE told[c]
    BY <1>1, Typed
  <1>14. told'[c].connect = told[c].connect /\ told'[c].close = IF now THEN "running" ELSE "no"
    BY <1>1, <1>13, Typed
  <1>15. Doing(stack, Worker, c) <=> ~now
    BY <1>1, <1>2 DEF SameCalls
  <1>16. ConnOK(c)'
    <2>1. ConnOK(c)
      BY DEF LifeInv
    <2>2. Worker' = Worker /\ Unborn' = Unborn
      BY DEF Worker, Unborn
    <2>3. conn[c].id # None /\ conn'[c].id # None
      BY <1>1, <1>2, <1>6, <1>10
    <2>4. Doing(stack', Worker, c) <=> ~now
      BY <1>11, <1>15
    <2>5. Doing(stack', {"connect"}, c) <=> Doing(stack, {"connect"}, c)
      BY <1>11
    <2> QED
      BY <1>1, <1>10, <1>12, <1>14, <1>15, <2>1, <2>2, <2>3, <2>4, <2>5 DEF ConnOK
  <1>17. conn'[c].useCount = Holders(c)'
    <2>1. Holders(c)' = (IF c \in kept THEN 1 ELSE 0) + Uses(c, stack')
      <3>1. Uses(c, stack') \in Nat
        BY <1>2, <1>5
      <3> QED
        BY <1>9, <3>1 DEF Holders
    <2> DEFINE u == IF c \in kept THEN 1 ELSE 0
               x == IF now THEN 1 + more ELSE 0
    <2>2. u \in Nat /\ x \in Nat /\ Uses(c, rest) \in Nat
      BY <1>2, <1>5
    <2>3. conn'[c].useCount = u + x + Uses(c, rest) /\ Uses(c, stack') = x + Uses(c, rest)
          /\ Holders(c)' = u + Uses(c, stack')
      BY <1>1, <1>5, <1>10, <2>1
    <2> HIDE DEF u, x
    <2> QED
      BY <2>2, <2>3
  <1>18. Nested(stack')
    <2>1. ~Doing(rest, {"close"}, c)
      BY <1>1, <1>2 DEF LifeInv, ConnOK, SameCalls
    <2>2. Nested(rest)
      BY <1>2 DEF SameCalls
    <2> QED
      BY <1>1, <1>2, <1>3, <2>1, <2>2, NestedPush
  <1>19. \A g \in ToSet(stack') : CallOK(g)'
    <2> SUFFICES ASSUME NEW g \in ToSet(stack') PROVE CallOK(g)'
      OBVIOUS
    <2>1. (g = f /\ now) \/ g \in ToSet(rest)
      BY <1>1, <1>2, CallsPush
    <2>2. CASE g = f
      BY <1>2, <1>3, <2>2 DEF CallOK
    <2>3. CASE g \in ToSet(rest)
      <3>1. g \in ToSet(stack) /\ g.kind \notin {"worker", "monitor"}
        BY <1>2, <2>3 DEF SameCalls
      <3>2. CallOK(g)
        BY <3>1 DEF LifeInv
      <3> QED
        BY <3>1, <3>2 DEF CallOK
    <2> QED
      BY <2>1, <2>2, <2>3
  <1>20. Accepted
    <2>1. \A d \in Conns : conn'[d].id = conn[d].id
      BY <1>1, <1>10, Typed
    <2> QED
      BY <2>1 DEF Accepted
  <1>21. \A g \in Fds : table'[g] # c
    BY <1>9, NoneElse DEF Listed
  <1> QED
    BY <1>1, <1>7, <1>8, <1>9, <1>10, <1>16, <1>17, <1>18, <1>19, <1>20, <1>21, LifeStep

-----------------------------------------------------------------------------
(* Who calls CloseConnect.                                                 *)
LEMMA SameCallsSelf ==
  ASSUME TypeOK, LifeInv, NEW c \in Conns, stack = <<>> \/ In(Handlers)
  PROVE  SameCalls(c, stack) /\ stack \in Seq(Frames)
  <1>1. ASSUME NEW f \in ToSet(stack), f.kind \in {"worker", "monitor"} PROVE FALSE
    <2>1. stack # <<>>
      BY <1>1, CallsNone
    <2>2. f = Top /\ Top.kind \in Handlers
      BY <1>1, <2>1 DEF In, LifeInv, CallOK
    <2> QED
      BY <1>1, <2>2 DEF Handlers
  <1> QED
    BY <1>1, Typed DEF SameCalls, LifeInv

(* The loop, and a handler, can close a connection that is on the list.    *)
LEMMA ClosableNow ==
  ASSUME TypeOK, LifeInv, NEW c \in Conns, Streams(conn[c]), conn[c].sock # None, stack = <<>> \/ In(Handlers)
  PROVE  Closable(c, conn[c], 0, stack)
  <1>1. SameCalls(c, stack) /\ stack \in Seq(Frames)
    BY SameCallsSelf
  <1>2. conn[c] \in STNetConnects /\ conn[c].useCount \in Nat /\ Uses(c, stack) \in Nat
    BY CountIs DEF STNetConnects
  <1>3. conn[c].useCount + Uses(c, stack) = conn[c].useCount + Uses(c, stack) + 0
    BY <1>2
  <1> QED
    BY <1>1, <1>2, <1>3 DEF Closable, SameConn

(* A number on the list leads to the connection that has it.               *)
LEMMA ListedConn ==
  ASSUME TypeOK, LifeInv, NEW f \in Fds, table[f] # None
  PROVE  table[f] \in Conns /\ conn[table[f]].sock = f /\ conn[table[f]].sock # None
         /\ conn[table[f]].id = f /\ conn[table[f]].connected
  <1>1. table[f] \in Conns /\ conn[table[f]].sock = f
    BY Typed DEF LifeInv, TableOK
  <1>2. ConnOK(table[f])
    BY <1>1 DEF LifeInv
  <1> QED
    BY <1>1, <1>2, NoneElse DEF ConnOK

(* A connection that is listed, kept or in a call has an id.               *)
LEMMA HasNumber ==
  ASSUME TypeOK, LifeInv, NEW c \in Conns, c \in Listed \/ c \in kept \/ (stack # <<>> /\ Top.conn = c)
  PROVE  conn[c].id \in Fds
  <1> SUFFICES ASSUME conn[c].id = None PROVE FALSE
    BY Typed DEF STNetConnects
  <1>1. conn[c].useCount = 0 /\ conn[c].sock = None
    BY DEF LifeInv, ConnOK, Unborn
  <1>2. 0 = (IF c \in kept THEN 1 ELSE 0) + Uses(c, stack) /\ Uses(c, stack) \in Nat
    BY <1>1, CountIs
  <1>3. c \notin Listed
    BY <1>1, ListedIs DEF LifeInv
  <1>4. c \notin kept
    BY <1>2
  <1>5. stack # <<>> /\ Top.conn = c
    BY <1>3, <1>4
  <1>6. Uses(c, stack) = 0
    BY <1>2, <1>4
  <1>7. CallsOf(stack, c) = {}
    BY <1>6, Typed, DropsOK, Unused
  <1>8. Top \in CallsOf(stack, c)
    BY <1>5, TopIs DEF CallsOf
  <1> QED
    BY <1>7, <1>8

-----------------------------------------------------------------------------
(* The heart beat closes a connection that is on the list.                 *)
LEMMA HeartMonitorClosable ==
  ASSUME TypeOK, LifeInv, \A d \in Conns : Streams(conn[d]), NEW c \in Conns, HeartMonitor(c)
  PROVE  Closable(c, conn[c], 0, <<>>) /\ CloseConnect(c, conn[c], 0, <<>>)
  <1>1. conn[c].sock # None
    BY ListedIs DEF HeartMonitor, LifeInv
  <1>2. Closable(c, conn[c], 0, stack) /\ stack = <<>>
    BY <1>1, ClosableNow DEF HeartMonitor
  <1> QED
    BY <1>2 DEF HeartMonitor

Victim(c) == table[conn[c].id]

(* So does CloseConnect(id) in a handler, for the connection the id leads  *)
(* to.                                                                     *)
LEMMA CloseClosable ==
  ASSUME TypeOK, LifeInv, \A d \in Conns : Streams(conn[d]), NEW c \in Conns, Close(c)
  PROVE  /\ Victim(c) \in Conns /\ Closable(Victim(c), conn[Victim(c)], 0, stack)
         /\ CloseConnect(Victim(c), conn[Victim(c)], 0, stack)
  <1>1. In(Handlers) /\ stack # <<>>
    BY DEF Close, In
  <1>2. conn[c].id \in Fds
    BY <1>1, HasNumber DEF Close, Known
  <1>3. Victim(c) # None
    BY DEF Close, Victim
  <1>4. Victim(c) \in Conns /\ conn[Victim(c)].sock # None
    BY <1>2, <1>3, ListedConn DEF Victim
  <1>5. Closable(Victim(c), conn[Victim(c)], 0, stack)
    BY <1>1, <1>4, ClosableNow
  <1> QED
    BY <1>4, <1>5 DEF Close, Victim

(* So does OnConnect when epoll cannot wait for data, which has a use to   *)
(* drop of its own.                                                        *)
LEMMA AddRecvFailsClosable ==
  ASSUME TypeOK, LifeInv, \A d \in Conns : Streams(conn[d]), AddRecvFails
  PROVE  LET c == Top.conn
             o == [conn[c] EXCEPT !.watched = TRUE, !.monRecv = TRUE]
         IN  c \in Conns /\ Closable(c, o, 1, Tail(stack)) /\ CloseConnect(c, o, 1, Tail(stack))
  <1> DEFINE c == Top.conn
             o == [conn[c] EXCEPT !.watched = TRUE, !.monRecv = TRUE]
             rest == Tail(stack)
  <1>1. stack # <<>> /\ Top.kind = "monitor" /\ conn[c].sock # None /\ CloseConnect(c, o, 1, rest)
    BY DEF AddRecvFails, In
  <1>2. /\ Top \in Frames /\ c \in Conns /\ rest = <<>> /\ Top.drops = 1 /\ rest \in Seq(Frames)
        /\ \A d : CallsOf(stack, d) = (IF c = d THEN {Top} ELSE {}) \union CallsOf(rest, d)
        /\ \A d : Uses(d, stack) = UsedBy(d, Top) + Uses(d, rest) /\ Uses(d, rest) \in Nat
        /\ Nested(rest)
    BY <1>1, TopIs
  <1> HIDE DEF rest, c
  <1>3. SameCalls(c, rest)
    <2>1. \A d \in Conns \ {c} : CallsOf(rest, d) = CallsOf(stack, d) /\ Uses(d, rest) = Uses(d, stack)
      <3> SUFFICES ASSUME NEW d \in Conns \ {c}
                   PROVE  CallsOf(rest, d) = CallsOf(stack, d) /\ Uses(d, rest) = Uses(d, stack)
        OBVIOUS
      <3>1. UsedBy(d, Top) = 0
        BY DEF UsedBy, c
      <3>2. Uses(d, stack) = 0 + Uses(d, rest) /\ Uses(d, rest) \in Nat
        BY <1>2, <3>1
      <3>3. CallsOf(rest, d) = CallsOf(stack, d)
        BY <1>2
      <3> QED
        BY <3>2, <3>3
    <2>2. \A K \in {Worker, {"connect"}, {"close"}} : Doing(rest, K, c) <=> Doing(stack, K, c)
      <3>1. \A K \in {Worker, {"connect"}, {"close"}} : "monitor" \notin K
        BY DEF Worker
      <3> QED
        BY <1>1, <1>2, <3>1 DEF Doing
    <2>3. ToSet(rest) = {}
      BY <1>2, CallsNone
    <2> QED
      BY <1>2, <2>1, <2>2, <2>3 DEF SameCalls
  <1>4. conn[c] \in STNetConnects /\ conn[c].useCount \in Nat /\ Streams(conn[c])
    BY <1>2, Typed DEF STNetConnects
  <1>5. o \in STNetConnects /\ SameConn(c, o) /\ o.useCount = conn[c].useCount /\ SameStream(conn[c], o)
        /\ o.armed = conn[c].armed /\ o.monRecv
    BY <1>4 DEF STNetConnects, SameConn, SameStream
  <1> HIDE DEF o
  <1>6. Streams(o)
    BY <1>4, <1>5 DEF Streams, SameStream
  <1>7. o.useCount + Uses(c, stack) = conn[c].useCount + Uses(c, rest) + 1
    <2>1. Uses(c, stack) = 1 + Uses(c, rest) /\ Uses(c, rest) \in Nat
      BY <1>2 DEF UsedBy, c
    <2> QED
      BY <1>4, <1>5, <2>1
  <1>8. Closable(c, o, 1, rest)
    BY <1>1, <1>2, <1>3, <1>5, <1>6, <1>7 DEF Closable
  <1> QED
    BY <1>1, <1>2, <1>8 DEF c, o, rest

-----------------------------------------------------------------------------
(* The turn of a connection.                                               *)
LEMMA CurrentIs ==
  ASSUME TypeOK, turns # {}
  PROVE  Current \in turns /\ Fd \in Fds /\ Current[2] \in {"r", "w"}
  <1> DEFINE T == {turn[1] : turn \in turns}
  <1>1. T \in SUBSET Nat /\ T # {}
    <2>1. \A turn \in turns : turn \in Fds \X {"r", "w"}
      BY DEF TypeOK
    <2>2. \A turn \in turns : turn[1] \in Fds
      BY <2>1
    <2>3. \A turn \in turns : turn[1] \in Nat
      BY <2>2, NoneElse
    <2>4. \E turn : turn \in turns
      OBVIOUS
    <2> QED
      BY <2>3, <2>4
  <1> HIDE DEF T
  <1>2. PICK n \in T : \A m \in T : n <= m
    BY <1>1, LeastNumber
  <1> DEFINE S == {turn \in turns : turn[1] = n}
  <1>3. S # {} /\ S \subseteq Fds \X {"r", "w"} /\ n \in Nat
    BY <1>1, <1>2 DEF T, TypeOK
  <1>4. \E turn \in S : turn[2] = "r" \/ \A other \in S : other[2] = "w"
    BY <1>3
  <1>5. PICK turn \in turns : turn[1] = n /\ (turn[2] = "r" \/ \A other \in S : other[2] = "w")
    BY <1>4
  <1>6. \A other \in turns : Before(turn, other)
    <2> SUFFICES ASSUME NEW other \in turns PROVE Before(turn, other)
      OBVIOUS
    <2>1. other[1] \in T /\ other[1] \in Nat /\ n <= other[1]
      BY <1>1, <1>2 DEF T
    <2>2. CASE other[1] = n
      <3>1. other \in S
        BY <2>2
      <3> QED
        BY <1>5, <2>2, <3>1 DEF Before
    <2>3. CASE other[1] # n
      BY <1>3, <1>5, <2>1, <2>3 DEF Before
    <2> QED
      BY <2>2, <2>3
  <1>7. Current \in turns
    BY <1>5, <1>6 DEF Current
  <1> QED
    BY <1>7 DEF TypeOK, Fd

(* What OnData makes of the connection that has the turn.                  *)
DataConn == table[Fd]
DataObj == [conn[DataConn] EXCEPT !.recvLen = @ + Received(DataConn), !.useCount = @ + 1]

(* What Receive reads has arrived, and fits.                               *)
LEMMA ReceivedIs ==
  ASSUME TypeOK, NEW c \in Conns
  PROVE  Received(c) \in Nat /\ Received(c) <= peer[c].inbox /\ Received(c) <= RecvMax /\ peer[c].inbox \in Nat
  <1>1. peer[c].inbox \in Nat /\ RecvMax \in Nat
    BY STAssumption DEF TypeOK
  <1> QED
    BY <1>1, MinTwo DEF Received

(* The connection that data came for, when OnData has read it.             *)
LEMMA DataObjIs ==
  ASSUME TypeOK, LifeInv, \A d \in Conns : Streams(conn[d]), Turn("r"), DataConn # None
  PROVE  /\ DataConn \in Conns /\ DataObj \in STNetConnects /\ Streams(DataObj) /\ SameConn(DataConn, DataObj)
         /\ DataObj.useCount = conn[DataConn].useCount + 1 /\ conn[DataConn].sock = Fd /\ conn[DataConn].sock # None
         /\ SameStream(conn[DataConn], DataObj) /\ DataObj.armed = conn[DataConn].armed
         /\ DataObj.watched = conn[DataConn].watched /\ DataObj.monRecv = conn[DataConn].monRecv
         /\ conn[DataConn].readCount = 0 /\ conn[DataConn].connected
  <1>1. Fd \in Fds /\ stack = <<>>
    BY CurrentIs DEF Turn
  <1>2. DataConn \in Conns /\ conn[DataConn].sock = Fd /\ conn[DataConn].sock # None /\ conn[DataConn].connected
    BY <1>1, ListedConn DEF DataConn
  <1>3. conn[DataConn] \in STNetConnects /\ Streams(conn[DataConn]) /\ Received(DataConn) \in Nat
    BY <1>2, Typed, ReceivedIs
  <1> HIDE DEF DataConn
  <1>4. /\ DataObj \in STNetConnects /\ SameConn(DataConn, DataObj) /\ DataObj.useCount = conn[DataConn].useCount + 1
        /\ SameStream(conn[DataConn], DataObj) /\ DataObj.armed = conn[DataConn].armed
        /\ DataObj.watched = conn[DataConn].watched /\ DataObj.monRecv = conn[DataConn].monRecv
    <2> DEFINE o == conn[DataConn]
               n == Received(DataConn)
    <2>1. o \in STNetConnects /\ n \in Nat /\ o.recvLen + n \in Nat /\ o.useCount + 1 \in Nat
      BY <1>3 DEF STNetConnects
    <2>2. DataObj = [o EXCEPT !.recvLen = @ + n, !.useCount = @ + 1]
      BY DEF DataObj
    <2> HIDE DEF n
    <2> QED
      BY <2>1, <2>2 DEF STNetConnects, SameConn, SameStream
  <1>5. Streams(DataObj)
    BY <1>3, <1>4 DEF Streams, SameStream
  <1>6. conn[DataConn].readCount = 0
    <2>1. ConnOK(DataConn) /\ conn[DataConn].readCount \in Nat
      BY <1>2, <1>3 DEF LifeInv, STNetConnects
    <2>2. ~Doing(stack, Worker, DataConn)
      BY <1>1, CallsOfNone
    <2> QED
      BY <1>2, <2>1, <2>2 DEF ConnOK
  <1> QED
    BY <1>2, <1>4, <1>5, <1>6

(* OnData closes it when the client has gone.                              *)
LEMMA OnDataClosable ==
  ASSUME TypeOK, LifeInv, \A d \in Conns : Streams(conn[d]), Turn("r"), DataConn # None
  PROVE  Closable(DataConn, DataObj, 1, <<>>)
  <1>1. /\ DataConn \in Conns /\ DataObj \in STNetConnects /\ Streams(DataObj) /\ SameConn(DataConn, DataObj)
        /\ DataObj.useCount = conn[DataConn].useCount + 1 /\ conn[DataConn].sock # None /\ stack = <<>>
    BY DataObjIs DEF Turn
  <1>2. SameCalls(DataConn, stack) /\ stack \in Seq(Frames)
    BY <1>1, SameCallsSelf
  <1>3. conn[DataConn].useCount \in Nat /\ Uses(DataConn, stack) \in Nat
    BY <1>1, CountIs DEF STNetConnects
  <1>4. DataObj.useCount + Uses(DataConn, stack) = conn[DataConn].useCount + Uses(DataConn, stack) + 1
    BY <1>1, <1>3
  <1> HIDE DEF DataConn, DataObj
  <1> QED
    BY <1>1, <1>2, <1>4 DEF Closable

-----------------------------------------------------------------------------
(* Steps that leave the connections and the calls alone.                   *)
Sent == [at : {"away", "up", "gone"}, sent : Nat, inbox : Nat, unread : 0..Room]

(* The loop still hears of everyone when connections, calls and marks      *)
(* stay.                                                                   *)
LEMMA HeardKept ==
  ASSUME AllHeard, pc' # "done" => pc # "done", UNCHANGED <<conn, stack>>, refused \subseteq refused',
         \A c \in Conns \ refused : (Gone(c) => Gone(c)'),
         \A c \in Conns \ refused : conn[c].connected => ioList'[conn[c].sock] = ioList[conn[c].sock]
  PROVE  AllHeard'
  <1> SUFFICES ASSUME pc' # "done", NEW c \in Conns \ refused'
               PROVE  Heard(conn'[c], ioList'[conn'[c].sock], OpeningNow(c)', Gone(c)')
    BY DEF AllHeard
  <1>1. Heard(conn[c], ioList[conn[c].sock], OpeningNow(c), Gone(c))
    BY DEF AllHeard
  <1>2. OpeningNow(c)' <=> OpeningNow(c)
    BY DEF OpeningNow
  <1>3. conn[c].connected => ioList'[conn[c].sock] = ioList[conn[c].sock]
    OBVIOUS
  <1> QED
    BY <1>1, <1>2, <1>3 DEF Heard

(* A connection has the life it has.                                       *)
LEMMA SameLifeSelf == \A c \in Conns : SameLife(conn[c], conn[c])
  BY DEF SameLife

(* The backlog stays as it was.                                            *)
LEMMA BacklogSame ==
  ASSUME BacklogOK, TypeOK, UNCHANGED <<conn, backlog>>,
         \A c \in Conns : (peer'[c].at = "away" <=> peer[c].at = "away")
  PROVE  BacklogOK'
  BY BacklogKept DEF Accepted

(* The client's side, with what the kernel has for it.                     *)
LEMMA ClientSteps ==
  ASSUME IInv, NEW c \in Conns, PeerSend(c) \/ PeerRead(c) \/ PeerClose(c)
  PROVE  IInv'
  <1>0. TypeOK /\ LifeInv /\ AllHeard /\ \A d \in Conns : Streams(conn[d])
    BY DEF IInv
  <1>1. UNCHANGED <<backlog, edge, conn, table, ioList, turns, pc, stack, kept, stop, faults, refused, told>>
    BY DEF PeerSend, PeerRead, PeerClose
  <1>2. peer \in [Conns -> Sent] /\ peer[c] \in Sent
    BY <1>0 DEF TypeOK, Sent
  <1>3. PICK p \in Sent : peer' = [peer EXCEPT ![c] = p] /\ (p.at = peer[c].at \/ p.at = "gone") /\ p.at # "away"
    <2>1. CASE PeerSend(c)
      <3> DEFINE p == [peer[c] EXCEPT !.sent = @ + 1, !.inbox = @ + 1]
      <3>1. p \in Sent /\ p.at = peer[c].at /\ p.at # "away"
        BY <1>2, <2>1 DEF Sent, PeerSend, Here
      <3>2. peer' = [peer EXCEPT ![c] = p]
        BY <2>1, <1>2 DEF PeerSend
      <3> QED
        BY <3>1, <3>2
    <2>2. CASE PeerRead(c)
      <3> DEFINE p == [peer[c] EXCEPT !.unread = @ - 1]
      <3>1. peer[c].unread - 1 \in 0..Room
        BY <1>2, <2>2, STAssumption DEF Sent, PeerRead
      <3>2. p \in Sent /\ p.at = peer[c].at /\ p.at # "away"
        BY <1>2, <2>2, <3>1 DEF Sent, PeerRead, Here
      <3>3. peer' = [peer EXCEPT ![c] = p]
        BY <2>2, <1>2 DEF PeerRead
      <3> QED
        BY <3>2, <3>3
    <2>3. CASE PeerClose(c)
      <3> DEFINE p == [peer[c] EXCEPT !.at = "gone"]
      <3>1. p \in Sent /\ p.at = "gone"
        BY <1>2 DEF Sent
      <3>2. peer' = [peer EXCEPT ![c] = p]
        BY <2>3, <1>2 DEF PeerClose
      <3> QED
        BY <3>1, <3>2
    <2> QED
      BY <2>1, <2>2, <2>3
  <1>4. peer[c].at # "away"
    BY DEF PeerSend, PeerRead, PeerClose, Here
  <1>5. peer' \in [Conns -> Sent] /\ \A d \in Conns : (peer'[d].at = "away" <=> peer[d].at = "away") /\ (Gone(d) => Gone(d)')
    BY <1>2, <1>3, <1>4 DEF Gone
  <1>6. TypeOK'
    BY <1>0, <1>1, <1>5 DEF TypeOK, Sent
  <1>7. BacklogOK'
    BY <1>0, <1>1, <1>5, BacklogSame DEF LifeInv
  <1>8. LifeInv'
    BY <1>0, <1>1, <1>6, <1>7, QuietLife, SameLifeSelf
  <1>9. AllHeard'
    BY <1>0, <1>1, <1>5, HeardKept
  <1> QED
    BY <1>0, <1>1, <1>6, <1>8, <1>9 DEF IInv

(* A client that connects is the last of the backlog.                      *)
LEMMA ArriveStep ==
  ASSUME IInv, NEW c \in Conns, Arrive(c)
  PROVE  IInv'
  <1>0. TypeOK /\ LifeInv /\ AllHeard /\ \A d \in Conns : Streams(conn[d])
    BY DEF IInv
  <1>1. /\ UNCHANGED <<conn, table, ioList, turns, pc, stack, kept, stop, faults, refused, told>>
        /\ peer[c].at = "away" /\ peer' = [peer EXCEPT ![c].at = "up"] /\ backlog' = Append(backlog, c) /\ edge' = TRUE
    BY DEF Arrive
  <1>2. peer \in [Conns -> Sent] /\ peer[c] \in Sent /\ backlog \in Seq(Conns)
    BY <1>0 DEF TypeOK, Sent
  <1>3. peer' \in [Conns -> Sent] /\ peer'[c].at = "up" /\ \A d \in Conns \ {c} : peer'[d] = peer[d]
    BY <1>1, <1>2 DEF Sent
  <1>4. backlog' \in Seq(Conns) /\ Len(backlog') = Len(backlog) + 1 /\ Len(backlog) \in Nat
        /\ backlog'[Len(backlog) + 1] = c /\ \A i \in 1 .. Len(backlog) : backlog'[i] = backlog[i] /\ backlog[i] \in Conns
    BY <1>1, <1>2
  <1>5. TypeOK'
    BY <1>0, <1>1, <1>3, <1>4 DEF TypeOK, Sent
  <1>6. BacklogOK'
    <2>1. /\ \A i \in 1 .. Len(backlog) : conn[backlog[i]].id = None /\ peer[backlog[i]].at # "away"
          /\ \A i, j \in 1 .. Len(backlog) : backlog[i] = backlog[j] => i = j
          /\ \A d \in Conns : peer[d].at = "away" => conn[d].id = None
      BY <1>0 DEF LifeInv, BacklogOK
    <2>2. \A i \in 1 .. Len(backlog) : backlog[i] # c
      BY <1>1, <2>1
    <2>3. \A i \in 1 .. Len(backlog') : i \in 1 .. Len(backlog) \/ i = Len(backlog) + 1
      BY <1>4
    <2>4. ASSUME NEW i \in 1 .. Len(backlog') PROVE conn'[backlog'[i]].id = None /\ peer'[backlog'[i]].at # "away"
      BY <1>1, <1>3, <1>4, <2>1, <2>2, <2>3
    <2>5. ASSUME NEW i \in 1 .. Len(backlog'), NEW j \in 1 .. Len(backlog'), backlog'[i] = backlog'[j] PROVE i = j
      BY <1>4, <2>1, <2>2, <2>3, <2>5
    <2>6. \A d \in Conns : peer'[d].at = "away" => conn'[d].id = None
      BY <1>1, <1>3, <2>1
    <2> QED
      BY <2>4, <2>5, <2>6 DEF BacklogOK
  <1>7. LifeInv'
    BY <1>0, <1>1, <1>5, <1>6, QuietLife, SameLifeSelf
  <1>8. \A d \in Conns : Gone(d) => Gone(d)'
    BY <1>1, <1>3 DEF Gone
  <1>9. AllHeard'
    BY <1>0, <1>1, <1>8, HeardKept
  <1> QED
    BY <1>0, <1>1, <1>5, <1>7, <1>9 DEF IInv

(* The thread's own steps of that kind; a mark that is taken back is one   *)
(* of a number that is not in use.                                         *)
LEMMA LoopSteps ==
  ASSUME IInv, Stop \/ AcceptedAll \/ AcceptFails \/ Skip \/ HeartChecked \/ Finish
  PROVE  IInv'
  <1>0. TypeOK /\ LifeInv /\ AllHeard /\ \A d \in Conns : Streams(conn[d])
    BY DEF IInv
  <1>1. UNCHANGED <<peer, backlog, edge, conn, table, stack, kept, refused, told>>
    BY DEF Stop, AcceptedAll, AcceptFails, Skip, HeartChecked, Finish
  <1>2. TypeOK'
    <2>1. CASE Stop
      BY <1>0, <2>1 DEF TypeOK, Stop
    <2>2. CASE AcceptedAll
      BY <1>0, <2>2 DEF TypeOK, AcceptedAll
    <2>3. CASE AcceptFails
      <3>1. faults' \in 0..MaxFaults
        BY <1>0, <2>3, STAssumption DEF TypeOK, AcceptFails
      <3> QED
        BY <1>0, <2>3, <3>1 DEF TypeOK, AcceptFails
    <2>4. CASE Skip
      <3>1. turns' \subseteq Fds \X {"r", "w"} /\ ioList' \in [Fds -> SUBSET {"r", "w"}]
        BY <1>0, <2>4 DEF TypeOK, Skip, NextTurn
      <3> QED
        BY <1>0, <2>4, <3>1 DEF TypeOK, Skip
    <2>5. CASE HeartChecked
      BY <1>0, <2>5 DEF TypeOK, HeartChecked
    <2>6. CASE Finish
      BY <1>0, <2>6 DEF TypeOK, Finish
    <2> QED
      BY <2>1, <2>2, <2>3, <2>4, <2>5, <2>6
  <1>3. BacklogOK'
    BY <1>0, <1>1, BacklogSame DEF LifeInv
  <1>4. LifeInv'
    BY <1>0, <1>1, <1>2, <1>3, QuietLife, SameLifeSelf
  <1>5. AllHeard'
    <2>1. \A d \in Conns : Gone(d) => Gone(d)'
      BY <1>1 DEF Gone
    <2>2. CASE Finish
      BY <2>2 DEF Finish, AllHeard
    <2>3. CASE Skip
      <3>1. pc' = pc /\ table[Fd] = None /\ ioList' = [ioList EXCEPT ![Fd] = @ \ {Current[2]}] /\ Fd \in Fds
        BY <1>0, <2>3, CurrentIs DEF Skip, NextTurn
      <3>2. ASSUME NEW d \in Conns, conn[d].connected PROVE ioList'[conn[d].sock] = ioList[conn[d].sock]
        <4>1. conn[d].sock \in Fds /\ table[conn[d].sock] = d
          BY <1>0, <3>2, Typed DEF LifeInv, ConnOK, STNetConnects
        <4>2. conn[d].sock # Fd
          BY <3>1, <4>1, NoneElse
        <4> QED
          BY <1>0, <3>1, <4>1, <4>2 DEF TypeOK
      <3> QED
        BY <1>0, <1>1, <2>1, <3>1, <3>2, HeardKept
    <2>4. CASE Stop \/ AcceptedAll \/ AcceptFails \/ HeartChecked
      <3>1. ioList' = ioList /\ (pc' # "done" => pc # "done")
        BY <2>4 DEF Stop, AcceptedAll, AcceptFails, HeartChecked
      <3> QED
        BY <1>0, <1>1, <2>1, <3>1, HeardKept
    <2> QED
      BY <2>2, <2>3, <2>4
  <1> QED
    BY <1>0, <1>1, <1>2, <1>4, <1>5 DEF IInv

-----------------------------------------------------------------------------
(* Waiting for events, and sending.                                        *)
LEMMA HeardChanged ==
  ASSUME AllHeard, pc' # "done" => pc # "done", stack' = stack, refused' = refused,
         \A c \in Conns \ refused :
            Heard(conn[c], ioList[conn[c].sock], OpeningNow(c), Gone(c)) =>
            Heard(conn'[c], ioList'[conn'[c].sock], OpeningNow(c), Gone(c)')
  PROVE  AllHeard'
  BY DEF AllHeard, OpeningNow

(* WaitEvent: what is ready is marked before the next turn, and being      *)
(* marked the loop hears of it.                                            *)
LEMMA WaitEventStep ==
  ASSUME IInv, WaitEvent
  PROVE  IInv'
  <1>0. TypeOK /\ LifeInv /\ AllHeard /\ \A d \in Conns : Streams(conn[d])
    BY DEF IInv
  <1>1. /\ UNCHANGED <<peer, backlog, table, stack, kept, stop, faults, refused, told>>
        /\ pc = "wait" /\ pc' \in {"accept", "io"} /\ edge' = FALSE /\ turns' = Pass(ioList')
        /\ ioList' = [f \in Fds |-> ioList[f] \union UNION {Marks(Ready(c)) : c \in {x \in Conns : conn[x].sock = f}}]
        /\ conn' = [c \in Conns |-> IF Ready(c) = {} THEN conn[c] ELSE [conn[c] EXCEPT !.armed = {}]]
    BY DEF WaitEvent
  <1>2. \A c \in Conns : Ready(c) \subseteq conn[c].armed /\ Marks(Ready(c)) \subseteq {"r", "w"}
                         /\ (Ready(c) # {} => "r" \in Marks(Ready(c)))
    BY DEF Ready, Marks
  <1>3. ASSUME NEW c \in Conns
        PROVE  /\ conn'[c] \in STNetConnects /\ Streams(conn'[c]) /\ SameLife(conn[c], conn'[c])
               /\ SameStream(conn[c], conn'[c]) /\ (Ready(c) = {} => conn'[c] = conn[c])
               /\ (conn'[c].id = None => conn'[c] = conn[c])
    <2> DEFINE o == conn[c]
    <2>1. o \in STNetConnects /\ Streams(o)
      BY <1>0, Typed
    <2>2. CASE Ready(c) = {}
      BY <1>1, <2>1, <2>2 DEF SameLife, SameStream
    <2>3. CASE Ready(c) # {}
      <3>1. conn'[c] = [o EXCEPT !.armed = {}]
        BY <1>1, <2>3
      <3>2. o.id # None
        BY <1>0, <1>2, <2>3 DEF LifeInv, ConnOK, Unborn
      <3> HIDE DEF o
      <3>3. conn'[c] \in STNetConnects /\ SameLife(o, conn'[c]) /\ SameStream(o, conn'[c]) /\ conn'[c].armed = {}
        BY <2>1, <3>1 DEF STNetConnects, SameLife, SameStream
      <3>4. Streams(conn'[c])
        BY <2>1, <3>3 DEF Streams, SameStream
      <3> QED
        BY <2>3, <3>2, <3>3, <3>4 DEF o, SameLife
    <2> QED
      BY <2>2, <2>3
  <1>4. conn' \in [Conns -> STNetConnects]
    <2>1. conn' = [c \in Conns |-> conn'[c]]
      BY <1>1
    <2> QED
      BY <1>3, <2>1
  <1>5. ioList' \in [Fds -> SUBSET {"r", "w"}]
    <2>1. \A f \in Fds : ioList[f] \subseteq {"r", "w"}
      BY <1>0 DEF TypeOK
    <2>2. \A f \in Fds : UNION {Marks(Ready(c)) : c \in {x \in Conns : conn[x].sock = f}} \subseteq {"r", "w"}
      BY <1>2
    <2> QED
      BY <1>1, <2>1, <2>2
  <1>6. turns' \subseteq Fds \X {"r", "w"}
    BY <1>1 DEF Pass
  <1>7. TypeOK'
    BY <1>0, <1>1, <1>4, <1>5, <1>6 DEF TypeOK
  <1>8. BacklogOK'
    BY <1>0, <1>1, <1>3, BacklogKept DEF LifeInv, Accepted, SameLife
  <1>9. LifeInv'
    BY <1>0, <1>1, <1>3, <1>7, <1>8, QuietLife
  <1>10. AllHeard'
    <2> SUFFICES ASSUME NEW c \in Conns \ refused, conn'[c].connected,
                        Heard(conn[c], ioList[conn[c].sock], OpeningNow(c), Gone(c))
                 PROVE  Heard(conn'[c], ioList'[conn'[c].sock], OpeningNow(c), Gone(c)')
      BY <1>0, <1>1, HeardChanged DEF Heard
    <2>1. conn[c].connected /\ conn'[c].sock = conn[c].sock /\ conn'[c].watched = conn[c].watched
          /\ conn'[c].sendBuf = conn[c].sendBuf /\ conn'[c].monSend = conn[c].monSend
      BY <1>3 DEF SameLife, SameStream
    <2>2. conn[c].sock \in Fds
      BY <1>0, <2>1, Typed DEF LifeInv, ConnOK, STNetConnects
    <2>3. ioList[conn[c].sock] \subseteq ioList'[conn[c].sock]
      BY <1>1, <2>2
    <2>4. Ready(c) # {} => "r" \in ioList'[conn[c].sock]
      BY <1>1, <1>2, <2>2
    <2>5. Gone(c)' <=> Gone(c)
      BY <1>1 DEF Gone
    <2>6. conn[c].sendBuf # <<>> => conn[c].monSend
      BY <1>0 DEF Streams
    <2>7. CASE Ready(c) = {}
      BY <1>3, <2>1, <2>3, <2>5, <2>7 DEF Heard
    <2>8. CASE Ready(c) # {}
      BY <2>1, <2>4, <2>6, <2>8 DEF Heard
    <2> QED
      BY <2>7, <2>8
  <1> QED
    BY <1>3, <1>7, <1>9, <1>10 DEF IInv

(* Sending to some connections keeps the invariant.                        *)
LEMMA SayStep ==
  ASSUME IInv, NEW S \in SUBSET Conns, NEW n \in Nat, \A c \in S : conn[c].id # None, Say(S, n)
  PROVE  IInv'
  <1>0. TypeOK /\ LifeInv /\ AllHeard /\ \A d \in Conns : Streams(conn[d])
    BY DEF IInv
  <1>1. PICK failing \in SUBSET S :
          /\ conn' = [c \in Conns |-> IF c \in S THEN SendData(c, conn[c], n, c \in failing) ELSE conn[c]]
          /\ peer' = [c \in Conns |-> IF c \in S
                        THEN [peer[c] EXCEPT !.unread = @ + SendNow(c, conn[c], n, c \in failing)]
                        ELSE peer[c]]
    BY DEF Say
  <1>2. UNCHANGED <<backlog, edge, table, ioList, turns, pc, stack, kept, stop, faults, refused, told>>
    BY DEF Say
  <1>3. peer \in [Conns -> Sent]
    BY <1>0 DEF TypeOK, Sent
  <1>4. ASSUME NEW c \in S
        PROVE  /\ conn'[c] \in STNetConnects /\ Streams(conn'[c]) /\ SameLife(conn[c], conn'[c])
               /\ "in" \in conn[c].armed => "in" \in conn'[c].armed
               /\ conn[c].sendBuf # <<>> => conn'[c].sendBuf # <<>> /\ conn'[c].armed = conn[c].armed
               /\ conn[c].sendBuf = <<>> /\ conn'[c].sendBuf # <<>> /\ conn[c].watched => "out" \in conn'[c].armed
               /\ peer'[c] \in Sent /\ peer'[c].at = peer[c].at
    <2>1. c \in Conns /\ conn[c] \in STNetConnects /\ Streams(conn[c]) /\ peer[c] \in Sent
      BY <1>0, <1>3, Typed
    <2>2. peer[c].unread \in 0 .. Room
      BY <2>1 DEF Sent
    <2> DEFINE err == c \in failing
    <2>3. conn'[c] = SendData(c, conn[c], n, err)
          /\ peer'[c] = [peer[c] EXCEPT !.unread = @ + SendNow(c, conn[c], n, err)]
      BY <1>1, <2>1
    <2>4. err \in BOOLEAN
      OBVIOUS
    <2> HIDE DEF err
    <2>5. LET p == SendData(c, conn[c], n, err) IN
           /\ p \in STNetConnects /\ Streams(p) /\ SameLife(conn[c], p)
           /\ "in" \in conn[c].armed => "in" \in p.armed
           /\ conn[c].sendBuf # <<>> => p.sendBuf # <<>> /\ p.armed = conn[c].armed
           /\ conn[c].sendBuf = <<>> /\ p.sendBuf # <<>> /\ conn[c].watched => "out" \in p.armed
           /\ peer[c].unread + SendNow(c, conn[c], n, err) \in 0 .. Room
      BY <2>1, <2>2, <2>4, SendDataIs
    <2> DEFINE u == peer[c].unread + SendNow(c, conn[c], n, err)
    <2>6. u \in 0 .. Room /\ peer'[c] = [peer[c] EXCEPT !.unread = u]
      BY <2>3, <2>5
    <2> HIDE DEF u
    <2>7. peer'[c] \in Sent /\ peer'[c].at = peer[c].at
      BY <2>1, <2>6 DEF Sent
    <2> QED
      BY <2>3, <2>5, <2>7
  <1>5. \A c \in Conns \ S : conn'[c] = conn[c] /\ peer'[c] = peer[c]
    BY <1>1
  <1>6. \A c \in Conns : /\ conn'[c] \in STNetConnects /\ Streams(conn'[c]) /\ SameLife(conn[c], conn'[c])
                         /\ peer'[c] \in Sent /\ peer'[c].at = peer[c].at
                         /\ (conn'[c].id = None => conn'[c] = conn[c])
    <2> SUFFICES ASSUME NEW c \in Conns
                 PROVE  /\ conn'[c] \in STNetConnects /\ Streams(conn'[c]) /\ SameLife(conn[c], conn'[c])
                        /\ peer'[c] \in Sent /\ peer'[c].at = peer[c].at
                        /\ (conn'[c].id = None => conn'[c] = conn[c])
      OBVIOUS
    <2>1. CASE c \in S
      <3>1. conn'[c].id # None
        BY <1>4, <2>1 DEF SameLife
      <3> QED
        BY <1>4, <2>1, <3>1
    <2>2. CASE c \notin S
      BY <1>0, <1>3, <1>5, <2>2, Typed, SameLifeSelf
    <2> QED
      BY <2>1, <2>2
  <1>7. TypeOK'
    <2>1. conn' \in [Conns -> STNetConnects] /\ peer' \in [Conns -> Sent]
      <3>1. conn' = [c \in Conns |-> conn'[c]] /\ peer' = [c \in Conns |-> peer'[c]]
        BY <1>1
      <3> QED
        BY <1>6, <3>1
    <2> QED
      BY <1>0, <1>2, <2>1 DEF TypeOK, Sent
  <1>8. BacklogOK'
    BY <1>0, <1>2, <1>6, BacklogKept DEF LifeInv, Accepted, SameLife
  <1>9. LifeInv'
    BY <1>0, <1>2, <1>6, <1>7, <1>8, QuietLife
  <1>10. AllHeard'
    <2> SUFFICES ASSUME NEW c \in Conns \ refused,
                        Heard(conn[c], ioList[conn[c].sock], OpeningNow(c), Gone(c))
                 PROVE  Heard(conn'[c], ioList'[conn'[c].sock], OpeningNow(c), Gone(c)')
      BY <1>0, <1>2, HeardChanged
    <2>1. conn'[c].sock = conn[c].sock /\ conn'[c].watched = conn[c].watched /\ conn'[c].connected = conn[c].connected
      BY <1>6 DEF SameLife
    <2>2. Gone(c)' <=> Gone(c)
      BY <1>6 DEF Gone
    <2>3. conn'[c].sendBuf # <<>> => conn'[c].monSend
      BY <1>6 DEF Streams
    <2>4. CASE c \in S
      <3>1. /\ "in" \in conn[c].armed => "in" \in conn'[c].armed
            /\ conn[c].sendBuf # <<>> => conn'[c].sendBuf # <<>> /\ conn'[c].armed = conn[c].armed
            /\ conn[c].sendBuf = <<>> /\ conn'[c].sendBuf # <<>> /\ conn[c].watched => "out" \in conn'[c].armed
        BY <1>4, <2>4
      <3> QED
        BY <1>2, <2>1, <2>2, <2>3, <3>1 DEF Heard
    <2>5. CASE c \notin S
      BY <1>2, <1>5, <2>2, <2>5 DEF Heard
    <2> QED
      BY <2>4, <2>5
  <1> QED
    BY <1>6, <1>7, <1>9, <1>10 DEF IInv

-----------------------------------------------------------------------------
(* Send, SendMsg and BroadcastMsg are such steps.                          *)
LEMMA SendSteps ==
  ASSUME IInv, NEW n \in Sizes,
         (\E c \in Conns : Send(c, n)) \/ (\E f \in Fds : SendMsg(f, n)) \/ (\E S \in SUBSET Conns : BroadcastMsg(S, n))
  PROVE  IInv'
  <1>0. TypeOK /\ LifeInv
    BY DEF IInv
  <1>1. n \in Nat
    BY STAssumption
  <1>2. PICK S \in SUBSET Conns : Say(S, n) /\ \A c \in S : conn[c].id # None
    <2>1. CASE \E c \in Conns : Send(c, n)
      <3>1. PICK c \in Conns : Send(c, n)
        BY <2>1
      <3>2. stack # <<>> /\ (Top.conn = c \/ c \in kept) /\ Say({c}, n)
        BY <3>1 DEF Send, Known, In
      <3>3. conn[c].id \in Fds
        BY <1>0, <3>2, HasNumber
      <3> QED
        BY <3>2, <3>3, NoneElse
    <2>2. CASE \E f \in Fds : SendMsg(f, n)
      <3>1. PICK f \in Fds : SendMsg(f, n)
        BY <2>2
      <3>2. table[f] # None /\ Say({table[f]}, n)
        BY <3>1 DEF SendMsg
      <3>3. table[f] \in Conns /\ conn[table[f]].id = f
        BY <1>0, <3>2, ListedConn
      <3> QED
        BY <3>2, <3>3, NoneElse
    <2>3. CASE \E S \in SUBSET Conns : BroadcastMsg(S, n)
      <3>1. PICK S \in SUBSET Conns : S \subseteq Listed /\ Say({c \in S : conn[c].connected}, n)
        BY <2>3 DEF BroadcastMsg
      <3>2. \A c \in S : conn[c].id \in Fds
        BY <1>0, <3>1, HasNumber
      <3> QED
        BY <3>1, <3>2, NoneElse
    <2> QED
      BY <2>1, <2>2, <2>3
  <1> QED
    BY <1>1, <1>2, SayStep

-----------------------------------------------------------------------------
(* What OnSend makes of a connection: one block is gone, or what the       *)
(* kernel took of it.                                                      *)
Shorter(o, k) ==
  [o EXCEPT !.wire = @ \o SubSeq(o.sendBuf, 1, k), !.sendBuf = SubSeq(o.sendBuf, k + 1, Len(o.sendBuf))]

(* A block of the buffer is sent, or a part of it: the stream stays whole. *)
LEMMA SentBlock ==
  ASSUME NEW o \in STNetConnects, Streams(o), NEW k \in 0 .. Len(o.sendBuf)
  PROVE  LET p == Shorter(o, k) IN
         /\ p \in STNetConnects /\ SameLife(o, p) /\ p.wire \o p.sendBuf = Count(p.said) /\ p.said = o.said
         /\ p.armed = o.armed /\ p.monRecv = o.monRecv /\ p.monSend = o.monSend /\ p.sendCount = o.sendCount
         /\ (k < Len(o.sendBuf) => p.sendBuf # <<>>)
  <1>1. o.wire \in Seq(Nat) /\ o.sendBuf \in Seq(Nat) /\ o.said \in Nat /\ Len(o.sendBuf) \in Nat
    BY DEF STNetConnects
  <1> DEFINE p == Shorter(o, k)
             w == o.wire \o SubSeq(o.sendBuf, 1, k)
             b == SubSeq(o.sendBuf, k + 1, Len(o.sendBuf))
  <1>2. SubSeq(o.sendBuf, 1, k) \in Seq(Nat) /\ b \in Seq(Nat) /\ Len(b) = Len(o.sendBuf) - k
    BY <1>1, Pieces
  <1>3. w \in Seq(Nat)
    BY <1>1, <1>2, Joined
  <1>4. w \o b = o.wire \o o.sendBuf
    BY <1>1, StreamMoves
  <1>5. k < Len(o.sendBuf) => b # <<>>
    <2> DEFINE m == Len(o.sendBuf)
    <2>1. m \in Nat /\ k \in 0 .. m /\ Len(b) = m - k
      BY <1>1, <1>2
    <2> HIDE DEF m, b
    <2>2. k < m => Len(b) # 0
      BY <2>1
    <2>3. Len(<<>>) = 0
      OBVIOUS
    <2> QED
      BY <2>2, <2>3 DEF m
  <1> HIDE DEF w, b
  <1>6. p = [o EXCEPT !.wire = w, !.sendBuf = b]
    BY DEF w, b, Shorter
  <1> HIDE DEF p
  <1>7. p \in STNetConnects /\ SameLife(o, p) /\ p.wire = w /\ p.sendBuf = b /\ p.said = o.said
        /\ p.armed = o.armed /\ p.monRecv = o.monRecv /\ p.monSend = o.monSend /\ p.sendCount = o.sendCount
    BY <1>2, <1>3, <1>6 DEF STNetConnects, SameLife
  <1> QED
    BY <1>4, <1>5, <1>7 DEF Streams, p

(* After sending: if something is left the flow goes on.                   *)
LEMMA AfterSendIs ==
  ASSUME NEW o \in STNetConnects, o.wire \o o.sendBuf = Count(o.said), "in" \in o.armed => o.monRecv
  PROVE  LET p == AfterSend(o) IN
           /\ p \in STNetConnects /\ Streams(p) /\ SameLife(o, p)
           /\ "in" \in o.armed => "in" \in p.armed
           /\ p.sendBuf # <<>> /\ o.watched => "out" \in p.armed
  <1> DEFINE e == [o EXCEPT !.sendCount = 0, !.monSend = FALSE]
             p == AfterSend(o)
  <1>1. e \in STNetConnects /\ SameLife(o, e) /\ e.sendCount = 0 /\ ~e.monSend /\ e.armed = o.armed /\ e.monRecv = o.monRecv
        /\ e.wire = o.wire /\ e.sendBuf = o.sendBuf /\ e.said = o.said
    BY DEF STNetConnects, SameLife
  <1>2. p = IF e.sendBuf = <<>> THEN e ELSE SendStart(e)
    BY DEF AfterSend, SendEnd
  <1> HIDE DEF e, p
  <1>3. CASE e.sendBuf = <<>>
    <2>1. p = e
      BY <1>2, <1>3
    <2>2. ~(e.sendCount > 0)
      BY <1>1
    <2>3. Streams(p)
      BY <1>1, <1>3, <2>1, <2>2 DEF Streams
    <2>4. p \in STNetConnects /\ SameLife(o, p) /\ p.armed = o.armed /\ p.sendBuf = <<>>
      BY <1>1, <1>3, <2>1
    <2> QED
      BY <2>3, <2>4 DEF p
  <1>4. CASE e.sendBuf # <<>>
    <2>1. p = SendStart(e)
      BY <1>2, <1>4
    <2>2. LET q == SendStart(e) IN
           /\ q \in STNetConnects /\ SameLife(e, q)
           /\ q.wire = e.wire /\ q.sendBuf = e.sendBuf /\ q.said = e.said
           /\ q.sendCount > 0 /\ q.monSend /\ ("in" \in q.armed => q.monRecv)
           /\ "in" \in e.armed => "in" \in q.armed
           /\ e.sendCount = 0 /\ e.watched => "out" \in q.armed
      BY <1>1, SendStartIs
    <2>3. SameLife(o, p) /\ e.watched = o.watched
      BY <1>1, <2>1, <2>2 DEF SameLife
    <2>4. Streams(p)
      BY <1>1, <1>4, <2>1, <2>2 DEF Streams
    <2> QED
      BY <1>1, <2>1, <2>2, <2>3, <2>4 DEF p
  <1> QED
    BY <1>3, <1>4

SendObj(c, k) == Shorter(conn[c], k)

(* OnSend in terms of those two.                                           *)
LEMMA OnSendIs ==
  ASSUME IInv, OnSend
  PROVE  \E c \in Conns, err \in BOOLEAN, k \in Nat, more \in BOOLEAN :
           /\ c = table[Fd] /\ conn[c].sock = Fd /\ Fd \in Fds /\ k \in 0 .. Len(conn[c].sendBuf)
           /\ peer[c].unread + k \in 0 .. Room
           /\ more => k < Len(conn[c].sendBuf)
           /\ err => Gone(c)
           /\ NextTurn(~err /\ more) /\ Current[2] = "w"
           /\ conn' = [conn EXCEPT ![c] = IF err THEN conn[c] ELSE IF more THEN SendObj(c, k) ELSE AfterSend(SendObj(c, k))]
           /\ peer' = [peer EXCEPT ![c].unread = IF err THEN @ ELSE @ + k]
  <1>0. TypeOK /\ LifeInv
    BY DEF IInv
  <1> DEFINE c == table[Fd]
             n == Min({Block, Len(conn[c].sendBuf)})
             k == Taken(c, n)
             more == Len(conn[c].sendBuf) > Block /\ k = n
  <1>1. Fd \in Fds /\ c # None /\ Current[2] = "w"
    BY <1>0, CurrentIs DEF OnSend, Turn
  <1>2. c \in Conns /\ conn[c].sock = Fd /\ conn[c].sock # None
    BY <1>0, <1>1, ListedConn
  <1>3. PICK err \in IF n = 0 THEN {FALSE} ELSE SendErrs(c, conn[c]) :
          /\ NextTurn(~err /\ more)
          /\ conn' = [conn EXCEPT ![c] = IF err THEN conn[c] ELSE IF more THEN SendObj(c, k) ELSE AfterSend(SendObj(c, k))]
          /\ peer' = [peer EXCEPT ![c].unread = IF err THEN @ ELSE @ + k]
    BY DEF OnSend, SendObj, Shorter, Unsent
  <1>4. err \in BOOLEAN /\ (err => Gone(c))
    BY <1>2, <1>3 DEF SendErrs
  <1>5. conn[c] \in STNetConnects /\ peer[c].unread \in 0 .. Room
    BY <1>0, <1>2, Typed DEF TypeOK
  <1>6. Len(conn[c].sendBuf) \in Nat /\ Block \in Nat
    BY <1>5, STAssumption, LenProperties DEF STNetConnects
  <1> HIDE DEF c
  <1>7. n \in Nat /\ n <= Len(conn[c].sendBuf) /\ n <= Block
    BY <1>6, MinTwo
  <1> HIDE DEF n
  <1>8. k \in 0 .. n /\ peer[c].unread + k \in 0 .. Room
    BY <1>5, <1>7, TakenIs
  <1> HIDE DEF k
  <1>9. k \in Nat /\ k \in 0 .. Len(conn[c].sendBuf) /\ (more => k < Len(conn[c].sendBuf)) /\ more \in BOOLEAN
    BY <1>6, <1>7, <1>8
  <1> HIDE DEF more
  <1> QED
    BY <1>1, <1>2, <1>3, <1>4, <1>8, <1>9 DEF c

(* OnSend keeps the invariant.                                             *)
LEMMA OnSendStep == ASSUME IInv, OnSend PROVE IInv'
  <1>0. TypeOK /\ LifeInv /\ AllHeard /\ \A d \in Conns : Streams(conn[d])
    BY DEF IInv
  <1>1. PICK c \in Conns, err \in BOOLEAN, k \in Nat, more \in BOOLEAN :
           /\ c = table[Fd] /\ conn[c].sock = Fd /\ Fd \in Fds /\ k \in 0 .. Len(conn[c].sendBuf)
           /\ peer[c].unread + k \in 0 .. Room
           /\ more => k < Len(conn[c].sendBuf)
           /\ err => Gone(c)
           /\ NextTurn(~err /\ more) /\ Current[2] = "w"
           /\ conn' = [conn EXCEPT ![c] = IF err THEN conn[c] ELSE IF more THEN SendObj(c, k) ELSE AfterSend(SendObj(c, k))]
           /\ peer' = [peer EXCEPT ![c].unread = IF err THEN @ ELSE @ + k]
    BY OnSendIs
  <1>2. UNCHANGED <<backlog, edge, table, pc, stack, kept, stop, faults, refused, told>> /\ stack = <<>>
    BY DEF OnSend, Turn
  <1>3. conn[c] \in STNetConnects /\ Streams(conn[c]) /\ conn \in [Conns -> STNetConnects]
    BY <1>0, Typed
  <1> DEFINE o == conn[c]
             q == SendObj(c, k)
             p == conn'[c]
  <1>4. /\ q \in STNetConnects /\ SameLife(o, q) /\ q.wire \o q.sendBuf = Count(q.said) /\ q.said = o.said
        /\ q.armed = o.armed /\ q.monRecv = o.monRecv /\ q.monSend = o.monSend /\ q.sendCount = o.sendCount
        /\ (k < Len(o.sendBuf) => q.sendBuf # <<>>)
    BY <1>1, <1>3, SentBlock DEF SendObj
  <1>5. LET a == AfterSend(q) IN
           /\ a \in STNetConnects /\ Streams(a) /\ SameLife(q, a)
           /\ "in" \in q.armed => "in" \in a.armed
           /\ a.sendBuf # <<>> /\ q.watched => "out" \in a.armed
    <2>1. "in" \in q.armed => q.monRecv
      BY <1>3, <1>4 DEF Streams
    <2> HIDE DEF q
    <2> QED
      BY <1>4, <2>1, AfterSendIs
  <1>6. p = (IF err THEN o ELSE IF more THEN q ELSE AfterSend(q)) /\ \A d \in Conns \ {c} : conn'[d] = conn[d]
    BY <1>1, <1>3
  <1> HIDE DEF q, p
  <1>7. ~err /\ more => Streams(q) /\ q.sendBuf # <<>> /\ o.sendBuf # <<>>
    <2> SUFFICES ASSUME ~err /\ more PROVE Streams(q) /\ q.sendBuf # <<>> /\ o.sendBuf # <<>>
      OBVIOUS
    <2>1. q.sendBuf # <<>>
      BY <1>1, <1>4
    <2>2. o.sendBuf # <<>>
      <3>1. Len(o.sendBuf) # 0
        BY <1>1
      <3> QED
        BY <3>1
    <2> QED
      BY <1>3, <1>4, <2>1, <2>2 DEF Streams
  <1>8. p \in STNetConnects /\ Streams(p) /\ SameLife(o, p)
    <2>1. CASE err
      BY <1>3, <1>6, <2>1 DEF SameLife
    <2>2. CASE ~err /\ more
      BY <1>4, <1>6, <1>7, <2>2
    <2>3. CASE ~err /\ ~more
      BY <1>4, <1>5, <1>6, <2>3 DEF SameLife
    <2> QED
      BY <2>1, <2>2, <2>3
  <1>9. o.id = Fd /\ o.connected /\ o.sock = Fd
    <2>1. ConnOK(c) /\ o.sock # None
      BY <1>0, <1>1, NoneElse DEF LifeInv
    <2> QED
      BY <1>1, <2>1 DEF ConnOK
  <1>10. \A d \in Conns : /\ conn'[d] \in STNetConnects /\ Streams(conn'[d]) /\ SameLife(conn[d], conn'[d])
                          /\ (conn'[d].id = None => conn'[d] = conn[d])
    <2> SUFFICES ASSUME NEW d \in Conns
                 PROVE  /\ conn'[d] \in STNetConnects /\ Streams(conn'[d]) /\ SameLife(conn[d], conn'[d])
                        /\ (conn'[d].id = None => conn'[d] = conn[d])
      OBVIOUS
    <2>1. CASE d = c
      <3>1. p.id # None
        BY <1>1, <1>8, <1>9, NoneElse DEF SameLife
      <3> QED
        BY <1>8, <2>1, <3>1 DEF p
    <2>2. CASE d # c
      BY <1>0, <1>3, <1>6, <2>2, SameLifeSelf
    <2> QED
      BY <2>1, <2>2
  <1>11. peer \in [Conns -> Sent]
    BY <1>0 DEF TypeOK, Sent
  <1>12. peer' \in [Conns -> Sent] /\ \A d \in Conns : peer'[d].at = peer[d].at
    <2> DEFINE u == IF err THEN peer[c].unread ELSE peer[c].unread + k
    <2>1. peer[c] \in Sent /\ peer' = [peer EXCEPT ![c] = [peer[c] EXCEPT !.unread = u]]
      BY <1>1, <1>11
    <2>2. u \in 0 .. Room
      BY <1>1, <2>1 DEF Sent
    <2> HIDE DEF u
    <2>3. [peer[c] EXCEPT !.unread = u] \in Sent /\ [peer[c] EXCEPT !.unread = u].at = peer[c].at
      BY <2>1, <2>2 DEF Sent
    <2> QED
      BY <1>11, <2>1, <2>3
  <1>13. /\ turns' \subseteq Fds \X {"r", "w"} /\ ioList' \in [Fds -> SUBSET {"r", "w"}]
         /\ ioList' = (IF ~err /\ more THEN ioList ELSE [ioList EXCEPT ![Fd] = @ \ {"w"}])
    BY <1>0, <1>1 DEF TypeOK, NextTurn
  <1>14. TypeOK'
    <2>1. conn' \in [Conns -> STNetConnects]
      BY <1>1, <1>3, <1>10
    <2> QED
      BY <1>0, <1>2, <1>12, <1>13, <2>1 DEF TypeOK, Sent
  <1>15. BacklogOK'
    BY <1>0, <1>2, <1>10, <1>12, BacklogKept DEF LifeInv, Accepted, SameLife
  <1>16. LifeInv'
    BY <1>0, <1>2, <1>10, <1>14, <1>15, QuietLife
  <1>17. AllHeard'
    <2> SUFFICES ASSUME NEW d \in Conns \ refused,
                        Heard(conn[d], ioList[conn[d].sock], OpeningNow(d), Gone(d))
                 PROVE  Heard(conn'[d], ioList'[conn'[d].sock], OpeningNow(d), Gone(d)')
      BY <1>0, <1>2, HeardChanged
    <2>1. conn'[d].sock = conn[d].sock /\ conn'[d].watched = conn[d].watched /\ conn'[d].connected = conn[d].connected
      BY <1>10 DEF SameLife
    <2>2. Gone(d)' <=> Gone(d)
      BY <1>12 DEF Gone
    <2>3. CASE d # c
      <3>1. conn[d].connected => conn[d].sock \in Fds /\ conn[d].sock # Fd
        BY <1>0, <1>1, <2>3, Typed DEF LifeInv, ConnOK, STNetConnects
      <3>2. conn[d].connected => ioList'[conn[d].sock] = ioList[conn[d].sock]
        BY <1>0, <1>13, <3>1 DEF TypeOK
      <3>3. conn'[d] = conn[d]
        BY <1>6, <2>3
      <3> QED
        BY <2>2, <3>2, <3>3 DEF Heard
    <2>4. CASE d = c
      <3>1. "r" \in ioList[Fd] => "r" \in ioList'[Fd]
        BY <1>0, <1>1, <1>13 DEF TypeOK
      <3>2. ~OpeningNow(c)
        BY <1>2, CallsOfNone DEF OpeningNow
      <3>3. o.watched /\ ("in" \in o.armed \/ "r" \in ioList[Fd])
        BY <1>9, <2>4, <3>2 DEF Heard
      <3>4. CASE err
        BY <1>1, <1>6, <1>9, <2>2, <2>4, <3>1, <3>3, <3>4 DEF Heard, p
      <3>5. CASE ~err /\ more
        <4>1. ioList' = ioList /\ p = q
          BY <1>6, <1>13, <3>5
        <4> QED
          BY <1>4, <1>7, <1>9, <2>1, <2>2, <2>4, <3>5, <4>1 DEF Heard, p
      <3>6. CASE ~err /\ ~more
        <4>1. p = AfterSend(q)
          BY <1>6, <3>6
        <4>2. ("in" \in o.armed => "in" \in p.armed) /\ (p.sendBuf # <<>> => "out" \in p.armed)
          BY <1>4, <1>5, <3>3, <4>1 DEF SameLife
        <4> QED
          BY <1>9, <2>1, <2>4, <3>1, <3>3, <4>2 DEF Heard, p
      <3> QED
        BY <3>4, <3>5, <3>6
    <2> QED
      BY <2>3, <2>4
  <1> QED
    BY <1>10, <1>14, <1>16, <1>17 DEF IInv

-----------------------------------------------------------------------------
(* Steps of the innermost call: it becomes another, or returns.            *)
OthersCalls(c) ==
  \A d \in Conns \ {c} : CallsOf(stack', d) = CallsOf(stack, d) /\ Uses(d, stack') = Uses(d, stack)

(* The innermost call becomes another one of the same connection.          *)
LEMMA Replaced ==
  ASSUME TypeOK, LifeInv, stack # <<>>, Top.kind # "close",
         NEW g \in Frames, g.conn = Top.conn, g.drops = 1, stack' = <<g>> \o Tail(stack)
  PROVE  /\ stack' \in Seq(Frames) /\ OthersCalls(Top.conn) /\ Nested(stack')
         /\ CallsOf(stack, Top.conn) = {Top} /\ CallsOf(stack', Top.conn) = {g}
         /\ Uses(Top.conn, stack') = Uses(Top.conn, stack)
         /\ ToSet(stack') = {g} /\ Top' = g
  <1>1. /\ Top \in Frames /\ Top.conn \in Conns /\ Tail(stack) = <<>> /\ Top.drops = 1
        /\ Tail(stack) \in Seq(Frames) /\ Nested(Tail(stack))
        /\ \A c : CallsOf(stack, c) = (IF Top.conn = c THEN {Top} ELSE {}) \union CallsOf(Tail(stack), c)
        /\ \A c : Uses(c, stack) = UsedBy(c, Top) + Uses(c, Tail(stack)) /\ Uses(c, Tail(stack)) \in Nat
    BY TopIs
  <1> DEFINE rest == Tail(stack)
  <1> HIDE DEF rest
  <1>2. rest \in Seq(Frames) /\ Nested(rest) /\ stack' = <<g>> \o rest
    BY <1>1 DEF rest
  <1>0. rest = <<>>
    BY <1>1 DEF rest
  <1>3. ToSet(rest) = {} /\ \A d : CallsOf(rest, d) = {} /\ \A K : ~Doing(rest, K, d)
    BY <1>0, CallsNone, CallsOfNone
  <1>4. \A d : CallsOf(stack', d) = (IF g.conn = d THEN {g} ELSE {}) \union CallsOf(rest, d)
    <2> SUFFICES ASSUME NEW d PROVE CallsOf(stack', d) = (IF g.conn = d THEN {g} ELSE {}) \union CallsOf(rest, d)
      OBVIOUS
    <2>1. rest \in Seq(Frames)
      BY <1>2
    <2>2. CallsOf(<<g>> \o rest, d) = (IF g.conn = d THEN {g} ELSE {}) \union CallsOf(rest, d)
      BY ONLY g \in Frames, <2>1, CallsOfPush
    <2> QED
      BY <1>2, <2>2
  <1>5. \A d : Uses(d, stack') = UsedBy(d, g) + Uses(d, rest)
    BY <1>2, UsesPush
  <1>6. \A d : UsedBy(d, g) = UsedBy(d, Top)
    BY <1>1 DEF UsedBy
  <1>7. \A d : Uses(d, stack') = Uses(d, stack)
    BY <1>1, <1>5, <1>6 DEF rest
  <1>8. \A d : CallsOf(stack, d) = (IF Top.conn = d THEN {Top} ELSE {}) /\ CallsOf(stack', d) = (IF g.conn = d THEN {g} ELSE {})
    BY <1>1, <1>3, <1>4 DEF rest
  <1>9. stack' \in Seq(Frames) /\ Head(stack') = g
    <2>1. rest \in Seq(Frames)
      BY <1>2
    <2>2. <<g>> \o rest \in Seq(Frames) /\ Head(<<g>> \o rest) = g
      BY ONLY g \in Frames, <2>1, Front1
    <2> QED
      BY <1>2, <2>2
  <1>10. Nested(stack')
    BY <1>0, <1>2, <1>3, NestedPush
  <1>11. ToSet(stack') = {g}
    <2>1. ToSet(stack') = {g} \union ToSet(rest)
      BY <1>2, CallsPush
    <2> QED
      BY <1>3, <2>1
  <1> QED
    BY <1>7, <1>8, <1>9, <1>10, <1>11 DEF OthersCalls, Top

(* The innermost call returns.                                             *)
LEMMA Popped ==
  ASSUME TypeOK, LifeInv, stack # <<>>, stack' = Tail(stack)
  PROVE  /\ stack' \in Seq(Frames) /\ OthersCalls(Top.conn) /\ Nested(stack')
         /\ CallsOf(stack, Top.conn) = {Top} \union CallsOf(stack', Top.conn)
         /\ Uses(Top.conn, stack) = Top.drops + Uses(Top.conn, stack') /\ Uses(Top.conn, stack') \in Nat
         /\ \A f \in ToSet(stack') : CallOK(f)' /\ f.drops >= 1
         /\ Top.kind # "close" => CallsOf(stack', Top.conn) = {}
  <1>1. /\ Top \in Frames /\ Top.conn \in Conns
        /\ Tail(stack) \in Seq(Frames) /\ Nested(Tail(stack)) /\ (Top.kind # "close" => Tail(stack) = <<>>)
        /\ \A c : CallsOf(stack, c) = (IF Top.conn = c THEN {Top} ELSE {}) \union CallsOf(Tail(stack), c)
        /\ \A c : Uses(c, stack) = UsedBy(c, Top) + Uses(c, Tail(stack)) /\ Uses(c, Tail(stack)) \in Nat
        /\ ToSet(Tail(stack)) \subseteq ToSet(stack)
    BY TopIs
  <1>2. OthersCalls(Top.conn)
    <2> SUFFICES ASSUME NEW d \in Conns \ {Top.conn}
                 PROVE  CallsOf(stack', d) = CallsOf(stack, d) /\ Uses(d, stack') = Uses(d, stack)
      BY DEF OthersCalls
    <2>1. UsedBy(d, Top) = 0
      BY DEF UsedBy
    <2>2. Uses(d, stack) = 0 + Uses(d, stack') /\ Uses(d, stack') \in Nat
      BY <1>1, <2>1
    <2>3. Uses(d, stack') = Uses(d, stack)
      BY <2>2
    <2>4. CallsOf(stack', d) = CallsOf(stack, d)
      BY <1>1
    <2> QED
      BY <2>3, <2>4
  <1>3. ASSUME NEW f \in ToSet(stack') PROVE CallOK(f)' /\ f.drops >= 1
    <2>1. f \in ToSet(stack) /\ CallOK(f)
      BY <1>1 DEF LifeInv
    <2>2. Top.kind = "close"
      BY <1>1, CallsNone
    <2>3. f.kind \notin {"worker", "monitor"}
      BY <2>1, <2>2 DEF CallOK
    <2> QED
      BY <2>1, <2>3 DEF CallOK
  <1>4. Top.kind # "close" => CallsOf(stack', Top.conn) = {}
    BY <1>1, CallsOfNone
  <1>5. UsedBy(Top.conn, Top) = Top.drops
    BY DEF UsedBy
  <1> QED
    BY <1>1, <1>2, <1>3, <1>4, <1>5

-----------------------------------------------------------------------------
(* LifeStep and AllHeard for steps of one connection that stays on the     *)
(* list, or off it.                                                        *)
LEMMA LifeHere ==
  ASSUME TypeOK, TypeOK', LifeInv, backlog' = backlog, table' = table,
         \A d \in Conns : (peer'[d].at = "away" <=> peer[d].at = "away"),
         NEW c \in Conns, NEW p \in STNetConnects, conn' = [conn EXCEPT ![c] = p],
         p.sock = conn[c].sock, p.id = conn[c].id,
         \A d \in Conns \ {c} : told'[d] = told[d] /\ (d \in kept' <=> d \in kept),
         OthersCalls(c), ConnOK(c)',
         p.useCount = (IF conn[c].sock # None THEN 2 ELSE 0) + (IF c \in kept' THEN 1 ELSE 0) + Uses(c, stack'),
         told[c].close = "done" => told'[c].close = "done",
         Nested(stack'), \A f \in ToSet(stack') : CallOK(f)'
  PROVE  LifeInv'
  <1>1. conn'[c] = p /\ \A d \in Conns \ {c} : conn'[d] = conn[d]
    BY Typed
  <1>2. \A d \in Conns \ {c} : SameFor(d)
    BY <1>1 DEF SameFor, OthersCalls, SameLife
  <1>3. \A d \in Conns : conn'[d].id = conn[d].id
    BY <1>1
  <1>4. Accepted
    BY <1>3 DEF Accepted
  <1>5. c \in Listed <=> conn[c].sock # None
    BY ListedIs DEF LifeInv
  <1>6. c \in Listed' <=> p.sock # None
    BY <1>5 DEF Listed
  <1>7. conn'[c].useCount = Holders(c)'
    <2>1. c \in Listed' <=> conn[c].sock # None
      BY <1>6
    <2> QED
      BY <1>1, <2>1 DEF Holders
  <1>8. \A f \in Fds : table'[f] = c => conn'[c].sock # None
    BY <1>1, NoneElse DEF LifeInv, TableOK
  <1>9. \A f \in Fds : table'[f] = table[f] \/ (table[f] = c /\ table'[f] = None)
    OBVIOUS
  <1>10. /\ c \in Listed' <=> conn'[c].sock # None
         /\ conn'[c].sock # None => conn'[c].sock = conn[c].sock
    BY <1>1, <1>6
  <1> HIDE DEF Accepted
  <1> QED
    BY <1>2, <1>4, <1>7, <1>8, <1>9, <1>10, LifeStep

(* AllHeard after a step of c alone.                                       *)
LEMMA HeardHere ==
  ASSUME TypeOK, AllHeard, pc' = pc, refused \subseteq refused', NEW c \in Conns,
         \A d \in Conns \ {c} : conn'[d] = conn[d] /\ (Gone(d) => Gone(d)'),
         \A d \in Conns \ {c} : conn[d].connected => ioList'[conn[d].sock] = ioList[conn[d].sock],
         OthersCalls(c),
         c \notin refused' /\ Heard(conn[c], ioList[conn[c].sock], OpeningNow(c), Gone(c)) =>
           Heard(conn'[c], ioList'[conn'[c].sock], OpeningNow(c)', Gone(c)')
  PROVE  AllHeard'
  <1> SUFFICES ASSUME pc' # "done", NEW d \in Conns \ refused'
               PROVE  Heard(conn'[d], ioList'[conn'[d].sock], OpeningNow(d)', Gone(d)')
    BY DEF AllHeard
  <1>1. Heard(conn[d], ioList[conn[d].sock], OpeningNow(d), Gone(d))
    BY DEF AllHeard
  <1>2. CASE d = c
    BY <1>1, <1>2
  <1>3. CASE d # c
    <2>1. OpeningNow(d)' <=> OpeningNow(d)
      BY <1>3 DEF OpeningNow, OthersCalls, Doing
    <2>2. conn'[d] = conn[d] /\ (Gone(d) => Gone(d)') /\ (conn[d].connected => ioList'[conn[d].sock] = ioList[conn[d].sock])
      BY <1>3
    <2> QED
      BY <1>1, <2>1, <2>2 DEF Heard
  <1> QED
    BY <1>2, <1>3

-----------------------------------------------------------------------------
(* Around OnMsg: MsgWorker stays the innermost call of the connection.     *)
LEMMA WorkerGoesOn ==
  ASSUME IInv, stack # <<>>, Top.kind \in Worker, NEW g \in Frames, g.conn = Top.conn, g.drops = 1, g.kind \in Worker,
         stack' = <<g>> \o Tail(stack), NEW p \in STNetConnects, conn' = [conn EXCEPT ![Top.conn] = p],
         SameLife(conn[Top.conn], p), SameStream(conn[Top.conn], p),
         p.armed = conn[Top.conn].armed, p.monRecv = conn[Top.conn].monRecv,
         g.kind = "worker" => g.looked,
         UNCHANGED <<peer, backlog, edge, table, ioList, turns, pc, kept, stop, faults, refused, told>>
  PROVE  IInv'
  <1>0. TypeOK /\ LifeInv /\ AllHeard /\ \A d \in Conns : Streams(conn[d])
    BY DEF IInv
  <1>2. PICK c \in Conns : c = Top.conn
    BY <1>0, TopIs
  <1>1. Top.kind # "close" /\ g.kind # "close" /\ {Top.kind, g.kind} \intersect {"connect", "monitor", "close"} = {}
    BY DEF Worker
  <1>3. /\ stack' \in Seq(Frames) /\ OthersCalls(c) /\ Nested(stack')
        /\ CallsOf(stack, c) = {Top} /\ CallsOf(stack', c) = {g}
        /\ Uses(c, stack') = Uses(c, stack)
        /\ ToSet(stack') = {g} /\ Top' = g
    BY <1>0, <1>1, <1>2, Replaced
  <1>4. conn[c] \in STNetConnects /\ conn \in [Conns -> STNetConnects] /\ Streams(conn[c])
    BY <1>0, <1>2, Typed
  <1>5. Streams(p)
    BY <1>2, <1>4 DEF Streams, SameStream
  <1>6. conn'[c] = p /\ \A d \in Conns \ {c} : conn'[d] = conn[d]
    BY <1>2, <1>4
  <1>7. \A d \in Conns : Streams(conn'[d])
    BY <1>0, <1>5, <1>6
  <1>8. TypeOK'
    <2>1. conn' \in [Conns -> STNetConnects]
      BY <1>2, <1>4
    <2> QED
      BY <1>0, <1>3, <2>1 DEF TypeOK, Frames
  <1>9. Worker' = Worker /\ Unborn' = Unborn
    BY DEF Worker, Unborn
  <1>10. \A K \in {Worker, {"close"}, {"connect"}, {"connect", "monitor"}} : Doing(stack', K, c) <=> Doing(stack, K, c)
    <2>1. \A K \in {Worker, {"close"}, {"connect"}, {"connect", "monitor"}} : g.kind \in K <=> Top.kind \in K
      BY <1>1 DEF Worker
    <2>2. \A K : Doing(stack', K, c) <=> g.kind \in K
      BY <1>3 DEF Doing
    <2>3. \A K : Doing(stack, K, c) <=> Top.kind \in K
      BY <1>3 DEF Doing
    <2> QED
      BY <2>1, <2>2, <2>3
  <1>11. ConnOK(c)'
    <2>1. ConnOK(c)
      BY <1>0, <1>2 DEF LifeInv
    <2>2. conn[c].id # None
      BY <1>0, <1>2, HasNumber, NoneElse
    <2>3. SameLife(conn[c], p)
      BY <1>2
    <2> QED
      BY <1>6, <1>9, <1>10, <2>1, <2>2, <2>3 DEF ConnOK, SameLife
  <1>12. \A f \in ToSet(stack') : CallOK(f)'
    BY <1>1, <1>3 DEF CallOK
  <1>13. p.useCount = (IF conn[c].sock # None THEN 2 ELSE 0) + (IF c \in kept' THEN 1 ELSE 0) + Uses(c, stack')
    BY <1>0, <1>2, <1>3, CountIs DEF SameLife
  <1>14. LifeInv'
    <2>1. p.sock = conn[c].sock /\ p.id = conn[c].id
      BY <1>2 DEF SameLife
    <2> QED
      BY <1>0, <1>2, <1>3, <1>8, <1>11, <1>12, <1>13, <2>1, LifeHere
  <1>15. AllHeard'
    <2>1. OpeningNow(c)' <=> OpeningNow(c)
      BY <1>10 DEF OpeningNow
    <2>2. Gone(c)' <=> Gone(c)
      BY <1>2 DEF Gone
    <2>3. Heard(conn[c], ioList[conn[c].sock], OpeningNow(c), Gone(c)) =>
            Heard(conn'[c], ioList'[conn'[c].sock], OpeningNow(c)', Gone(c)')
      BY <1>2, <1>6, <2>1, <2>2 DEF Heard, SameLife, SameStream
    <2>4. \A d \in Conns \ {c} : Gone(d) => Gone(d)'
      BY DEF Gone
    <2> QED
      BY <1>0, <1>2, <1>3, <1>6, <2>3, <2>4, HeardHere
  <1> QED
    BY <1>7, <1>8, <1>14, <1>15 DEF IInv

(* OnMsg begins and ends.                                                  *)
LEMMA MsgSteps ==
  ASSUME IInv, BeginMsg \/ EndMsg
  PROVE  IInv'
  <1> DEFINE c == Top.conn
  <1>0. TypeOK /\ LifeInv
    BY DEF IInv
  <1>1. stack # <<>> /\ Top.kind \in Worker
    BY DEF BeginMsg, EndMsg, In, Worker
  <1>2. Top \in Frames /\ c \in Conns /\ Top.drops = 1
    BY <1>0, <1>1, TopIs DEF Worker
  <1>3. conn \in [Conns -> STNetConnects]
    BY <1>0, Typed
  <1>4. conn[c] \in STNetConnects /\ conn = [conn EXCEPT ![c] = conn[c]]
    BY <1>2, <1>3
  <1>5. UNCHANGED <<peer, backlog, edge, conn, table, ioList, turns, pc, kept, stop, faults, refused, told>>
    BY DEF BeginMsg, EndMsg
  <1>6. PICK g \in Frames : g.conn = c /\ g.drops = 1 /\ g.kind \in Worker /\ (g.kind = "worker" => g.looked)
                            /\ stack' = <<g>> \o Tail(stack)
    <2>1. CASE BeginMsg
      <3>1. Frame("msg", c, 1) \in Frames /\ Frame("msg", c, 1).kind = "msg" /\ Frame("msg", c, 1).conn = c
            /\ Frame("msg", c, 1).drops = 1
        BY <1>2 DEF Frame, Frames, Handlers
      <3> QED
        BY <2>1, <3>1 DEF BeginMsg, Worker
    <2>2. CASE EndMsg
      <3> DEFINE g == [Top EXCEPT !.kind = "worker"]
      <3>1. g \in Frames /\ g.kind = "worker" /\ g.conn = c /\ g.drops = 1 /\ g.looked
        BY <1>2, <2>2 DEF Frames, EndMsg
      <3> QED
        BY <2>2, <3>1 DEF EndMsg, Worker
    <2> QED
      BY <2>1, <2>2
  <1>7. SameLife(conn[c], conn[c]) /\ SameStream(conn[c], conn[c])
    BY DEF SameLife, SameStream
  <1>8. conn' = [conn EXCEPT ![c] = conn[c]]
    BY <1>4, <1>5
  <1> QED
    BY <1>1, <1>4, <1>5, <1>6, <1>7, <1>8, WorkerGoesOn

(* A handler reads what has come.                                          *)
LEMMA RecvStep ==
  ASSUME IInv, NEW k \in Nat, Recv(k)
  PROVE  IInv'
  <1> DEFINE c == Top.conn
             o == conn[c]
             g == [Top EXCEPT !.looked = TRUE]
             p == IF k <= o.recvLen THEN [o EXCEPT !.recvLen = @ - k, !.readable = TRUE]
                                    ELSE [o EXCEPT !.readable = FALSE]
  <1>0. TypeOK /\ LifeInv
    BY DEF IInv
  <1>1. stack # <<>> /\ Top.kind = "msg" /\ Top.kind \in Worker
    BY DEF Recv, In, Worker
  <1>2. Top \in Frames /\ c \in Conns /\ Top.drops = 1
    BY <1>0, <1>1, TopIs
  <1>3. o \in STNetConnects
    BY <1>0, <1>2, Typed
  <1>4. g \in Frames /\ g.kind = "msg" /\ g.conn = c /\ g.drops = 1
    BY <1>1, <1>2 DEF Frames
  <1>5. p \in STNetConnects /\ SameLife(o, p) /\ SameStream(o, p) /\ p.armed = o.armed /\ p.monRecv = o.monRecv
    <2>1. k <= o.recvLen => o.recvLen - k \in Nat
      BY <1>3 DEF STNetConnects
    <2> HIDE DEF o
    <2> QED
      BY <1>3, <2>1 DEF STNetConnects, SameLife, SameStream
  <1>6. stack' = <<g>> \o Tail(stack) /\ conn' = [conn EXCEPT ![c] = p]
        /\ UNCHANGED <<peer, backlog, edge, table, ioList, turns, pc, kept, stop, faults, refused, told>>
    BY DEF Recv
  <1> HIDE DEF g, p
  <1> QED
    BY <1>1, <1>4, <1>5, <1>6, WorkerGoesOn DEF Worker

(* OnConnect goes on after the handler.                                    *)
LEMMA EndConnectStep ==
  ASSUME IInv, EndConnect
  PROVE  IInv'
  <1>0. TypeOK /\ LifeInv /\ AllHeard /\ \A d \in Conns : Streams(conn[d])
    BY DEF IInv
  <1>2. PICK c \in Conns : c = Top.conn
    BY <1>0, TopIs DEF EndConnect, In
  <1> DEFINE g == Frame("monitor", c, 1)
  <1>1. /\ stack # <<>> /\ Top.kind = "connect" /\ stack' = <<g>> \o Tail(stack)
        /\ told' = [told EXCEPT ![c].connect = "done"]
        /\ UNCHANGED <<peer, backlog, edge, conn, table, ioList, turns, pc, kept, stop, faults, refused>>
    BY <1>2 DEF EndConnect, In
  <1>3. g \in Frames /\ g.kind = "monitor" /\ g.conn = c /\ g.drops = 1
    BY <1>2 DEF Frame, Frames
  <1> HIDE DEF g
  <1>4. /\ stack' \in Seq(Frames) /\ OthersCalls(c) /\ Nested(stack')
        /\ CallsOf(stack, c) = {Top} /\ CallsOf(stack', c) = {g}
        /\ Uses(c, stack') = Uses(c, stack)
        /\ ToSet(stack') = {g} /\ Top' = g
    BY <1>0, <1>1, <1>2, <1>3, Replaced
  <1>5. told' \in [Conns -> [connect : {"no", "running", "done"}, close : {"no", "running", "done"}]]
        /\ told'[c].connect = "done" /\ told'[c].close = told[c].close /\ \A d \in Conns \ {c} : told'[d] = told[d]
    BY <1>0, <1>1, <1>2, Typed
  <1>6. TypeOK'
    BY <1>0, <1>1, <1>4, <1>5 DEF TypeOK, Frames
  <1>7. ConnOK(c)'
    <2>1. ConnOK(c)
      BY <1>0, <1>2 DEF LifeInv
    <2>2. conn[c].id # None
      BY <1>0, <1>1, <1>2, HasNumber, NoneElse
    <2>3. Worker' = Worker /\ Unborn' = Unborn
      BY DEF Worker, Unborn
    <2>4. \A K \in {Worker, {"close"}} : ~Doing(stack', K, c) /\ ~Doing(stack, K, c)
      BY <1>1, <1>3, <1>4 DEF Doing, Worker
    <2>5. ~Doing(stack', {"connect"}, c)
      BY <1>3, <1>4 DEF Doing
    <2>6. conn' = conn /\ table' = table
      BY <1>1
    <2> QED
      BY <1>5, <2>1, <2>2, <2>3, <2>4, <2>5, <2>6 DEF ConnOK
  <1>8. \A f \in ToSet(stack') : CallOK(f)'
    BY <1>3, <1>4 DEF CallOK
  <1>9. conn[c].useCount = (IF conn[c].sock # None THEN 2 ELSE 0) + (IF c \in kept' THEN 1 ELSE 0) + Uses(c, stack')
        /\ conn[c] \in STNetConnects
    BY <1>0, <1>1, <1>2, <1>4, CountIs
  <1>10. conn' = [conn EXCEPT ![c] = conn[c]] /\ conn' = conn
    BY <1>0, <1>1, <1>2, Typed
  <1>11. LifeInv'
    <2>1. told[c].close = "done" => told'[c].close = "done"
      BY <1>5
    <2> QED
      BY <1>0, <1>1, <1>2, <1>4, <1>5, <1>6, <1>7, <1>8, <1>9, <1>10, <2>1, LifeHere
  <1>12. AllHeard'
    <2>1. OpeningNow(c)' /\ OpeningNow(c)
      BY <1>1, <1>3, <1>4 DEF OpeningNow, Doing
    <2>2. \A d \in Conns : Gone(d)' <=> Gone(d)
      BY <1>1 DEF Gone
    <2>3. Heard(conn[c], ioList[conn[c].sock], OpeningNow(c), Gone(c)) =>
            Heard(conn'[c], ioList'[conn'[c].sock], OpeningNow(c)', Gone(c)')
      BY <1>1, <1>2, <2>1, <2>2 DEF Heard
    <2> QED
      BY <1>0, <1>1, <1>2, <1>4, <2>2, <2>3, HeardHere
  <1> QED
    BY <1>0, <1>1, <1>6, <1>11, <1>12 DEF IInv

-----------------------------------------------------------------------------
(* Calls that return.                                                      *)
TypeHere(c, p) ==
  /\ p \in STNetConnects /\ Streams(p) /\ conn' = [conn EXCEPT ![c] = p]
  /\ stack' \in Seq(Frames)

(* Such a step keeps the types and every stream.                           *)
LEMMA TypesHere ==
  ASSUME TypeOK, \A d \in Conns : Streams(conn[d]), NEW c \in Conns, NEW p, TypeHere(c, p),
         UNCHANGED <<backlog, edge, table, turns, pc, stop, peer, ioList>>,
         told' \in [Conns -> [connect : {"no", "running", "done"}, close : {"no", "running", "done"}]],
         kept' \subseteq Conns, faults' \in 0..MaxFaults, refused' \subseteq Conns
  PROVE  /\ TypeOK' /\ (\A d \in Conns : Streams(conn'[d]))
         /\ conn'[c] = p /\ \A d \in Conns \ {c} : conn'[d] = conn[d]
  <1>1. conn \in [Conns -> STNetConnects] /\ conn' = [conn EXCEPT ![c] = p] /\ p \in STNetConnects /\ Streams(p)
        /\ stack' \in Seq(Frames)
    BY Typed DEF TypeHere
  <1>2. conn' \in [Conns -> STNetConnects] /\ conn'[c] = p /\ \A d \in Conns \ {c} : conn'[d] = conn[d]
    BY <1>1
  <1>3. \A d \in Conns : Streams(conn'[d])
    BY <1>1, <1>2
  <1>4. TypeOK'
    BY <1>1, <1>2 DEF TypeOK, Frames
  <1> QED
    BY <1>2, <1>3, <1>4

(* OnCloseConnect ends, the uses are dropped; the last one puts the object *)
(* back.                                                                   *)
LEMMA EndCloseStep ==
  ASSUME IInv, EndClose
  PROVE  IInv'
  <1>0. TypeOK /\ LifeInv /\ AllHeard /\ \A d \in Conns : Streams(conn[d])
    BY DEF IInv
  <1>1. PICK c \in Conns : c = Top.conn
    BY <1>0, TopIs DEF EndClose, In
  <1>2. /\ stack # <<>> /\ Top.kind = "close" /\ stack' = Tail(stack)
        /\ told' = [told EXCEPT ![c].close = "done"]
        /\ conn' = [conn EXCEPT ![c] = Release(conn[c], Top.drops)]
        /\ UNCHANGED <<peer, backlog, edge, table, ioList, turns, pc, kept, stop, faults, refused>>
    BY <1>1 DEF EndClose, In
  <1>3. /\ stack' \in Seq(Frames) /\ OthersCalls(c) /\ Nested(stack')
        /\ CallsOf(stack, c) = {Top} \union CallsOf(stack', c)
        /\ Uses(c, stack) = Top.drops + Uses(c, stack') /\ Uses(c, stack') \in Nat
        /\ \A f \in ToSet(stack') : CallOK(f)' /\ f.drops >= 1
    BY <1>0, <1>1, <1>2, Popped
  <1>4. Top \in Frames /\ ~Doing(stack', {"close"}, c) /\ Top.drops \in Nat
    BY <1>0, <1>1, <1>2, TopIs DEF Frames
  <1>5. ConnOK(c) /\ Doing(stack, {"close"}, c)
    BY <1>0, <1>2, <1>3 DEF LifeInv, Doing
  <1>6. told[c].close = "running" /\ conn[c].sock = None /\ ~Doing(stack, Worker, c) /\ ~conn[c].connected
    BY <1>5 DEF ConnOK
  <1>7. conn[c].id # None
    BY <1>0, <1>1, <1>2, HasNumber, NoneElse
  <1> DEFINE p == Release(conn[c], Top.drops)
             u == IF c \in kept THEN 1 ELSE 0
  <1>8. conn[c].useCount = u + Top.drops + Uses(c, stack') /\ u \in Nat /\ conn[c] \in STNetConnects
    <2>1. conn[c].useCount = (IF conn[c].sock # None THEN 2 ELSE 0) + u + Uses(c, stack) /\ u \in Nat
          /\ conn[c] \in STNetConnects
      BY <1>0, CountIs
    <2> HIDE DEF u
    <2> QED
      BY <1>3, <1>4, <1>6, <2>1
  <1> HIDE DEF u
  <1>9. /\ p \in STNetConnects /\ Streams(p) /\ p.useCount = u + Uses(c, stack') /\ p.id = conn[c].id
        /\ p = (IF conn[c].useCount = Top.drops THEN [Unborn EXCEPT !.id = conn[c].id]
                                                ELSE [conn[c] EXCEPT !.useCount = @ - Top.drops])
    <2>1. Top.drops <= conn[c].useCount /\ conn[c].useCount - Top.drops = u + Uses(c, stack')
      BY <1>3, <1>4, <1>8
    <2>2. Streams(conn[c])
      BY <1>0
    <2> QED
      BY <1>4, <1>8, <2>1, <2>2, ReleaseIs
  <1> HIDE DEF p
  <1>10. p.sock = None /\ ~p.connected
    BY <1>6, <1>8, <1>9 DEF Unborn, STNetConnects
  <1>11. told' \in [Conns -> [connect : {"no", "running", "done"}, close : {"no", "running", "done"}]]
        /\ told'[c].close = "done" /\ told'[c].connect = told[c].connect /\ \A d \in Conns \ {c} : told'[d] = told[d]
    BY <1>0, <1>2, Typed
  <1>12. TypeHere(c, p)
    BY <1>2, <1>3, <1>9 DEF TypeHere, p
  <1>13. TypeOK' /\ (\A d \in Conns : Streams(conn'[d])) /\ conn'[c] = p /\ \A d \in Conns \ {c} : conn'[d] = conn[d]
    <2>1. kept' \subseteq Conns /\ faults' \in 0..MaxFaults /\ refused' \subseteq Conns
      BY <1>0, <1>2 DEF TypeOK
    <2> QED
      BY <1>0, <1>2, <1>11, <1>12, <2>1, TypesHere
  <1>14. ConnOK(c)'
    <2>1. Worker' = Worker /\ Unborn' = Unborn
      BY DEF Worker, Unborn
    <2>2. ~Doing(stack', Worker, c)
      BY <1>3, <1>6 DEF Doing
    <2>3. Doing(stack', {"connect"}, c) <=> Doing(stack, {"connect"}, c)
      BY <1>2, <1>3 DEF Doing
    <2> QED
      BY <1>4, <1>5, <1>7, <1>9, <1>10, <1>11, <1>13, <2>1, <2>2, <2>3 DEF ConnOK
  <1>15. p.useCount = (IF conn[c].sock # None THEN 2 ELSE 0) + (IF c \in kept' THEN 1 ELSE 0) + Uses(c, stack')
    <2>1. p.useCount = 0 + u + Uses(c, stack')
      BY <1>3, <1>8, <1>9
    <2> QED
      BY <1>2, <1>6, <2>1 DEF u
  <1>16. LifeInv'
    <2>1. /\ \A d \in Conns : (peer'[d].at = "away" <=> peer[d].at = "away")
          /\ \A d \in Conns \ {c} : told'[d] = told[d] /\ (d \in kept' <=> d \in kept)
          /\ conn' = [conn EXCEPT ![c] = p] /\ p.sock = conn[c].sock /\ p.id = conn[c].id
          /\ \A f \in ToSet(stack') : CallOK(f)'
          /\ told[c].close = "done" => told'[c].close = "done"
          /\ backlog' = backlog /\ table' = table
      BY <1>2, <1>3, <1>6, <1>9, <1>10, <1>11 DEF p
    <2> QED
      BY <1>0, <1>3, <1>9, <1>13, <1>14, <1>15, <2>1, LifeHere
  <1>17. AllHeard'
    <2>1. \A d \in Conns : Gone(d) => Gone(d)'
      BY <1>2 DEF Gone
    <2>2. Heard(conn'[c], ioList'[conn'[c].sock], OpeningNow(c)', Gone(c)')
      BY <1>10, <1>13 DEF Heard
    <2> QED
      BY <1>0, <1>2, <1>3, <1>13, <2>1, <2>2, HeardHere
  <1> QED
    BY <1>13, <1>16, <1>17 DEF IInv

-----------------------------------------------------------------------------
(* OnConnect ends: epoll is told of the connection, or has failed to take  *)
(* it.                                                                     *)
LEMMA MonitorSteps ==
  ASSUME IInv, Monitor \/ AddMonitorFails
  PROVE  IInv'
  <1>0. TypeOK /\ LifeInv /\ AllHeard /\ \A d \in Conns : Streams(conn[d])
    BY DEF IInv
  <1>1. PICK c \in Conns : c = Top.conn
    BY <1>0, TopIs DEF Monitor, AddMonitorFails, In
  <1> DEFINE o == conn[c]
             o1 == Release(o, 1)
             w == [o1 EXCEPT !.watched = TRUE]
  <1>2. /\ stack # <<>> /\ Top.kind = "monitor" /\ stack' = Tail(stack)
        /\ UNCHANGED <<peer, backlog, edge, table, ioList, turns, pc, kept, stop, told>>
    BY DEF Monitor, AddMonitorFails, In
  <1>3. /\ stack' \in Seq(Frames) /\ OthersCalls(c) /\ Nested(stack')
        /\ CallsOf(stack, c) = {Top} /\ CallsOf(stack', c) = {}
        /\ Uses(c, stack) = 1 + Uses(c, stack') /\ Uses(c, stack') \in Nat
        /\ \A f \in ToSet(stack') : CallOK(f)' /\ f.drops >= 1
    <2>1. Top.drops = 1
      BY <1>0, <1>2, TopIs
    <2> QED
      BY <1>0, <1>1, <1>2, <2>1, Popped
  <1>4. ConnOK(c) /\ o.id # None /\ conn[c] \in STNetConnects /\ Streams(conn[c])
    BY <1>0, <1>1, <1>2, HasNumber, NoneElse, Typed DEF LifeInv
  <1>5. \A K \in {Worker, {"close"}, {"connect"}} : ~Doing(stack, K, c) /\ ~Doing(stack', K, c)
    BY <1>2, <1>3 DEF Doing, Worker
  <1>6. \A K : ~Doing(stack', K, c)
    BY <1>3 DEF Doing
  <1> DEFINE u == IF c \in kept THEN 1 ELSE 0
             v == IF o.sock # None THEN 2 ELSE 0
  <1>7. o.useCount = v + u + Uses(c, stack) /\ u \in Nat /\ v \in Nat /\ o.useCount \in Nat
    BY <1>0, <1>4, CountIs DEF STNetConnects
  <1>8. o.useCount = v + u + 1 + Uses(c, stack') /\ (o.sock # None => v = 2)
    <2> HIDE DEF u
    <2>1. v \in Nat /\ u \in Nat /\ o.useCount = v + u + Uses(c, stack)
      BY <1>7
    <2>2. o.sock # None => v = 2
      OBVIOUS
    <2> HIDE DEF v
    <2> QED
      BY <1>3, <2>1, <2>2
  <1> HIDE DEF u, v
  <1>9. /\ o1 \in STNetConnects /\ Streams(o1) /\ o1.useCount = v + u + Uses(c, stack') /\ o1.id = o.id
        /\ o1 = (IF o.useCount = 1 THEN [Unborn EXCEPT !.id = o.id] ELSE [o EXCEPT !.useCount = @ - 1])
        /\ (o.sock # None => o.useCount # 1)
    <2>1. 1 <= o.useCount /\ o.useCount - 1 = v + u + Uses(c, stack') /\ (o.sock # None => o.useCount # 1)
      BY <1>3, <1>7, <1>8
    <2> QED
      BY <1>4, <2>1, ReleaseIs
  <1> HIDE DEF o1
  <1>10. CASE o.sock # None /\ conn' = [conn EXCEPT ![c] = AddEpollRecv(w)] /\ refused' = refused /\ faults' = faults
    <2>1. /\ w \in STNetConnects /\ Streams(w) /\ w.watched /\ w.useCount = o1.useCount
          /\ w.sock = o.sock /\ w.id = o.id /\ w.connected = o.connected
          /\ w.readCount = o.readCount /\ w.closeCount = o.closeCount /\ SameStream(o, w)
      <3>1. o1 = [o EXCEPT !.useCount = @ - 1]
        BY <1>9, <1>10
      <3>2. w = [[o EXCEPT !.useCount = @ - 1] EXCEPT !.watched = TRUE] /\ w = [o1 EXCEPT !.watched = TRUE]
        BY <3>1
      <3>3. w \in STNetConnects /\ w.useCount = o1.useCount
        BY <1>9, <3>2 DEF STNetConnects
      <3> HIDE DEF w
      <3>4. /\ w.watched /\ w.sock = o.sock /\ w.id = o.id /\ w.connected = o.connected
            /\ w.readCount = o.readCount /\ w.closeCount = o.closeCount /\ SameStream(o, w)
            /\ w.armed = o.armed /\ w.monRecv = o.monRecv
        BY <1>4, <3>2 DEF STNetConnects, SameStream
      <3>5. Streams(w)
        BY <1>4, <3>4 DEF Streams, SameStream
      <3> QED
        BY <3>3, <3>4, <3>5
    <2> DEFINE p == AddEpollRecv(w)
    <2>2. /\ p \in STNetConnects /\ Streams(p) /\ SameLife(w, p) /\ SameStream(w, p)
          /\ p.watched => "in" \in p.armed /\ (p.monSend => "out" \in p.armed)
      <3> HIDE DEF w
      <3> QED
        BY <2>1, AddEpollRecvIs
    <2> HIDE DEF p, w
    <2>3. TypeHere(c, p)
      BY <1>3, <1>10, <2>2 DEF TypeHere, p, w
    <2>4. TypeOK' /\ (\A d \in Conns : Streams(conn'[d])) /\ conn'[c] = p /\ \A d \in Conns \ {c} : conn'[d] = conn[d]
      <3>1. /\ kept' \subseteq Conns /\ faults' \in 0..MaxFaults /\ refused' \subseteq Conns
            /\ told' \in [Conns -> [connect : {"no", "running", "done"}, close : {"no", "running", "done"}]]
        BY <1>0, <1>2, <1>10 DEF TypeOK
      <3> QED
        BY <1>0, <1>2, <2>3, <3>1, TypesHere
    <2>5. ConnOK(c)'
      <3>1. Worker' = Worker /\ Unborn' = Unborn
        BY DEF Worker, Unborn
      <3>2. p.sock = o.sock /\ p.id = o.id /\ p.connected = o.connected
            /\ p.readCount = o.readCount /\ p.closeCount = o.closeCount
        BY <2>1, <2>2 DEF SameLife
      <3> QED
        BY <1>2, <1>4, <1>5, <2>4, <3>1, <3>2 DEF ConnOK
    <2>6. p.useCount = (IF conn[c].sock # None THEN 2 ELSE 0) + (IF c \in kept' THEN 1 ELSE 0) + Uses(c, stack')
      BY <1>2, <1>9, <2>1, <2>2 DEF SameLife, u, v
    <2>7. LifeInv'
      <3>1. /\ \A d \in Conns : (peer'[d].at = "away" <=> peer[d].at = "away")
            /\ \A d \in Conns \ {c} : told'[d] = told[d] /\ (d \in kept' <=> d \in kept)
            /\ conn' = [conn EXCEPT ![c] = p] /\ p.sock = conn[c].sock /\ p.id = conn[c].id /\ p \in STNetConnects
            /\ \A f \in ToSet(stack') : CallOK(f)'
            /\ told[c].close = "done" => told'[c].close = "done"
            /\ backlog' = backlog /\ table' = table
        BY <1>2, <1>3, <1>10, <2>1, <2>2 DEF SameLife, p, w
      <3> QED
        BY <1>0, <1>3, <2>4, <2>5, <2>6, <3>1, LifeHere
    <2>8. AllHeard'
      <3>1. \A d \in Conns : Gone(d) => Gone(d)'
        BY <1>2 DEF Gone
      <3>2. p.watched /\ "in" \in p.armed /\ (p.monSend => "out" \in p.armed) /\ (p.sendBuf # <<>> => p.monSend)
        BY <2>1, <2>2 DEF SameLife, Streams
      <3>3. Heard(conn'[c], ioList'[conn'[c].sock], OpeningNow(c)', Gone(c)')
        BY <2>4, <3>2 DEF Heard
      <3>4. \A d \in Conns \ {c} : conn[d].connected => ioList'[conn[d].sock] = ioList[conn[d].sock]
        BY <1>2
      <3>5. pc' = pc /\ refused \subseteq refused'
        BY <1>2, <1>10
      <3> QED
        BY <1>0, <1>3, <2>4, <3>1, <3>3, <3>4, <3>5, HeardHere
    <2> QED
      BY <2>4, <2>7, <2>8 DEF IInv
  <1>11. CASE /\ conn' = [conn EXCEPT ![c] = o1] /\ faults' \in 0..MaxFaults
              /\ (refused' = refused /\ o.sock = None) \/ (refused' = refused \union {c} /\ o.sock # None)
    <2>1. TypeHere(c, o1)
      BY <1>3, <1>9, <1>11 DEF TypeHere
    <2>2. TypeOK' /\ (\A d \in Conns : Streams(conn'[d])) /\ conn'[c] = o1 /\ \A d \in Conns \ {c} : conn'[d] = conn[d]
      <3>1. /\ kept' \subseteq Conns /\ faults' \in 0..MaxFaults /\ refused' \subseteq Conns
            /\ told' \in [Conns -> [connect : {"no", "running", "done"}, close : {"no", "running", "done"}]]
        BY <1>0, <1>2, <1>11 DEF TypeOK
      <3> QED
        BY <1>0, <1>2, <2>1, <3>1, TypesHere
    <2>3. o1.sock = o.sock /\ o1.connected = o.connected
          /\ (o.sock # None => o1.readCount = o.readCount /\ o1.closeCount = o.closeCount)
      BY <1>4, <1>9 DEF ConnOK, Unborn, STNetConnects
    <2>4. ConnOK(c)'
      <3>1. Worker' = Worker /\ Unborn' = Unborn
        BY DEF Worker, Unborn
      <3>2. conn'[c] = o1 /\ o1.id = o.id /\ told' = told /\ table' = table
        BY <1>2, <1>9, <2>2
      <3>3. CASE o.sock = None
        BY <1>4, <1>5, <2>3, <3>1, <3>2, <3>3 DEF ConnOK
      <3>4. CASE o.sock # None
        BY <1>4, <1>5, <2>3, <3>1, <3>2, <3>4 DEF ConnOK
      <3> QED
        BY <3>3, <3>4
    <2>5. o1.useCount = (IF conn[c].sock # None THEN 2 ELSE 0) + (IF c \in kept' THEN 1 ELSE 0) + Uses(c, stack')
      BY <1>2, <1>9 DEF u, v
    <2>6. LifeInv'
      <3>1. /\ \A d \in Conns : (peer'[d].at = "away" <=> peer[d].at = "away")
            /\ \A d \in Conns \ {c} : told'[d] = told[d] /\ (d \in kept' <=> d \in kept)
            /\ conn' = [conn EXCEPT ![c] = o1] /\ o1.sock = conn[c].sock /\ o1.id = conn[c].id /\ o1 \in STNetConnects
            /\ \A f \in ToSet(stack') : CallOK(f)'
            /\ told[c].close = "done" => told'[c].close = "done"
            /\ backlog' = backlog /\ table' = table
        BY <1>2, <1>3, <1>9, <1>11, <2>3
      <3> QED
        BY <1>0, <1>3, <2>2, <2>4, <2>5, <3>1, LifeHere
    <2>7. AllHeard'
      <3>1. \A d \in Conns : Gone(d) => Gone(d)'
        BY <1>2 DEF Gone
      <3>2. c \notin refused' => Heard(conn'[c], ioList'[conn'[c].sock], OpeningNow(c)', Gone(c)')
        BY <1>4, <1>11, <2>2, <2>3 DEF Heard, ConnOK
      <3>3. \A d \in Conns \ {c} : conn[d].connected => ioList'[conn[d].sock] = ioList[conn[d].sock]
        BY <1>2
      <3>4. pc' = pc /\ refused \subseteq refused'
        BY <1>2, <1>11
      <3> QED
        BY <1>0, <1>3, <2>2, <3>1, <3>2, <3>3, <3>4, HeardHere
    <2> QED
      BY <2>2, <2>6, <2>7 DEF IInv
  <1>12. CASE Monitor
    <2>1. conn' = [conn EXCEPT ![c] = IF o.sock = None THEN o1 ELSE AddEpollRecv(w)] /\ faults' = faults /\ refused' = refused
      BY <1>1, <1>12 DEF Monitor, o1
    <2>2. faults' \in 0..MaxFaults
      BY <1>0, <2>1 DEF TypeOK
    <2>3. CASE o.sock = None
      <3>1. conn' = [conn EXCEPT ![c] = o1]
        BY <2>1, <2>3
      <3> QED
        BY <1>11, <2>1, <2>2, <2>3, <3>1
    <2>4. CASE o.sock # None
      <3>1. conn' = [conn EXCEPT ![c] = AddEpollRecv(w)]
        BY <2>1, <2>4
      <3> QED
        BY <1>10, <2>1, <2>4, <3>1
    <2> QED
      BY <2>3, <2>4
  <1>13. CASE AddMonitorFails
    <2>1. conn' = [conn EXCEPT ![c] = o1] /\ faults' = faults + 1 /\ faults < MaxFaults /\ refused' = refused \union {c}
          /\ o.sock # None
      BY <1>1, <1>13 DEF AddMonitorFails, o1
    <2>2. faults' \in 0..MaxFaults
      BY <1>0, <2>1, STAssumption DEF TypeOK
    <2> QED
      BY <1>11, <2>1, <2>2
  <1> QED
    BY <1>12, <1>13

-----------------------------------------------------------------------------
(* MsgWorker ends; a close that came while OnMsg was running is reported.  *)
LEMMA LeaveWorkerStep ==
  ASSUME IInv, LeaveWorker
  PROVE  IInv'
  <1>0. TypeOK /\ LifeInv /\ AllHeard /\ \A d \in Conns : Streams(conn[d])
    BY DEF IInv
  <1>1. PICK c \in Conns : c = Top.conn
    BY <1>0, TopIs DEF LeaveWorker, In
  <1> DEFINE o == conn[c]
             q == Unread(o)
  <1>2. /\ stack # <<>> /\ Top.kind = "worker"
        /\ UNCHANGED <<peer, backlog, edge, table, ioList, turns, pc, kept, stop, faults, refused>>
        /\ IF ReportsClose(q)
           THEN /\ conn' = [conn EXCEPT ![c] = [q EXCEPT !.closeCount = @ + 1]]
                /\ stack' = <<Frame("close", c, 1)>> \o Tail(stack)
                /\ told' = [told EXCEPT ![c].close = "running"]
           ELSE conn' = [conn EXCEPT ![c] = Release(q, 1)] /\ stack' = Tail(stack) /\ told' = told
    BY <1>1 DEF LeaveWorker, In
  <1>3. ConnOK(c) /\ o.id # None /\ conn[c] \in STNetConnects /\ Streams(conn[c]) /\ Top.drops = 1 /\ Top \in ToSet(stack)
    BY <1>0, <1>1, <1>2, HasNumber, NoneElse, Typed, TopIs DEF LifeInv
  <1>4. Doing(stack, Worker, c)
    BY <1>1, <1>2, <1>3 DEF Doing, CallsOf, Worker
  <1>5. o.readCount >= 1 /\ told[c].connect = "done" /\ told[c].close = "no" /\ o.closeCount = 0 /\ o.readCount \in Nat
        /\ (o.connected => o.readCount = 1)
    BY <1>3, <1>4 DEF ConnOK, STNetConnects
  <1>6. /\ q \in STNetConnects /\ q.readCount = o.readCount - 1 /\ q.sock = o.sock /\ q.id = o.id /\ q.connected = o.connected
        /\ q.closeCount = 0 /\ q.useCount = o.useCount /\ SameStream(o, q) /\ q.armed = o.armed /\ q.monRecv = o.monRecv
        /\ q.watched = o.watched
    <2>1. o.readCount - 1 \in Nat
      BY <1>5
    <2> HIDE DEF o
    <2> QED
      BY <1>3, <1>5, <2>1 DEF Unread, STNetConnects, SameStream, o
  <1>7. Streams(q)
    BY <1>3, <1>6 DEF Streams, SameStream
  <1> HIDE DEF q
  <1> DEFINE u == IF c \in kept THEN 1 ELSE 0
             v == IF o.sock # None THEN 2 ELSE 0
  <1>8. o.useCount = v + u + Uses(c, stack) /\ u \in Nat /\ v \in Nat /\ o.useCount \in Nat
    BY <1>0, <1>3, CountIs DEF STNetConnects
  <1>9. o.sock # None => v = 2
    OBVIOUS
  <1> HIDE DEF u, v
  <1>10. \A d \in Conns : (Gone(d) => Gone(d)') /\ (peer'[d].at = "away" <=> peer[d].at = "away")
    BY <1>2 DEF Gone
  <1>11. /\ kept' \subseteq Conns /\ faults' \in 0..MaxFaults /\ refused' \subseteq Conns
    BY <1>0, <1>2 DEF TypeOK
  <1>12. Worker' = Worker /\ Unborn' = Unborn
    BY DEF Worker, Unborn
  <1>13. CASE ReportsClose(q)
    <2> DEFINE p == [q EXCEPT !.closeCount = @ + 1]
               g == Frame("close", c, 1)
    <2>1. o.sock = None /\ ~o.connected
      BY <1>3, <1>6, <1>13 DEF ReportsClose, ConnOK
    <2>2. /\ p \in STNetConnects /\ p.sock = None /\ p.id = o.id /\ ~p.connected /\ p.useCount = o.useCount
          /\ SameStream(q, p) /\ p.armed = q.armed /\ p.monRecv = q.monRecv
      <3>1. q.closeCount + 1 \in Nat
        BY <1>6
      <3> QED
        BY <1>6, <2>1, <3>1 DEF STNetConnects, SameStream
    <2> HIDE DEF p
    <2>3. Streams(p)
      BY <1>7, <2>2 DEF Streams, SameStream
    <2>4. g \in Frames /\ g.kind = "close" /\ g.conn = c /\ g.drops = 1
      BY DEF Frame, Frames, Handlers
    <2> HIDE DEF g
    <2>5. stack' = <<g>> \o Tail(stack) /\ conn' = [conn EXCEPT ![c] = p] /\ told' = [told EXCEPT ![c].close = "running"]
      BY <1>2, <1>13 DEF g, p
    <2>6. /\ stack' \in Seq(Frames) /\ OthersCalls(c) /\ Nested(stack')
          /\ CallsOf(stack, c) = {Top} /\ CallsOf(stack', c) = {g}
          /\ Uses(c, stack') = Uses(c, stack)
          /\ ToSet(stack') = {g} /\ Top' = g
      BY <1>0, <1>1, <1>2, <2>4, <2>5, Replaced
    <2>7. told' \in [Conns -> [connect : {"no", "running", "done"}, close : {"no", "running", "done"}]]
          /\ told'[c].close = "running" /\ told'[c].connect = "done" /\ \A d \in Conns \ {c} : told'[d] = told[d]
      BY <1>0, <1>5, <2>5, Typed
    <2>8. TypeOK' /\ (\A d \in Conns : Streams(conn'[d])) /\ conn'[c] = p /\ \A d \in Conns \ {c} : conn'[d] = conn[d]
      <3>1. TypeHere(c, p)
        BY <2>2, <2>3, <2>5, <2>6 DEF TypeHere
      <3> QED
        BY <1>0, <1>2, <1>11, <2>7, <3>1, TypesHere
    <2>9. ConnOK(c)'
      <3>1. \A K \in {Worker, {"connect"}} : ~Doing(stack', K, c)
        BY <2>4, <2>6 DEF Doing, Worker
      <3>2. Doing(stack', {"close"}, c)
        BY <2>4, <2>6 DEF Doing
      <3> QED
        BY <1>3, <1>12, <2>2, <2>7, <2>8, <3>1, <3>2 DEF ConnOK
    <2>10. p.useCount = (IF conn[c].sock # None THEN 2 ELSE 0) + (IF c \in kept' THEN 1 ELSE 0) + Uses(c, stack')
      BY <1>2, <1>8, <2>2, <2>6 DEF u, v
    <2>11. \A f \in ToSet(stack') : CallOK(f)'
      BY <2>4, <2>6 DEF CallOK
    <2>12. LifeInv'
      <3>1. /\ \A d \in Conns \ {c} : told'[d] = told[d] /\ (d \in kept' <=> d \in kept)
            /\ p.sock = conn[c].sock /\ p.id = conn[c].id
            /\ told[c].close = "done" => told'[c].close = "done"
            /\ backlog' = backlog /\ table' = table
        BY <1>2, <1>5, <2>1, <2>2, <2>7
      <3> QED
        BY <1>0, <1>10, <2>2, <2>5, <2>6, <2>8, <2>9, <2>10, <2>11, <3>1, LifeHere
    <2>13. AllHeard'
      <3>1. Heard(conn'[c], ioList'[conn'[c].sock], OpeningNow(c)', Gone(c)')
        BY <2>2, <2>8 DEF Heard
      <3> QED
        BY <1>0, <1>2, <1>10, <2>6, <2>8, <3>1, HeardHere
    <2> QED
      BY <2>8, <2>12, <2>13 DEF IInv
  <1>14. CASE ~ReportsClose(q)
    <2> DEFINE p == Release(q, 1)
    <2>1. /\ stack' \in Seq(Frames) /\ OthersCalls(c) /\ Nested(stack')
          /\ CallsOf(stack, c) = {Top} /\ CallsOf(stack', c) = {}
          /\ Uses(c, stack) = 1 + Uses(c, stack') /\ Uses(c, stack') \in Nat
          /\ \A f \in ToSet(stack') : CallOK(f)' /\ f.drops >= 1
      <3>1. stack' = Tail(stack)
        BY <1>2, <1>14
      <3> QED
        BY <1>0, <1>1, <1>2, <1>3, <3>1, Popped
    <2>2. o.connected /\ o.sock # None /\ o.readCount = 1
      BY <1>3, <1>5, <1>6, <1>14 DEF ReportsClose, ConnOK
    <2>3. q.useCount = 2 + u + 1 + Uses(c, stack')
      BY <1>6, <1>8, <1>9, <2>1, <2>2
    <2>4. p \in STNetConnects /\ Streams(p) /\ p = [q EXCEPT !.useCount = @ - 1] /\ p.useCount = 2 + u + Uses(c, stack')
      <3>1. 1 <= q.useCount /\ q.useCount # 1 /\ q.useCount - 1 = 2 + u + Uses(c, stack')
        BY <1>8, <2>1, <2>3
      <3> QED
        BY <1>6, <1>7, <3>1, ReleaseIs
    <2> HIDE DEF p
    <2>5. /\ p.sock = o.sock /\ p.id = o.id /\ p.connected = o.connected /\ p.closeCount = o.closeCount /\ p.readCount = 0
          /\ SameStream(o, p) /\ p.armed = o.armed /\ p.watched = o.watched
      <3>1. /\ p.sock = q.sock /\ p.id = q.id /\ p.connected = q.connected /\ p.closeCount = q.closeCount
            /\ p.readCount = q.readCount /\ SameStream(q, p) /\ p.armed = q.armed /\ p.watched = q.watched
        BY <1>6, <2>4 DEF STNetConnects, SameStream
      <3>2. q.readCount = 0
        BY <1>6, <2>2
      <3> QED
        BY <1>5, <1>6, <3>1, <3>2 DEF SameStream
    <2>6. conn' = [conn EXCEPT ![c] = p] /\ told' = told
      BY <1>2, <1>14 DEF p
    <2>7. TypeOK' /\ (\A d \in Conns : Streams(conn'[d])) /\ conn'[c] = p /\ \A d \in Conns \ {c} : conn'[d] = conn[d]
      <3>1. TypeHere(c, p)
        BY <2>1, <2>4, <2>6 DEF TypeHere
      <3>2. told' \in [Conns -> [connect : {"no", "running", "done"}, close : {"no", "running", "done"}]]
        BY <1>0, <2>6, Typed
      <3> QED
        BY <1>0, <1>2, <1>11, <3>1, <3>2, TypesHere
    <2>8. ConnOK(c)'
      <3>1. \A K : ~Doing(stack', K, c)
        BY <2>1 DEF Doing
      <3>2. \A K \in {{"connect"}, {"close"}} : ~Doing(stack, K, c)
        BY <1>2, <2>1 DEF Doing
      <3>3. conn'[c] = p /\ told' = told /\ table' = table
        BY <1>2, <2>6, <2>7
      <3>4. o.id = o.sock /\ table[o.sock] = c
        BY <1>3, <2>2 DEF ConnOK
      <3>5. told[c].close # "running" /\ told[c].connect \notin {"no", "running"}
        BY <1>5
      <3>6. /\ p.connected /\ p.sock # None /\ p.id = p.sock /\ table[p.sock] = c /\ p.id # None
            /\ p.readCount <= 1 /\ p.readCount # 1 /\ p.closeCount = 0
        BY <1>3, <1>5, <2>2, <2>5, <3>4
      <3> QED
        BY <1>5, <1>12, <3>1, <3>3, <3>5, <3>6 DEF ConnOK
    <2>9. p.useCount = (IF conn[c].sock # None THEN 2 ELSE 0) + (IF c \in kept' THEN 1 ELSE 0) + Uses(c, stack')
      BY <1>2, <2>2, <2>4 DEF u
    <2>10. LifeInv'
      <3>1. /\ \A d \in Conns \ {c} : told'[d] = told[d] /\ (d \in kept' <=> d \in kept)
            /\ p.sock = conn[c].sock /\ p.id = conn[c].id
            /\ told[c].close = "done" => told'[c].close = "done"
            /\ backlog' = backlog /\ table' = table
            /\ \A f \in ToSet(stack') : CallOK(f)'
        BY <1>2, <2>1, <2>5, <2>6
      <3> QED
        BY <1>0, <1>10, <2>1, <2>4, <2>6, <2>7, <2>8, <2>9, <3>1, LifeHere
    <2>11. AllHeard'
      <3>1. ~OpeningNow(c)
        BY <1>2, <2>1 DEF OpeningNow, Doing
      <3>2. Heard(conn[c], ioList[conn[c].sock], OpeningNow(c), Gone(c)) =>
              Heard(conn'[c], ioList'[conn'[c].sock], OpeningNow(c)', Gone(c)')
        BY <1>2, <1>10, <2>5, <2>7, <3>1 DEF Heard, SameStream
      <3> QED
        BY <1>0, <1>2, <1>10, <2>1, <2>7, <3>2, HeardHere
    <2> QED
      BY <2>7, <2>10, <2>11 DEF IInv
  <1> QED
    BY <1>13, <1>14

-----------------------------------------------------------------------------
(* The hosts the server keeps.                                             *)
LEMMA SameStackOthers == ASSUME stack' = stack, NEW c \in Conns PROVE OthersCalls(c)
  BY DEF OthersCalls

(* The calls in progress stay what they have to be.                        *)
LEMMA CallsSame ==
  ASSUME TypeOK, LifeInv, stack' = stack, NEW c \in Conns, conn[c].connected => conn'[c].connected,
         \A d \in Conns \ {c} : conn'[d] = conn[d]
  PROVE  \A f \in ToSet(stack') : CallOK(f)'
  <1> SUFFICES ASSUME NEW f \in ToSet(stack) PROVE CallOK(f)'
    OBVIOUS
  <1>1. CallOK(f) /\ f.conn \in Conns
    <2>1. stack \in Seq(Frames)
      BY Typed
    <2>2. f \in Frames
      BY <2>1, CallsType
    <2> QED
      BY <2>2 DEF LifeInv, Frames
  <1> QED
    BY <1>1 DEF CallOK, Top

(* A handler keeps a host, one use more.                                   *)
LEMMA KeepHostStep ==
  ASSUME IInv, KeepHost
  PROVE  IInv'
  <1>0. TypeOK /\ LifeInv /\ AllHeard /\ \A d \in Conns : Streams(conn[d])
    BY DEF IInv
  <1>1. PICK c \in Conns : c = Top.conn
    BY <1>0, TopIs DEF KeepHost, In
  <1> DEFINE o == conn[c]
             p == [o EXCEPT !.useCount = @ + 1]
  <1>2. /\ stack # <<>> /\ c \notin kept /\ kept' = kept \union {c}
        /\ conn' = [conn EXCEPT ![c].useCount = @ + 1]
        /\ UNCHANGED <<peer, backlog, edge, table, ioList, turns, pc, stack, stop, faults, refused, told>>
    BY <1>1 DEF KeepHost, In
  <1>3. ConnOK(c) /\ o.id # None /\ o \in STNetConnects /\ Streams(o) /\ conn \in [Conns -> STNetConnects]
    BY <1>0, <1>1, <1>2, HasNumber, NoneElse, Typed DEF LifeInv
  <1>4. /\ p \in STNetConnects /\ p.sock = o.sock /\ p.id = o.id /\ p.connected = o.connected /\ p.closeCount = o.closeCount
        /\ p.readCount = o.readCount /\ SameStream(o, p) /\ p.armed = o.armed /\ p.watched = o.watched
        /\ p.monRecv = o.monRecv /\ p.useCount = o.useCount + 1
    <2>1. o.useCount + 1 \in Nat
      BY <1>3 DEF STNetConnects
    <2> HIDE DEF o
    <2> QED
      BY <1>3, <2>1 DEF STNetConnects, SameStream
  <1>5. conn' = [conn EXCEPT ![c] = p]
    BY <1>2, <1>3
  <1> HIDE DEF p
  <1>6. Streams(p)
    BY <1>3, <1>4 DEF Streams, SameStream
  <1>7. TypeOK' /\ (\A d \in Conns : Streams(conn'[d])) /\ conn'[c] = p /\ \A d \in Conns \ {c} : conn'[d] = conn[d]
    <2>1. TypeHere(c, p) /\ kept' \subseteq Conns /\ faults' \in 0..MaxFaults /\ refused' \subseteq Conns
          /\ told' \in [Conns -> [connect : {"no", "running", "done"}, close : {"no", "running", "done"}]]
      BY <1>0, <1>2, <1>4, <1>5, <1>6, Typed DEF TypeHere, TypeOK
    <2> QED
      BY <1>0, <1>2, <2>1, TypesHere
  <1>8. OthersCalls(c)
    BY <1>2, SameStackOthers
  <1>9. ConnOK(c)'
    <2>1. Worker' = Worker /\ Unborn' = Unborn /\ \A K : Doing(stack', K, c) <=> Doing(stack, K, c)
      BY <1>2 DEF Worker, Unborn
    <2>2. conn'[c] = p /\ told' = told /\ table' = table
      BY <1>2, <1>7
    <2> QED
      BY <1>3, <1>4, <2>1, <2>2 DEF ConnOK
  <1>10. p.useCount = (IF conn[c].sock # None THEN 2 ELSE 0) + (IF c \in kept' THEN 1 ELSE 0) + Uses(c, stack')
    <2> DEFINE v == IF conn[c].sock # None THEN 2 ELSE 0
    <2>1. o.useCount = v + 0 + Uses(c, stack) /\ Uses(c, stack) \in Nat /\ v \in Nat
      BY <1>0, <1>2, CountIs
    <2> HIDE DEF v
    <2>2. p.useCount = v + 1 + Uses(c, stack)
      BY <1>4, <2>1
    <2> QED
      BY <1>2, <2>2 DEF v
  <1>11. LifeInv'
    <2>1. /\ \A d \in Conns : (peer'[d].at = "away" <=> peer[d].at = "away")
          /\ \A d \in Conns \ {c} : told'[d] = told[d] /\ (d \in kept' <=> d \in kept)
          /\ p.sock = conn[c].sock /\ p.id = conn[c].id
          /\ told[c].close = "done" => told'[c].close = "done"
          /\ backlog' = backlog /\ table' = table
          /\ Nested(stack')
      BY <1>0, <1>2, <1>4 DEF LifeInv
    <2>2. \A f \in ToSet(stack') : CallOK(f)'
      BY <1>0, <1>2, <1>4, <1>7, CallsSame
    <2> QED
      BY <1>0, <1>4, <1>5, <1>7, <1>8, <1>9, <1>10, <2>1, <2>2, LifeHere
  <1>12. AllHeard'
    <2>1. \A d \in Conns : (Gone(d)' <=> Gone(d)) /\ (OpeningNow(d)' <=> OpeningNow(d))
      BY <1>2 DEF Gone, OpeningNow
    <2>2. Heard(conn[c], ioList[conn[c].sock], OpeningNow(c), Gone(c)) =>
            Heard(conn'[c], ioList'[conn'[c].sock], OpeningNow(c)', Gone(c)')
      BY <1>2, <1>4, <1>7, <2>1 DEF Heard, SameStream
    <2> QED
      BY <1>0, <1>2, <1>7, <1>8, <2>1, <2>2, HeardHere
  <1> QED
    BY <1>7, <1>11, <1>12 DEF IInv

(* A handler drops a host it has kept; the object may have had its last    *)
(* use.                                                                    *)
LEMMA DropHostStep ==
  ASSUME IInv, NEW c \in Conns, DropHost(c)
  PROVE  IInv'
  <1>0. TypeOK /\ LifeInv /\ AllHeard /\ \A d \in Conns : Streams(conn[d])
    BY DEF IInv
  <1> DEFINE o == conn[c]
             p == Release(o, 1)
  <1>2. /\ c \in kept /\ kept' = kept \ {c}
        /\ conn' = [conn EXCEPT ![c] = p]
        /\ UNCHANGED <<peer, backlog, edge, table, ioList, turns, pc, stack, stop, faults, refused, told>>
    BY DEF DropHost
  <1>3. ConnOK(c) /\ o.id # None /\ o \in STNetConnects /\ Streams(o) /\ conn \in [Conns -> STNetConnects]
    BY <1>0, <1>2, HasNumber, NoneElse, Typed DEF LifeInv
  <1> DEFINE v == IF conn[c].sock # None THEN 2 ELSE 0
  <1>4. o.useCount = v + 1 + Uses(c, stack) /\ Uses(c, stack) \in Nat /\ v \in Nat /\ (o.sock # None => v = 2)
        /\ o.useCount \in Nat
    BY <1>0, <1>2, <1>3, CountIs DEF STNetConnects
  <1> HIDE DEF v
  <1>5. /\ p \in STNetConnects /\ Streams(p) /\ p.useCount = v + Uses(c, stack) /\ p.id = o.id
        /\ p = (IF o.useCount = 1 THEN [Unborn EXCEPT !.id = o.id] ELSE [o EXCEPT !.useCount = @ - 1])
    <2>1. 1 <= o.useCount /\ o.useCount - 1 = v + Uses(c, stack)
      BY <1>4
    <2> QED
      BY <1>3, <2>1, ReleaseIs
  <1>6. o.useCount = 1 => Uses(c, stack) = 0 /\ o.sock = None
    BY <1>4
  <1> HIDE DEF p
  <1>7. TypeOK' /\ (\A d \in Conns : Streams(conn'[d])) /\ conn'[c] = p /\ \A d \in Conns \ {c} : conn'[d] = conn[d]
    <2>1. TypeHere(c, p) /\ kept' \subseteq Conns /\ faults' \in 0..MaxFaults /\ refused' \subseteq Conns
          /\ told' \in [Conns -> [connect : {"no", "running", "done"}, close : {"no", "running", "done"}]]
      BY <1>0, <1>2, <1>5, Typed DEF TypeHere, TypeOK
    <2> QED
      BY <1>0, <1>2, <2>1, TypesHere
  <1>8. OthersCalls(c)
    BY <1>2, SameStackOthers
  <1>9. p.sock = o.sock /\ p.connected = o.connected
    BY <1>3, <1>5, <1>6 DEF ConnOK, Unborn, STNetConnects
  <1>10. ConnOK(c)'
    <2>1. Worker' = Worker /\ Unborn' = Unborn /\ \A K : Doing(stack', K, c) <=> Doing(stack, K, c)
      BY <1>2 DEF Worker, Unborn
    <2>2. conn'[c] = p /\ told' = told /\ table' = table
      BY <1>2, <1>7
    <2>3. CASE o.useCount = 1
      <3>1. \A K : ~Doing(stack, K, c)
        <4>1. stack \in Seq(Frames) /\ \A f \in ToSet(stack) : f.drops >= 1
          BY <1>0, Typed, DropsOK
        <4> QED
          BY <1>6, <2>3, <4>1, Unused
      <3>2. o.sock = None /\ told[c].close \notin {"no", "running"} /\ ~o.connected
        BY <1>3, <1>6, <2>3, <3>1 DEF ConnOK
      <3> QED
        BY <1>3, <1>5, <1>9, <2>1, <2>2, <3>1, <3>2 DEF ConnOK
    <2>4. CASE o.useCount # 1
      <3>1. p.readCount = o.readCount /\ p.closeCount = o.closeCount
        BY <1>3, <1>5, <2>4 DEF STNetConnects
      <3> QED
        BY <1>3, <1>5, <1>9, <2>1, <2>2, <3>1 DEF ConnOK
    <2> QED
      BY <2>3, <2>4
  <1>11. p.useCount = (IF conn[c].sock # None THEN 2 ELSE 0) + (IF c \in kept' THEN 1 ELSE 0) + Uses(c, stack')
    <2>1. p.useCount = v + 0 + Uses(c, stack)
      BY <1>4, <1>5
    <2> QED
      BY <1>2, <2>1 DEF v
  <1>12. LifeInv'
    <2>1. /\ \A d \in Conns : (peer'[d].at = "away" <=> peer[d].at = "away")
          /\ \A d \in Conns \ {c} : told'[d] = told[d] /\ (d \in kept' <=> d \in kept)
          /\ p.sock = conn[c].sock /\ p.id = conn[c].id
          /\ told[c].close = "done" => told'[c].close = "done"
          /\ backlog' = backlog /\ table' = table
          /\ Nested(stack')
      BY <1>0, <1>2, <1>5, <1>9 DEF LifeInv
    <2>2. \A f \in ToSet(stack') : CallOK(f)'
      BY <1>0, <1>2, <1>7, <1>9, CallsSame
    <2> QED
      BY <1>0, <1>2, <1>5, <1>7, <1>8, <1>10, <1>11, <2>1, <2>2, LifeHere
  <1>13. AllHeard'
    <2>1. \A d \in Conns : (Gone(d)' <=> Gone(d)) /\ (OpeningNow(d)' <=> OpeningNow(d))
      BY <1>2 DEF Gone, OpeningNow
    <2>2. o.connected => p = [o EXCEPT !.useCount = @ - 1]
      BY <1>3, <1>5, <1>6 DEF ConnOK
    <2>3. o.connected => SameStream(o, p) /\ p.armed = o.armed /\ p.watched = o.watched
      BY <1>3, <2>2 DEF STNetConnects, SameStream
    <2>4. Heard(conn[c], ioList[conn[c].sock], OpeningNow(c), Gone(c)) =>
            Heard(conn'[c], ioList'[conn'[c].sock], OpeningNow(c)', Gone(c)')
      BY <1>2, <1>7, <1>9, <2>1, <2>3 DEF Heard, SameStream
    <2> QED
      BY <1>0, <1>2, <1>7, <1>8, <2>1, <2>4, HeardHere
  <1> QED
    BY <1>7, <1>12, <1>13 DEF IInv

-----------------------------------------------------------------------------
(* A connection is closed.                                                 *)
LEMMA CloseOthers ==
  ASSUME TypeOK, LifeInv, NEW c \in Conns, NEW o, NEW more, NEW rest, Closable(c, o, more, rest),
         CloseConnect(c, o, more, rest)
  PROVE  OthersCalls(c)
  <1> DEFINE now == Notifies(o)
             g == Frame("close", c, 1 + more)
  <1>a. stack' = (IF now THEN <<g>> \o rest ELSE rest) /\ g \in Frames
    BY Closed
  <1>b. rest \in Seq(Frames) /\ SameCalls(c, rest) /\ g.conn = c
    BY DEF Closable, Frame
  <1> HIDE DEF now, g
  <1> SUFFICES ASSUME NEW d \in Conns \ {c}
               PROVE  CallsOf(stack', d) = CallsOf(stack, d) /\ Uses(d, stack') = Uses(d, stack)
    BY DEF OthersCalls
  <1>1. CallsOf(rest, d) = CallsOf(stack, d) /\ Uses(d, rest) = Uses(d, stack)
    BY <1>b DEF SameCalls
  <1>2. CASE now
    <2>1. stack' = <<g>> \o rest
      BY <1>a, <1>2
    <2>2. CallsOf(<<g>> \o rest, d) = (IF g.conn = d THEN {g} ELSE {}) \union CallsOf(rest, d)
      BY <1>a, <1>b, CallsOfPush
    <2>3. Uses(d, <<g>> \o rest) = UsedBy(d, g) + Uses(d, rest) /\ Uses(d, rest) \in Nat
      BY <1>a, <1>b, UsesPush
    <2>4. UsedBy(d, g) = 0
      BY <1>b DEF UsedBy
    <2>5. Uses(d, <<g>> \o rest) = Uses(d, rest)
      BY <2>3, <2>4
    <2> QED
      BY <1>b, <1>1, <2>1, <2>2, <2>5
  <1>3. CASE ~now
    BY <1>a, <1>1, <1>3
  <1> QED
    BY <1>2, <1>3

(* CloseConnect, whoever calls it, keeps the invariant.                    *)
LEMMA CloseStep ==
  ASSUME IInv, NEW c \in Conns, NEW o, NEW more, NEW rest, Closable(c, o, more, rest),
         CloseConnect(c, o, more, rest), UNCHANGED <<backlog, edge, pc, kept, stop, refused>>,
         peer' \in [Conns -> Sent], \A d \in Conns : peer'[d].at = peer[d].at,
         ioList' \in [Fds -> SUBSET {"r", "w"}], turns' \subseteq Fds \X {"r", "w"}, faults' \in 0..MaxFaults,
         \A f \in Fds : f # conn[c].sock => ioList'[f] = ioList[f]
  PROVE  IInv'
  <1> DEFINE p == conn'[c]
             now == Notifies(o)
             g == Frame("close", c, 1 + more)
  <1>0. TypeOK /\ LifeInv /\ AllHeard /\ \A d \in Conns : Streams(conn[d])
    BY DEF IInv
  <1>1. /\ conn' = [conn EXCEPT ![c] = p] /\ p \in STNetConnects /\ Streams(p) /\ ~p.connected
        /\ table' = [table EXCEPT ![conn[c].sock] = None]
        /\ told' = (IF now THEN [told EXCEPT ![c].close = "running"] ELSE told)
        /\ stack' = (IF now THEN <<g>> \o rest ELSE rest)
        /\ g \in Frames
    BY <1>0, Closed
  <1>2. rest \in Seq(Frames) /\ conn[c].sock # None /\ SameCalls(c, rest) /\ g.conn = c
    BY DEF Closable, Frame
  <1> HIDE DEF p, now, g
  <1>3. p = conn'[c]
    BY DEF p
  <1>4. stack' \in Seq(Frames)
    BY <1>1, <1>2, Front1
  <1>5. conn' \in [Conns -> STNetConnects] /\ \A d \in Conns \ {c} : conn'[d] = conn[d]
    BY <1>0, <1>1, Typed
  <1>6. told' \in [Conns -> [connect : {"no", "running", "done"}, close : {"no", "running", "done"}]]
    BY <1>0, <1>1, Typed
  <1>7. table' \in [Fds -> Conns \union {None}]
    BY <1>0, <1>1, Typed
  <1>8. TypeOK'
    BY <1>0, <1>4, <1>5, <1>6, <1>7 DEF TypeOK, Frames, Sent
  <1>9. \A d \in Conns : Streams(conn'[d])
    BY <1>0, <1>1, <1>3, <1>5
  <1>10. LifeInv'
    BY <1>0, <1>8, CloseKeepsLife
  <1>11. OthersCalls(c)
    BY <1>0, CloseOthers
  <1>12. AllHeard'
    <2>1. \A d \in Conns : Gone(d) => Gone(d)'
      BY DEF Gone
    <2>2. Heard(conn'[c], ioList'[conn'[c].sock], OpeningNow(c)', Gone(c)')
      BY <1>1, <1>3 DEF Heard
    <2>3. ASSUME NEW d \in Conns \ {c}, conn[d].connected PROVE ioList'[conn[d].sock] = ioList[conn[d].sock]
      <3>1. conn[d].sock \in Fds /\ table[conn[d].sock] = d /\ table[conn[c].sock] = c
        BY <1>0, <1>2, <2>3, Typed DEF LifeInv, ConnOK, STNetConnects
      <3>2. conn[d].sock # conn[c].sock
        BY <3>1
      <3> QED
        BY <3>1, <3>2
    <2> QED
      BY <1>0, <1>5, <1>11, <2>1, <2>2, <2>3, HeardHere
  <1> QED
    BY <1>8, <1>9, <1>10, <1>12 DEF IInv

(* The heart beat, a handler and a failing epoll_ctl call it.              *)
LEMMA CloseSteps ==
  ASSUME IInv, (\E c \in Conns : HeartMonitor(c) \/ Close(c)) \/ AddRecvFails
  PROVE  IInv'
  <1>0. TypeOK /\ LifeInv /\ \A d \in Conns : Streams(conn[d])
    BY DEF IInv
  <1>1. peer \in [Conns -> Sent] /\ ioList \in [Fds -> SUBSET {"r", "w"}] /\ turns \subseteq Fds \X {"r", "w"}
        /\ faults \in 0..MaxFaults
    BY <1>0 DEF TypeOK, Sent
  <1>2. UNCHANGED <<peer, backlog, edge, ioList, turns, pc, kept, stop, refused>>
    BY DEF HeartMonitor, Close, AddRecvFails
  <1>3. faults' \in 0..MaxFaults
    BY <1>1, STAssumption DEF HeartMonitor, Close, AddRecvFails
  <1>4. PICK c \in Conns : \E o, more, rest : Closable(c, o, more, rest) /\ CloseConnect(c, o, more, rest)
    <2>1. ASSUME NEW c \in Conns, HeartMonitor(c)
          PROVE  \E o, more, rest : Closable(c, o, more, rest) /\ CloseConnect(c, o, more, rest)
      BY <1>0, <2>1, HeartMonitorClosable
    <2>2. ASSUME NEW c \in Conns, Close(c)
          PROVE  \E d \in Conns : \E o, more, rest : Closable(d, o, more, rest) /\ CloseConnect(d, o, more, rest)
      BY <1>0, <2>2, CloseClosable
    <2>3. ASSUME AddRecvFails
          PROVE  \E d \in Conns : \E o, more, rest : Closable(d, o, more, rest) /\ CloseConnect(d, o, more, rest)
      BY <1>0, <2>3, AddRecvFailsClosable
    <2> QED
      BY <2>1, <2>2, <2>3
  <1>5. PICK o, more, rest : Closable(c, o, more, rest) /\ CloseConnect(c, o, more, rest)
    BY <1>4
  <1> QED
    BY <1>1, <1>2, <1>3, <1>5, CloseStep

-----------------------------------------------------------------------------
(* Data has come.                                                          *)
LEMMA DataTurn ==
  ASSUME TypeOK, LifeInv, \A d \in Conns : Streams(conn[d]), OnData
  PROVE  /\ DataConn \in Conns /\ conn[DataConn].sock = Fd /\ Fd \in Fds /\ Current[2] = "r" /\ stack = <<>>
         /\ peer' \in [Conns -> Sent] /\ \A d \in Conns : peer'[d].at = peer[d].at
         /\ ioList' \in [Fds -> SUBSET {"r", "w"}] /\ turns' \subseteq Fds \X {"r", "w"}
         /\ ioList' = IF Received(DataConn) = RecvMax THEN ioList ELSE [ioList EXCEPT ![Fd] = @ \ {"r"}]
         /\ UNCHANGED <<backlog, edge, pc, kept, stop, faults, refused>>
  <1>1. Turn("r") /\ DataConn # None /\ stack = <<>> /\ Current[2] = "r" /\ Fd \in Fds
    BY CurrentIs DEF OnData, Turn, DataConn
  <1>2. DataConn \in Conns /\ conn[DataConn].sock = Fd
    BY <1>1, DataObjIs
  <1>3. peer \in [Conns -> Sent] /\ peer[DataConn] \in Sent
    BY <1>2 DEF TypeOK, Sent
  <1> DEFINE c == DataConn
             n == Received(DataConn)
  <1>4. n \in Nat /\ n <= peer[c].inbox /\ peer[c].inbox - n \in Nat
    BY <1>2, ReceivedIs
  <1>5. peer' = [peer EXCEPT ![c].inbox = @ - n] /\ NextTurn(n = RecvMax)
        /\ UNCHANGED <<backlog, edge, pc, kept, stop, faults, refused>>
    BY DEF OnData, DataConn
  <1> HIDE DEF n
  <1>6. [peer[c] EXCEPT !.inbox = @ - n] \in Sent /\ [peer[c] EXCEPT !.inbox = @ - n].at = peer[c].at
    BY <1>3, <1>4 DEF Sent
  <1>7. peer' = [peer EXCEPT ![c] = [peer[c] EXCEPT !.inbox = @ - n]]
    BY <1>2, <1>3, <1>5
  <1>8. peer' \in [Conns -> Sent] /\ \A d \in Conns : peer'[d].at = peer[d].at
    BY <1>2, <1>3, <1>6, <1>7
  <1>9. /\ ioList' \in [Fds -> SUBSET {"r", "w"}] /\ turns' \subseteq Fds \X {"r", "w"}
        /\ ioList' = IF n = RecvMax THEN ioList ELSE [ioList EXCEPT ![Fd] = @ \ {"r"}]
    BY <1>1, <1>5 DEF NextTurn, TypeOK
  <1> QED
    BY <1>1, <1>2, <1>5, <1>8, <1>9 DEF n

DataRead(n) ==
  [(IF n = RecvMax THEN DataObj ELSE AddEpollRecv(DataObj)) EXCEPT
     !.readCount = @ + 1, !.useCount = IF DataObj.readCount = 0 THEN @ ELSE @ - 1]

(* OnData closes the connection, or begins MsgWorker.                      *)
LEMMA OnDataCases ==
  ASSUME OnData
  PROVE  \/ CloseConnect(DataConn, DataObj, 1, <<>>)
         \/ /\ conn' = [conn EXCEPT ![DataConn] = DataRead(Received(DataConn))]
            /\ stack' = IF DataObj.readCount = 0 THEN <<Frame("worker", DataConn, 1)>> ELSE <<>>
            /\ UNCHANGED <<table, told>>
  BY DEF OnData, DataConn, DataObj, DataRead

-----------------------------------------------------------------------------
(* The connection after OnData has read: one reader more, and waiting for  *)
(* data again unless more is there to be read.                             *)
LEMMA DataReadIs ==
  ASSUME TypeOK, LifeInv, \A d \in Conns : Streams(conn[d]), Turn("r"), DataConn # None, NEW n
  PROVE  LET p == DataRead(n) IN
         /\ p \in STNetConnects /\ Streams(p) /\ SameConn(DataConn, [p EXCEPT !.readCount = 0])
         /\ p.readCount = 1 /\ p.sock = Fd /\ p.connected /\ p.id = conn[DataConn].id
         /\ p.closeCount = conn[DataConn].closeCount
         /\ p.useCount = conn[DataConn].useCount + 1 /\ p.watched = conn[DataConn].watched
         /\ SameStream(conn[DataConn], p)
         /\ n = RecvMax => p.armed = conn[DataConn].armed
         /\ n # RecvMax /\ p.watched => "in" \in p.armed /\ (p.monSend => "out" \in p.armed)
  <1> DEFINE o == conn[DataConn]
             q == IF n = RecvMax THEN DataObj ELSE AddEpollRecv(DataObj)
             p == DataRead(n)
  <1>1. /\ DataConn \in Conns /\ DataObj \in STNetConnects /\ Streams(DataObj) /\ SameConn(DataConn, DataObj)
        /\ DataObj.useCount = o.useCount + 1 /\ o.sock = Fd /\ o.sock # None
        /\ SameStream(o, DataObj) /\ DataObj.armed = o.armed
        /\ DataObj.watched = o.watched /\ DataObj.monRecv = o.monRecv
        /\ o.readCount = 0 /\ o.connected
    BY DataObjIs
  <1> HIDE DEF o
  <1>2. LET a == AddEpollRecv(DataObj) IN
           /\ a \in STNetConnects /\ Streams(a) /\ SameLife(DataObj, a) /\ SameStream(DataObj, a)
           /\ a.watched => "in" \in a.armed /\ (a.monSend => "out" \in a.armed)
    BY <1>1, AddEpollRecvIs
  <1>3. /\ q \in STNetConnects /\ Streams(q) /\ SameLife(DataObj, q) /\ SameStream(DataObj, q)
        /\ n = RecvMax => q.armed = o.armed
        /\ n # RecvMax /\ q.watched => "in" \in q.armed /\ (q.monSend => "out" \in q.armed)
    BY <1>1, <1>2 DEF SameLife, SameStream
  <1>4. DataObj.readCount = 0 /\ DataObj.sock = Fd /\ DataObj.connected /\ DataObj.id = o.id /\ DataObj.closeCount = o.closeCount
    BY <1>1 DEF SameConn, o
  <1>5. p = [q EXCEPT !.readCount = @ + 1]
    <2>1. p = [q EXCEPT !.readCount = @ + 1, !.useCount = @]
      BY <1>4 DEF DataRead
    <2> HIDE DEF p, q
    <2> QED
      BY <1>3, <2>1 DEF STNetConnects
  <1> HIDE DEF q
  <1>6. q.readCount = 0 /\ q.readCount + 1 = 1
    BY <1>3, <1>4 DEF SameLife
  <1> HIDE DEF p
  <1>7. /\ p \in STNetConnects /\ p.readCount = 1 /\ p.sock = q.sock /\ p.id = q.id /\ p.connected = q.connected
        /\ p.closeCount = q.closeCount /\ p.useCount = q.useCount /\ p.watched = q.watched /\ SameStream(q, p)
        /\ p.armed = q.armed /\ p.monRecv = q.monRecv
    <2>1. p = [q EXCEPT !.readCount = 1]
      BY <1>5, <1>6
    <2> QED
      BY <1>3, <2>1 DEF STNetConnects, SameStream
  <1>8. Streams(p)
    BY <1>3, <1>7 DEF Streams, SameStream
  <1>9. /\ p.sock = Fd /\ p.connected /\ p.id = o.id /\ p.closeCount = o.closeCount /\ p.useCount = o.useCount + 1
        /\ p.watched = o.watched /\ SameStream(o, p)
    BY <1>1, <1>3, <1>4, <1>7 DEF SameLife, SameStream
  <1>10. n # RecvMax /\ p.watched => "in" \in p.armed /\ (p.monSend => "out" \in p.armed)
    BY <1>3, <1>7 DEF SameStream
  <1>11. SameConn(DataConn, [p EXCEPT !.readCount = 0])
    BY <1>1, <1>7, <1>9 DEF SameConn, STNetConnects, o
  <1> QED
    BY <1>1, <1>3, <1>7, <1>8, <1>9, <1>10, <1>11 DEF p, o

(* OnData keeps the invariant.                                             *)
LEMMA OnDataStep == ASSUME IInv, OnData PROVE IInv'
  <1>0. TypeOK /\ LifeInv /\ AllHeard /\ \A d \in Conns : Streams(conn[d])
    BY DEF IInv
  <1>1. /\ DataConn \in Conns /\ conn[DataConn].sock = Fd /\ Fd \in Fds /\ Current[2] = "r" /\ stack = <<>>
        /\ peer' \in [Conns -> Sent] /\ \A d \in Conns : peer'[d].at = peer[d].at
        /\ ioList' \in [Fds -> SUBSET {"r", "w"}] /\ turns' \subseteq Fds \X {"r", "w"}
        /\ ioList' = (IF Received(DataConn) = RecvMax THEN ioList ELSE [ioList EXCEPT ![Fd] = @ \ {"r"}])
        /\ UNCHANGED <<backlog, edge, pc, kept, stop, faults, refused>>
    BY <1>0, DataTurn
  <1>2. Turn("r") /\ DataConn # None
    BY DEF OnData, DataConn
  <1>a. PICK c \in Conns, f \in Fds : c = DataConn /\ f = Fd
    BY <1>1
  <1>3. PICK n : c = DataConn /\ f = Fd /\ n = Received(c)
    BY <1>a
  <1>4. conn[c].sock = f /\ ioList' = (IF n = RecvMax THEN ioList ELSE [ioList EXCEPT ![f] = @ \ {"r"}])
    BY <1>1, <1>3
  <1>5. \A g \in Fds : g # f => ioList'[g] = ioList[g]
    BY <1>0, <1>4 DEF TypeOK
  <1>6. CASE CloseConnect(DataConn, DataObj, 1, <<>>)
    <2>1. Closable(DataConn, DataObj, 1, <<>>)
      BY <1>0, <1>2, OnDataClosable
    <2>2. faults' \in 0..MaxFaults
      BY <1>0, <1>1 DEF TypeOK
    <2>3. Closable(c, DataObj, 1, <<>>) /\ CloseConnect(c, DataObj, 1, <<>>)
      BY <1>3, <1>6, <2>1
    <2> QED
      BY <1>1, <1>4, <1>5, <2>2, <2>3, CloseStep
  <1>7. CASE /\ conn' = [conn EXCEPT ![DataConn] = DataRead(Received(DataConn))]
             /\ stack' = IF DataObj.readCount = 0 THEN <<Frame("worker", DataConn, 1)>> ELSE <<>>
             /\ UNCHANGED <<table, told>>
    <2> DEFINE o == conn[c]
               p == DataRead(n)
               g == Frame("worker", c, 1)
    <2>1. /\ p \in STNetConnects /\ Streams(p)
          /\ p.readCount = 1 /\ p.sock = f /\ p.connected /\ p.id = o.id
          /\ p.closeCount = o.closeCount
          /\ p.useCount = o.useCount + 1 /\ p.watched = o.watched
          /\ SameStream(o, p)
          /\ n = RecvMax => p.armed = o.armed
          /\ n # RecvMax /\ p.watched => "in" \in p.armed /\ (p.monSend => "out" \in p.armed)
      BY <1>0, <1>2, <1>3, DataReadIs
    <2>2. DataObj.readCount = 0 /\ o.connected /\ o.sock # None
      BY <1>0, <1>2, <1>3, DataObjIs DEF SameConn
    <2> HIDE DEF p
    <2>3. conn' = [conn EXCEPT ![c] = p] /\ stack' = <<g>> \o stack
      BY <1>1, <1>3, <1>7, <2>2 DEF p
    <2>4. g \in Frames /\ g.kind = "worker" /\ g.conn = c /\ g.drops = 1
      BY DEF Frame, Frames, Handlers
    <2> HIDE DEF g
    <2>5. stack \in Seq(Frames)
      BY <1>0, Typed
    <2>6. stack' \in Seq(Frames) /\ Top' = g /\ Head(stack') = g
      BY <2>3, <2>4, <2>5, Front1 DEF Top
    <2>7. ToSet(stack') = {g} \union ToSet(stack)
      BY <2>3, <2>4, <2>5, CallsPush
    <2>8. ToSet(stack') = {g}
      BY <1>1, <2>7, CallsNone
    <2>9. Nested(stack')
      <3>1. Nested(stack)
        BY <1>0 DEF LifeInv
      <3>2. Nested(<<g>> \o stack)
        BY <1>1, <2>4, <2>5, <3>1, NestedPush
      <3> QED
        BY <2>3, <3>2
    <2>10. \A d : CallsOf(stack', d) = IF d = c THEN {g} ELSE {}
      BY <2>4, <2>8 DEF CallsOf
    <2>11. \A d : CallsOf(stack, d) = {} /\ Uses(d, stack) = 0
      BY <1>1, CallsOfNone, UsesNone
    <2>12. \A d : Uses(d, stack') = IF d = c THEN 1 ELSE 0
      <3> SUFFICES ASSUME NEW d PROVE Uses(d, stack') = IF d = c THEN 1 ELSE 0
        OBVIOUS
      <3>1. Uses(d, stack') = UsedBy(d, g) + Uses(d, stack)
        BY <2>3, <2>4, <2>5, UsesPush
      <3>2. UsedBy(d, g) = IF d = c THEN 1 ELSE 0
        BY <2>4 DEF UsedBy
      <3> QED
        BY <2>11, <3>1, <3>2
    <2>13. OthersCalls(c)
      BY <2>10, <2>11, <2>12 DEF OthersCalls
    <2>14. conn' \in [Conns -> STNetConnects] /\ conn'[c] = p /\ \A d \in Conns \ {c} : conn'[d] = conn[d]
      BY <1>0, <2>1, <2>3, Typed
    <2>15. TypeOK'
      BY <1>0, <1>1, <1>7, <2>6, <2>14 DEF TypeOK, Frames, Sent
    <2>16. \A d \in Conns : Streams(conn'[d])
      BY <1>0, <2>1, <2>14
    <2>17. ConnOK(c)'
      <3>1. ConnOK(c) /\ \A K : ~Doing(stack, K, c)
        BY <1>0, <2>11 DEF LifeInv, Doing
      <3>2. o.id = o.sock /\ table[o.sock] = c /\ told[c].close = "no" /\ o.closeCount = 0 /\ o.id # None
            /\ told[c].connect \notin {"no", "running"}
        BY <2>2, <3>1 DEF ConnOK
      <3>3. told[c].connect = "done"
        BY <1>0, <3>2, Typed
      <3>4. Doing(stack', Worker, c) /\ ~Doing(stack', {"connect"}, c) /\ ~Doing(stack', {"close"}, c)
        BY <2>4, <2>10 DEF Doing, Worker
      <3>5. Worker' = Worker /\ Unborn' = Unborn /\ told' = told /\ table' = table
        BY <1>7 DEF Worker, Unborn
      <3>6. /\ p.connected /\ p.sock # None /\ p.id = p.sock /\ table[p.sock] = c /\ p.id # None
            /\ p.readCount <= 1 /\ p.readCount >= 1 /\ p.closeCount = 0
        BY <1>4, <2>1, <2>2, <3>2
      <3> QED
        BY <2>14, <3>2, <3>3, <3>4, <3>5, <3>6 DEF ConnOK
    <2>18. p.useCount = (IF conn[c].sock # None THEN 2 ELSE 0) + (IF c \in kept' THEN 1 ELSE 0) + Uses(c, stack')
      <3> DEFINE u == IF c \in kept THEN 1 ELSE 0
      <3>1. o.useCount = 2 + u + 0 /\ u \in Nat
        BY <1>0, <2>2, <2>11, CountIs
      <3> HIDE DEF u
      <3>2. p.useCount = 2 + u + 1
        BY <2>1, <3>1
      <3> QED
        BY <1>1, <2>2, <2>12, <3>2 DEF u
    <2>19. LifeInv'
      <3>1. /\ \A d \in Conns : (peer'[d].at = "away" <=> peer[d].at = "away")
            /\ \A d \in Conns \ {c} : told'[d] = told[d] /\ (d \in kept' <=> d \in kept)
            /\ p.sock = conn[c].sock /\ p.id = conn[c].id
            /\ told[c].close = "done" => told'[c].close = "done"
            /\ backlog' = backlog /\ table' = table
        BY <1>1, <1>4, <1>7, <2>1
      <3>2. \A h \in ToSet(stack') : CallOK(h)'
        BY <2>1, <2>4, <2>6, <2>8, <2>14 DEF CallOK
      <3> QED
        BY <1>0, <2>1, <2>3, <2>9, <2>13, <2>15, <2>17, <2>18, <3>1, <3>2, LifeHere
    <2>20. AllHeard'
      <3>1. \A d \in Conns : Gone(d)' <=> Gone(d)
        BY <1>1 DEF Gone
      <3>2. ASSUME NEW d \in Conns \ {c}, conn[d].connected PROVE ioList'[conn[d].sock] = ioList[conn[d].sock]
        <4>1. conn[d].sock \in Fds /\ table[conn[d].sock] = d /\ table[conn[c].sock] = c
          BY <1>0, <2>2, <3>2, Typed DEF LifeInv, ConnOK, STNetConnects
        <4>2. conn[d].sock # f
          BY <1>4, <4>1
        <4> QED
          BY <1>5, <4>1, <4>2
      <3>3. ~OpeningNow(c)
        BY <2>11 DEF OpeningNow, Doing
      <3>4. ASSUME Heard(conn[c], ioList[conn[c].sock], OpeningNow(c), Gone(c))
            PROVE  Heard(conn'[c], ioList'[conn'[c].sock], OpeningNow(c)', Gone(c)')
        <4>1. o.watched /\ p.watched /\ (p.sendBuf # <<>> => p.monSend) /\ ("in" \in o.armed \/ "r" \in ioList[f])
          BY <1>4, <2>1, <2>2, <3>3, <3>4 DEF Heard, Streams
        <4>2. CASE n = RecvMax
          BY <1>4, <2>1, <2>2, <2>14, <3>1, <3>3, <3>4, <4>1, <4>2 DEF Heard, SameStream
        <4>3. CASE n # RecvMax
          BY <2>1, <2>14, <4>1, <4>3 DEF Heard
        <4> QED
          BY <4>2, <4>3
      <3> QED
        BY <1>0, <1>1, <2>13, <2>14, <3>1, <3>2, <3>4, HeardHere
    <2> QED
      BY <2>15, <2>16, <2>19, <2>20 DEF IInv
  <1> QED
    BY <1>6, <1>7, OnDataCases

-----------------------------------------------------------------------------
(* A connection is accepted: nobody has its number, and the numbers of     *)
(* others that had it before lead to them no longer, as they are closed.   *)
LEMMA BornOK ==
  ASSUME NEW f \in Fds
  PROVE  /\ Born(f) \in STNetConnects /\ Streams(Born(f)) /\ Born(f).sock = f /\ Born(f).id = f /\ Born(f).connected
         /\ Born(f).useCount = 3 /\ Born(f).readCount = 0 /\ Born(f).closeCount = 0
         /\ Born(f).sendBuf = <<>>
  <1>1. /\ Born(f) \in STNetConnects /\ Born(f).sock = f /\ Born(f).id = f /\ Born(f).connected
        /\ Born(f).useCount = 3 /\ Born(f).readCount = 0 /\ Born(f).closeCount = 0
        /\ SameStream(Unborn, Born(f)) /\ Born(f).armed = {} /\ Unborn.sendBuf = <<>>
    BY UnbornOK DEF Born, STNetConnects, SameStream, Unborn
  <1>2. Streams(Born(f))
    BY <1>1, UnbornOK DEF Streams, SameStream
  <1> QED
    BY <1>1, <1>2 DEF SameStream

(* accept() gives a number that no connection has.                         *)
LEMMA FreeIs ==
  ASSUME TypeOK, Free # {}
  PROVE  Min(Free) \in Free /\ Min(Free) \in Fds /\ \A c \in Conns : conn[c].sock # Min(Free)
  <1>1. Free \in SUBSET Nat /\ Free # {}
    BY NoneElse DEF Free
  <1>2. PICK n \in Free : \A m \in Free : n <= m
    BY <1>1, LeastNumber
  <1>3. \A m \in Free : n \in Nat /\ m \in Nat /\ n <= m
    BY <1>1, <1>2
  <1>4. Min(Free) \in Free
    BY <1>2, <1>3 DEF Min
  <1> QED
    BY <1>4 DEF Free

(* A connection is accepted: the invariant holds with one more.            *)
LEMMA AcceptStep == ASSUME IInv, Accept PROVE IInv'
  <1>0. TypeOK /\ LifeInv /\ AllHeard /\ \A d \in Conns : Streams(conn[d])
    BY DEF IInv
  <1>1. /\ pc = "accept" /\ stack = <<>> /\ backlog # <<>> /\ Free # {} /\ backlog' = Tail(backlog)
        /\ UNCHANGED <<peer, edge, ioList, turns, pc, kept, stop, faults, refused>>
    BY DEF Accept
  <1>2. backlog \in Seq(Conns) /\ Len(backlog) \in Nat /\ Len(backlog) > 0 /\ Head(backlog) = backlog[1] /\ Head(backlog) \in Conns
    BY <1>0, <1>1 DEF TypeOK
  <1>3. PICK c \in Conns, f \in Fds : c = Head(backlog) /\ f = Min(Free)
    BY <1>0, <1>1, <1>2, FreeIs
  <1>4. \A d \in Conns : conn[d].sock # f
    BY <1>0, <1>1, <1>3, FreeIs
  <1>5. table[f] = None
    BY <1>0, <1>4, Typed DEF LifeInv, TableOK
  <1> DEFINE p == Born(f)
             g == Frame("connect", c, 1)
  <1>6. conn' = [conn EXCEPT ![c] = p] /\ table' = [table EXCEPT ![f] = c] /\ stack' = <<g>> \o stack
        /\ told' = [told EXCEPT ![c].connect = "running"]
    BY <1>1, <1>3, <1>5 DEF Accept
  <1>7. /\ p \in STNetConnects /\ Streams(p) /\ p.sock = f /\ p.id = f /\ p.connected
        /\ p.useCount = 3 /\ p.readCount = 0 /\ p.closeCount = 0 /\ p.sendBuf = <<>>
    BY BornOK
  <1>8. g \in Frames /\ g.kind = "connect" /\ g.conn = c /\ g.drops = 1
    BY DEF Frame, Frames, Handlers
  <1> HIDE DEF p, g
  <1>9. conn[c].id = None /\ conn[c] = Unborn /\ conn[c].useCount = 0 /\ told[c].close = "no" /\ conn[c].sock = None
    <2>1. conn[c].id = None
      BY <1>0, <1>2, <1>3 DEF LifeInv, BacklogOK
    <2>2. ConnOK(c)
      BY <1>0 DEF LifeInv
    <2>3. conn[c] = Unborn /\ told[c].close = "no"
      BY <2>1, <2>2 DEF ConnOK
    <2> QED
      BY <2>1, <2>3 DEF Unborn
  <1>10. stack \in Seq(Frames) /\ Nested(stack)
    BY <1>0, Typed DEF LifeInv
  <1>11. /\ stack' \in Seq(Frames) /\ Top' = g /\ ToSet(stack') = {g} /\ Nested(stack')
    <2>1. stack' \in Seq(Frames) /\ Head(stack') = g
      BY <1>6, <1>8, <1>10, Front1
    <2>2. ToSet(stack') = {g} \union ToSet(stack)
      BY <1>6, <1>8, <1>10, CallsPush
    <2>3. ToSet(stack) = {}
      BY <1>1, CallsNone
    <2>4. Nested(<<g>> \o stack)
      BY <1>1, <1>8, <1>10, NestedPush
    <2> QED
      BY <1>6, <2>1, <2>2, <2>3, <2>4 DEF Top
  <1>12. \A d : CallsOf(stack', d) = IF d = c THEN {g} ELSE {}
    BY <1>8, <1>11 DEF CallsOf
  <1>13. \A d : CallsOf(stack, d) = {} /\ Uses(d, stack) = 0 /\ \A K : ~Doing(stack, K, d)
    BY <1>1, CallsOfNone, UsesNone
  <1>14. \A d : Uses(d, stack') = IF d = c THEN 1 ELSE 0
    <2> SUFFICES ASSUME NEW d PROVE Uses(d, stack') = IF d = c THEN 1 ELSE 0
      OBVIOUS
    <2>1. Uses(d, stack') = UsedBy(d, g) + Uses(d, stack)
      BY <1>6, <1>8, <1>10, UsesPush
    <2>2. UsedBy(d, g) = IF d = c THEN 1 ELSE 0
      BY <1>8 DEF UsedBy
    <2> QED
      BY <1>13, <2>1, <2>2
  <1>15. conn' \in [Conns -> STNetConnects] /\ conn'[c] = p /\ \A d \in Conns \ {c} : conn'[d] = conn[d]
    BY <1>0, <1>6, <1>7, Typed
  <1>16. told' \in [Conns -> [connect : {"no", "running", "done"}, close : {"no", "running", "done"}]]
         /\ told'[c].connect = "running" /\ told'[c].close = "no" /\ \A d \in Conns \ {c} : told'[d] = told[d]
    BY <1>0, <1>6, <1>9, Typed
  <1>17. table' \in [Fds -> Conns \union {None}] /\ table'[f] = c /\ \A h \in Fds \ {f} : table'[h] = table[h]
    BY <1>0, <1>6, Typed
  <1>18. TypeOK'
    <2>1. backlog' \in Seq(Conns)
      BY <1>1, <1>2
    <2> QED
      BY <1>0, <1>1, <1>11, <1>15, <1>16, <1>17, <2>1 DEF TypeOK, Frames
  <1>19. \A d \in Conns : Streams(conn'[d])
    BY <1>0, <1>7, <1>15
  <1>20. Worker' = Worker /\ Unborn' = Unborn
    BY DEF Worker, Unborn
  <1>21. ASSUME NEW d \in Conns PROVE ConnOK(d)'
    <2>1. CASE d = c
      <3>1. Doing(stack', {"connect"}, c) /\ ~Doing(stack', {"close"}, c) /\ ~Doing(stack', Worker, c)
        BY <1>8, <1>12 DEF Doing, Worker
      <3>2. /\ p.connected /\ p.sock # None /\ p.id = p.sock /\ table'[p.sock] = c /\ p.id # None
            /\ p.readCount <= 1 /\ p.readCount # 1 /\ p.closeCount = 0
        BY <1>7, <1>17, NoneElse
      <3> QED
        BY <1>15, <1>16, <1>20, <2>1, <3>1, <3>2 DEF ConnOK
    <2>2. CASE d # c
      <3>1. conn[d].sock # None => conn[d].sock \in Fds /\ conn[d].sock # f
        BY <1>0, <1>4, Typed DEF STNetConnects
      <3>2. conn[d].sock # None => table'[conn[d].sock] = table[conn[d].sock]
        BY <1>17, <3>1
      <3>3. \A K : Doing(stack', K, d) <=> Doing(stack, K, d)
        BY <1>12, <1>13, <2>2 DEF Doing
      <3>4. conn'[d] = conn[d] /\ told'[d] = told[d] /\ ConnOK(d)
        BY <1>0, <1>15, <1>16, <2>2 DEF LifeInv
      <3> QED
        BY <1>20, <3>2, <3>3, <3>4 DEF ConnOK
    <2> QED
      BY <2>1, <2>2
  <1>22. TableOK'
    <2> SUFFICES ASSUME NEW h \in Fds, table'[h] # None PROVE conn'[table'[h]].sock = h
      BY DEF TableOK
    <2>1. CASE h = f
      BY <1>7, <1>15, <1>17, <2>1
    <2>2. CASE h # f
      <3>1. table'[h] = table[h] /\ table[h] \in Conns /\ conn[table[h]].sock = h
        BY <1>0, <1>17, <2>2, Typed DEF LifeInv, TableOK
      <3>2. table[h] # c
        BY <1>9, <3>1, NoneElse
      <3> QED
        BY <1>15, <3>1, <3>2
    <2> QED
      BY <2>1, <2>2
  <1>23. ASSUME NEW h \in ToSet(stack') PROVE CallOK(h)'
    BY <1>8, <1>11 DEF CallOK
  <1>24. BacklogOK'
    <2>1. /\ \A i \in 1 .. Len(backlog) : conn[backlog[i]].id = None /\ peer[backlog[i]].at # "away"
          /\ \A i, j \in 1 .. Len(backlog) : backlog[i] = backlog[j] => i = j
          /\ \A d \in Conns : peer[d].at = "away" => conn[d].id = None
      BY <1>0 DEF LifeInv, BacklogOK
    <2>2. Len(backlog') = Len(backlog) - 1 /\ \A i \in 1 .. Len(backlog') : i + 1 \in 1 .. Len(backlog) /\ backlog'[i] = backlog[i + 1]
      BY <1>1, <1>2
    <2>3. 1 \in 1 .. Len(backlog) /\ backlog[1] = c
      BY <1>2, <1>3
    <2>4. ASSUME NEW i \in 1 .. Len(backlog') PROVE backlog'[i] \in Conns \ {c}
      <3>1. i + 1 \in 1 .. Len(backlog) /\ backlog'[i] = backlog[i + 1] /\ i + 1 # 1
        BY <2>2
      <3>2. backlog[i + 1] # backlog[1]
        BY <2>1, <2>3, <3>1
      <3>3. backlog[i + 1] \in Conns
        BY <1>2, <3>1
      <3> QED
        BY <2>3, <3>1, <3>2, <3>3
    <2>5. ASSUME NEW i \in 1 .. Len(backlog') PROVE conn'[backlog'[i]].id = None /\ peer'[backlog'[i]].at # "away"
      <3>1. conn'[backlog'[i]] = conn[backlog'[i]]
        BY <1>15, <2>4
      <3>2. conn[backlog[i + 1]].id = None /\ peer[backlog[i + 1]].at # "away"
        BY <2>1, <2>2
      <3> QED
        BY <1>1, <2>2, <3>1, <3>2
    <2>6. ASSUME NEW i \in 1 .. Len(backlog'), NEW j \in 1 .. Len(backlog'), backlog'[i] = backlog'[j] PROVE i = j
      <3>1. i + 1 = j + 1
        BY <2>1, <2>2, <2>6
      <3> QED
        BY <3>1
    <2>7. \A d \in Conns : peer'[d].at = "away" => conn'[d].id = None
      BY <1>1, <1>2, <1>3, <1>15, <2>1, <2>3
    <2> QED
      BY <2>5, <2>6, <2>7 DEF BacklogOK
  <1>25. c \notin kept
    BY <1>0, <1>9, HasNumber, NoneElse
  <1>26. UseCounted'
    <2> SUFFICES ASSUME NEW d \in Conns PROVE conn'[d].useCount = Holders(d)'
      BY DEF UseCounted
    <2>1. CASE d = c
      <3>1. c \in Listed'
        BY <1>17, NoneElse DEF Listed
      <3>2. Holders(c)' = 2 + 0 + 1
        BY <1>1, <1>14, <1>25, <3>1 DEF Holders
      <3> QED
        BY <1>7, <1>15, <2>1, <3>2
    <2>2. CASE d # c
      <3>1. \A h \in Fds : table'[h] = d <=> table[h] = d
        BY <1>5, <1>17, <2>2, NoneElse
      <3>2. d \in Listed' <=> d \in Listed
        BY <3>1 DEF Listed
      <3>3. Uses(d, stack') = Uses(d, stack)
        BY <1>13, <1>14, <2>2
      <3>4. Holders(d)' = Holders(d)
        BY <1>1, <3>2, <3>3 DEF Holders
      <3> QED
        BY <1>0, <1>15, <2>2, <3>4 DEF LifeInv, UseCounted
    <2> QED
      BY <2>1, <2>2
  <1>27. NumbersLeadHome'
    <2> SUFFICES ASSUME NEW d \in Conns, conn'[d].id # None, told'[d].close # "done"
                 PROVE  table'[conn'[d].id] \in {d, None}
      BY DEF NumbersLeadHome
    <2>1. CASE d = c
      BY <1>7, <1>15, <1>17, <2>1
    <2>2. CASE d # c
      <3>1. ConnOK(d) /\ conn'[d] = conn[d] /\ told'[d] = told[d]
        BY <1>0, <1>15, <1>16, <2>2 DEF LifeInv
      <3>2. told[d].close = "no"
        <4>1. told[d].close # "running"
          BY <1>13, <3>1 DEF ConnOK
        <4> QED
          BY <1>0, <3>1, <4>1, Typed
      <3>3. conn[d].sock # None /\ conn[d].id = conn[d].sock
        BY <1>13, <3>1, <3>2 DEF ConnOK
      <3>4. conn[d].id \in Fds \ {f}
        BY <1>0, <1>4, <3>3, Typed DEF STNetConnects
      <3>5. table[conn[d].id] \in {d, None}
        BY <1>0, <3>1, <3>2 DEF LifeInv, NumbersLeadHome
      <3> QED
        BY <1>17, <3>1, <3>4, <3>5
    <2> QED
      BY <2>1, <2>2
  <1>28. LifeInv'
    BY <1>11, <1>21, <1>22, <1>23, <1>24, <1>26, <1>27 DEF LifeInv
  <1>29. AllHeard'
    <2>1. OthersCalls(c)
      BY <1>12, <1>13, <1>14 DEF OthersCalls
    <2>2. OpeningNow(c)'
      BY <1>8, <1>12 DEF OpeningNow, Doing
    <2>3. Heard(conn'[c], ioList'[conn'[c].sock], OpeningNow(c)', Gone(c)')
      BY <1>7, <1>15, <2>2 DEF Heard
    <2>4. \A d \in Conns : Gone(d)' <=> Gone(d)
      BY <1>1 DEF Gone
    <2> QED
      BY <1>0, <1>1, <1>15, <2>1, <2>3, <2>4, HeardHere
  <1> QED
    BY <1>18, <1>19, <1>28, <1>29 DEF IInv

-----------------------------------------------------------------------------
(* All of it.                                                              *)
LEMMA InitOK == ASSUME Init PROVE IInv
  <1>1. /\ peer = [c \in Conns |-> [at |-> "away", sent |-> 0, inbox |-> 0, unread |-> 0]]
        /\ backlog = <<>> /\ edge = FALSE /\ conn = [c \in Conns |-> Unborn] /\ table = [f \in Fds |-> None]
        /\ ioList = [f \in Fds |-> {}] /\ turns = {} /\ pc = "wait" /\ stack = <<>> /\ kept = {}
        /\ stop = FALSE /\ faults = 0 /\ refused = {}
        /\ told = [c \in Conns |-> [connect |-> "no", close |-> "no"]]
    BY DEF Init
  <1>2. TypeOK
    <2>1. peer \in [Conns -> Sent]
      <3>1. Room \in Nat
        BY STAssumption
      <3>2. [at |-> "away", sent |-> 0, inbox |-> 0, unread |-> 0] \in Sent
        BY <3>1 DEF Sent
      <3> QED
        BY <1>1, <3>2
    <2>2. conn \in [Conns -> STNetConnects]
      BY <1>1, UnbornOK
    <2>3. faults \in 0..MaxFaults
      BY <1>1, STAssumption
    <2>4. stack \in Seq(Frames) /\ backlog \in Seq(Conns)
      BY <1>1
    <2>5. /\ edge \in BOOLEAN /\ table \in [Fds -> Conns \union {None}] /\ ioList \in [Fds -> SUBSET {"r", "w"}]
          /\ turns \subseteq Fds \X {"r", "w"} /\ pc \in {"wait", "accept", "io", "done"}
          /\ kept \subseteq Conns /\ stop \in BOOLEAN /\ refused \subseteq Conns
          /\ told \in [Conns -> [connect : {"no", "running", "done"}, close : {"no", "running", "done"}]]
      BY <1>1
    <2> QED
      BY <2>1, <2>2, <2>3, <2>4, <2>5 DEF TypeOK, Frames, Sent
  <1>3. \A c \in Conns : conn[c] = Unborn
    BY <1>1
  <1>4. \A c : CallsOf(stack, c) = {} /\ Uses(c, stack) = 0 /\ \A K : ~Doing(stack, K, c)
    BY <1>1, CallsOfNone, UsesNone
  <1>5. Listed = {}
    BY <1>1 DEF Listed
  <1>6. LifeInv
    <2>1. \A c \in Conns : ConnOK(c)
      BY <1>1, <1>3, <1>4 DEF ConnOK, Unborn
    <2>2. TableOK
      BY <1>1 DEF TableOK
    <2>3. Nested(stack)
      BY <1>1 DEF Nested
    <2>4. \A f \in ToSet(stack) : CallOK(f)
      BY <1>1, CallsNone
    <2>5. BacklogOK
      BY <1>1, <1>3 DEF BacklogOK, Unborn
    <2>6. UseCounted
      BY <1>1, <1>3, <1>4, <1>5 DEF UseCounted, Holders, Unborn
    <2>7. NumbersLeadHome
      BY <1>3 DEF NumbersLeadHome, Unborn
    <2> QED
      BY <2>1, <2>2, <2>3, <2>4, <2>5, <2>6, <2>7 DEF LifeInv
  <1>7. \A c \in Conns : Streams(conn[c])
    BY <1>3, UnbornOK
  <1>8. AllHeard
    BY <1>3 DEF AllHeard, Heard, Unborn
  <1> QED
    BY <1>2, <1>6, <1>7, <1>8 DEF IInv

(* Every step keeps the invariant: one case for each action.               *)
LEMMA NextOK == ASSUME IInv, [Next]_vars PROVE IInv'
  <1>1. CASE Outside
    BY <1>1, LoopSteps, ClientSteps, ArriveStep DEF Outside
  <1>2. CASE Engine
    <2>1. CASE WaitEvent
      BY <2>1, WaitEventStep
    <2>2. CASE Accept
      BY <2>2, AcceptStep
    <2>3. CASE AcceptedAll \/ Skip \/ HeartChecked \/ Finish
      BY <2>3, LoopSteps
    <2>4. CASE Monitor
      BY <2>4, MonitorSteps
    <2>5. CASE OnData
      BY <2>5, OnDataStep
    <2>6. CASE OnSend
      BY <2>6, OnSendStep
    <2>7. CASE BeginMsg
      BY <2>7, MsgSteps
    <2>8. CASE LeaveWorker
      BY <2>8, LeaveWorkerStep
    <2> QED
      BY <1>2, <2>1, <2>2, <2>3, <2>4, <2>5, <2>6, <2>7, <2>8 DEF Engine
  <1>3. CASE \E c \in Conns : HeartMonitor(c)
    BY <1>3, CloseSteps
  <1>4. CASE Fault
    BY <1>4, LoopSteps, MonitorSteps, CloseSteps DEF Fault
  <1>5. CASE Returns
    BY <1>5, EndConnectStep, MsgSteps, EndCloseStep DEF Returns
  <1>6. CASE Handler
    <2>1. CASE \E k \in Sizes \union {1} : Recv(k)
      <3>1. Sizes \union {1} \subseteq Nat
        BY STAssumption
      <3> QED
        BY <2>1, <3>1, RecvStep
    <2>2. CASE \E n \in Sizes : \/ \E c \in Conns : Send(c, n)
                                \/ \E f \in Fds : SendMsg(f, n)
                                \/ \E S \in SUBSET Conns : BroadcastMsg(S, n)
      BY <2>2, SendSteps
    <2>3. CASE \E c \in Conns : Close(c) \/ DropHost(c)
      BY <2>3, CloseSteps, DropHostStep
    <2>4. CASE KeepHost
      BY <2>4, KeepHostStep
    <2> QED
      BY <1>6, <2>1, <2>2, <2>3, <2>4 DEF Handler
  <1>7. CASE UNCHANGED vars
    <2>1. UNCHANGED <<peer, backlog, edge, conn, table, ioList, turns, pc, stack, kept, stop, faults, refused, told>>
      BY <1>7 DEF vars
    <2>2. TypeOK /\ LifeInv /\ AllHeard /\ \A c \in Conns : Streams(conn[c])
      BY DEF IInv
    <2>3. TypeOK'
      BY <2>1, <2>2 DEF TypeOK
    <2>4. BacklogOK'
      BY <2>1, <2>2, BacklogSame DEF LifeInv
    <2>5. LifeInv'
      BY <2>1, <2>2, <2>3, <2>4, QuietLife, SameLifeSelf
    <2>6. \A c \in Conns : Gone(c)' <=> Gone(c)
      BY <2>1 DEF Gone
    <2>7. AllHeard'
      BY <2>1, <2>2, <2>6, HeardKept
    <2> QED
      BY <2>1, <2>2, <2>3, <2>5, <2>7 DEF IInv
  <1> QED
    BY <1>1, <1>2, <1>3, <1>4, <1>5, <1>6, <1>7 DEF Next

(* The inductive invariant of the single-threaded engine                   *)
(* (STNetEngine.cpp).                                                      *)
THEOREM IInvHolds == Spec => []IInv
  <1>1. Init => IInv
    BY InitOK
  <1>2. IInv /\ [Next]_vars => IInv'
    BY NextOK
  <1> QED
    BY <1>1, <1>2, PTL DEF Spec

(* The type invariant and the use counts are parts of it.                  *)
LEMMA InvFollows == IInv => Inv
  BY DEF IInv, LifeInv, Inv

(* Streams says so.                                                        *)
LEMMA StreamFollows == IInv => StreamInOrder
  BY DEF IInv, Streams, Count, StreamInOrder

(* AllHeard says so; Opening names the same calls by their place.          *)
LEMMA HeardFollows == IInv => NothingForgotten
  <1> SUFFICES ASSUME IInv, pc # "done", NEW c \in Conns \ refused, conn[c].connected
               PROVE  /\ Opening(c) \/ "in" \in conn[c].armed \/ "r" \in ioList[conn[c].sock]
                      /\ conn[c].sendBuf # <<>> =>
                           \/ "out" \in conn[c].armed \/ "w" \in ioList[conn[c].sock]
                           \/ conn[c].monSend /\ (Opening(c) \/ "r" \in ioList[conn[c].sock])
                           \/ Gone(c)
    BY DEF NothingForgotten
  <1>1. Heard(conn[c], ioList[conn[c].sock], OpeningNow(c), Gone(c))
    BY DEF IInv, AllHeard
  <1>2. OpeningNow(c) => Opening(c)
    <2> SUFFICES ASSUME OpeningNow(c) PROVE Opening(c)
      OBVIOUS
    <2>1. PICK f \in ToSet(stack) : f.conn = c /\ f.kind \in {"connect", "monitor"}
      BY DEF OpeningNow, Doing, CallsOf
    <2>2. PICK i \in DOMAIN stack : f = stack[i]
      BY <2>1 DEF ToSet
    <2> QED
      BY <2>1, <2>2 DEF Opening
  <1> QED
    BY <1>1, <1>2 DEF Heard

(* Connection objects are typed; m_useCount is exactly the number of those *)
(* that hold the object (the list, the kept hosts and the calls that go    *)
(* on, STNetConnect::Release and the engine), so none is put back while it *)
(* is used and each one is in the end; and a number leads to the           *)
(* connection that has it, never to one that is closed (STNetEngine.cpp,   *)
(* m_connectList).                                                         *)
THEOREM InvHolds == Spec => []Inv
  BY IInvHolds, InvFollows, PTL

(* What is on its way to a client and what waits in the buffer of its      *)
(* connection is all the server has said, in the order said, however       *)
(* send() splits it, whoever sends and whatever fails                      *)
(* (STNetConnect::SendData, STNetEngine::OnSend).                          *)
THEOREM StreamInOrderHolds == Spec => []StreamInOrder
  BY IInvHolds, StreamFollows, PTL

(* The event loop forgets nobody: it is told of data for every connection  *)
(* or still has a mark for it, and for one with something to send of room  *)
(* as well, or it is about to ask; epoll reports edges only, so that what  *)
(* is missed once is missed for good (STNetEngine::LinuxIO, OnData,        *)
(* OnSend, STNetConnect::AddEpollRecv, AddEpollSend).                      *)
THEOREM NothingForgottenHolds == Spec => []NothingForgotten
  BY IInvHolds, HeardFollows, PTL

-----------------------------------------------------------------------------
(* Every step is one of Callbacks for each connection, or none.            *)
Reading(c) == Doing(stack, {"msg"}, c)

CallbackStep(c) == [CB(c)!Next]_(CB(c)!vars)

(* OnMsg runs for c, by its place among the calls.                         *)
LEMMA ReadingIs ==
  \A c : Reading(c) <=> \E i \in DOMAIN stack : stack[i].kind = "msg" /\ stack[i].conn = c
  BY DEF Reading, Doing, CallsOf, ToSet

(* A step that begins and ends no callback of c.                           *)
LEMMA NoCallback ==
  ASSUME NEW c \in Conns, told'[c] = told[c], Reading(c)' <=> Reading(c)
  PROVE  CallbackStep(c)
  <1>1. (\E i \in DOMAIN stack : stack[i].kind = "msg" /\ stack[i].conn = c)' <=>
        \E i \in DOMAIN stack : stack[i].kind = "msg" /\ stack[i].conn = c
    BY ReadingIs DEF Reading, Doing, CallsOf, ToSet
  <1> QED
    BY <1>1 DEF CallbackStep, CB!vars

(* A step that begins or ends one callback of c, when it is allowed to.    *)
LEMMA OneCallback ==
  ASSUME NEW c \in Conns,
         LET connect == told[c].connect
             close == told[c].close
             connect2 == told'[c].connect
             close2 == told'[c].close
         IN  \/ /\ connect = "no" /\ connect2 = "running" /\ close2 = close /\ (Reading(c)' <=> Reading(c))
             \/ /\ connect = "running" /\ connect2 = "done" /\ close2 = close /\ (Reading(c)' <=> Reading(c))
             \/ /\ connect = "done" /\ close = "no" /\ ~Reading(c) /\ Reading(c)' /\ close2 = close /\ connect2 = connect
             \/ /\ Reading(c) /\ ~Reading(c)' /\ close2 = close /\ connect2 = connect
             \/ /\ close = "no" /\ close2 = "running" /\ ~Reading(c) /\ ~Reading(c)' /\ connect2 = connect
             \/ /\ close = "running" /\ close2 = "done" /\ (Reading(c)' <=> Reading(c)) /\ connect2 = connect
  PROVE  CallbackStep(c)
  <1>1. (\E i \in DOMAIN stack : stack[i].kind = "msg" /\ stack[i].conn = c)' <=> Reading(c)'
    BY DEF Reading, Doing, CallsOf, ToSet
  <1>2. (\E i \in DOMAIN stack : stack[i].kind = "msg" /\ stack[i].conn = c) <=> Reading(c)
    BY ReadingIs
  <1> QED
    BY <1>1, <1>2 DEF CallbackStep, CB!vars, CB!Next, CB!BeginConnect, CB!EndConnect, CB!BeginMsg, CB!EndMsg, CB!BeginClose, CB!EndClose

-----------------------------------------------------------------------------
(* A step of c alone is one of nobody else's callbacks.                    *)
LEMMA OthersSilent ==
  ASSUME NEW c \in Conns, OthersCalls(c), \A d \in Conns \ {c} : told'[d] = told[d], CallbackStep(c)
  PROVE  \A d \in Conns : CallbackStep(d)
  <1> SUFFICES ASSUME NEW d \in Conns, d # c PROVE CallbackStep(d)
    OBVIOUS
  <1>1. Reading(d)' <=> Reading(d)
    BY DEF OthersCalls, Reading, Doing
  <1> QED
    BY <1>1, NoCallback

(* A step that touches neither calls nor reports.                          *)
LEMMA SilentSteps ==
  ASSUME UNCHANGED <<stack, told>>
  PROVE  \A c \in Conns : CallbackStep(c)
  <1>1. \A c \in Conns : Reading(c)' <=> Reading(c)
    BY DEF Reading
  <1> QED
    BY <1>1, NoCallback

(* CloseConnect begins OnCloseConnect or leaves it to MsgWorker.           *)
LEMMA CloseCallback ==
  ASSUME TypeOK, LifeInv, NEW c \in Conns, NEW o, NEW more, NEW rest, Closable(c, o, more, rest),
         CloseConnect(c, o, more, rest), OthersCalls(c)
  PROVE  \A d \in Conns : CallbackStep(d)
  <1> DEFINE now == Notifies(o)
             g == Frame("close", c, 1 + more)
  <1>1. /\ now <=> ~Doing(rest, Worker, c)
        /\ told' = (IF now THEN [told EXCEPT ![c].close = "running"] ELSE told)
        /\ stack' = (IF now THEN <<g>> \o rest ELSE rest)
        /\ g \in Frames /\ told[c].close = "no"
    BY Closed
  <1>2. rest \in Seq(Frames) /\ SameCalls(c, rest) /\ g.kind = "close"
    BY DEF Closable, Frame
  <1> HIDE DEF now, g
  <1>3. Doing(rest, {"msg"}, c) <=> Reading(c)
    <2>1. Doing(rest, Worker, c) <=> Doing(stack, Worker, c)
      BY <1>2 DEF SameCalls
    <2>2. \A f \in ToSet(rest) : f \in ToSet(stack) /\ f.kind # "worker"
      BY <1>2 DEF SameCalls
    <2>3. Doing(rest, {"msg"}, c) => Reading(c)
      BY <2>2 DEF Doing, CallsOf, Reading
    <2>4. Reading(c) => Doing(stack, Worker, c)
      BY DEF Reading, Doing, Worker
    <2>5. Doing(rest, Worker, c) => Doing(rest, {"msg"}, c)
      BY <2>2 DEF Doing, CallsOf, Worker
    <2> QED
      BY <2>1, <2>3, <2>4, <2>5
  <1>4. Doing(rest, {"msg"}, c) => Doing(rest, Worker, c)
    BY DEF Doing, Worker
  <1>5. CASE now
    <2>1. CallsOf(<<g>> \o rest, c) = (IF g.conn = c THEN {g} ELSE {}) \union CallsOf(rest, c)
      BY <1>1, <1>2, CallsOfPush
    <2>2. stack' = <<g>> \o rest
      BY <1>1, <1>5
    <2>3. ~Reading(c) /\ ~Reading(c)'
      BY <1>1, <1>2, <1>3, <1>4, <1>5, <2>1, <2>2 DEF Reading, Doing
    <2>4. told'[c].close = "running" /\ told'[c].connect = told[c].connect /\ \A d \in Conns \ {c} : told'[d] = told[d]
      BY <1>1, <1>5, Typed
    <2>5. CallbackStep(c)
      BY <1>1, <2>3, <2>4, OneCallback
    <2> QED
      BY <2>4, <2>5, OthersSilent
  <1>6. CASE ~now
    <2>1. Reading(c)' <=> Reading(c)
      BY <1>1, <1>3, <1>6 DEF Reading
    <2>2. told' = told
      BY <1>1, <1>6
    <2>3. CallbackStep(c)
      BY <2>1, <2>2, NoCallback
    <2> QED
      BY <2>2, <2>3, OthersSilent
  <1> QED
    BY <1>5, <1>6

(* Callbacks that end, and OnMsg that begins.                              *)
LEMMA ReturnCallbacks ==
  ASSUME TypeOK, LifeInv, EndConnect \/ EndMsg \/ EndClose \/ BeginMsg \/ (\E k \in Nat : Recv(k))
  PROVE  \A d \in Conns : CallbackStep(d)
  <1>0. stack # <<>>
    BY DEF EndConnect, EndMsg, EndClose, BeginMsg, Recv, In
  <1>1. PICK c \in Conns : c = Top.conn
    BY <1>0, TopIs
  <1>2. ConnOK(c) /\ Top \in ToSet(stack) /\ Top \in Frames /\ (Top.kind # "close" => Top.drops = 1)
    BY <1>0, TopIs DEF LifeInv
  <1>3. \A K : Top.kind \in K => Doing(stack, K, c)
    BY <1>1, <1>2 DEF Doing, CallsOf
  <1>4. ASSUME NEW g \in Frames, g.conn = c, g.drops = 1, Top.kind # "close", stack' = <<g>> \o Tail(stack)
        PROVE  OthersCalls(c) /\ (Reading(c) <=> Top.kind = "msg") /\ (Reading(c)' <=> g.kind = "msg")
    <2>1. OthersCalls(c) /\ CallsOf(stack, c) = {Top} /\ CallsOf(stack', c) = {g}
      BY <1>0, <1>1, <1>4, Replaced
    <2> QED
      BY <2>1 DEF Reading, Doing
  <1>5. CASE EndConnect
    <2> DEFINE g == Frame("monitor", c, 1)
    <2>1. g \in Frames /\ g.kind = "monitor" /\ g.conn = c /\ g.drops = 1
      BY DEF Frame, Frames
    <2> HIDE DEF g
    <2>2. Top.kind = "connect" /\ stack' = <<g>> \o Tail(stack) /\ told' = [told EXCEPT ![c].connect = "done"]
      BY <1>1, <1>5 DEF EndConnect, In, g
    <2>3. OthersCalls(c) /\ ~Reading(c) /\ ~Reading(c)'
      BY <1>4, <2>1, <2>2
    <2>4. told[c].connect = "running"
      BY <1>2, <1>3, <2>2 DEF ConnOK
    <2>5. told'[c].connect = "done" /\ told'[c].close = told[c].close /\ \A d \in Conns \ {c} : told'[d] = told[d]
      BY <2>2, Typed
    <2>6. CallbackStep(c)
      BY <2>3, <2>4, <2>5, OneCallback
    <2> QED
      BY <2>3, <2>5, <2>6, OthersSilent
  <1>6. CASE BeginMsg
    <2> DEFINE g == Frame("msg", c, 1)
    <2>1. g \in Frames /\ g.kind = "msg" /\ g.conn = c /\ g.drops = 1
      BY DEF Frame, Frames, Handlers
    <2> HIDE DEF g
    <2>2. Top.kind = "worker" /\ stack' = <<g>> \o Tail(stack) /\ told' = told
      BY <1>1, <1>6 DEF BeginMsg, In, g
    <2>3. OthersCalls(c) /\ ~Reading(c) /\ Reading(c)'
      BY <1>4, <2>1, <2>2
    <2>4. Doing(stack, Worker, c)
      BY <1>3, <2>2 DEF Worker
    <2>5. told[c].connect = "done" /\ told[c].close = "no"
      BY <1>2, <2>4 DEF ConnOK
    <2>6. CallbackStep(c)
      BY <2>2, <2>3, <2>5, OneCallback
    <2> QED
      BY <2>2, <2>3, <2>6, OthersSilent
  <1>7. CASE EndMsg
    <2> DEFINE g == [Top EXCEPT !.kind = "worker"]
    <2>1. Top.kind = "msg"
      BY <1>7 DEF EndMsg, In
    <2>2. g \in Frames /\ g.kind = "worker" /\ g.conn = c /\ g.drops = 1
      BY <1>1, <1>2, <2>1 DEF Frames
    <2>3. stack' = <<g>> \o Tail(stack) /\ told' = told
      BY <1>7 DEF EndMsg
    <2> HIDE DEF g
    <2>4. OthersCalls(c) /\ Reading(c) /\ ~Reading(c)'
      BY <1>4, <2>1, <2>2, <2>3
    <2>5. CallbackStep(c)
      BY <2>3, <2>4, OneCallback
    <2> QED
      BY <2>3, <2>4, <2>5, OthersSilent
  <1>8. CASE \E k \in Nat : Recv(k)
    <2> DEFINE g == [Top EXCEPT !.looked = TRUE]
    <2>1. Top.kind = "msg"
      BY <1>8 DEF Recv, In
    <2>2. g \in Frames /\ g.kind = "msg" /\ g.conn = c /\ g.drops = 1
      BY <1>1, <1>2, <2>1 DEF Frames
    <2>3. stack' = <<g>> \o Tail(stack) /\ told' = told
      BY <1>8 DEF Recv
    <2> HIDE DEF g
    <2>4. OthersCalls(c) /\ Reading(c) /\ Reading(c)'
      BY <1>4, <2>1, <2>2, <2>3
    <2>5. CallbackStep(c)
      BY <2>3, <2>4, NoCallback
    <2> QED
      BY <2>3, <2>4, <2>5, OthersSilent
  <1>9. CASE EndClose
    <2>1. Top.kind = "close" /\ stack' = Tail(stack) /\ told' = [told EXCEPT ![c].close = "done"]
      BY <1>1, <1>9 DEF EndClose, In
    <2>2. OthersCalls(c) /\ CallsOf(stack, c) = {Top} \union CallsOf(stack', c)
      BY <1>0, <1>1, <2>1, Popped
    <2>3. Reading(c)' <=> Reading(c)
      BY <2>1, <2>2 DEF Reading, Doing
    <2>4. told[c].close = "running"
      BY <1>2, <1>3, <2>1 DEF ConnOK
    <2>5. told'[c].close = "done" /\ told'[c].connect = told[c].connect /\ \A d \in Conns \ {c} : told'[d] = told[d]
      BY <2>1, Typed
    <2>6. CallbackStep(c)
      BY <2>3, <2>4, <2>5, OneCallback
    <2> QED
      BY <2>2, <2>5, <2>6, OthersSilent
  <1> QED
    BY <1>5, <1>6, <1>7, <1>8, <1>9

-----------------------------------------------------------------------------
(* The loop makes a call.                                                  *)
LEMMA Pushed ==
  ASSUME TypeOK, stack = <<>>, NEW g \in Frames, stack' = <<g>> \o stack
  PROVE  OthersCalls(g.conn) /\ CallsOf(stack', g.conn) = {g} /\ CallsOf(stack, g.conn) = {}
  <1>1. stack \in Seq(Frames) /\ \A d : CallsOf(stack, d) = {}
    BY Typed, CallsOfNone
  <1>2. \A d : CallsOf(stack', d) = IF g.conn = d THEN {g} ELSE {}
    <2>1. \A d : CallsOf(<<g>> \o stack, d) = (IF g.conn = d THEN {g} ELSE {}) \union CallsOf(stack, d)
      BY <1>1, CallsOfPush
    <2> QED
      BY <1>1, <2>1
  <1>3. \A d : d # g.conn => Uses(d, stack') = Uses(d, stack)
    <2> SUFFICES ASSUME NEW d, d # g.conn PROVE Uses(d, stack') = Uses(d, stack)
      OBVIOUS
    <2>1. Uses(d, <<g>> \o stack) = UsedBy(d, g) + Uses(d, stack) /\ Uses(d, stack) \in Nat
      BY <1>1, UsesPush
    <2>2. UsedBy(d, g) = 0
      BY DEF UsedBy
    <2>3. Uses(d, <<g>> \o stack) = Uses(d, stack)
      BY <2>1, <2>2
    <2> QED
      BY <2>3
  <1> QED
    BY <1>1, <1>2, <1>3 DEF OthersCalls

(* A connection that is accepted begins with OnConnect.                    *)
LEMMA AcceptCallback ==
  ASSUME TypeOK, LifeInv, Accept
  PROVE  \A d \in Conns : CallbackStep(d)
  <1>1. stack = <<>> /\ backlog # <<>> /\ backlog \in Seq(Conns)
    BY DEF Accept, TypeOK
  <1>2. PICK c \in Conns : c = Head(backlog)
    BY <1>1
  <1> DEFINE g == Frame("connect", c, 1)
  <1>3. stack' = <<g>> \o stack /\ told' = [told EXCEPT ![c].connect = "running"]
    BY <1>1, <1>2 DEF Accept
  <1>4. g \in Frames /\ g.kind = "connect" /\ g.conn = c
    BY DEF Frame, Frames, Handlers
  <1> HIDE DEF g
  <1>5. OthersCalls(c) /\ ~Reading(c) /\ ~Reading(c)'
    <2>1. OthersCalls(c) /\ CallsOf(stack', c) = {g} /\ CallsOf(stack, c) = {}
      BY <1>1, <1>3, <1>4, Pushed
    <2> QED
      BY <1>4, <2>1 DEF Reading, Doing
  <1>6. told[c].connect = "no"
    <2>1. 1 \in 1 .. Len(backlog) /\ c = backlog[1]
      BY <1>1, <1>2
    <2>2. conn[c].id = None
      BY <2>1 DEF LifeInv, BacklogOK
    <2> QED
      BY <2>2 DEF LifeInv, ConnOK
  <1>7. told'[c].connect = "running" /\ told'[c].close = told[c].close /\ \A d \in Conns \ {c} : told'[d] = told[d]
    BY <1>3, Typed
  <1>8. CallbackStep(c)
    BY <1>5, <1>6, <1>7, OneCallback
  <1> QED
    BY <1>5, <1>7, <1>8, OthersSilent

(* Telling epoll of a connection is not a callback.                        *)
LEMMA MonitorCallback ==
  ASSUME TypeOK, LifeInv, Monitor \/ AddMonitorFails
  PROVE  \A d \in Conns : CallbackStep(d)
  <1>1. stack # <<>> /\ Top.kind = "monitor" /\ stack' = Tail(stack) /\ told' = told
    BY DEF Monitor, AddMonitorFails, In
  <1>2. PICK c \in Conns : c = Top.conn
    BY <1>1, TopIs
  <1>3. OthersCalls(c) /\ CallsOf(stack, c) = {Top} \union CallsOf(stack', c)
    BY <1>1, <1>2, Popped
  <1>4. Reading(c)' <=> Reading(c)
    BY <1>1, <1>3 DEF Reading, Doing
  <1>5. CallbackStep(c)
    BY <1>1, <1>4, NoCallback
  <1> QED
    BY <1>1, <1>3, <1>5, OthersSilent

(* MsgWorker ends, and may report the close it held back.                  *)
LEMMA LeaveWorkerCallback ==
  ASSUME TypeOK, LifeInv, LeaveWorker
  PROVE  \A d \in Conns : CallbackStep(d)
  <1>1. stack # <<>> /\ Top.kind = "worker"
    BY DEF LeaveWorker, In
  <1>2. PICK c \in Conns : c = Top.conn
    BY <1>1, TopIs
  <1> DEFINE g == Frame("close", c, 1)
  <1>3. g \in Frames /\ g.kind = "close" /\ g.conn = c /\ g.drops = 1
    BY DEF Frame, Frames, Handlers
  <1>4. \/ stack' = <<g>> \o Tail(stack) /\ told' = [told EXCEPT ![c].close = "running"]
        \/ stack' = Tail(stack) /\ told' = told
    BY <1>2 DEF LeaveWorker
  <1> HIDE DEF g
  <1>5. CASE stack' = <<g>> \o Tail(stack) /\ told' = [told EXCEPT ![c].close = "running"]
    <2>1. OthersCalls(c) /\ CallsOf(stack, c) = {Top} /\ CallsOf(stack', c) = {g}
      BY <1>1, <1>2, <1>3, <1>5, Replaced
    <2>2. ~Reading(c) /\ ~Reading(c)' /\ Doing(stack, Worker, c)
      BY <1>1, <1>3, <2>1 DEF Reading, Doing, Worker
    <2>3. told[c].close = "no"
      BY <2>2 DEF LifeInv, ConnOK
    <2>4. told'[c].close = "running" /\ told'[c].connect = told[c].connect /\ \A d \in Conns \ {c} : told'[d] = told[d]
      BY <1>5, Typed
    <2>5. CallbackStep(c)
      BY <2>2, <2>3, <2>4, OneCallback
    <2> QED
      BY <2>1, <2>4, <2>5, OthersSilent
  <1>6. CASE stack' = Tail(stack) /\ told' = told
    <2>1. OthersCalls(c) /\ CallsOf(stack, c) = {Top} \union CallsOf(stack', c)
      BY <1>1, <1>2, <1>6, Popped
    <2>2. Reading(c)' <=> Reading(c)
      BY <1>1, <2>1 DEF Reading, Doing
    <2>3. CallbackStep(c)
      BY <1>6, <2>2, NoCallback
    <2> QED
      BY <1>6, <2>1, <2>3, OthersSilent
  <1> QED
    BY <1>4, <1>5, <1>6

(* OnData begins MsgWorker, or closes.                                     *)
LEMMA OnDataCallback ==
  ASSUME TypeOK, LifeInv, \A d \in Conns : Streams(conn[d]), OnData
  PROVE  \A d \in Conns : CallbackStep(d)
  <1>1. Turn("r") /\ DataConn # None /\ stack = <<>>
    BY DEF OnData, DataConn, Turn
  <1>2. PICK c \in Conns : c = DataConn
    BY <1>1, DataObjIs
  <1>3. CASE CloseConnect(DataConn, DataObj, 1, <<>>)
    <2>1. Closable(c, DataObj, 1, <<>>) /\ CloseConnect(c, DataObj, 1, <<>>)
      BY <1>1, <1>2, <1>3, OnDataClosable
    <2>2. OthersCalls(c)
      BY <2>1, CloseOthers
    <2> QED
      BY <2>1, <2>2, CloseCallback
  <1>4. CASE /\ stack' = IF DataObj.readCount = 0 THEN <<Frame("worker", DataConn, 1)>> ELSE <<>>
             /\ told' = told
    <2> DEFINE g == Frame("worker", c, 1)
    <2>1. g \in Frames /\ g.kind = "worker" /\ g.conn = c
      BY DEF Frame, Frames, Handlers
    <2>2. DataObj.readCount = 0
      BY <1>1, DataObjIs DEF SameConn
    <2>3. stack' = <<g>> \o stack
      BY <1>1, <1>2, <1>4, <2>2
    <2> HIDE DEF g
    <2>4. OthersCalls(c) /\ CallsOf(stack', c) = {g} /\ CallsOf(stack, c) = {}
      BY <1>1, <2>1, <2>3, Pushed
    <2>5. ~Reading(c) /\ ~Reading(c)'
      BY <2>1, <2>4 DEF Reading, Doing
    <2>6. CallbackStep(c)
      BY <1>4, <2>5, NoCallback
    <2> QED
      BY <1>4, <2>4, <2>6, OthersSilent
  <1> QED
    BY <1>3, <1>4, OnDataCases

(* Everyone else who closes.                                               *)
LEMMA CloseCallbacks ==
  ASSUME TypeOK, LifeInv, \A d \in Conns : Streams(conn[d]),
         (\E c \in Conns : HeartMonitor(c) \/ Close(c)) \/ AddRecvFails
  PROVE  \A d \in Conns : CallbackStep(d)
  <1>a. PICK c \in Conns : \E o, more, rest : Closable(c, o, more, rest) /\ CloseConnect(c, o, more, rest)
    BY HeartMonitorClosable, CloseClosable, AddRecvFailsClosable
  <1>1. PICK o, more, rest : Closable(c, o, more, rest) /\ CloseConnect(c, o, more, rest)
    BY <1>a
  <1>2. OthersCalls(c)
    BY <1>1, CloseOthers
  <1> QED
    BY <1>1, <1>2, CloseCallback

(* Every step of the engine is a step of Callbacks for each connection or  *)
(* none.                                                                   *)
LEMMA NextCallbacks ==
  ASSUME IInv, [Next]_vars
  PROVE  \A c \in Conns : CallbackStep(c)
  <1>0. TypeOK /\ LifeInv /\ \A d \in Conns : Streams(conn[d])
    BY DEF IInv
  <1>1. CASE Outside
    BY <1>1, SilentSteps DEF Outside, Stop, Arrive, PeerSend, PeerRead, PeerClose
  <1>2. CASE Engine
    <2>1. CASE WaitEvent \/ AcceptedAll \/ Skip \/ OnSend \/ HeartChecked \/ Finish
      BY <2>1, SilentSteps DEF WaitEvent, AcceptedAll, Skip, OnSend, HeartChecked, Finish
    <2>2. CASE Accept
      BY <1>0, <2>2, AcceptCallback
    <2>3. CASE Monitor
      BY <1>0, <2>3, MonitorCallback
    <2>4. CASE OnData
      BY <1>0, <2>4, OnDataCallback
    <2>5. CASE BeginMsg
      BY <1>0, <2>5, ReturnCallbacks
    <2>6. CASE LeaveWorker
      BY <1>0, <2>6, LeaveWorkerCallback
    <2> QED
      BY <1>2, <2>1, <2>2, <2>3, <2>4, <2>5, <2>6 DEF Engine
  <1>3. CASE \E c \in Conns : HeartMonitor(c)
    BY <1>0, <1>3, CloseCallbacks
  <1>4. CASE Fault
    <2>1. CASE AcceptFails
      BY <2>1, SilentSteps DEF AcceptFails
    <2>2. CASE AddMonitorFails
      BY <1>0, <2>2, MonitorCallback
    <2>3. CASE AddRecvFails
      BY <1>0, <2>3, CloseCallbacks
    <2> QED
      BY <1>4, <2>1, <2>2, <2>3 DEF Fault
  <1>5. CASE Returns
    BY <1>0, <1>5, ReturnCallbacks DEF Returns
  <1>6. CASE Handler
    <2>1. CASE \E k \in Sizes \union {1} : Recv(k)
      <3>1. Sizes \union {1} \subseteq Nat
        BY STAssumption
      <3> QED
        BY <1>0, <2>1, <3>1, ReturnCallbacks
    <2>2. CASE \E n \in Sizes : \/ \E c \in Conns : Send(c, n)
                                \/ \E f \in Fds : SendMsg(f, n)
                                \/ \E S \in SUBSET Conns : BroadcastMsg(S, n)
      <3>1. UNCHANGED <<stack, told>>
        BY <2>2 DEF Send, SendMsg, BroadcastMsg, Say
      <3> QED
        BY <3>1, SilentSteps
    <2>3. CASE \E c \in Conns : Close(c)
      BY <1>0, <2>3, CloseCallbacks
    <2>4. CASE (\E c \in Conns : DropHost(c)) \/ KeepHost
      <3>1. UNCHANGED <<stack, told>>
        BY <2>4 DEF DropHost, KeepHost
      <3> QED
        BY <3>1, SilentSteps
    <2> QED
      BY <1>6, <2>1, <2>2, <2>3, <2>4 DEF Handler
  <1>7. CASE UNCHANGED vars
    BY <1>7, SilentSteps DEF vars
  <1> QED
    BY <1>1, <1>2, <1>3, <1>4, <1>5, <1>6, <1>7 DEF Next

(* The single-threaded engine implements Callbacks for every connection:   *)
(* OnConnect first and once, no OnMsg before it has returned,              *)
(* OnCloseConnect once, never while OnMsg runs and nothing after it,       *)
(* though handlers close connections, their own included, in the middle of *)
(* each other (STNetEngine.cpp, OnConnect, MsgWorker, NotifyOnClose).      *)
THEOREM CallbacksInOrder == Spec => Ordered
  <1> DEFINE AllInit == \A c \in Conns : CB(c)!Init
             AllSteps == \A c \in Conns : [CB(c)!Next]_(CB(c)!vars)
  <1>1. Init => AllInit
    BY DEF Init, CB!Init
  <1>2. IInv /\ [Next]_vars => AllSteps
    BY NextCallbacks DEF CallbackStep
  <1>3. Ordered <=> AllInit /\ [][AllSteps]_vars
    BY DEF Ordered
  <1> HIDE DEF AllInit, AllSteps
  <1> QED
    BY <1>1, <1>2, <1>3, IInvHolds, PTL DEF Spec
=============================================================================
