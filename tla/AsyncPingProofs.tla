--------------------------- MODULE AsyncPingProofs ---------------------------
(***************************************************************************)
(* The PING protocol of the async programs, for any number of addresses,   *)
(* connections and requests: the server's routine checks an address once   *)
(* for all who wait for it and every request is answered once; the         *)
(* profiler notices lost connections and has a turn for every entry that   *)
(* it has to decide on.                                                    *)
(***************************************************************************)
EXTENDS MCAsyncPing, FiniteSetTheorems, SequenceTheorems, WellFoundedInduction, TLAPS

-----------------------------------------------------------------------------
(* Counting *)

Pos(s, e) == {k \in 1 .. Len(s) : s[k] = e}

LEMMA SameCardinality == \A T : S!Cardinality(T) = Cardinality(T)
BY DEF S!Cardinality, Cardinality, S!IsFiniteSet, IsFiniteSet

\* The least element of a set of numbers.
LEMMA LeastOf ==
    ASSUME NEW T \in SUBSET Nat, T # {}
    PROVE  \E m \in T : \A n \in T : m <= n
<1> DEFINE R == OpToRel(<, Nat)
<1>1. IsWellFoundedOn(R, Nat)
  BY NatLessThanWellFounded
<1> HIDE DEF R
<1>2. PICK m \in T : \A y \in T : ~(<<y, m>> \in R)
  BY <1>1, WFMin
<1>3. \A y \in T : ~(y < m)
  BY <1>2 DEF R, OpToRel
<1> QED BY <1>3

LEMMA CountType ==
    ASSUME NEW T, NEW s \in Seq(T), NEW e
    PROVE  IsFiniteSet(Pos(s, e)) /\ S!Count(s, e) = Cardinality(Pos(s, e)) /\ S!Count(s, e) \in Nat
<1>1. Len(s) \in Nat
  BY LenProperties
<1>2. IsFiniteSet(1 .. Len(s)) /\ Pos(s, e) \in SUBSET (1 .. Len(s))
  BY <1>1, FS_Interval DEF Pos
<1>3. IsFiniteSet(Pos(s, e))
  BY <1>2, FS_Subset
<1> QED BY <1>3, FS_CardinalityType, SameCardinality DEF Pos, S!Count

LEMMA CountEmpty ==
    ASSUME NEW e
    PROVE  S!Count(<< >>, e) = 0
<1>1. Pos(<< >>, e) = {}
  BY DEF Pos
<1> QED BY <1>1, FS_EmptySet, SameCardinality DEF Pos, S!Count

LEMMA CountConcat ==
    ASSUME NEW T, NEW s \in Seq(T), NEW t \in Seq(T), NEW e
    PROVE  S!Count(s \o t, e) = S!Count(s, e) + S!Count(t, e)
<1>1. /\ s \o t \in Seq(T) /\ Len(s \o t) = Len(s) + Len(t) /\ Len(s) \in Nat /\ Len(t) \in Nat
      /\ \A i \in 1 .. Len(s) + Len(t) : (s \o t)[i] = IF i <= Len(s) THEN s[i] ELSE t[i - Len(s)]
  BY ConcatProperties
<1> DEFINE A == Pos(s, e)
           B == Pos(t, e)
           C == {k \in Len(s) + 1 .. Len(s) + Len(t) : t[k - Len(s)] = e}
           f == [k \in B |-> k + Len(s)]
<1>2. /\ IsFiniteSet(A) /\ IsFiniteSet(B) /\ S!Count(s, e) = Cardinality(A) /\ S!Count(t, e) = Cardinality(B)
      /\ S!Count(s \o t, e) = Cardinality(Pos(s \o t, e)) /\ Cardinality(A) \in Nat /\ Cardinality(B) \in Nat
  BY <1>1, CountType
<1>3. ExistsBijection(B, C)
  <2>1. \A k \in B : k \in 1 .. Len(t) /\ t[k] = e /\ k + Len(s) - Len(s) = k
    BY <1>1 DEF Pos
  <2>2. f \in [B -> C]
    BY <1>1, <2>1
  <2>3. \A k, l \in B : f[k] = f[l] => k = l
    BY <1>1, <2>1
  <2>4. \A c \in C : \E k \in B : f[k] = c
    <3> SUFFICES ASSUME NEW c \in C PROVE \E k \in B : f[k] = c
      OBVIOUS
    <3>1. c - Len(s) \in B /\ c - Len(s) + Len(s) = c
      BY <1>1 DEF Pos
    <3> QED BY <3>1
  <2>5. f \in Bijection(B, C)
    BY <2>2, <2>3, <2>4 DEF Bijection, Injection, Surjection, IsInjective
  <2> QED BY <2>5 DEF ExistsBijection
<1>4. IsFiniteSet(C) /\ Cardinality(C) = Cardinality(B)
  BY <1>2, <1>3, FS_Bijection
<1>5. Pos(s \o t, e) = A \cup C /\ A \cap C = {}
  <2>1. \A k \in 1 .. Len(s) + Len(t) : (s \o t)[k] = e <=> k \in A \cup C
    BY <1>1 DEF Pos
  <2>2. A \cup C \subseteq 1 .. Len(s) + Len(t) /\ A \cap C = {}
    BY <1>1 DEF Pos
  <2> QED BY <1>1, <2>1, <2>2 DEF Pos
<1>6. Cardinality(A \cup C) = Cardinality(A) + Cardinality(C)
  <2> HIDE DEF A, B, C
  <2>1. Cardinality(A \cup C) = Cardinality(A) + Cardinality(C) - Cardinality(A \cap C)
    BY <1>2, <1>4, FS_Union
  <2>2. Cardinality(A \cap C) = 0
    BY <1>5, FS_EmptySet
  <2> QED BY <2>1, <2>2, <1>2, <1>4
<1> HIDE DEF A, B, C
<1> QED BY <1>2, <1>4, <1>5, <1>6

LEMMA CountOne ==
    ASSUME NEW v, NEW e
    PROVE  S!Count(<<v>>, e) = IF v = e THEN 1 ELSE 0
<1>1. Pos(<<v>>, e) = IF v = e THEN {1} ELSE {}
  BY DEF Pos
<1> QED BY <1>1, FS_EmptySet, FS_Singleton, SameCardinality DEF Pos, S!Count

LEMMA CountAppend ==
    ASSUME NEW T, NEW s \in Seq(T), NEW v \in T, NEW e
    PROVE  S!Count(Append(s, v), e) = S!Count(s, e) + IF v = e THEN 1 ELSE 0
<1>1. Append(s, v) = s \o <<v>> /\ <<v>> \in Seq(T)
  OBVIOUS
<1> DEFINE o == <<v>>
<1>2. S!Count(o, e) = IF v = e THEN 1 ELSE 0
  BY CountOne
<1>3. o \in Seq(T) /\ Append(s, v) = s \o o
  BY <1>1
<1> HIDE DEF o
<1>4. S!Count(s \o o, e) = S!Count(s, e) + S!Count(o, e)
  BY <1>3, CountConcat
<1> QED BY <1>2, <1>3, <1>4

LEMMA CountHead ==
    ASSUME NEW T, NEW s \in Seq(T), s # << >>, NEW e
    PROVE  S!Count(s, e) = S!Count(Tail(s), e) + IF Head(s) = e THEN 1 ELSE 0
<1>0. /\ Tail(s) \in Seq(T) /\ Head(s) \in T /\ Len(Tail(s)) = Len(s) - 1 /\ Len(s) \in Nat /\ Len(s) # 0
      /\ \A i \in 1 .. Len(Tail(s)) : Tail(s)[i] = s[i + 1]
  BY HeadTailProperties, EmptySeq, LenProperties
<1> DEFINE o == <<Head(s)>>
           t == Tail(s)
<1>1. o \in Seq(T) /\ Len(o) = 1 /\ o[1] = s[1]
  BY <1>0
<1>1a. t \in Seq(T)
  BY <1>0
<1> HIDE DEF o, t
<1>2. /\ o \o t \in Seq(T) /\ Len(o \o t) = Len(o) + Len(t)
      /\ \A i \in 1 .. Len(o) + Len(t) : (o \o t)[i] = IF i <= Len(o) THEN o[i] ELSE t[i - Len(o)]
  BY <1>1, <1>1a, ConcatProperties
<1>3. Len(o \o t) = Len(s) /\ Len(t) = Len(s) - 1
  BY <1>0, <1>1, <1>2 DEF t
<1>4. \A i \in 1 .. Len(s) : (o \o t)[i] = s[i]
  <2> SUFFICES ASSUME NEW i \in 1 .. Len(s) PROVE (o \o t)[i] = s[i]
    OBVIOUS
  <2>1. CASE i = 1
    BY <1>0, <1>1, <1>2, <1>3, <2>1
  <2>2. CASE i # 1
    <3>1. i - 1 \in 1 .. Len(t) /\ ~(i <= 1) /\ i - 1 + 1 = i /\ i \in 1 .. Len(o) + Len(t)
      BY <1>0, <1>1, <1>3, <2>2
    <3>2. (o \o t)[i] = t[i - 1]
      BY <1>1, <1>2, <3>1
    <3>3. t[i - 1] = s[i - 1 + 1]
      BY <1>0, <3>1 DEF t
    <3> QED BY <3>1, <3>2, <3>3
  <2> QED BY <2>1, <2>2
<1>5. s = o \o t
  BY <1>2, <1>3, <1>4, SeqEqual
<1>6. S!Count(o \o t, e) = S!Count(o, e) + S!Count(t, e)
  BY ZenonT(60), <1>0, <1>1, CountConcat DEF t
<1>7. S!Count(o, e) = IF Head(s) = e THEN 1 ELSE 0
  BY CountOne DEF o
<1>8. S!Count(t, e) \in Nat
  BY <1>0, CountType DEF t
<1>9. S!Count(s, e) = S!Count(t, e) + IF Head(s) = e THEN 1 ELSE 0
  <2> DEFINE x == S!Count(t, e)
             y == S!Count(o, e)
             z == S!Count(s, e)
  <2>1. x \in Nat /\ z = y + x /\ y = IF Head(s) = e THEN 1 ELSE 0
    BY <1>5, <1>6, <1>7, <1>8
  <2> HIDE DEF x, y, z
  <2>2. z = x + IF Head(s) = e THEN 1 ELSE 0
    BY <2>1
  <2> QED BY <2>2 DEF x, z
<1> QED BY <1>9 DEF t

LEMMA SplitSeq ==
    ASSUME NEW T, NEW s \in Seq(T), NEW a \in Nat, NEW m \in Nat, NEW b \in Nat,
           1 <= a, a - 1 <= m, m <= b, b <= Len(s)
    PROVE  /\ SubSeq(s, a, b) \in Seq(T) /\ SubSeq(s, a, m) \in Seq(T) /\ SubSeq(s, m + 1, b) \in Seq(T)
           /\ SubSeq(s, a, b) = SubSeq(s, a, m) \o SubSeq(s, m + 1, b)
<1>1. Len(s) \in Nat /\ \A k \in 1 .. Len(s) : s[k] \in T
  BY LenProperties, ElementOfSeq
<1> DEFINE w == SubSeq(s, a, b)
           x == SubSeq(s, a, m)
           y == SubSeq(s, m + 1, b)
<1>2. w \in Seq(T) /\ Len(w) = b - a + 1 /\ \A k \in 1 .. b - a + 1 : w[k] = s[a + k - 1]
  <2>1. \A k \in a .. b : s[k] \in T
    BY <1>1
  <2>2. /\ w \in Seq(T) /\ Len(w) = IF a <= b THEN b - a + 1 ELSE 0
        /\ \A k \in 1 .. b - a + 1 : w[k] = s[a + k - 1]
    BY <2>1, SubSeqProperties
  <2> HIDE DEF w
  <2> QED BY <2>2
<1>3. x \in Seq(T) /\ Len(x) = m - a + 1 /\ \A k \in 1 .. m - a + 1 : x[k] = s[a + k - 1]
  <2>1. \A k \in a .. m : s[k] \in T
    BY <1>1
  <2>2. /\ x \in Seq(T) /\ Len(x) = IF a <= m THEN m - a + 1 ELSE 0
        /\ \A k \in 1 .. m - a + 1 : x[k] = s[a + k - 1]
    BY <2>1, SubSeqProperties
  <2> HIDE DEF x
  <2> QED BY <2>2
<1>4. y \in Seq(T) /\ Len(y) = b - m /\ \A k \in 1 .. b - m : y[k] = s[m + k]
  <2>1. (\A k \in m + 1 .. b : s[k] \in T) /\ m + 1 \in Int /\ b \in Int
    BY <1>1
  <2>2. /\ y \in Seq(T) /\ Len(y) = IF m + 1 <= b THEN b - (m + 1) + 1 ELSE 0
        /\ \A k \in 1 .. b - (m + 1) + 1 : y[k] = s[(m + 1) + k - 1]
    BY <2>1, SubSeqProperties
  <2>3. b - (m + 1) + 1 = b - m /\ \A k \in 1 .. b - m : (m + 1) + k - 1 = m + k
    OBVIOUS
  <2> HIDE DEF y
  <2>4. Len(y) = b - m
    BY <2>2
  <2> QED BY <2>2, <2>3, <2>4
<1> HIDE DEF w, x, y
<1>5. /\ x \o y \in Seq(T) /\ Len(x \o y) = Len(x) + Len(y)
      /\ \A i \in 1 .. Len(x) + Len(y) : (x \o y)[i] = IF i <= Len(x) THEN x[i] ELSE y[i - Len(x)]
  BY <1>3, <1>4, ConcatProperties
<1>6. Len(x \o y) = Len(w) /\ Len(w) = Len(x) + Len(y)
  BY <1>2, <1>3, <1>4, <1>5
<1>7. \A k \in 1 .. Len(w) : w[k] = (x \o y)[k]
  <2> SUFFICES ASSUME NEW k \in 1 .. Len(w) PROVE w[k] = (x \o y)[k]
    OBVIOUS
  <2>1. w[k] = s[a + k - 1] /\ k \in Int /\ k \in 1 .. Len(x) + Len(y)
    BY <1>2, <1>6
  <2>2. CASE k <= Len(x)
    BY <1>3, <1>5, <2>1, <2>2
  <2>3. CASE ~(k <= Len(x))
    <3>1. k - Len(x) \in 1 .. b - m /\ m + (k - Len(x)) = a + k - 1
      BY <1>2, <1>3, <1>4, <2>3
    <3>2. (x \o y)[k] = y[k - Len(x)]
      BY <1>5, <2>1, <2>3
    <3> QED BY <1>4, <2>1, <3>1, <3>2
  <2> QED BY <2>2, <2>3
<1>8. w = x \o y
  BY <1>2, <1>5, <1>6, <1>7, SeqEqual
<1> QED BY <1>2, <1>3, <1>4, <1>8 DEF w, x, y

LEMMA WholeSeq ==
    ASSUME NEW T, NEW s \in Seq(T)
    PROVE  SubSeq(s, 1, Len(s)) = s
OBVIOUS

LEMMA CountSplit ==
    ASSUME NEW T, NEW s \in Seq(T), NEW a \in Nat, NEW m \in Nat, NEW b \in Nat,
           1 <= a, a - 1 <= m, m <= b, b <= Len(s), NEW e
    PROVE  S!Count(SubSeq(s, a, b), e) = S!Count(SubSeq(s, a, m), e) + S!Count(SubSeq(s, m + 1, b), e)
<1>1. /\ SubSeq(s, a, b) \in Seq(T) /\ SubSeq(s, a, m) \in Seq(T) /\ SubSeq(s, m + 1, b) \in Seq(T)
      /\ SubSeq(s, a, b) = SubSeq(s, a, m) \o SubSeq(s, m + 1, b)
  BY SplitSeq
<1> DEFINE w == SubSeq(s, a, b)
           x == SubSeq(s, a, m)
           y == SubSeq(s, m + 1, b)
<1>2. x \in Seq(T) /\ y \in Seq(T) /\ w = x \o y
  BY <1>1
<1> HIDE DEF w, x, y
<1>3. S!Count(w, e) = S!Count(x, e) + S!Count(y, e)
  BY <1>2, CountConcat
<1> QED BY <1>3 DEF w, x, y

\* A sequence without its element k.
LEMMA CountRemoveAt ==
    ASSUME NEW T, NEW s \in Seq(T), NEW k \in 1 .. Len(s), NEW e
    PROVE  /\ S!RemoveAt(s, k) \in Seq(T)
           /\ S!Count(s, e) = S!Count(S!RemoveAt(s, k), e) + IF s[k] = e THEN 1 ELSE 0
<1>1. Len(s) \in Nat /\ k \in Nat /\ k <= Len(s) /\ 1 <= k /\ k - 1 \in Nat /\ k - 1 + 1 = k /\ s[k] \in T
  BY LenProperties, ElementOfSeq
<1> DEFINE x == SubSeq(s, 1, k - 1)
           o == SubSeq(s, k, k)
           y == SubSeq(s, k + 1, Len(s))
           q == SubSeq(s, k, Len(s))
<1>2. x \in Seq(T) /\ q \in Seq(T) /\ s = x \o q
  <2>1. /\ SubSeq(s, 1, k - 1) \in Seq(T) /\ SubSeq(s, k - 1 + 1, Len(s)) \in Seq(T)
        /\ SubSeq(s, 1, Len(s)) = SubSeq(s, 1, k - 1) \o SubSeq(s, k - 1 + 1, Len(s))
    <3>1. 1 - 1 <= k - 1 /\ k - 1 <= Len(s) /\ 1 \in Nat /\ 1 <= 1
      BY <1>1
    <3> QED BY <1>1, <3>1, SplitSeq
  <2> QED BY <1>1, <2>1, WholeSeq
<1>3. o \in Seq(T) /\ y \in Seq(T) /\ q = o \o y
  <2>1. k - 1 <= k /\ k <= k
    BY <1>1
  <2> QED BY <1>1, <2>1, SplitSeq
<1>4. o = <<s[k]>>
  <2>1. k \in Int /\ \A j \in k .. k : s[j] \in T
    BY <1>1
  <2>2. /\ o \in Seq(T) /\ Len(o) = IF k <= k THEN k - k + 1 ELSE 0
        /\ \A j \in 1 .. k - k + 1 : o[j] = s[k + j - 1]
    BY <2>1, SubSeqProperties
  <2>3. <<s[k]>> \in Seq(T) /\ Len(<<s[k]>>) = 1 /\ <<s[k]>>[1] = s[k]
    BY <1>1
  <2> DEFINE u == <<s[k]>>
  <2> HIDE DEF o
  <2>4. Len(o) = 1 /\ o[1] = s[k]
    <3>1. k <= k /\ k - k + 1 = 1 /\ k + 1 - 1 = k
      BY <1>1
    <3> QED BY <2>2, <3>1
  <2>5. u \in Seq(T) /\ Len(u) = 1 /\ u[1] = s[k]
    BY <2>3
  <2> HIDE DEF u
  <2>6. Len(o) = Len(u) /\ \A j \in 1 .. Len(o) : o[j] = u[j]
    BY <2>4, <2>5
  <2>7. o = u
    BY <2>2, <2>5, <2>6, SeqEqual
  <2> QED BY <2>7 DEF u
<1>5. S!Count(o, e) = IF s[k] = e THEN 1 ELSE 0
  BY <1>4, CountOne
<1>6. S!RemoveAt(s, k) = x \o y
  BY DEF S!RemoveAt
<1> HIDE DEF x, o, y, q
<1>7. /\ S!Count(s, e) = S!Count(x, e) + S!Count(q, e) /\ S!Count(q, e) = S!Count(o, e) + S!Count(y, e)
      /\ S!Count(x \o y, e) = S!Count(x, e) + S!Count(y, e) /\ x \o y \in Seq(T)
  <2>1. S!Count(x \o q, e) = S!Count(x, e) + S!Count(q, e)
    BY <1>2, CountConcat
  <2>2. S!Count(o \o y, e) = S!Count(o, e) + S!Count(y, e)
    BY <1>3, CountConcat
  <2>3. S!Count(x \o y, e) = S!Count(x, e) + S!Count(y, e)
    BY <1>2, <1>3, CountConcat
  <2>4. x \o y \in Seq(T)
    BY <1>2, <1>3, ConcatProperties
  <2> QED BY <1>2, <1>3, <2>1, <2>2, <2>3, <2>4
<1>8. S!Count(x, e) \in Nat /\ S!Count(y, e) \in Nat
  BY <1>2, <1>3, CountType
<1> DEFINE cx == S!Count(x, e)
           cy == S!Count(y, e)
           cq == S!Count(q, e)
           co == S!Count(o, e)
           cs == S!Count(s, e)
           cxy == S!Count(x \o y, e)
<1>9. cs = cx + cq /\ cq = co + cy /\ cxy = cx + cy /\ cx \in Nat /\ cy \in Nat /\ co = IF s[k] = e THEN 1 ELSE 0
  BY <1>5, <1>7, <1>8
<1> HIDE DEF cx, cy, cq, co, cs, cxy
<1>10. cs = cxy + IF s[k] = e THEN 1 ELSE 0
  BY <1>9
<1> QED BY <1>6, <1>7, <1>10 DEF cs, cxy

\* n times v.
LEMMA CountConstant ==
    ASSUME NEW T, NEW s \in Seq(T), NEW v, \A k \in 1 .. Len(s) : s[k] = v, NEW e
    PROVE  S!Count(s, e) = IF v = e THEN Len(s) ELSE 0
<1>1. Len(s) \in Nat
  BY LenProperties
<1>2. Pos(s, e) = IF v = e THEN 1 .. Len(s) ELSE {}
  BY <1>1 DEF Pos
<1>3. Cardinality(1 .. Len(s)) = Len(s)
  BY <1>1, FS_Interval
<1>4. S!Count(s, e) = Cardinality(Pos(s, e))
  BY CountType
<1> QED BY <1>2, <1>3, <1>4, FS_EmptySet

\* The requests of one client, as the routine is sent them.
LEMMA CountPairs ==
    ASSUME NEW T, NEW g \in Seq(T), NEW D, NEW c \in D, NEW i, NEW d
    PROVE  /\ [k \in 1 .. Len(g) |-> <<g[k], c>>] \in Seq(T \X D)
           /\ S!Count([k \in 1 .. Len(g) |-> <<g[k], c>>], <<i, d>>) = IF c = d THEN S!Count(g, i) ELSE 0
<1> DEFINE s == [k \in 1 .. Len(g) |-> <<g[k], c>>]
<1>1. Len(g) \in Nat /\ \A k \in 1 .. Len(g) : g[k] \in T
  BY LenProperties, ElementOfSeq
<1>2. s \in Seq(T \X D) /\ Len(s) = Len(g) /\ \A k \in 1 .. Len(g) : s[k] = <<g[k], c>>
  BY <1>1
<1> HIDE DEF s
<1>3. Pos(s, <<i, d>>) = IF c = d THEN Pos(g, i) ELSE {}
  BY <1>2 DEF Pos
<1>4. S!Count(s, <<i, d>>) = Cardinality(Pos(s, <<i, d>>)) /\ S!Count(g, i) = Cardinality(Pos(g, i))
  BY <1>2, CountType
<1>5. S!Count(s, <<i, d>>) = IF c = d THEN S!Count(g, i) ELSE 0
  BY <1>3, <1>4, FS_EmptySet
<1> QED BY <1>2, <1>5 DEF s

\* The first bad request of a sequence.
LEMMA FirstBad ==
    ASSUME NEW T, NEW s \in Seq(T), NEW b, \E k \in 1 .. Len(s) : s[k] = b
    PROVE  \E n \in 1 .. Len(s) :
              /\ S!SelectInSeq(s, LAMBDA i : i = b) = n /\ s[n] = b
              /\ \A k \in 1 .. n - 1 : s[k] # b
<1> DEFINE I == {k \in 1 .. Len(s) : s[k] = b}
<1>1. Len(s) \in Nat /\ I # {} /\ I \in SUBSET Nat
  BY LenProperties
<1>2. PICK m \in I : \A n \in I : m <= n
  BY <1>1, LeastOf
<1>3. S!SelectInSeq(s, LAMBDA i : i = b) = CHOOSE x \in I : \A y \in I : x =< y
  BY <1>1 DEF S!SelectInSeq, S!Min
<1>4. m = CHOOSE x \in I : \A y \in I : x =< y
  <2>1. \A x \in I : (\A y \in I : x =< y) => x = m
    <3> SUFFICES ASSUME NEW x \in I, \A y \in I : x =< y PROVE x = m
      OBVIOUS
    <3>1. x <= m /\ m <= x /\ x \in Nat /\ m \in Nat
      BY <1>1, <1>2
    <3> HIDE DEF I
    <3> QED BY <3>1
  <2> HIDE DEF I
  <2> QED BY <1>2, <2>1
<1>5. \A k \in 1 .. m - 1 : s[k] # b
  <2> SUFFICES ASSUME NEW k \in 1 .. m - 1, s[k] = b PROVE FALSE
    OBVIOUS
  <2>1. k \in I /\ ~(m <= k)
    BY <1>1
  <2> QED BY <1>2, <2>1
<1> QED BY <1>2, <1>3, <1>4, <1>5

-----------------------------------------------------------------------------
(* The server: invariant *)

Script == script \in [Clients -> [1 .. NAsks -> PingIps \cup {BadIp}]]

\* What a task has read and parsed.
TaskOk(r) ==
    /\ r.taken <= r.out /\ r.out <= 2 * NAsks
    /\ r.st = "start" => r.taken = 0 /\ r.parsed = 0
    /\ r.st = "select" => r.parsed = r.taken \div 2

\* The requests for i of a task that has not ended.
Asked1(c, i) == S!Count(SubSeq(script[c], 1, stream[c].taken \div 2), i)
Accounted(c, i) ==
    Asked1(c, i) = S!Count(stream[c].answered, i) + S!Count(stream[c].resp, i)
                      + S!Count(reqs, <<i, c>>) + S!Count(senders[i], c)

SInv ==
    /\ S!TypeOK /\ Script /\ S!OneCheckEach
    /\ \A c \in Clients : TaskOk(stream[c])
    /\ \A c \in Clients, i \in PingIps : stream[c].st # "done" => Accounted(c, i)

LEMMA SInitInv ==
    ASSUME S!Init
    PROVE  SInv
<1> DEFINE none == << >>
<1>1. none \in Seq(PingIps) /\ none \in Seq(PingIps \X Clients) /\ none \in Seq(Clients) /\ none = << >>
  OBVIOUS
<1>2. \A e : S!Count(none, e) = 0
  BY CountEmpty
<1> HIDE DEF none
<1>3. /\ checks = none /\ results = none /\ reqs = none /\ senders = [i \in PingIps |-> none]
      /\ stream = [c \in Clients |-> [st |-> "start", out |-> 0, taken |-> 0, parsed |-> 0,
                                      resp |-> none, answered |-> none]]
      /\ cached = [i \in PingIps |-> "none"] /\ Script
  BY <1>1 DEF S!Init, Script
<1>4. S!TypeOK
  BY <1>1, <1>3 DEF S!TypeOK, S!Stream
<1>5. S!OneCheckEach
  <2>1. \A i \in PingIps : senders[i] = << >> /\ S!Count(checks, i) = 0 /\ S!Count(results, i) = 0
    BY <1>1, <1>2, <1>3
  <2> QED BY <2>1 DEF S!OneCheckEach
<1>6. \A c \in Clients : TaskOk(stream[c])
  BY <1>3, PingAssumption DEF TaskOk
<1>7. \A c \in Clients, i \in PingIps : stream[c].st # "done" => Accounted(c, i)
  <2> SUFFICES ASSUME NEW c \in Clients, NEW i \in PingIps PROVE Accounted(c, i)
    OBVIOUS
  <2>1. SubSeq(script[c], 1, 0) = none
    BY <1>1, SubSeqEmpty
  <2>2. stream[c].taken \div 2 = 0 /\ stream[c].answered = none /\ stream[c].resp = none /\ senders[i] = none
    BY <1>3
  <2>3. Asked1(c, i) = 0
    BY <1>2, <2>1, <2>2 DEF Asked1
  <2> QED BY <1>2, <1>3, <2>2, <2>3 DEF Accounted
<1> QED BY <1>3, <1>4, <1>5, <1>6, <1>7 DEF SInv

-----------------------------------------------------------------------------
(* The server: start_ping *)

\* What a task takes from its stream: n halves, of which new are whole requests.
LEMMA ParsedNew ==
    ASSUME SInv, NEW c \in Clients, NEW n \in Nat, stream[c].taken <= n, n <= stream[c].out,
           stream[c].parsed = stream[c].taken \div 2
    PROVE  /\ S!Parsed(c, n) \in Seq(PingIps \cup {BadIp})
           /\ \A i : S!Count(SubSeq(script[c], 1, n \div 2), i)
                        = Asked1(c, i) + S!Count(S!Parsed(c, n), i)
           /\ stream[c].parsed + Len(S!Parsed(c, n)) = n \div 2
<1> DEFINE m == stream[c].parsed
           h == n \div 2
           T == PingIps \cup {BadIp}
           w == script[c]
<1>1. stream[c] \in S!Stream /\ n <= 2 * NAsks /\ NAsks \in Nat
  <2>1. stream[c] \in S!Stream /\ TaskOk(stream[c])
    BY DEF SInv, S!TypeOK
  <2> QED BY <2>1, PingAssumption DEF TaskOk, S!Stream
<1>2. m \in Nat /\ h \in Nat /\ m <= h /\ h <= NAsks
  <2> DEFINE t == stream[c].taken
  <2>1. t \in Nat /\ t <= n /\ m = t \div 2
    BY <1>1 DEF S!Stream
  <2> HIDE DEF t
  <2> QED BY <1>1, <2>1
<1>3. w \in Seq(T) /\ Len(w) = NAsks
  BY <1>1 DEF SInv, Script
<1>4. S!Parsed(c, n) = SubSeq(w, m + 1, h) /\ \A i : Asked1(c, i) = S!Count(SubSeq(w, 1, m), i)
  BY DEF S!Parsed, Asked1
<1>5. \A k \in m + 1 .. h : w[k] \in T
  BY <1>2, <1>3, ElementOfSeq
<1> HIDE DEF m, h, w, T
<1>6. SubSeq(w, m + 1, h) \in Seq(T) /\ Len(SubSeq(w, m + 1, h)) = IF m + 1 <= h THEN h - (m + 1) + 1 ELSE 0
  <2>1. m + 1 \in Int /\ h \in Int
    BY <1>2
  <2> QED BY <1>5, <2>1, SubSeqProperties
<1>7. m + Len(SubSeq(w, m + 1, h)) = h
  BY <1>2, <1>6
<1>8. \A i : S!Count(SubSeq(w, 1, h), i) = S!Count(SubSeq(w, 1, m), i) + S!Count(SubSeq(w, m + 1, h), i)
  <2>1. 1 \in Nat /\ 1 <= 1 /\ 1 - 1 <= m /\ h <= Len(w)
    BY <1>2, <1>3
  <2> QED BY <1>2, <1>3, <2>1, CountSplit
<1> QED BY <1>4, <1>6, <1>7, <1>8 DEF m, h, w, T

\* What is asked for is an address.
GoodOf(new) ==
    IF \E k \in 1 .. Len(new) : new[k] = BadIp
    THEN SubSeq(new, 1, S!SelectInSeq(new, LAMBDA i : i = BadIp) - 1) ELSE new

LEMMA GoodAreAddresses ==
    ASSUME NEW new \in Seq(PingIps \cup {BadIp})
    PROVE  GoodOf(new) \in Seq(PingIps)
<1>0. Len(new) \in Nat /\ \A k \in 1 .. Len(new) : new[k] \in PingIps \cup {BadIp}
  BY LenProperties, ElementOfSeq
<1>1. CASE \E k \in 1 .. Len(new) : new[k] = BadIp
  <2>1. PICK n \in 1 .. Len(new) :
          /\ S!SelectInSeq(new, LAMBDA i : i = BadIp) = n /\ new[n] = BadIp
          /\ \A k \in 1 .. n - 1 : new[k] # BadIp
    BY <1>1, FirstBad
  <2>2. \A k \in 1 .. n - 1 : new[k] \in PingIps
    BY <1>0, <2>1
  <2>3. 1 \in Int /\ n - 1 \in Int
    BY <1>0
  <2>4. SubSeq(new, 1, n - 1) \in Seq(PingIps)
    BY <2>2, <2>3, SubSeqProperties
  <2> QED BY <1>1, <2>1, <2>4 DEF GoodOf
<1>2. CASE ~(\E k \in 1 .. Len(new) : new[k] = BadIp)
  <2>1. \A k \in 1 .. Len(new) : new[k] \in PingIps
    BY <1>0, <1>2
  <2>2. new = [k \in 1 .. Len(new) |-> new[k]] 
    BY <1>0, LenProperties
  <2>3. new \in Seq(PingIps)
    BY <1>0, <2>1, <2>2, SeqDef
  <2> QED BY <1>2, <2>3 DEF GoodOf
<1> QED BY <1>1, <1>2

\* One connection's task changes, and neither the senders nor the channels but for
\* requests of its own.
LEMMA OneTask ==
    ASSUME SInv, NEW c \in Clients, NEW r \in S!Stream, NEW p \in Seq(PingIps \X Clients),
           stream' = [stream EXCEPT ![c] = r], reqs' = reqs \o p,
           UNCHANGED <<script, cached, senders, checks, results>>,
           TaskOk(r), \A d \in Clients \ {c}, i \in PingIps : S!Count(p, <<i, d>>) = 0,
           \A i \in PingIps : r.st # "done" =>
              S!Count(SubSeq(script[c], 1, r.taken \div 2), i)
                = S!Count(r.answered, i) + S!Count(r.resp, i)
                    + (S!Count(reqs, <<i, c>>) + S!Count(p, <<i, c>>)) + S!Count(senders[i], c)
    PROVE  SInv'
<1>0. S!TypeOK
  BY DEF SInv
<1>1. reqs' \in Seq(PingIps \X Clients)
       /\ \A e : S!Count(reqs', e) = S!Count(reqs, e) + S!Count(p, e) /\ S!Count(reqs, e) \in Nat
  BY <1>0, ConcatProperties, CountConcat, CountType DEF S!TypeOK
<1>2. S!TypeOK'
  BY <1>0, <1>1 DEF S!TypeOK
<1>3. (S!OneCheckEach)'
  BY DEF SInv, S!OneCheckEach
<1>4. \A d \in Clients : TaskOk(stream'[d])
  BY <1>0 DEF SInv, S!TypeOK
<1>5. ASSUME NEW d \in Clients, NEW i \in PingIps, stream'[d].st # "done"
      PROVE  Accounted(d, i)'
  <2>1. CASE d = c
    <3>1. stream'[d] = r
      BY <1>0, <2>1 DEF S!TypeOK
    <3> QED BY <1>1, <1>5, <2>1, <3>1 DEF Accounted, Asked1
  <2>2. CASE d # c
    <3>1. stream'[d] = stream[d] /\ S!Count(p, <<i, d>>) = 0
      BY <1>0, <2>2 DEF S!TypeOK
    <3>2. S!Count(reqs', <<i, d>>) = S!Count(reqs, <<i, d>>)
      BY <1>1, <3>1
    <3>3. Accounted(d, i)
      BY <1>5, <3>1 DEF SInv
    <3> QED BY <3>1, <3>2, <3>3 DEF Accounted, Asked1
  <2> QED BY <2>1, <2>2
<1> QED BY <1>2, <1>3, <1>4, <1>5 DEF SInv, Script

LEMMA AskInv ==
    ASSUME SInv, NEW c \in Clients, NEW n \in Nat, stream[c].taken <= n, n <= stream[c].out,
           stream[c].parsed = stream[c].taken \div 2, stream[c].st # "done", S!Ask(c, n)
    PROVE  SInv'
<1> DEFINE new == S!Parsed(c, n)
           good == GoodOf(new)
           bad == \E k \in 1 .. Len(new) : new[k] = BadIp
           p == [k \in 1 .. Len(good) |-> <<good[k], c>>]
           none == << >>
           r == [stream[c] EXCEPT !.st = IF bad THEN "done" ELSE "select", !.taken = n,
                                  !.parsed = @ + Len(good), !.resp = IF bad THEN none ELSE @]
<1>1. /\ stream' = [stream EXCEPT ![c] = r] /\ reqs' = reqs \o p
      /\ UNCHANGED <<script, cached, senders, checks, results>>
  BY DEF S!Ask, S!Task, GoodOf
<1>2. new \in Seq(PingIps \cup {BadIp}) /\ good \in Seq(PingIps)
      /\ (\A i : S!Count(SubSeq(script[c], 1, n \div 2), i) = Asked1(c, i) + S!Count(new, i))
      /\ stream[c].parsed + Len(new) = n \div 2
  BY ParsedNew, GoodAreAddresses
<1>3. ~bad => good = new
  BY DEF GoodOf
<1>4. none \in Seq(PingIps)
  OBVIOUS
<1>5. /\ p \in Seq(PingIps \X Clients)
      /\ \A i, d : S!Count(p, <<i, d>>) = IF c = d THEN S!Count(good, i) ELSE 0
  BY <1>2, CountPairs
<1>6. stream[c] \in S!Stream /\ TaskOk(stream[c])
  BY DEF SInv, S!TypeOK
<1> HIDE DEF new, good, bad, p, none
<1>7. /\ r \in S!Stream /\ r.taken = n /\ r.out = stream[c].out /\ r.answered = stream[c].answered
      /\ r.st = (IF bad THEN "done" ELSE "select") /\ r.parsed = stream[c].parsed + Len(good)
      /\ ~bad => r.resp = stream[c].resp
  <2> DEFINE o == stream[c]
             l == o.parsed + Len(good)
             x == IF bad THEN "done" ELSE "select"
             y == IF bad THEN none ELSE o.resp
  <2>1. l \in Nat /\ x \in {"start", "select", "done"} /\ y \in Seq(PingIps) /\ (~bad => y = o.resp)
    BY SMTT(60), <1>2, <1>4, <1>6, LenProperties DEF S!Stream
  <2>2. r = [o EXCEPT !.st = x, !.taken = n, !.parsed = l, !.resp = y]
    OBVIOUS
  <2> HIDE DEF l, x, y, r
  <2>3. o \in S!Stream
    BY <1>6
  <2> HIDE DEF o
  <2>4. /\ r \in S!Stream /\ r.taken = n /\ r.out = o.out /\ r.answered = o.answered
        /\ r.st = x /\ r.parsed = l /\ r.resp = y
    BY <2>1, <2>2, <2>3 DEF S!Stream
  <2> QED BY <2>1, <2>4 DEF o, l, x
<1> HIDE DEF r
<1>8. TaskOk(r)
  BY <1>2, <1>3, <1>6, <1>7 DEF TaskOk
<1>9. ASSUME NEW i \in PingIps, r.st # "done"
      PROVE  S!Count(SubSeq(script[c], 1, r.taken \div 2), i)
                = S!Count(r.answered, i) + S!Count(r.resp, i)
                    + (S!Count(reqs, <<i, c>>) + S!Count(p, <<i, c>>)) + S!Count(senders[i], c)
  <2>1. ~bad /\ S!Count(p, <<i, c>>) = S!Count(new, i)
    BY <1>3, <1>5, <1>7, <1>9
  <2>2. Accounted(c, i)
    BY DEF SInv
  <2> DEFINE x == S!Count(SubSeq(script[c], 1, n \div 2), i)
             a == Asked1(c, i)
             u == S!Count(new, i)
             v == S!Count(stream[c].answered, i)
             w == S!Count(stream[c].resp, i)
             y == S!Count(reqs, <<i, c>>)
             z == S!Count(senders[i], c)
  <2>3. x = a + u /\ a = v + w + y + z
    BY <1>2, <2>2 DEF Accounted
  <2>4. u \in Nat /\ v \in Nat /\ w \in Nat /\ y \in Nat /\ z \in Nat
    BY <1>2, <1>6, CountType DEF SInv, S!TypeOK, S!Stream
  <2> HIDE DEF x, a, u, v, w, y, z
  <2>5. x = v + w + (y + u) + z
    BY <2>3, <2>4
  <2> QED BY <1>7, <2>1, <2>5 DEF x, u, v, w, y, z
<1>10. \A d \in Clients \ {c}, i \in PingIps : S!Count(p, <<i, d>>) = 0
  BY <1>5
<1>11. r \in S!Stream /\ p \in Seq(PingIps \X Clients)
  BY <1>5, <1>7
<1> QED BY <1>1, <1>8, <1>9, <1>10, <1>11, OneTask

LEMMA TaskInv ==
    ASSUME SInv, NEW c \in Clients, S!TaskStep(c) \/ S!Ends(c) \/ S!ClientWrites(c)
    PROVE  SInv'
<1> DEFINE none == << >>
           o == stream[c]
<1>0. o \in S!Stream /\ TaskOk(o) /\ reqs \in Seq(PingIps \X Clients) /\ senders \in [PingIps -> Seq(Clients)]
  BY DEF SInv, S!TypeOK
<1>1. none \in Seq(PingIps) /\ none \in Seq(PingIps \X Clients) /\ reqs \o none = reqs
      /\ \A e : S!Count(none, e) = 0
  BY <1>0, CountEmpty, ConcatEmptySeq
<1>2. \A i \in PingIps : /\ S!Count(o.answered, i) \in Nat /\ S!Count(o.resp, i) \in Nat
                         /\ S!Count(reqs, <<i, c>>) \in Nat /\ S!Count(senders[i], c) \in Nat
  BY <1>0, CountType DEF S!Stream
<1>3. \A i \in PingIps : o.st # "done" => Accounted(c, i)
  BY DEF SInv
<1>4. CASE S!Start(c)
  <2>1. o.st = "start" /\ S!Ask(c, o.out) /\ o.out \in Nat /\ o.taken <= o.out /\ o.out <= o.out
    BY <1>0, <1>4 DEF S!Start, TaskOk, S!Stream
  <2>2. o.parsed = o.taken \div 2
    BY <1>0, <2>1 DEF TaskOk
  <2> QED BY <2>1, <2>2, AskInv
<1>5. CASE S!ReadSource(c)
  <2>1. PICK n \in o.taken + 1 .. o.out : S!Ask(c, n)
    BY <1>5 DEF S!ReadSource
  <2>2. o.st = "select" /\ n \in Nat /\ o.taken <= n /\ n <= o.out /\ o.parsed = o.taken \div 2
    BY <1>0, <1>5, <2>1 DEF S!ReadSource, TaskOk, S!Stream
  <2> QED BY <2>1, <2>2, AskInv
<1>6. CASE S!Respond(c)
  <2> DEFINE r == [o EXCEPT !.resp = Tail(@), !.answered = Append(@, Head(o.resp))]
  <2>1. o.st = "select" /\ o.resp # << >> /\ stream' = [stream EXCEPT ![c] = r]
        /\ UNCHANGED <<script, reqs, cached, senders, checks, results>>
    BY <1>6 DEF S!Respond, S!Task, S!routineVars
  <2>2. o.resp \in Seq(PingIps) /\ o.answered \in Seq(PingIps)
    BY <1>0 DEF S!Stream
  <2>3. Head(o.resp) \in PingIps /\ Tail(o.resp) \in Seq(PingIps) /\ Append(o.answered, Head(o.resp)) \in Seq(PingIps)
    BY <2>1, <2>2, HeadTailProperties, AppendProperties
  <2>4. \A i : /\ S!Count(o.resp, i) = S!Count(Tail(o.resp), i) + IF Head(o.resp) = i THEN 1 ELSE 0
               /\ S!Count(Append(o.answered, Head(o.resp)), i)
                     = S!Count(o.answered, i) + IF Head(o.resp) = i THEN 1 ELSE 0
               /\ S!Count(Tail(o.resp), i) \in Nat
    <3> DEFINE q == o.resp
               a == o.answered
    <3>1. q \in Seq(PingIps) /\ q # << >> /\ a \in Seq(PingIps) /\ Head(q) \in PingIps /\ Tail(q) \in Seq(PingIps)
      BY <2>1, <2>2, <2>3
    <3> HIDE DEF q, a, o
    <3>2. \A i : S!Count(q, i) = S!Count(Tail(q), i) + IF Head(q) = i THEN 1 ELSE 0
      BY <3>1, CountHead
    <3>3. \A i : S!Count(Append(a, Head(q)), i) = S!Count(a, i) + IF Head(q) = i THEN 1 ELSE 0
      BY <3>1, CountAppend
    <3>4. \A i : S!Count(Tail(q), i) \in Nat
      BY <3>1, CountType
    <3> QED BY <3>2, <3>3, <3>4 DEF q, a
  <2>5. /\ r \in S!Stream /\ r.st = o.st /\ r.out = o.out /\ r.taken = o.taken /\ r.parsed = o.parsed
        /\ r.resp = Tail(o.resp) /\ r.answered = Append(o.answered, Head(o.resp))
    BY <1>0, <2>3 DEF S!Stream
  <2> HIDE DEF r, none
  <2>6. TaskOk(r)
    BY <1>0, <2>5 DEF TaskOk
  <2>7. ASSUME NEW i \in PingIps
        PROVE  S!Count(SubSeq(script[c], 1, r.taken \div 2), i)
                = S!Count(r.answered, i) + S!Count(r.resp, i)
                    + (S!Count(reqs, <<i, c>>) + S!Count(none, <<i, c>>)) + S!Count(senders[i], c)
    <3> DEFINE a == Asked1(c, i)
               v == S!Count(o.answered, i)
               w == S!Count(o.resp, i)
               v1 == S!Count(r.answered, i)
               w1 == S!Count(r.resp, i)
               y == S!Count(reqs, <<i, c>>)
               z == S!Count(senders[i], c)
               j == IF Head(o.resp) = i THEN 1 ELSE 0
    <3>1. a = v + w + y + z /\ w = w1 + j /\ v1 = v + j /\ j \in Nat
      BY <1>3, <2>1, <2>4, <2>5 DEF Accounted
    <3>2. v \in Nat /\ w1 \in Nat /\ y \in Nat /\ z \in Nat /\ S!Count(none, <<i, c>>) = 0
      BY <1>1, <1>2, <2>4, <2>5
    <3> HIDE DEF a, v, w, v1, w1, y, z, j
    <3>3. a = v1 + w1 + (y + 0) + z
      BY <3>1, <3>2
    <3> QED BY <2>5, <3>2, <3>3 DEF a, v1, w1, y, z, Asked1
  <2> QED BY <1>1, <2>1, <2>5, <2>6, <2>7, OneTask
<1>7. CASE S!Ends(c)
  <2> DEFINE r == [o EXCEPT !.st = "done", !.resp = none]
  <2>1. stream' = [stream EXCEPT ![c] = r] /\ UNCHANGED <<script, reqs, cached, senders, checks, results>>
    BY <1>7 DEF S!Ends, S!Task, S!routineVars
  <2> HIDE DEF none
  <2>2. r \in S!Stream /\ r.st = "done" /\ r.out = o.out /\ r.taken = o.taken
    BY <1>0, <1>1 DEF S!Stream
  <2> HIDE DEF r
  <2>3. TaskOk(r)
    BY <1>0, <2>2 DEF TaskOk
  <2> QED BY <1>1, <2>1, <2>2, <2>3, OneTask
<1>8. CASE S!ClientWrites(c)
  <2> DEFINE r == [o EXCEPT !.out = @ + 1]
  <2>1. /\ stream' = [stream EXCEPT ![c] = r] /\ UNCHANGED <<script, reqs, cached, senders, checks, results>>
        /\ o.st # "done" /\ o.out < 2 * NAsks
    BY <1>8 DEF S!ClientWrites, S!Task, S!routineVars
  <2>2. /\ r \in S!Stream /\ r.st = o.st /\ r.out = o.out + 1 /\ r.taken = o.taken /\ r.parsed = o.parsed
        /\ r.resp = o.resp /\ r.answered = o.answered
    <3> DEFINE l == o.out + 1
    <3>1. l \in Nat /\ r = [o EXCEPT !.out = l] /\ o \in S!Stream
      BY <1>0 DEF S!Stream
    <3> HIDE DEF l, o, r
    <3>2. /\ r \in S!Stream /\ r.st = o.st /\ r.out = l /\ r.taken = o.taken /\ r.parsed = o.parsed
          /\ r.resp = o.resp /\ r.answered = o.answered
      BY <3>1 DEF S!Stream
    <3> QED BY <3>2 DEF l
  <2> HIDE DEF r, none
  <2>3. TaskOk(r)
    <3> DEFINE ot == o.out
               nt == 2 * NAsks
               tt == o.taken
    <3>1. ot \in Nat /\ nt \in Nat /\ tt \in Nat /\ ot < nt /\ tt <= ot
      BY <1>0, <2>1, PingAssumption DEF S!Stream, TaskOk
    <3> HIDE DEF ot, nt, tt
    <3>2. ot + 1 <= nt /\ tt <= ot + 1
      BY <3>1
    <3> QED BY <1>0, <2>2, <3>2 DEF TaskOk, ot, nt, tt
  <2>4. ASSUME NEW i \in PingIps
        PROVE  S!Count(SubSeq(script[c], 1, r.taken \div 2), i)
                = S!Count(r.answered, i) + S!Count(r.resp, i)
                    + (S!Count(reqs, <<i, c>>) + S!Count(none, <<i, c>>)) + S!Count(senders[i], c)
    <3> DEFINE y == S!Count(reqs, <<i, c>>)
    <3>1. Accounted(c, i) /\ S!Count(none, <<i, c>>) = 0 /\ y \in Nat
      BY <1>1, <1>2, <1>3, <2>1
    <3> HIDE DEF y
    <3>2. y + 0 = y
      BY <3>1
    <3> QED BY <2>2, <3>1, <3>2 DEF Accounted, Asked1, y
  <2> QED BY <1>1, <2>1, <2>2, <2>3, <2>4, OneTask
<1> QED BY <1>4, <1>5, <1>6, <1>7, <1>8 DEF S!TaskStep

-----------------------------------------------------------------------------
(* The server: start_check_routine *)

LEMMA TellResp ==
    ASSUME S!TypeOK, NEW cs \in Seq(Clients), NEW a \in PingIps, stream' = S!Tell(cs, a)
    PROVE  /\ stream' \in [Clients -> S!Stream]
           /\ \A c \in Clients :
                /\ stream'[c].st = stream[c].st /\ stream'[c].out = stream[c].out
                /\ stream'[c].taken = stream[c].taken /\ stream'[c].parsed = stream[c].parsed
                /\ stream'[c].answered = stream[c].answered
                /\ stream[c].st # "done" =>
                      \A i : S!Count(stream'[c].resp, i) = S!Count(stream[c].resp, i) + IF a = i THEN S!Count(cs, c) ELSE 0
<1>1. ASSUME NEW c \in Clients
      PROVE  /\ stream'[c] \in S!Stream
             /\ stream'[c].st = stream[c].st /\ stream'[c].out = stream[c].out
             /\ stream'[c].taken = stream[c].taken /\ stream'[c].parsed = stream[c].parsed
             /\ stream'[c].answered = stream[c].answered
             /\ stream[c].st # "done" =>
                   \A i : S!Count(stream'[c].resp, i) = S!Count(stream[c].resp, i) + IF a = i THEN S!Count(cs, c) ELSE 0
  <2> DEFINE o == stream[c]
             n == S!Count(cs, c)
             t == [k \in 1 .. n |-> a]
             q == o.resp \o t
  <2>0. o \in S!Stream
    BY DEF S!TypeOK
  <2>1. CASE o.st = "done"
    <3>1. stream'[c] = o
      BY <2>1 DEF S!Tell
    <3> QED BY <2>0, <2>1, <3>1
  <2>2. CASE o.st # "done"
    <3>1. stream'[c] = [o EXCEPT !.resp = q]
      BY <2>2 DEF S!Tell
    <3>2. n \in Nat /\ o.resp \in Seq(PingIps)
      BY <2>0, CountType DEF S!Stream
    <3>3. t \in Seq(PingIps) /\ Len(t) = n /\ \A k \in 1 .. Len(t) : t[k] = a
      <4> HIDE DEF n
      <4> QED BY <3>2
    <3> HIDE DEF t
    <3>4. \A i : S!Count(t, i) = IF a = i THEN n ELSE 0
      BY <3>3, CountConstant
    <3>5. q \in Seq(PingIps) /\ \A i : S!Count(q, i) = S!Count(o.resp, i) + S!Count(t, i)
      BY <3>2, <3>3, ConcatProperties, CountConcat
    <3> HIDE DEF q, n, o
    <3>6. /\ stream'[c] \in S!Stream
          /\ stream'[c].st = o.st /\ stream'[c].out = o.out
          /\ stream'[c].taken = o.taken /\ stream'[c].parsed = o.parsed
          /\ stream'[c].answered = o.answered /\ stream'[c].resp = q
      BY <2>0, <3>1, <3>5 DEF S!Stream
    <3> QED BY <3>4, <3>5, <3>6 DEF n, o
  <2> QED BY <2>1, <2>2
<1>2. stream' \in [Clients -> S!Stream]
  <2>1. stream' = [c \in Clients |-> stream'[c]]
    BY DEF S!Tell
  <2> QED BY <1>1, <2>1
<1> QED BY <1>1, <1>2

\* A step that moves requests between the channel of requests, the waiting clients
\* and the channels of results.
LEMMA Moves ==
    ASSUME SInv, S!TypeOK', (S!OneCheckEach)', script' = script,
           \A c \in Clients :
              /\ stream'[c].st = stream[c].st /\ stream'[c].out = stream[c].out
              /\ stream'[c].taken = stream[c].taken /\ stream'[c].parsed = stream[c].parsed
              /\ stream'[c].answered = stream[c].answered,
           \A c \in Clients, i \in PingIps : stream[c].st # "done" =>
              S!Count(stream[c].resp, i) + S!Count(reqs, <<i, c>>) + S!Count(senders[i], c)
                = S!Count(stream'[c].resp, i) + S!Count(reqs', <<i, c>>) + S!Count(senders'[i], c)
    PROVE  SInv'
<1>1. \A c \in Clients : TaskOk(stream'[c])
  BY DEF SInv, TaskOk
<1>2. ASSUME NEW c \in Clients, NEW i \in PingIps, stream'[c].st # "done"
      PROVE  Accounted(c, i)'
  <2> DEFINE a == S!Count(stream[c].answered, i)
             w == S!Count(stream[c].resp, i)
             y == S!Count(reqs, <<i, c>>)
             z == S!Count(senders[i], c)
             w1 == S!Count(stream'[c].resp, i)
             y1 == S!Count(reqs', <<i, c>>)
             z1 == S!Count(senders'[i], c)
             x == Asked1(c, i)
  <2>1. x = a + w + y + z /\ w + y + z = w1 + y1 + z1
    BY <1>2 DEF SInv, Accounted
  <2>2. a \in Nat /\ w \in Nat /\ y \in Nat /\ z \in Nat
    <3>1. /\ stream[c].answered \in Seq(PingIps) /\ stream[c].resp \in Seq(PingIps)
          /\ reqs \in Seq(PingIps \X Clients) /\ senders[i] \in Seq(Clients)
      BY DEF SInv, S!TypeOK, S!Stream
    <3> QED BY <3>1, CountType
  <2>3. w1 \in Nat /\ y1 \in Nat /\ z1 \in Nat
    <3>1. stream'[c].resp \in Seq(PingIps) /\ reqs' \in Seq(PingIps \X Clients) /\ senders'[i] \in Seq(Clients)
      BY DEF S!TypeOK, S!Stream
    <3> QED BY <3>1, CountType
  <2>4. Asked1(c, i)' = x
    BY DEF Asked1
  <2> HIDE DEF a, w, y, z, w1, y1, z1, x
  <2>5. x = a + w1 + y1 + z1
    BY <2>1, <2>2, <2>3
  <2> QED BY <2>4, <2>5 DEF Accounted, a, w1, y1, z1
<1> QED BY <1>1, <1>2 DEF SInv, Script

LEMMA HandleCachedInv ==
    ASSUME SInv, S!HandleCached
    PROVE  SInv'
<1> DEFINE h == Head(reqs)
           o == <<h[2]>>
<1>1. /\ reqs # << >> /\ stream' = S!Tell(o, h[1]) /\ reqs' = Tail(reqs)
      /\ UNCHANGED <<script, cached, senders, checks, results>>
  BY DEF S!HandleCached
<1>2. S!TypeOK /\ reqs \in Seq(PingIps \X Clients)
  BY DEF SInv, S!TypeOK
<1>3. h \in PingIps \X Clients /\ Tail(reqs) \in Seq(PingIps \X Clients)
  BY <1>1, <1>2, HeadTailProperties
<1> HIDE DEF h
<1>4. h[1] \in PingIps /\ h[2] \in Clients /\ h = <<h[1], h[2]>>
  BY <1>3
<1>5. o \in Seq(Clients) /\ \A c : S!Count(o, c) = IF h[2] = c THEN 1 ELSE 0
  BY <1>4, CountOne
<1> HIDE DEF o
<1>6. /\ stream' \in [Clients -> S!Stream]
      /\ \A c \in Clients :
                /\ stream'[c].st = stream[c].st /\ stream'[c].out = stream[c].out
                /\ stream'[c].taken = stream[c].taken /\ stream'[c].parsed = stream[c].parsed
                /\ stream'[c].answered = stream[c].answered
                /\ stream[c].st # "done" =>
                      \A i : S!Count(stream'[c].resp, i)
                                = S!Count(stream[c].resp, i) + IF h[1] = i THEN S!Count(o, c) ELSE 0
  BY <1>1, <1>2, <1>4, <1>5, TellResp
<1>7. S!TypeOK'
  BY <1>1, <1>2, <1>3, <1>6 DEF S!TypeOK
<1>8. (S!OneCheckEach)'
  BY <1>1 DEF SInv, S!OneCheckEach
<1>9. ASSUME NEW c \in Clients, NEW i \in PingIps, stream[c].st # "done"
      PROVE  S!Count(stream[c].resp, i) + S!Count(reqs, <<i, c>>) + S!Count(senders[i], c)
                = S!Count(stream'[c].resp, i) + S!Count(reqs', <<i, c>>) + S!Count(senders'[i], c)
  <2> DEFINE w == S!Count(stream[c].resp, i)
             y == S!Count(reqs, <<i, c>>)
             z == S!Count(senders[i], c)
             w1 == S!Count(stream'[c].resp, i)
             y1 == S!Count(reqs', <<i, c>>)
             j == IF h = <<i, c>> THEN 1 ELSE 0
  <2>1. y = y1 + j
    BY <1>1, <1>2, CountHead DEF h
  <2>2. w1 = w + j
    <3>1. w1 = w + IF h[1] = i THEN S!Count(o, c) ELSE 0
      BY <1>6, <1>9
    <3>2. (IF h[1] = i THEN S!Count(o, c) ELSE 0) = j
      BY <1>4, <1>5
    <3> QED BY <3>1, <3>2
  <2>3. w \in Nat /\ y1 \in Nat /\ z \in Nat
    <3>1. stream[c].resp \in Seq(PingIps) /\ reqs' \in Seq(PingIps \X Clients) /\ senders[i] \in Seq(Clients)
      BY <1>2, <1>7 DEF S!TypeOK, S!Stream
    <3> QED BY <3>1, CountType
  <2>4. j \in Nat
    OBVIOUS
  <2> HIDE DEF w, y, z, w1, y1, j
  <2>5. w + y + z = w1 + y1 + z
    BY <2>1, <2>2, <2>3, <2>4
  <2> QED BY <1>1, <2>5 DEF w, y, z, w1, y1
<1> QED BY <1>1, <1>6, <1>7, <1>8, <1>9, Moves

LEMMA HandleRequestInv ==
    ASSUME SInv, S!HandleRequest
    PROVE  SInv'
<1> DEFINE h == Head(reqs)
           a == h[1]
<1>1. /\ reqs # << >> /\ reqs' = Tail(reqs)
      /\ senders' = [senders EXCEPT ![a] = Append(@, h[2])]
      /\ checks' = IF senders[a] = << >> THEN Append(checks, a) ELSE checks
      /\ UNCHANGED <<script, stream, cached, results>>
  BY DEF S!HandleRequest
<1>2. S!TypeOK /\ reqs \in Seq(PingIps \X Clients) /\ senders \in [PingIps -> Seq(Clients)] /\ checks \in Seq(PingIps)
  BY DEF SInv, S!TypeOK
<1>3. h \in PingIps \X Clients /\ Tail(reqs) \in Seq(PingIps \X Clients)
  BY <1>1, <1>2, HeadTailProperties
<1> HIDE DEF h
<1>4. a \in PingIps /\ h[2] \in Clients /\ h = <<a, h[2]>>
  BY <1>3
<1> HIDE DEF a
<1>5. Append(senders[a], h[2]) \in Seq(Clients) /\ Append(checks, a) \in Seq(PingIps)
       /\ Append(senders[a], h[2]) # << >>
  BY <1>2, <1>4, AppendProperties
<1>6. S!TypeOK'
  BY <1>1, <1>2, <1>3, <1>5 DEF S!TypeOK
<1>7. (S!OneCheckEach)'
  <2> SUFFICES ASSUME NEW i \in PingIps
               PROVE  S!Count(checks', i) + S!Count(results, i) = IF senders'[i] = << >> THEN 0 ELSE 1
    BY <1>1 DEF S!OneCheckEach
  <2>1. S!Count(checks, i) + S!Count(results, i) = IF senders[i] = << >> THEN 0 ELSE 1
    BY DEF SInv, S!OneCheckEach
  <2>2. S!Count(Append(checks, a), i) = S!Count(checks, i) + IF a = i THEN 1 ELSE 0
    BY <1>2, <1>4, CountAppend
  <2>3. S!Count(checks, i) \in Nat /\ S!Count(results, i) \in Nat
    BY <1>2, CountType DEF S!TypeOK
  <2>4. CASE i # a
    <3>1. senders'[i] = senders[i] /\ S!Count(checks', i) = S!Count(checks, i)
      BY <1>1, <1>2, <2>2, <2>3, <2>4
    <3> QED BY <2>1, <3>1
  <2>5. CASE i = a /\ senders[a] = << >>
    <3>1. senders'[i] # << >> /\ S!Count(checks', i) = S!Count(checks, i) + 1
      BY <1>1, <1>2, <1>5, <2>2, <2>5
    <3> QED BY <2>1, <2>3, <2>5, <3>1
  <2>6. CASE i = a /\ senders[a] # << >>
    <3>1. senders'[i] # << >> /\ checks' = checks
      BY <1>1, <1>2, <1>5, <2>6
    <3> QED BY <2>1, <2>6, <3>1
  <2> QED BY <2>4, <2>5, <2>6
<1>8. ASSUME NEW c \in Clients, NEW i \in PingIps
      PROVE  S!Count(stream[c].resp, i) + S!Count(reqs, <<i, c>>) + S!Count(senders[i], c)
                = S!Count(stream'[c].resp, i) + S!Count(reqs', <<i, c>>) + S!Count(senders'[i], c)
  <2> DEFINE w == S!Count(stream[c].resp, i)
             y == S!Count(reqs, <<i, c>>)
             z == S!Count(senders[i], c)
             y1 == S!Count(reqs', <<i, c>>)
             z1 == S!Count(senders'[i], c)
             j == IF h = <<i, c>> THEN 1 ELSE 0
  <2>1. y = y1 + j
    BY <1>1, <1>2, CountHead DEF h
  <2>2. z1 = z + j
    <3>1. S!Count(Append(senders[a], h[2]), c) = S!Count(senders[a], c) + IF h[2] = c THEN 1 ELSE 0
      BY <1>2, <1>4, CountAppend
    <3>2. z \in Nat
      BY <1>2, CountType
    <3>3. CASE a = i
      BY <1>1, <1>2, <1>4, <3>1, <3>3
    <3>4. CASE a # i
      <4>1. senders'[i] = senders[i] /\ j = 0
        BY <1>1, <1>2, <1>4, <3>4
      <4> HIDE DEF j
      <4> QED BY <3>2, <4>1
    <3> QED BY <3>3, <3>4
  <2>3. w \in Nat /\ y1 \in Nat /\ z \in Nat
    <3>1. stream[c].resp \in Seq(PingIps) /\ reqs' \in Seq(PingIps \X Clients) /\ senders[i] \in Seq(Clients)
      BY <1>2, <1>6 DEF S!TypeOK, S!Stream
    <3> QED BY <3>1, CountType
  <2>4. j \in Nat
    OBVIOUS
  <2> HIDE DEF w, y, z, y1, z1, j
  <2>5. w + y + z = w + y1 + z1
    BY <2>1, <2>2, <2>3, <2>4
  <2> QED BY <1>1, <2>5 DEF w, y, z, y1, z1
<1> QED BY <1>1, <1>6, <1>7, <1>8, Moves

LEMMA HandleResultInv ==
    ASSUME SInv, S!HandleResult
    PROVE  SInv'
<1> DEFINE a == Head(results)
           none == << >>
<1>1. /\ results # << >> /\ results' = Tail(results) /\ stream' = S!Tell(senders[a], a)
      /\ senders' = [senders EXCEPT ![a] = none] /\ cached' = [cached EXCEPT ![a] = "fresh"]
      /\ UNCHANGED <<script, reqs, checks>>
  BY DEF S!HandleResult
<1>2. S!TypeOK /\ results \in Seq(PingIps) /\ senders \in [PingIps -> Seq(Clients)]
  BY DEF SInv, S!TypeOK
<1>3. a \in PingIps /\ Tail(results) \in Seq(PingIps)
  BY <1>1, <1>2, HeadTailProperties
<1>4. none \in Seq(Clients) /\ none = << >> /\ \A e : S!Count(none, e) = 0
  BY CountEmpty
<1>5. \A i : S!Count(results, i) = S!Count(Tail(results), i) + IF a = i THEN 1 ELSE 0
  BY <1>1, <1>2, CountHead
<1> HIDE DEF a, none
<1>6. /\ stream' \in [Clients -> S!Stream]
      /\ \A c \in Clients :
                /\ stream'[c].st = stream[c].st /\ stream'[c].out = stream[c].out
                /\ stream'[c].taken = stream[c].taken /\ stream'[c].parsed = stream[c].parsed
                /\ stream'[c].answered = stream[c].answered
                /\ stream[c].st # "done" =>
                      \A i : S!Count(stream'[c].resp, i)
                                = S!Count(stream[c].resp, i) + IF a = i THEN S!Count(senders[a], c) ELSE 0
  <2>1. senders[a] \in Seq(Clients)
    BY <1>2, <1>3
  <2> QED BY <1>1, <1>2, <1>3, <2>1, TellResp
<1>7. S!TypeOK'
  BY <1>1, <1>2, <1>3, <1>4, <1>6 DEF S!TypeOK
<1>8. (S!OneCheckEach)'
  <2> SUFFICES ASSUME NEW i \in PingIps
               PROVE  S!Count(checks, i) + S!Count(results', i) = IF senders'[i] = << >> THEN 0 ELSE 1
    BY <1>1 DEF S!OneCheckEach
  <2>1. S!Count(checks, i) + S!Count(results, i) = IF senders[i] = << >> THEN 0 ELSE 1
    BY DEF SInv, S!OneCheckEach
  <2>2. S!Count(checks, i) \in Nat /\ S!Count(results', i) \in Nat
    BY <1>2, <1>7, CountType DEF S!TypeOK
  <2>3. CASE i # a
    <3>1. senders'[i] = senders[i] /\ S!Count(results', i) = S!Count(results, i)
      BY <1>1, <1>2, <1>5, <2>2, <2>3
    <3> QED BY <2>1, <3>1
  <2>4. CASE i = a
    <3>1. senders'[i] = << >> /\ S!Count(results, i) = S!Count(results', i) + 1
      BY <1>1, <1>2, <1>4, <1>5, <2>4
    <3> QED BY <2>1, <2>2, <3>1
  <2> QED BY <2>3, <2>4
<1>9. ASSUME NEW c \in Clients, NEW i \in PingIps, stream[c].st # "done"
      PROVE  S!Count(stream[c].resp, i) + S!Count(reqs, <<i, c>>) + S!Count(senders[i], c)
                = S!Count(stream'[c].resp, i) + S!Count(reqs', <<i, c>>) + S!Count(senders'[i], c)
  <2> DEFINE w == S!Count(stream[c].resp, i)
             y == S!Count(reqs, <<i, c>>)
             z == S!Count(senders[i], c)
             w1 == S!Count(stream'[c].resp, i)
             z1 == S!Count(senders'[i], c)
  <2>1. w \in Nat /\ y \in Nat /\ z \in Nat
    <3>1. stream[c].resp \in Seq(PingIps) /\ reqs \in Seq(PingIps \X Clients) /\ senders[i] \in Seq(Clients)
      BY <1>2 DEF S!TypeOK, S!Stream
    <3> QED BY <3>1, CountType
  <2>2. CASE i = a
    <3>1. w1 = w + z
      BY <1>6, <1>9, <2>2
    <3>2. z1 = 0
      BY <1>1, <1>2, <1>4, <2>2
    <3> HIDE DEF w, y, z, w1, z1
    <3>3. w + y + z = w1 + y + z1
      BY <2>1, <3>1, <3>2
    <3> QED BY <1>1, <3>3 DEF w, y, z, w1, z1
  <2>3. CASE i # a
    <3>1. w1 = w + 0
      BY <1>6, <1>9, <2>3
    <3>2. z1 = z
      BY <1>1, <1>2, <2>3
    <3> HIDE DEF w, y, z, w1, z1
    <3>3. w + y + z = w1 + y + z1
      BY <2>1, <3>1, <3>2
    <3> QED BY <1>1, <3>3 DEF w, y, z, w1, z1
  <2> QED BY <2>2, <2>3
<1> QED BY <1>1, <1>6, <1>7, <1>8, <1>9, Moves

LEMMA DoCheckInv ==
    ASSUME SInv, S!DoCheck
    PROVE  SInv'
<1>1. PICK k \in 1 .. Len(checks) :
        /\ results' = Append(results, checks[k]) /\ checks' = S!RemoveAt(checks, k)
        /\ UNCHANGED <<script, stream, reqs, cached, senders>>
  BY DEF S!DoCheck
<1>2. S!TypeOK /\ results \in Seq(PingIps) /\ checks \in Seq(PingIps)
  BY DEF SInv, S!TypeOK
<1>3. checks[k] \in PingIps
  BY <1>2, ElementOfSeq
<1> DEFINE v == checks[k]
<1>4. Append(results, v) \in Seq(PingIps) /\ S!RemoveAt(checks, k) \in Seq(PingIps)
  BY <1>2, <1>3, AppendProperties, CountRemoveAt
<1>5. S!TypeOK'
  BY <1>1, <1>2, <1>4 DEF S!TypeOK
<1>6. (S!OneCheckEach)'
  <2> SUFFICES ASSUME NEW i \in PingIps
               PROVE  S!Count(checks', i) + S!Count(results', i) = IF senders[i] = << >> THEN 0 ELSE 1
    BY <1>1 DEF S!OneCheckEach
  <2> DEFINE x == S!Count(checks, i)
             y == S!Count(results, i)
             x1 == S!Count(checks', i)
             y1 == S!Count(results', i)
             j == IF v = i THEN 1 ELSE 0
  <2>1. x + y = IF senders[i] = << >> THEN 0 ELSE 1
    BY DEF SInv, S!OneCheckEach
  <2>2. x1 \in Nat /\ y \in Nat /\ j \in Nat
    BY <1>2, <1>5, CountType DEF S!TypeOK
  <2>3. x = x1 + j
    BY <1>1, <1>2, CountRemoveAt
  <2>4. y1 = y + j
    BY <1>1, <1>2, <1>3, CountAppend
  <2> HIDE DEF x, y, x1, y1, j
  <2>5. x1 + y1 = x + y
    BY <2>2, <2>3, <2>4
  <2> QED BY <2>1, <2>5 DEF x1, y1
<1> QED BY <1>1, <1>5, <1>6, Moves

LEMMA ExpireInv ==
    ASSUME SInv, NEW i \in PingIps, S!Expire(i)
    PROVE  SInv'
<1>1. cached' = [cached EXCEPT ![i] = "old"] /\ UNCHANGED <<script, stream, reqs, senders, checks, results>>
  BY DEF S!Expire
<1>2. S!TypeOK'
  BY <1>1 DEF SInv, S!TypeOK
<1>3. (S!OneCheckEach)'
  BY <1>1 DEF SInv, S!OneCheckEach
<1> QED BY <1>1, <1>2, <1>3, Moves

LEMMA SStepInv ==
    ASSUME SInv, S!Next
    PROVE  SInv'
BY TaskInv, HandleCachedInv, HandleRequestInv, HandleResultInv, DoCheckInv, ExpireInv
   DEF S!Next, S!Routine

LEMMA SUnchangedInv ==
    ASSUME SInv, UNCHANGED server
    PROVE  SInv'
BY DEF SInv, server, S!TypeOK, Script, S!OneCheckEach, Accounted, Asked1

\* However many clients ask, in whatever pieces their requests come and whatever
\* the cache holds: one check runs for each address somebody waits for, and every
\* request is answered, on the way or waiting, once (start_ping and
\* start_check_routine of aserver/ping.rs).
THEOREM EveryRequestAnswered == MCSpec => []AsksAnswered
<1>1. MCInit => SInv
  BY SInitInv DEF MCInit
<1>2. SInv /\ [MCNext]_all => SInv'
  BY SStepInv, SUnchangedInv DEF MCNext, all, server
<1>3. SInv => AsksAnswered
  BY DEF SInv, AsksAnswered, S!EveryAskAnswered, Accounted, Asked1
<1> QED BY <1>1, <1>2, <1>3, PTL DEF MCSpec

-----------------------------------------------------------------------------
(* The profiler: invariant *)

\* The addresses whose local result is still to come.
Busy == checking \cup {r[1] : r \in resp}

\* The entries to decide on, and with them those that may become so when the
\* result of a local check comes.
Open(s) == {i \in Ips : s[i].known /\ Key(s[i]) = 1}
Unsettled(s, W) == Open(s) \cup {i \in W : s[i].local = "none"}

Noticed ==
    /\ conn = "up" => reader = "run"
    /\ IF panicked THEN reconnect ELSE conn = "down" => (reconnect \/ mark \/ reader = "run")

LocalsOk == \A i \in Ips : set[i].local \in {"none", LocalKind(i)}
RespOk == \A r \in resp : r[2] = LocalKind(r[1]) /\ r[1] \notin checking
BusyOk == \A i \in Busy : set[i].known /\ set[i].age # 2
Turns == panicked \/ Cardinality(Unsettled(set, Busy)) <= Cardinality(Busy)

SentKnown == \A i \in sendBuffer : set[i].known

PInv == TypeOK /\ SentKnown /\ Noticed /\ LocalsOk /\ RespOk /\ BusyOk /\ Turns

LEMMA BusyCardinality ==
    ASSUME TypeOK, RespOk
    PROVE  /\ Busy \subseteq Ips /\ IsFiniteSet(Busy) /\ Cardinality(Busy) \in Nat
           /\ Cardinality(Busy) = Cardinality(checking) + Cardinality(resp)
<1> DEFINE F == {r[1] : r \in resp}
           f == [r \in resp |-> r[1]]
<1>1. resp \subseteq Ips \X {"value", "nobypass"} /\ checking \subseteq Ips /\ IsFiniteSet(Ips)
  BY OrderAssumption DEF TypeOK
<1>2. F \subseteq Ips /\ \A r \in resp : r = <<r[1], LocalKind(r[1])>>
  BY <1>1 DEF RespOk
<1>3. IsFiniteSet(F) /\ IsFiniteSet(checking)
  <2> HIDE DEF F
  <2> QED BY <1>1, <1>2, FS_Subset
<1>4. f \in Bijection(resp, F)
  <2>1. f \in [resp -> F]
    OBVIOUS
  <2>2. \A r, q \in resp : f[r] = f[q] => r = q
    BY <1>2
  <2>3. \A x \in F : \E r \in resp : f[r] = x
    OBVIOUS
  <2> QED BY <2>1, <2>2, <2>3 DEF Bijection, Injection, Surjection, IsInjective
<1>5. f \in Injection(resp, F) /\ f \in Surjection(resp, F)
  BY <1>4 DEF Bijection
<1> HIDE DEF f, F
<1>6. IsFiniteSet(resp) /\ Cardinality(resp) = Cardinality(F)
  BY <1>3, <1>5, FS_Injection
<1>7. checking \cap F = {}
  BY DEF F, RespOk
<1>8. Cardinality(checking \cup F) = Cardinality(checking) + Cardinality(F) - Cardinality(checking \cap F)
      /\ IsFiniteSet(checking \cup F)
  BY <1>3, FS_Union
<1>9. Cardinality(checking \cap F) = 0
  BY <1>7, FS_EmptySet
<1>10. Cardinality(checking) \in Nat /\ Cardinality(F) \in Nat /\ Cardinality(checking \cup F) \in Nat
  BY <1>3, <1>8, FS_CardinalityType
<1>11. Busy = checking \cup F
  BY DEF Busy, F
<1>12. Cardinality(checking \cup F) = Cardinality(checking) + Cardinality(resp)
  BY <1>6, <1>8, <1>9, <1>10
<1> QED BY <1>1, <1>2, <1>8, <1>10, <1>11, <1>12

\* The set of Decide, in one turn, has an entry if there is one to decide on.
LEMMA DecideSome ==
    ASSUME NEW s \in [Ips -> Entry]
    PROVE  Decide(s) \subseteq Open(s) /\ (Open(s) # {} => Decide(s) # {})
<1>0. Order \in Seq(Ips) /\ Len(Order) \in Nat /\ \A k \in 1 .. Len(Order) : Order[k] \in Ips
  BY OrderAssumption, LenProperties, ElementOfSeq
<1>1. Decide(s) \subseteq Open(s)
  BY <1>0 DEF Decide, LastGroup, Among, Open
<1>2. ASSUME NEW i \in Open(s) PROVE Decide(s) # {}
  <2> DEFINE P == {p \in 0 .. Len(Order) - 1 : Among(s, 1, Len(Order) - p)}
  <2>1. PICK k \in 1 .. Len(Order) : Order[k] = i
    BY <1>0, OrderAssumption DEF Range, Open
  <2>2. Among(s, 1, k)
    BY <2>1 DEF Among, Open
  <2>3. Len(Order) - k \in P
    <3>1. Len(Order) - k \in 0 .. Len(Order) - 1 /\ Len(Order) - (Len(Order) - k) = k
      BY <1>0
    <3> QED BY <2>2, <3>1
  <2>4. P \in SUBSET Nat /\ P # {}
    <3>1. \A x \in P : x \in Nat
      BY <1>0
    <3> HIDE DEF P
    <3> QED BY <2>3, <3>1
  <2>5. PICK p \in P : \A q \in P : p <= q
    BY <2>4, LeastOf
  <2> DEFINE b == Len(Order) - p
  <2>6. b \in 1 .. Len(Order) /\ Among(s, 1, b)
    BY <1>0, <2>5
  <2>7. \A l \in b .. Len(Order) : Among(s, 1, l) => l = b
    <3> SUFFICES ASSUME NEW l \in b .. Len(Order), Among(s, 1, l) PROVE l = b
      OBVIOUS
    <3>1. Len(Order) - l \in 0 .. Len(Order) - 1 /\ Len(Order) - (Len(Order) - l) = l
      BY <1>0, <2>6
    <3>2. Len(Order) - l \in P
      BY <3>1
    <3>3. p <= Len(Order) - l /\ p \in Nat
      BY <1>0, <2>4, <2>5, <3>2
    <3> QED BY <1>0, <3>3
  <2> HIDE DEF b, P
  <2>8. Order[b] \in LastGroup(s, 1)
    <3>1. \A l \in b .. Len(Order) :
            Among(s, 1, l) => \A m \in b .. l : s[Order[m]].known => Among(s, 1, m)
      <4> SUFFICES ASSUME NEW l \in b .. Len(Order), Among(s, 1, l), NEW m \in b .. l PROVE Among(s, 1, m)
        OBVIOUS
      <4>1. m = b
        BY <2>6, <2>7
      <4> QED BY <2>6, <4>1
    <3> QED BY <2>6, <3>1 DEF LastGroup
  <2> QED BY <2>8 DEF Decide
<1> QED BY <1>1, <1>2

LEMMA FinishSettles ==
    ASSUME NEW s \in [Ips -> Entry], NEW q \in SUBSET Ips, Finish(s, q)
    PROVE  /\ set' \in [Ips -> Entry] /\ queue' \subseteq Ips
           /\ \A i \in Ips : /\ set'[i].known = s[i].known /\ set'[i].local = s[i].local
                             /\ set'[i].age = s[i].age \/ set'[i].age = 0
           /\ Open(set') = Open(s) \ Decide(s)
<1> DEFINE D == Decide(s)
           R == Resend(s)
           t == [i \in Ips |-> [s[i] EXCEPT !.age = IF i \in R THEN 0 ELSE @, !.sent = @ \/ i \in D]]
<1>1. set' = t /\ \E due \in SUBSET Ips : queue' = q \cup R \cup due
  <2>1. PICK resend \in {Resend(s)}, decide \in {Decide(s)} :
        \E s2 \in {[i \in Ips |-> [s[i] EXCEPT !.age = IF i \in resend THEN 0 ELSE @,
                                               !.sent = @ \/ i \in decide]]} :
        \E due \in SUBSET {i \in Ips : s2[i].known /\ ~IsNoBypass(s2[i]) /\ s2[i].age = 2} :
            set' = s2 /\ queue' = q \cup resend \cup due
    BY Zenon DEF Finish
  <2>2. resend = R /\ decide = D
    BY <2>1
  <2>3. \E s2 \in {t} :
        \E due \in SUBSET {i \in Ips : s2[i].known /\ ~IsNoBypass(s2[i]) /\ s2[i].age = 2} :
            set' = s2 /\ queue' = q \cup R \cup due
    BY Zenon, <2>1, <2>2
  <2> HIDE DEF t, R, D
  <2>4. PICK due \in SUBSET {i \in Ips : t[i].known /\ ~IsNoBypass(t[i]) /\ t[i].age = 2} :
            set' = t /\ queue' = q \cup R \cup due
    BY Zenon, <2>3
  <2>5. due \in SUBSET Ips
    BY Zenon
  <2> QED BY Zenon, <2>4, <2>5
<1>2. R \subseteq Ips
  <2>1. \A k \in 1 .. Len(Order) : Order[k] \in Ips
    BY OrderAssumption, ElementOfSeq
  <2> QED BY <2>1 DEF Resend, LastGroup
<1>3. queue' \subseteq Ips
  BY <1>1, <1>2
<1> HIDE DEF D, R
<1>4. ASSUME NEW i \in Ips
      PROVE  /\ t[i] \in Entry /\ t[i].known = s[i].known /\ t[i].local = s[i].local
             /\ t[i].remote = s[i].remote /\ t[i].sent = (s[i].sent \/ i \in D)
             /\ t[i].age = s[i].age \/ t[i].age = 0
  <2> DEFINE e == s[i]
             a == IF i \in R THEN 0 ELSE e.age
             b == (e.sent \/ i \in D)
  <2>0. e \in Entry /\ e.age \in 0 .. 2 /\ b \in BOOLEAN
    BY DEF Entry
  <2>1. a \in 0 .. 2 /\ (a = e.age \/ a = 0)
    <3>1. CASE i \in R
      <4>1. a = 0
        BY Zenon, <3>1
      <4> HIDE DEF a, e
      <4> QED BY <4>1
    <3>2. CASE i \notin R
      <4>1. a = e.age
        BY <3>2
      <4> HIDE DEF a, e
      <4> QED BY <2>0, <4>1
    <3> QED BY <3>1, <3>2
  <2>2. t[i] = [e EXCEPT !.age = a, !.sent = b]
    OBVIOUS
  <2> HIDE DEF e, a, b, t
  <2>3. /\ t[i] \in Entry /\ t[i].known = e.known /\ t[i].local = e.local
        /\ t[i].remote = e.remote /\ t[i].sent = b /\ t[i].age = a
    BY <2>0, <2>1, <2>2 DEF Entry
  <2> QED BY <2>1, <2>3 DEF e, b
<1>5. set' \in [Ips -> Entry]
  BY <1>1, <1>4
<1>6. \A i \in Ips : i \in Open(t) <=> i \in Open(s) /\ i \notin D
  <2> SUFFICES ASSUME NEW i \in Ips PROVE i \in Open(t) <=> i \in Open(s) /\ i \notin D
    OBVIOUS
  <2> DEFINE x == t[i]
             y == s[i]
  <2>1. /\ x.known = y.known /\ x.local = y.local /\ x.remote = y.remote
        /\ x.sent <=> y.sent \/ i \in D
    BY <1>4
  <2>2. (i \in Open(t) <=> x.known /\ Key(x) = 1) /\ (i \in Open(s) <=> y.known /\ Key(y) = 1)
    <3> HIDE DEF t
    <3> QED BY DEF Open
  <2> HIDE DEF x, y, t
  <2>3. Key(x) = 1 <=> Key(y) = 1 /\ i \notin D
    BY <2>1 DEF Key, IsComplete, IsNoBypass
  <2> QED BY <2>1, <2>2, <2>3
<1>7. Open(t) = Open(s) \ D
  BY <1>6 DEF Open
<1> QED BY <1>1, <1>3, <1>4, <1>5, <1>7 DEF D

-----------------------------------------------------------------------------
(* The profiler: a turn of the loop *)

\* A turn leaves a lost connection noticed: it keeps the mark of the reader, or
\* tries for another connection.
LEMMA ReconnectNoticed ==
    ASSUME Noticed, ~panicked, panicked' = panicked, NEW flag, NEW ws, NEW as, NEW mk,
           reconnect => flag, mark => mk \/ flag, conn \in {"up", "down"},
           Reconnect(flag, ws, [reader |-> reader, answers |-> as, mark |-> mk])
    PROVE  Noticed'
<1> DEFINE ch == [reader |-> reader, answers |-> as, mark |-> mk]
<1>0. ch.reader = reader /\ ch.mark = mk
  OBVIOUS
<1> HIDE DEF ch
<1>1. Reconnect(flag, ws, ch)
  BY DEF ch
<1>2. CASE ~flag /\ conn' = conn /\ reconnect' = reconnect /\ reader' = ch.reader /\ mark' = ch.mark
  <2>1. reader' = reader /\ (mark => mark')
    BY <1>0, <1>2
  <2> QED BY Zenon, <1>2, <2>1 DEF Noticed
<1>3. CASE conn' = "up" /\ reader' = "run"
  BY <1>3 DEF Noticed
<1>4. CASE conn' = "down" /\ reconnect' = TRUE
  BY <1>4 DEF Noticed
<1> QED BY Zenon, <1>1, <1>2, <1>3, <1>4 DEF Reconnect

\* A step that keeps the table's rules and does not add to what is unsettled.
LEMMA TurnInv ==
    ASSUME PInv, ~panicked, panicked' = panicked, downs' = downs, sendBuffer' \subseteq Ips,
           set' \in [Ips -> Entry], queue' \subseteq Ips, checking' \subseteq Ips,
           resp' \subseteq Ips \X {"value", "nobypass"},
           conn' \in {"up", "down"}, reader' \in {"run", "ended", "idle"},
           mark' \in BOOLEAN, reconnect' \in BOOLEAN, Noticed',
           wire' \cup answers' \subseteq {i \in Ips : set'[i].known},
           SentKnown', LocalsOk', RespOk', BusyOk', Turns'
    PROVE  PInv'
<1>1. checking' \subseteq {i \in Ips : set'[i].known}
  BY DEF BusyOk, Busy
<1>2. TypeOK'
  BY <1>1 DEF PInv, TypeOK
<1> QED BY <1>2 DEF PInv

LEMMA UnsettledFinite ==
    ASSUME NEW t, NEW W, W \subseteq Ips
    PROVE  /\ Unsettled(t, W) \subseteq Ips /\ IsFiniteSet(Unsettled(t, W))
           /\ Cardinality(Unsettled(t, W)) \in Nat
<1>1. Unsettled(t, W) \in SUBSET Ips
  BY DEF Unsettled, Open
<1>2. IsFiniteSet(Unsettled(t, W))
  BY <1>1, FS_Subset, OrderAssumption
<1> QED BY <1>1, <1>2, FS_CardinalityType

LEMMA HandleRequestTurn ==
    ASSUME PInv, HandleRequest
    PROVE  PInv'
<1>1. PICK i \in queue, fails \in BOOLEAN :
        /\ ~panicked
        /\ ~set[i].known \/ (~IsNoBypass(set[i]) /\ set[i].age = 2)
        /\ queue' = queue \ {i} /\ sendBuffer' = Extended(i) /\ checking' = checking \cup {i}
        /\ set' = [set EXCEPT ![i] = Asked(@)]
        /\ Reconnect(reconnect \/ fails, IF conn = "up" THEN wire \cup Extended(i) ELSE wire, Chans)
        /\ UNCHANGED <<resp, downs, panicked>>
  BY DEF HandleRequest
<1>1a. ~panicked /\ panicked' = panicked /\ downs' = downs
  <2>1. ~panicked
    BY Zenon, <1>1
  <2>2. UNCHANGED <<resp, downs, panicked>>
    BY Zenon, <1>1
  <2> QED BY <2>1, <2>2
<1>2. TypeOK /\ Noticed /\ RespOk /\ BusyOk /\ LocalsOk /\ SentKnown /\ i \in Ips /\ set \in [Ips -> Entry]
  BY DEF PInv, TypeOK
<1>3. i \notin Busy
  BY <1>1, <1>2 DEF BusyOk
<1>4. /\ set' \in [Ips -> Entry] /\ set'[i].known /\ set'[i].local = set[i].local /\ set'[i].age = 0
      /\ \A j \in Ips \ {i} : set'[j] = set[j]
  <2>1. Asked(set[i]) \in Entry /\ Asked(set[i]).known = TRUE /\ Asked(set[i]).local = set[i].local
        /\ Asked(set[i]).age = 0
    <3> DEFINE e == set[i]
    <3>1. e \in Entry
      BY <1>2
    <3> HIDE DEF e
    <3> DEFINE yes == TRUE
               no == FALSE
    <3>2. Asked(e) = [e EXCEPT !.known = yes, !.age = 0, !.sent = no] /\ yes \in BOOLEAN /\ no \in BOOLEAN
      BY DEF Asked
    <3> DEFINE f == Asked(e)
    <3> HIDE DEF yes, no, f
    <3>3. f = [e EXCEPT !.known = yes, !.age = 0, !.sent = no]
      BY <3>2 DEF f
    <3>3a. 0 \in 0 .. 2
      OBVIOUS
    <3>3b. f \in Entry
      BY <3>1, <3>2, <3>3, <3>3a DEF Entry
    <3>4. f \in Entry /\ f.known = yes /\ f.local = e.local /\ f.age = 0
      BY <3>1, <3>3, <3>3b DEF Entry
    <3> QED BY <3>4 DEF e, f, yes
  <2> QED BY <1>1, <1>2, <2>1
<1>5. \A j \in Ips : set[j].known => set'[j].known
  BY <1>4
<1>6. Busy' = Busy \cup {i}
  BY <1>1 DEF Busy
<1>7. LocalsOk'
  BY <1>2, <1>4 DEF LocalsOk
<1>8. RespOk'
  BY <1>1, <1>2, <1>3 DEF RespOk, Busy
<1>9. BusyOk'
  <2>1. \A j \in Busy : j \in Ips \ {i}
    BY <1>2, <1>3, BusyCardinality
  <2> QED BY <1>2, <1>4, <1>6, <2>1 DEF BusyOk
<1>10. SentKnown' /\ sendBuffer' \subseteq Ips
  BY <1>1, <1>2, <1>4, <1>5 DEF SentKnown, Extended, TypeOK
<1>11. /\ conn' \in {"up", "down"} /\ reader' \in {"run", "ended", "idle"}
       /\ mark' \in BOOLEAN /\ reconnect' \in BOOLEAN
       /\ wire' \subseteq wire \cup Extended(i) /\ answers' \subseteq answers /\ Noticed'
  <2> DEFINE flag == (reconnect \/ fails)
             ws == IF conn = "up" THEN wire \cup Extended(i) ELSE wire
  <2>1. flag \in BOOLEAN /\ ws \subseteq wire \cup Extended(i) /\ (reconnect => flag)
    BY <1>2 DEF TypeOK
  <2>2. Reconnect(flag, ws, [reader |-> reader, answers |-> answers, mark |-> mark])
    BY <1>1 DEF Chans
  <2>3. mark \in BOOLEAN /\ reader \in {"run", "ended", "idle"} /\ reconnect \in BOOLEAN /\ conn \in {"up", "down"}
    BY <1>2 DEF TypeOK
  <2> HIDE DEF flag, ws
  <2>4. wire' \subseteq ws /\ answers' \subseteq answers
    BY <2>2 DEF Reconnect
  <2>5. conn' \in {"up", "down"} /\ reader' \in {"run", "ended", "idle"} /\ mark' \in BOOLEAN /\ reconnect' \in BOOLEAN
    BY <2>2, <2>3 DEF Reconnect
  <2>6. Noticed'
    BY Zenon, <1>1a, <1>2, <2>1, <2>2, <2>3, ReconnectNoticed
  <2> QED BY <2>1, <2>4, <2>5, <2>6
<1>12. wire' \cup answers' \subseteq {j \in Ips : set'[j].known}
  BY <1>1, <1>2, <1>5, <1>10, <1>11 DEF TypeOK, SentKnown
<1>13. Turns'
  <2> DEFINE V == Unsettled(set, Busy)
             V1 == Unsettled(set', Busy')
  <2>0. Busy \subseteq Ips /\ IsFiniteSet(Busy) /\ Cardinality(Busy) \in Nat
    BY <1>2, BusyCardinality
  <2>1. V1 \in SUBSET (V \cup {i})
    BY <1>2, <1>4, <1>6, <2>0 DEF Unsettled, Open
  <2>2. IsFiniteSet(V) /\ Cardinality(V) \in Nat
    BY <2>0, UnsettledFinite
  <2>3. Cardinality(V) <= Cardinality(Busy)
    BY Zenon, <1>1a DEF PInv, Turns
  <2>4. Cardinality(Busy') = Cardinality(Busy) + 1
    BY <1>3, <1>6, <2>0, FS_AddElement
  <2>5. Cardinality(V1) <= Cardinality(V) + 1
    <3> HIDE DEF V, V1
    <3>1. IsFiniteSet(V \cup {i}) /\ Cardinality(V \cup {i}) = IF i \in V THEN Cardinality(V) ELSE Cardinality(V) + 1
      BY <2>2, FS_AddElement
    <3>2. Cardinality(V1) <= Cardinality(V \cup {i}) /\ IsFiniteSet(V1)
      BY <2>1, <3>1, FS_Subset
    <3>3. Cardinality(V1) \in Nat
      BY <3>2, FS_CardinalityType
    <3> QED BY <2>2, <3>1, <3>2, <3>3
  <2>6. Cardinality(V1) \in Nat
    <3>1. Busy' \subseteq Ips
      BY <1>2, <1>6, <2>0
    <3> QED BY <3>1, UnsettledFinite
  <2> HIDE DEF V, V1
  <2>7. Cardinality(V1) <= Cardinality(Busy')
    BY <2>0, <2>2, <2>3, <2>4, <2>5, <2>6
  <2> QED BY <2>7 DEF Turns, V1
<1>14. queue' \subseteq Ips /\ checking' \subseteq Ips /\ resp' \subseteq Ips \X {"value", "nobypass"}
  BY <1>1, <1>2 DEF TypeOK
<1> QED BY Zenon, <1>1a, <1>4, <1>7, <1>8, <1>9, <1>10, <1>11, <1>12, <1>13, <1>14, TurnInv

\* A turn with a result decides on an entry, if there is one: Z, what is unsettled
\* before, may hold one more than what has a turn to come.
LEMMA DecideCounts ==
    ASSUME NEW s \in [Ips -> Entry], NEW t, Open(t) = Open(s) \ Decide(s),
           \A i \in Ips : t[i].local = s[i].local,
           NEW W \in SUBSET Ips, NEW Z, IsFiniteSet(Z), Unsettled(s, W) \subseteq Z,
           Cardinality(Z) <= Cardinality(W) + 1
    PROVE  Cardinality(Unsettled(t, W)) <= Cardinality(W)
<1> DEFINE V == Unsettled(t, W)
<1>1. IsFiniteSet(W) /\ Cardinality(W) \in Nat /\ Cardinality(Z) \in Nat
  BY FS_Subset, FS_CardinalityType, OrderAssumption
<1>2. IsFiniteSet(V) /\ Cardinality(V) \in Nat
  BY UnsettledFinite
<1>3. CASE Open(s) = {}
  <2>1. V \in SUBSET W
    BY <1>3 DEF Unsettled
  <2> HIDE DEF V
  <2>2. Cardinality(V) <= Cardinality(W)
    BY <1>1, <2>1, FS_Subset
  <2> QED BY <2>2 DEF V
<1>4. CASE Open(s) # {}
  <2>1. PICK d \in Decide(s) : d \in Open(s)
    BY <1>4, DecideSome
  <2>2. s[d].local # "none" /\ d \in Ips
    BY <2>1 DEF Open, Key, IsComplete
  <2>3. V \in SUBSET (Z \ {d}) /\ d \in Z
    <3>1. d \notin Open(t) /\ t[d].local # "none"
      BY <2>1, <2>2
    <3>2. \A x \in V : x \in Unsettled(s, W)
      BY DEF Unsettled
    <3>3. d \in Unsettled(s, W) /\ d \notin V
      BY <2>1, <3>1 DEF Unsettled
    <3> HIDE DEF V
    <3> QED BY <3>2, <3>3
  <2> HIDE DEF V
  <2>4. IsFiniteSet(Z \ {d}) /\ Cardinality(Z \ {d}) = Cardinality(Z) - 1
    BY <2>3, FS_RemoveElement
  <2>5. Cardinality(V) <= Cardinality(Z \ {d})
    BY <2>3, <2>4, FS_Subset
  <2>6. Cardinality(V) <= Cardinality(W)
    BY <1>1, <1>2, <2>4, <2>5
  <2> QED BY <2>6 DEF V
<1> QED BY <1>3, <1>4

\* What the tail of such a turn does to the connection.
Reconnected ==
    /\ conn' \in {"up", "down"} /\ reader' \in {"run", "ended", "idle"}
    /\ mark' \in BOOLEAN /\ reconnect' \in BOOLEAN
    /\ wire' \subseteq wire /\ answers' \subseteq answers /\ Noticed'

LEMMA ReconnectOk ==
    ASSUME TypeOK, Noticed, ~panicked, panicked' = panicked,
           NEW flag \in BOOLEAN, NEW as \in SUBSET answers, NEW mk \in BOOLEAN,
           reconnect => flag, mark => mk \/ flag,
           Reconnect(flag, wire, [reader |-> reader, answers |-> as, mark |-> mk])
    PROVE  Reconnected
<1>1. conn \in {"up", "down"} /\ reader \in {"run", "ended", "idle"} /\ reconnect \in BOOLEAN
  BY DEF TypeOK
<1>2. wire' \subseteq wire /\ answers' \subseteq answers
  BY DEF Reconnect
<1>3. conn' \in {"up", "down"} /\ reader' \in {"run", "ended", "idle"} /\ mark' \in BOOLEAN /\ reconnect' \in BOOLEAN
  BY <1>1 DEF Reconnect
<1>4. Noticed'
  BY Zenon, <1>1, ReconnectNoticed
<1> QED BY <1>2, <1>3, <1>4 DEF Reconnected

\* A turn that handles a result.
LEMMA ResultTurn ==
    ASSUME PInv, ~panicked, panicked' = panicked, downs' = downs,
           sendBuffer' = sendBuffer, checking' = checking, resp' \in SUBSET resp,
           NEW s \in [Ips -> Entry], Finish(s, queue),
           \A i \in Ips : /\ s[i].known = set[i].known /\ s[i].age = set[i].age
                          /\ s[i].local \in {"none", LocalKind(i)},
           Reconnected,
           NEW Z, IsFiniteSet(Z), Unsettled(s, Busy') \subseteq Z, Cardinality(Z) <= Cardinality(Busy') + 1
    PROVE  PInv'
<1>1. /\ TypeOK /\ SentKnown /\ Noticed /\ RespOk /\ BusyOk /\ queue \in SUBSET Ips
      /\ conn \in {"up", "down"} /\ reader \in {"run", "ended", "idle"} /\ reconnect \in BOOLEAN
  BY DEF PInv, TypeOK
<1>2. /\ set' \in [Ips -> Entry] /\ queue' \subseteq Ips
      /\ \A i \in Ips : /\ set'[i].known = s[i].known /\ set'[i].local = s[i].local
                        /\ set'[i].age = s[i].age \/ set'[i].age = 0
      /\ Open(set') = Open(s) \ Decide(s)
  BY <1>1, FinishSettles
<1>3. Busy' \subseteq Busy /\ Busy \subseteq Ips
  <2>1. Busy' \subseteq Busy
    BY DEF Busy
  <2> QED BY <1>1, <2>1, BusyCardinality
<1>4. \A i \in Ips : set[i].known => set'[i].known
  BY <1>2
<1>5. SentKnown' /\ sendBuffer' \subseteq Ips
  BY <1>1, <1>4 DEF SentKnown, TypeOK
<1>6. LocalsOk'
  BY <1>2 DEF LocalsOk
<1>7. RespOk'
  BY <1>1 DEF RespOk
<1>8. BusyOk'
  <2>1. \A i \in Busy' : i \in Ips /\ set[i].known /\ set[i].age # 2
    BY <1>1, <1>3 DEF BusyOk
  <2> SUFFICES ASSUME NEW i \in Busy' PROVE set'[i].known /\ set'[i].age # 2
    BY DEF BusyOk
  <2> QED BY <1>2, <2>1
<1>9. Turns'
  <2>1. Busy' \in SUBSET Ips
    BY <1>3
  <2>2. Cardinality(Unsettled(set', Busy')) <= Cardinality(Busy')
    BY <1>2, <2>1, DecideCounts
  <2> QED BY <2>2 DEF Turns
<1>10. wire' \subseteq wire /\ answers' \subseteq answers
  BY DEF Reconnected
<1>11. conn' \in {"up", "down"} /\ reader' \in {"run", "ended", "idle"} /\ mark' \in BOOLEAN /\ reconnect' \in BOOLEAN
       /\ Noticed'
  BY DEF Reconnected
<1>13. wire' \cup answers' \subseteq {j \in Ips : set'[j].known}
  BY <1>1, <1>4, <1>10 DEF TypeOK
<1>14. checking' \subseteq Ips /\ resp' \subseteq Ips \X {"value", "nobypass"}
  BY <1>1 DEF TypeOK
<1> QED BY Zenon, <1>2, <1>5, <1>6, <1>7, <1>8, <1>9, <1>11, <1>13, <1>14, TurnInv

LEMMA HandleLocalTurn ==
    ASSUME PInv, HandleLocal
    PROVE  PInv'
<1>1. PICK r \in resp :
        /\ ~panicked /\ resp' = resp \ {r}
        /\ Finish([set EXCEPT ![r[1]].local = r[2]], queue)
        /\ Reconnect(reconnect, wire, Chans)
        /\ UNCHANGED <<sendBuffer, checking, downs, panicked>>
  BY DEF HandleLocal
<1>2. ~panicked /\ panicked' = panicked /\ downs' = downs /\ sendBuffer' = sendBuffer /\ checking' = checking
      /\ resp' \in SUBSET resp
  <2>1. ~panicked /\ UNCHANGED <<sendBuffer, checking, downs, panicked>> /\ resp' = resp \ {r}
    BY Zenon, <1>1
  <2> QED BY <2>1
<1> DEFINE i == r[1]
           s == [set EXCEPT ![i].local = r[2]]
           Z == Unsettled(set, Busy)
<1>3. /\ TypeOK /\ RespOk /\ LocalsOk /\ set \in [Ips -> Entry] /\ mark \in BOOLEAN /\ reconnect \in BOOLEAN
      /\ resp \subseteq Ips \X {"value", "nobypass"}
  BY DEF PInv, TypeOK
<1>4. i \in Ips /\ r[2] = LocalKind(i) /\ i \in Busy /\ r[2] \in {"value", "nobypass"}
  BY <1>1, <1>3 DEF RespOk, Busy
<1> HIDE DEF i
<1>5. /\ s \in [Ips -> Entry] /\ \A j \in Ips \ {i} : s[j] = set[j]
      /\ s[i].known = set[i].known /\ s[i].age = set[i].age /\ s[i].local = LocalKind(i)
      /\ s[i].remote = set[i].remote /\ s[i].sent = set[i].sent
  BY <1>3, <1>4 DEF Entry
<1>6. Finish(s, queue) /\ Reconnect(reconnect, wire, [reader |-> reader, answers |-> answers, mark |-> mark])
  BY Zenon, <1>1 DEF Chans, i
<1> HIDE DEF s
<1>7. \A j \in Ips : s[j].known = set[j].known /\ s[j].age = set[j].age /\ s[j].local \in {"none", LocalKind(j)}
  BY <1>3, <1>5 DEF LocalsOk
<1>8. Busy' = Busy \ {i} /\ Busy \subseteq Ips
  <2>1. \A q \in resp : q[1] = i => q = r
    BY <1>1, <1>3 DEF RespOk, i
  <2>2. i \notin checking
    BY <1>1, <1>3 DEF RespOk, i
  <2>3. Busy' = Busy \ {i}
    <3>1. \A x : x \in Busy' <=> x \in checking \/ \E q \in resp : q # r /\ q[1] = x
      BY <1>1, <1>2 DEF Busy
    <3>2. \A x : x \in Busy <=> x \in checking \/ \E q \in resp : q[1] = x
      BY DEF Busy
    <3>3. \A x : x \in Busy' <=> x \in Busy /\ x # i
      BY <2>1, <2>2, <3>1, <3>2 DEF i
    <3> QED BY <3>3
  <2> QED BY <1>3, <2>3, BusyCardinality
<1>9. Unsettled(s, Busy') \subseteq Z
  <2>1. Open(s) \subseteq Z
    <3> SUFFICES ASSUME NEW j \in Ips, s[j].known, Key(s[j]) = 1 PROVE j \in Z
      BY DEF Open
    <3>1. CASE j # i
      BY <1>5, <3>1 DEF Unsettled, Open
    <3>2. CASE j = i /\ set[i].local = "none"
      BY <1>4, <3>2 DEF Unsettled
    <3>3. CASE j = i /\ set[i].local # "none"
      <4>1. set[i].local = s[i].local
        BY <1>3, <1>4, <1>5, <3>3 DEF LocalsOk
      <4>2. Key(s[i]) = Key(set[i])
        BY <1>5, <4>1 DEF Key, IsComplete, IsNoBypass
      <4> QED BY <1>5, <3>3, <4>2 DEF Unsettled, Open
    <3> QED BY <3>1, <3>2, <3>3
  <2>2. \A j \in Busy' : s[j].local = "none" => j \in Z
    BY <1>5, <1>8 DEF Unsettled
  <2> QED BY <2>1, <2>2 DEF Unsettled
<1>10. IsFiniteSet(Z) /\ Cardinality(Z) <= Cardinality(Busy') + 1
  <2>1. Cardinality(Z) <= Cardinality(Busy)
    BY Zenon, <1>2 DEF PInv, Turns
  <2>2. IsFiniteSet(Busy) /\ Cardinality(Busy) \in Nat
    BY <1>3, BusyCardinality
  <2>3. Cardinality(Busy') = Cardinality(Busy) - 1
    BY <1>4, <1>8, <2>2, FS_RemoveElement
  <2>4. IsFiniteSet(Z) /\ Cardinality(Z) \in Nat
    BY <1>8, UnsettledFinite
  <2> HIDE DEF Z
  <2> QED BY <2>1, <2>2, <2>3, <2>4
<1> HIDE DEF Z
<1>11. wire \in SUBSET wire /\ answers \in SUBSET answers /\ (reconnect => reconnect) /\ (mark => mark \/ reconnect)
  OBVIOUS
<1>12. Reconnected
  BY <1>2, <1>3, <1>6, <1>11, ReconnectOk DEF PInv
<1>13. s \in [Ips -> Entry] /\ Finish(s, queue)
  BY Zenon, <1>5, <1>6
<1> QED BY <1>2, <1>7, <1>9, <1>10, <1>12, <1>13, ResultTurn

LEMMA HandleRemoteTurn ==
    ASSUME PInv, HandleRemote
    PROVE  PInv'
<1>1. PICK i \in answers :
        /\ ~panicked
        /\ Finish([set EXCEPT ![i].remote = "value"], queue)
        /\ Reconnect(reconnect, wire, [Chans EXCEPT !.answers = @ \ {i}])
        /\ UNCHANGED <<sendBuffer, checking, resp, downs, panicked>>
  BY DEF HandleRemote
<1>2. ~panicked /\ panicked' = panicked /\ downs' = downs /\ sendBuffer' = sendBuffer /\ checking' = checking
      /\ resp' = resp
  <2>1. ~panicked /\ UNCHANGED <<sendBuffer, checking, resp, downs, panicked>>
    BY Zenon, <1>1
  <2> QED BY <2>1
<1> DEFINE s == [set EXCEPT ![i].remote = "value"]
           V == Unsettled(set, Busy)
           as == answers \ {i}
<1>3. /\ TypeOK /\ RespOk /\ LocalsOk /\ set \in [Ips -> Entry] /\ mark \in BOOLEAN /\ reconnect \in BOOLEAN
      /\ i \in Ips
  BY DEF PInv, TypeOK
<1>4. /\ s \in [Ips -> Entry] /\ \A j \in Ips \ {i} : s[j] = set[j]
      /\ s[i].known = set[i].known /\ s[i].age = set[i].age /\ s[i].local = set[i].local
  BY <1>3 DEF Entry
<1>5. Finish(s, queue) /\ Reconnect(reconnect, wire, [reader |-> reader, answers |-> as, mark |-> mark])
  <2>1. [Chans EXCEPT !.answers = @ \ {i}] = [reader |-> reader, answers |-> as, mark |-> mark]
    BY DEF Chans
  <2> QED BY Zenon, <1>1, <2>1
<1>6. as \in SUBSET answers /\ wire \in SUBSET wire /\ resp' \in SUBSET resp
  BY <1>2
<1> HIDE DEF s, as
<1>7. \A j \in Ips : s[j].known = set[j].known /\ s[j].age = set[j].age /\ s[j].local \in {"none", LocalKind(j)}
  BY <1>3, <1>4 DEF LocalsOk
<1>8. Busy' = Busy /\ Busy \subseteq Ips /\ Cardinality(Busy) \in Nat
  BY <1>2, <1>3, BusyCardinality DEF Busy
<1>9. Unsettled(s, Busy') \subseteq V \cup {i}
  BY <1>4, <1>8 DEF Unsettled, Open
<1>10. IsFiniteSet(V \cup {i}) /\ Cardinality(V \cup {i}) <= Cardinality(Busy') + 1
  <2>1. Cardinality(V) <= Cardinality(Busy)
    BY Zenon, <1>2 DEF PInv, Turns
  <2>2. IsFiniteSet(V) /\ Cardinality(V) \in Nat
    BY <1>8, UnsettledFinite
  <2> HIDE DEF V
  <2>3. IsFiniteSet(V \cup {i}) /\ Cardinality(V \cup {i}) = IF i \in V THEN Cardinality(V) ELSE Cardinality(V) + 1
    BY <2>2, FS_AddElement
  <2> QED BY <1>8, <2>1, <2>2, <2>3
<1> DEFINE Z == V \cup {i}
<1>11. IsFiniteSet(Z) /\ Cardinality(Z) <= Cardinality(Busy') + 1 /\ Unsettled(s, Busy') \subseteq Z
  BY <1>9, <1>10
<1> HIDE DEF Z
<1>12. Reconnected
  BY <1>2, <1>3, <1>5, <1>6, ReconnectOk DEF PInv
<1>13. s \in [Ips -> Entry] /\ Finish(s, queue)
  BY Zenon, <1>4, <1>5
<1> QED BY <1>2, <1>6, <1>7, <1>11, <1>12, <1>13, ResultTurn

LEMMA HandleMarkTurn ==
    ASSUME PInv, HandleMark
    PROVE  PInv'
<1>1. ~panicked /\ Finish(set, queue) /\ Reconnect(TRUE, wire, [Chans EXCEPT !.mark = FALSE])
  BY Zenon DEF HandleMark
<1>2. panicked' = panicked /\ downs' = downs /\ sendBuffer' = sendBuffer /\ checking' = checking
      /\ resp' = resp
  <2>1. UNCHANGED <<sendBuffer, checking, resp, downs, panicked>>
    BY Zenon DEF HandleMark
  <2> QED BY <2>1
<1> DEFINE Z == Unsettled(set, Busy)
           no == FALSE
           yes == TRUE
<1>3. TypeOK /\ RespOk /\ LocalsOk /\ set \in [Ips -> Entry]
  BY DEF PInv, TypeOK
<1>4. no \in BOOLEAN /\ yes \in BOOLEAN /\ yes
  OBVIOUS
<1>4a. Reconnect(yes, wire, [Chans EXCEPT !.mark = no])
  BY <1>1
<1> HIDE DEF no, yes
<1>5. Reconnect(yes, wire, [reader |-> reader, answers |-> answers, mark |-> no])
  <2>1. [Chans EXCEPT !.mark = no] = [reader |-> reader, answers |-> answers, mark |-> no]
    BY DEF Chans
  <2> QED BY Zenon, <1>4a, <2>1
<1>6. \A j \in Ips : set[j].known = set[j].known /\ set[j].age = set[j].age /\ set[j].local \in {"none", LocalKind(j)}
  BY <1>3 DEF LocalsOk
<1>7. Busy' = Busy /\ Busy \subseteq Ips /\ Cardinality(Busy) \in Nat /\ resp' \in SUBSET resp
      /\ wire \in SUBSET wire /\ answers \in SUBSET answers
  BY <1>2, <1>3, BusyCardinality DEF Busy
<1>8. IsFiniteSet(Z) /\ Cardinality(Z) <= Cardinality(Busy') + 1 /\ Unsettled(set, Busy') \subseteq Z
  <2>1. Cardinality(Z) <= Cardinality(Busy)
    BY Zenon, <1>1 DEF PInv, Turns
  <2>2. IsFiniteSet(Z) /\ Cardinality(Z) \in Nat /\ Unsettled(set, Busy') = Z
    BY <1>7, UnsettledFinite
  <2> HIDE DEF Z
  <2> QED BY <1>7, <2>1, <2>2
<1> HIDE DEF Z
<1>9. Reconnected
  BY <1>1, <1>2, <1>3, <1>4, <1>5, <1>7, ReconnectOk DEF PInv
<1>10. Finish(set, queue)
  BY Zenon, <1>1
<1> QED BY <1>1, <1>2, <1>3, <1>6, <1>7, <1>8, <1>9, <1>10, ResultTurn

-----------------------------------------------------------------------------
(* The profiler: the other tasks, time and the server *)

\* A step that leaves the table and the local checks alone.
LEMMA OtherStep ==
    ASSUME PInv, UNCHANGED <<set, sendBuffer, checking, resp>>, panicked => panicked',
           TypeOK', Noticed'
    PROVE  PInv'
<1>1. SentKnown' /\ LocalsOk' /\ RespOk' /\ BusyOk'
  BY DEF PInv, SentKnown, LocalsOk, RespOk, BusyOk, Busy
<1>2. Turns'
  <2>1. Busy' = Busy /\ set' = set
    BY DEF Busy
  <2>2. Unsettled(set', Busy') = Unsettled(set, Busy)
    BY <2>1
  <2> QED BY Zenon, <2>1, <2>2 DEF PInv, Turns
<1> QED BY <1>1, <1>2 DEF PInv

LEMMA OthersInv ==
    ASSUME PInv, SkipRequest \/ NewRequest \/ HandleNone \/ RemoteAnswer \/ ReaderEnds \/ ServerGone \/ UNCHANGED vars
    PROVE  PInv'
<1>0. TypeOK /\ Noticed
  BY DEF PInv
<1>1. CASE SkipRequest \/ NewRequest
  <2>1. /\ UNCHANGED <<set, sendBuffer, conn, wire, reader, answers, mark, reconnect, checking, resp, downs, panicked>>
        /\ queue' \subseteq Ips
    BY <1>0, <1>1 DEF SkipRequest, NewRequest, TypeOK
  <2>2. TypeOK'
    BY <1>0, <2>1 DEF TypeOK
  <2>3. Noticed'
    BY <1>0, <2>1 DEF Noticed
  <2> QED BY <2>1, <2>2, <2>3, OtherStep
<1>2. CASE HandleNone
  <2>1. /\ UNCHANGED <<set, sendBuffer, conn, wire, reconnect, downs, queue, reader, answers, mark, checking, resp>>
        /\ panicked' = TRUE /\ ~panicked /\ reader = "ended" /\ ~mark
    BY <1>2 DEF HandleNone, channels
  <2>2. TypeOK'
    BY <1>0, <2>1 DEF TypeOK
  <2>3. reconnect
    BY <1>0, <2>1 DEF Noticed, TypeOK
  <2>4. Noticed'
    BY <1>0, <2>1, <2>3 DEF Noticed
  <2>5. panicked => panicked'
    BY <2>1
  <2> QED BY <2>1, <2>2, <2>4, <2>5, OtherStep
<1>3. CASE RemoteAnswer
  <2>1. /\ UNCHANGED <<set, queue, sendBuffer, conn, reader, mark, reconnect, checking, resp, downs, panicked>>
        /\ wire' \cup answers' \subseteq wire \cup answers
    BY <1>3 DEF RemoteAnswer
  <2>2. TypeOK'
    BY <1>0, <2>1 DEF TypeOK
  <2>3. Noticed'
    BY <1>0, <2>1 DEF Noticed
  <2> QED BY <2>1, <2>2, <2>3, OtherStep
<1>4. CASE ReaderEnds
  <2>1. /\ UNCHANGED <<set, queue, sendBuffer, conn, wire, answers, reconnect, checking, resp, downs, panicked>>
        /\ conn = "down" /\ reader' = "ended" /\ mark' = TRUE
    BY <1>4 DEF ReaderEnds
  <2>2. TypeOK'
    BY <1>0, <2>1 DEF TypeOK
  <2>3. Noticed'
    BY <1>0, <2>1 DEF Noticed
  <2> QED BY <2>1, <2>2, <2>3, OtherStep
<1>5. CASE ServerGone
  <2>1. /\ UNCHANGED <<set, queue, sendBuffer, reader, answers, mark, reconnect, checking, resp, panicked>>
        /\ conn = "up" /\ conn' = "down" /\ wire' = {} /\ downs < MaxDown /\ downs' = downs + 1
    BY <1>5 DEF ServerGone
  <2>2. TypeOK'
    <3>1. downs' \in 0 .. MaxDown
      BY <1>0, <2>1, ConstAssumption DEF TypeOK
    <3> QED BY <1>0, <2>1, <3>1 DEF TypeOK
  <2>3. Noticed'
    BY <1>0, <2>1 DEF Noticed
  <2> QED BY <2>1, <2>2, <2>3, OtherStep
<1>6. CASE UNCHANGED vars
  <2>1. UNCHANGED <<set, queue, sendBuffer, conn, wire, reader, answers, mark, reconnect, checking, resp, downs, panicked>>
    BY <1>6 DEF vars
  <2>2. TypeOK'
    BY <1>0, <2>1 DEF TypeOK
  <2>3. Noticed'
    BY <1>0, <2>1 DEF Noticed
  <2> QED BY <2>1, <2>2, <2>3, OtherStep
<1> QED BY <1>1, <1>2, <1>3, <1>4, <1>5, <1>6

LEMMA LocalResultInv ==
    ASSUME PInv, LocalResult
    PROVE  PInv'
<1>1. PICK i \in checking :
        /\ checking' = checking \ {i} /\ resp' = resp \cup {<<i, LocalKind(i)>>}
        /\ UNCHANGED <<set, queue, sendBuffer, conn, wire, reader, answers, mark, reconnect, downs, panicked>>
  BY DEF LocalResult
<1>2. TypeOK /\ Noticed /\ RespOk /\ BusyOk /\ i \in Ips
  BY DEF PInv, TypeOK
<1>3. LocalKind(i) \in {"value", "nobypass"}
  BY DEF LocalKind
<1>4. TypeOK'
  BY <1>1, <1>2, <1>3 DEF TypeOK
<1>5. Noticed' /\ SentKnown' /\ LocalsOk'
  BY <1>1, <1>2 DEF PInv, Noticed, SentKnown, LocalsOk
<1>6. Busy' = Busy
  <2>0. \A x : x \in Busy' <=> x \in checking' \/ \E q \in resp' : q[1] = x
    BY DEF Busy
  <2> DEFINE n == <<i, LocalKind(i)>>
  <2>0a. n[1] = i /\ resp' = resp \cup {n} /\ checking' = checking \ {i}
    BY <1>1
  <2> HIDE DEF n
  <2>1. \A x : x \in Busy' <=> x \in checking \ {i} \/ x = i \/ \E q \in resp : q[1] = x
    BY <2>0, <2>0a
  <2>2. \A x : x \in Busy <=> x \in checking \/ \E q \in resp : q[1] = x
    BY DEF Busy
  <2> QED BY <2>1, <2>2
<1>7. RespOk'
  <2> SUFFICES ASSUME NEW r \in resp' PROVE r[2] = LocalKind(r[1]) /\ r[1] \notin checking'
    BY DEF RespOk
  <2>1. CASE r \in resp
    BY <1>1, <1>2, <2>1 DEF RespOk
  <2>2. CASE r = <<i, LocalKind(i)>>
    BY <1>1, <2>2
  <2> QED BY <1>1, <2>1, <2>2
<1>8. BusyOk'
  BY <1>1, <1>2, <1>6 DEF BusyOk
<1>9. Turns'
  <2>1. Unsettled(set', Busy') = Unsettled(set, Busy)
    BY <1>1, <1>6
  <2>2. panicked' = panicked
    BY <1>1
  <2> QED BY Zenon, <1>6, <2>1, <2>2 DEF PInv, Turns
<1> QED BY <1>4, <1>5, <1>7, <1>8, <1>9 DEF PInv

LEMMA AgeInv ==
    ASSUME PInv, Age
    PROVE  PInv'
<1>1. PICK i \in Ageing, age \in Ages :
        /\ set[i].known /\ (age = 2 => (i \notin checking /\ \A r \in resp : r[1] # i))
        /\ set' = [set EXCEPT ![i].age = age]
        /\ UNCHANGED <<queue, sendBuffer, conn, wire, reader, answers, mark, reconnect, checking, resp, downs, panicked>>
  BY DEF Age
<1>2. TypeOK /\ Noticed /\ RespOk /\ BusyOk /\ SentKnown /\ LocalsOk /\ i \in Ips /\ age \in 0 .. 2 /\ set \in [Ips -> Entry]
  BY ConstAssumption DEF PInv, TypeOK
<1>3. /\ set' \in [Ips -> Entry] /\ \A j \in Ips \ {i} : set'[j] = set[j]
      /\ set'[i].age = age /\ set'[i].known = set[i].known /\ set'[i].local = set[i].local
      /\ set'[i].remote = set[i].remote /\ set'[i].sent = set[i].sent
  <2>1. set' = [set EXCEPT ![i].age = age]
    BY <1>1
  <2> QED BY <1>2, <2>1 DEF Entry
<1>4. UNCHANGED <<queue, sendBuffer, conn, wire, reader, answers, mark, reconnect, checking, resp, downs, panicked>>
  BY Zenon, <1>1
<1>5. \A j \in Ips : set[j].known => set'[j].known
  BY <1>3
<1>6. TypeOK'
  <2>1. wire' \cup answers' \cup checking' \subseteq {j \in Ips : set'[j].known}
    BY <1>2, <1>4, <1>5 DEF TypeOK
  <2> QED BY <1>2, <1>3, <1>4, <2>1 DEF TypeOK
<1>7. Noticed'
  BY <1>2, <1>4 DEF Noticed
<1>8. SentKnown'
  BY <1>2, <1>4, <1>5 DEF SentKnown, TypeOK
<1>9. LocalsOk'
  BY <1>2, <1>3 DEF LocalsOk
<1>10. RespOk'
  BY <1>2, <1>4 DEF RespOk
<1>11. Busy' = Busy /\ Busy \subseteq Ips
  BY <1>2, <1>4, BusyCardinality DEF Busy
<1>12. BusyOk'
  <2> SUFFICES ASSUME NEW j \in Busy PROVE set'[j].known /\ set'[j].age # 2
    BY <1>11 DEF BusyOk
  <2>1. CASE j = i
    <3>1. age # 2
      BY <1>1, <2>1 DEF Busy
    <3> QED BY <1>2, <1>3, <2>1, <3>1 DEF BusyOk
  <2>2. CASE j # i
    BY <1>2, <1>3, <1>11, <2>2 DEF BusyOk
  <2> QED BY <2>1, <2>2
<1>13. Turns'
  <2>1. \A j \in Ips : Key(set'[j]) = Key(set[j]) /\ set'[j].known = set[j].known /\ set'[j].local = set[j].local
    BY <1>3 DEF Key, IsComplete, IsNoBypass
  <2>2. Unsettled(set', Busy') = Unsettled(set, Busy)
    BY <1>11, <2>1 DEF Unsettled, Open
  <2>3. panicked' = panicked
    BY <1>4
  <2> QED BY Zenon, <1>11, <2>2, <2>3 DEF PInv, Turns
<1> QED BY <1>6, <1>7, <1>8, <1>9, <1>10, <1>12, <1>13 DEF PInv

LEMMA PInitInv ==
    ASSUME Init
    PROVE  PInv
<1> DEFINE e == Absent
<1>1. /\ set = [i \in Ips |-> e] /\ queue = {} /\ sendBuffer = {} /\ wire = {} /\ answers = {} /\ mark = FALSE
      /\ checking = {} /\ resp = {} /\ downs = 0 /\ panicked = FALSE
  BY DEF Init
<1>2. e \in Entry /\ e.local = "none" /\ e.known = FALSE
  <2> DEFINE yes == TRUE
             no == FALSE
  <2>1. yes \in BOOLEAN /\ no \in BOOLEAN /\ 0 \in 0 .. 2
        /\ e = [[known |-> yes, age |-> 0, local |-> "none", remote |-> "none", sent |-> yes] EXCEPT !.known = no]
    BY DEF Absent, NewEntry
  <2> HIDE DEF yes, no, e
  <2>2. e \in Entry /\ e.local = "none" /\ e.known = no
    BY <2>1 DEF Entry
  <2> QED BY <2>2 DEF no
<1> HIDE DEF e
<1>3. TypeOK
  <2>1. 0 \in 0 .. MaxDown
    BY ConstAssumption
  <2>2. set \in [Ips -> Entry]
    BY <1>1, <1>2
  <2>3. conn \in {"up", "down"} /\ reader \in {"run", "ended", "idle"} /\ reconnect \in BOOLEAN
    BY DEF Init
  <2> QED BY <1>1, <2>1, <2>2, <2>3 DEF TypeOK
<1>4. Noticed
  BY DEF Noticed, Init
<1>5. SentKnown /\ LocalsOk /\ RespOk
  BY <1>1, <1>2 DEF SentKnown, LocalsOk, RespOk
<1>6. Busy = {}
  BY <1>1 DEF Busy
<1>7. Unsettled(set, Busy) = {}
  BY <1>1, <1>2, <1>6, Zenon DEF Unsettled, Open
<1>8. BusyOk /\ Turns
  BY <1>6, <1>7, FS_EmptySet DEF BusyOk, Turns
<1> QED BY <1>3, <1>4, <1>5, <1>8 DEF PInv

\* Every step of the profiler keeps its invariant.
LEMMA PInvInductive == PInv /\ [Next]_vars => PInv'
<1> SUFFICES ASSUME PInv, [Next]_vars PROVE PInv'
  OBVIOUS
<1>1. CASE Next
  BY <1>1, HandleRequestTurn, HandleLocalTurn, HandleRemoteTurn, HandleMarkTurn, OthersInv, LocalResultInv, AgeInv
     DEF Next
<1>2. CASE UNCHANGED vars
  BY <1>2, OthersInv
<1> QED BY <1>1, <1>2

\* Of the profiler of the async proxy (run_profiler of aproxy/profiler.rs), whatever
\* the order of the map, the addresses asked for and the connections lost: a lost
\* connection always has somebody left who will report it, and there are as many
\* local results to come as entries to decide on.
THEOREM ProfilerKeepsTurns == MCSpec => []ProfilerGoesOn
<1>1. MCInit => PInv
  BY PInitInv DEF MCInit
<1>2. PInv /\ [MCNext]_all => PInv'
  BY PInvInductive DEF MCNext, all
<1>3. PInv => ProfilerGoesOn
  <2> SUFFICES ASSUME PInv PROVE ProfilerGoesOn
    OBVIOUS
  <2>1. ClosedNoticed
    BY DEF PInv, ClosedNoticed, Noticed
  <2>2. UndecidedHaveTurns
    <3> DEFINE V == Unsettled(set, Busy)
               W == Open(set)
    <3>1. Busy \subseteq Ips /\ Cardinality(Busy) \in Nat /\ Cardinality(Busy) = Cardinality(checking) + Cardinality(resp)
      BY BusyCardinality DEF PInv
    <3>2. IsFiniteSet(V) /\ Cardinality(V) \in Nat /\ W \in SUBSET V
      BY <3>1, UnsettledFinite DEF Unsettled
    <3> HIDE DEF V, W
    <3>3. Cardinality(W) <= Cardinality(V) /\ IsFiniteSet(W)
      BY <3>2, FS_Subset
    <3>4. Cardinality(W) \in Nat
      BY <3>3, FS_CardinalityType
    <3>5. panicked \/ Cardinality(V) <= Cardinality(Busy)
      BY DEF PInv, Turns, V
    <3>6. panicked \/ Cardinality(W) <= Cardinality(Busy)
      BY <3>1, <3>2, <3>3, <3>4, <3>5
    <3> QED BY Zenon, <3>1, <3>6 DEF UndecidedHaveTurns, W, Open
  <2> QED BY <2>1, <2>2 DEF ProfilerGoesOn
<1> QED BY <1>1, <1>2, <1>3, PTL DEF MCSpec

-----------------------------------------------------------------------------
(* The profiler: a request repeats what was lost *)

\* send_buffer is never cleared, so that every address of the table is in it.
KnownSent == \A i \in Ips : set[i].known => i \in sendBuffer

\* The end of a turn enters no address.
LEMMA FinishEntersNone ==
    ASSUME NEW s1 \in [Ips -> Entry], NEW q1, Finish(s1, q1)
    PROVE  \A i \in Ips : set'[i].known = s1[i].known
<1> DEFINE s2 == [i \in Ips |-> [s1[i] EXCEPT !.age = IF i \in Resend(s1) THEN 0 ELSE @,
                                              !.sent = @ \/ i \in Decide(s1)]]
<1>1. set' = s2
  BY Zenon DEF Finish
<1>2. \A i \in Ips : set'[i] = s2[i]
  BY <1>1
<1> SUFFICES ASSUME NEW i \in Ips PROVE set'[i].known = s1[i].known
  OBVIOUS
<1> DEFINE a == IF i \in Resend(s1) THEN 0 ELSE s1[i].age
           b == s1[i].sent \/ i \in Decide(s1)
<1>3. s2[i] = [s1[i] EXCEPT !.age = a, !.sent = b] /\ s1[i] \in Entry
  OBVIOUS
<1> HIDE DEF a, b, s2
<1>4. s2[i].known = s1[i].known
  BY <1>3 DEF Entry
<1> QED BY <1>2, <1>4

LEMMA KnownSentInductive ==
    ASSUME TypeOK, KnownSent, [Next]_vars
    PROVE  KnownSent'
<1>t. set \in [Ips -> Entry] /\ queue \subseteq Ips /\ resp \subseteq Ips \X {"value", "nobypass"}
      /\ answers \subseteq Ips
  BY DEF TypeOK
<1>e. ASSUME UNCHANGED <<set, sendBuffer>> PROVE KnownSent'
  BY <1>e DEF KnownSent
<1>1. CASE HandleRequest
  <2>1. PICK i \in queue : sendBuffer' = Extended(i) /\ set' = [set EXCEPT ![i] = Asked(@)]
    BY <1>1 DEF HandleRequest
  <2> QED BY <1>t, <2>1 DEF KnownSent, Extended
<1>2. CASE HandleLocal
  <2>1. PICK r \in resp : Finish([set EXCEPT ![r[1]].local = r[2]], queue) /\ sendBuffer' = sendBuffer
    BY <1>2 DEF HandleLocal
  <2> DEFINE s1 == [set EXCEPT ![r[1]].local = r[2]]
  <2>2. s1 \in [Ips -> Entry] /\ \A i \in Ips : s1[i].known = set[i].known
    BY <1>t DEF Entry
  <2> HIDE DEF s1
  <2>3. \A i \in Ips : set'[i].known = s1[i].known
    BY <2>1, <2>2, FinishEntersNone DEF s1
  <2> QED BY <2>1, <2>2, <2>3 DEF KnownSent
<1>3. CASE HandleRemote
  <2>1. PICK j \in answers : Finish([set EXCEPT ![j].remote = "value"], queue) /\ sendBuffer' = sendBuffer
    BY <1>3 DEF HandleRemote
  <2> DEFINE s1 == [set EXCEPT ![j].remote = "value"]
  <2>2. s1 \in [Ips -> Entry] /\ \A i \in Ips : s1[i].known = set[i].known
    BY <1>t DEF Entry
  <2> HIDE DEF s1
  <2>3. \A i \in Ips : set'[i].known = s1[i].known
    BY <2>1, <2>2, FinishEntersNone DEF s1
  <2> QED BY <2>1, <2>2, <2>3 DEF KnownSent
<1>4. CASE HandleMark
  <2>1. Finish(set, queue) /\ sendBuffer' = sendBuffer
    BY <1>4 DEF HandleMark
  <2>2. \A i \in Ips : set'[i].known = set[i].known
    BY <1>t, <2>1, FinishEntersNone
  <2> QED BY <2>1, <2>2 DEF KnownSent
<1>5. CASE Age
  <2>1. PICK j \in Ageing, age \in Ages :
            set[j].known /\ set' = [set EXCEPT ![j].age = age] /\ sendBuffer' = sendBuffer
    BY <1>5 DEF Age
  <2>2. \A i \in Ips : set'[i].known = set[i].known
    BY <1>t, <2>1, ConstAssumption DEF Entry
  <2> QED BY <2>1, <2>2 DEF KnownSent
<1>6. CASE SkipRequest \/ HandleNone \/ NewRequest \/ LocalResult \/ RemoteAnswer \/ ReaderEnds \/ ServerGone
  BY <1>6, <1>e DEF SkipRequest, HandleNone, NewRequest, LocalResult, RemoteAnswer, ReaderEnds, ServerGone
<1>7. CASE UNCHANGED vars
  BY <1>7, <1>e DEF vars
<1> QED BY <1>1, <1>2, <1>3, <1>4, <1>5, <1>6, <1>7 DEF Next

\* Only HandleRequest starts a check.
LEMMA ChecksBegin ==
    ASSUME [Next]_vars, checking' # checking, checking \subseteq checking'
    PROVE  HandleRequest
<1>1. CASE HandleLocal
  BY <1>1 DEF HandleLocal
<1>2. CASE HandleRemote
  BY <1>2 DEF HandleRemote
<1>3. CASE HandleMark
  BY <1>3 DEF HandleMark
<1>4. CASE LocalResult
  BY <1>4 DEF LocalResult
<1>5. CASE SkipRequest \/ HandleNone \/ NewRequest \/ RemoteAnswer \/ ReaderEnds \/ ServerGone \/ Age
  BY <1>5 DEF SkipRequest, HandleNone, NewRequest, RemoteAnswer, ReaderEnds, ServerGone, Age, channels
<1> QED BY <1>1, <1>2, <1>3, <1>4, <1>5 DEF Next, vars

\* For any addresses and any number of lost connections: a request that is accepted on
\* a live connection of the async profiler asks again for every address of the table
\* that has no remote result, whatever connection its question was lost with.
THEOREM RequestsRepeatLost == MCSpec => LostIsAskedAgain
<1>1. MCInit => PInv /\ KnownSent
  <2>1. Init => KnownSent
    BY DEF Init, KnownSent, Absent, NewEntry
  <2> QED BY <2>1, PInitInv DEF MCInit
<1>2. PInv /\ KnownSent /\ [MCNext]_all => (PInv /\ KnownSent)'
  <2>1. [MCNext]_all => [Next]_vars
    BY DEF MCNext, all
  <2> QED BY <2>1, PInvInductive, KnownSentInductive DEF PInv
<1>3. PInv /\ KnownSent /\ [MCNext]_all =>
        [(checking' # checking /\ checking \subseteq checking' /\ conn = "up" /\ ~reconnect)
            => \A i \in Ips : (set'[i].known /\ set'[i].remote = "none") => i \in wire' \cup answers']_vars
  <2> SUFFICES ASSUME PInv, KnownSent, [MCNext]_all,
                      checking' # checking, checking \subseteq checking', conn = "up", ~reconnect,
                      NEW i \in Ips, set'[i].known
               PROVE  i \in wire'
    OBVIOUS
  <2>1. HandleRequest
    BY ChecksBegin DEF MCNext, all, vars
  <2>2. PICK j \in queue, fails \in BOOLEAN :
            /\ fails => conn = "down"
            /\ set' = [set EXCEPT ![j] = Asked(@)]
            /\ Reconnect(reconnect \/ fails, IF conn = "up" THEN wire \cup Extended(j) ELSE wire, Chans)
    BY <2>1 DEF HandleRequest
  <2>3. wire' = wire \cup Extended(j)
    BY <2>2 DEF Reconnect
  <2>4. i = j \/ set[i].known
    BY <2>2 DEF PInv, TypeOK
  <2> QED BY <2>3, <2>4 DEF KnownSent, Extended
<1> QED BY <1>1, <1>2, <1>3, PTL DEF MCSpec, LostIsAskedAgain
=============================================================================
