----------------------------- MODULE Induction ------------------------------
(***************************************************************************)
(* Induction over numbers and folds, as lemmas. A statement about all      *)
(* numbers up to n goes by the least counterexample (Least, UpTo), and a   *)
(* fold has its values after each element (FoldTrace): the sets of indices *)
(* that it is defined over are 1..k, the greatest being taken off each     *)
(* time. And what sequences are made of that are cut, appended to and      *)
(* inserted into.                                                          *)
(***************************************************************************)
EXTENDS Integers, SequencesExt, FiniteSetsExt, FiniteSetTheorems, SequenceTheorems, TLAPS

\* A set of natural numbers has a least one.
LEMMA Least ==
  ASSUME NEW T \in SUBSET Nat, T # {}
  PROVE  \E n \in T : \A m \in T : n <= m
<1> DEFINE I == {1..n : n \in T}
           R == StrictSubsetOrdering(Nat)
<1>1. \A n \in T : n \in Nat /\ 1..n \in SUBSET Nat /\ IsFiniteSet(1..n)
  BY FS_Interval
<1>2. I \subseteq FiniteSubsetsOf(Nat) /\ I # {}
  BY <1>1 DEF FiniteSubsetsOf
<1>3. IsWellFoundedOn(R, FiniteSubsetsOf(Nat))
  BY FS_StrictSubsetOrderingWellFounded
<1>4. \A n, m \in T : m < n => <<1..m, 1..n>> \in R
  <2> SUFFICES ASSUME NEW n \in T, NEW m \in T, m < n PROVE <<1..m, 1..n>> \in R
    OBVIOUS
  <2>1. 1..m \subseteq 1..n /\ n \in 1..n /\ n \notin 1..m
    BY <1>1
  <2> QED BY <1>1, <2>1 DEF StrictSubsetOrdering
<1> HIDE DEF I, R
<1>5. PICK x \in I : \A y \in I : ~ (<<y, x>> \in R)
  BY <1>2, <1>3, WFMin
<1>6. PICK n \in T : x = 1..n
  BY <1>5 DEF I
<1>7. ASSUME NEW m \in T PROVE n <= m
  <2>1. ~ (<<1..m, 1..n>> \in R)
    BY <1>5, <1>6 DEF I
  <2>2. ~ (m < n)
    BY <1>4, <2>1
  <2> QED BY <1>1, <2>2
<1> QED BY <1>7

\* Induction up to n, for the set of the numbers for which something holds.
LEMMA UpTo ==
  ASSUME NEW n \in Nat, NEW T, 0 \in T, \A k \in 1..n : k - 1 \in T => k \in T
  PROVE  \A k \in 0..n : k \in T
<1> DEFINE B == {k \in 0..n : k \notin T}
<1> SUFFICES ASSUME B # {} PROVE FALSE
  OBVIOUS
<1>1. B \in SUBSET Nat
  OBVIOUS
<1>2. PICK k \in B : \A m \in B : k <= m
  BY <1>1, Least
<1>3. k \in 1..n
  OBVIOUS
<1>4. k - 1 \notin B /\ k - 1 \in 0..n
  BY <1>2, <1>3
<1> QED BY <1>3, <1>4

\* The least of a set of natural numbers.
LEMMA MinIs ==
  ASSUME NEW S \in SUBSET Nat, S # {}
  PROVE  Min(S) \in S /\ \A y \in S : Min(S) <= y
BY Least DEF Min

\* The greatest of a set of numbers that is bounded.
LEMMA MaxIs ==
  ASSUME NEW n \in Nat, NEW S \in SUBSET (0..n), S # {}
  PROVE  Max(S) \in S /\ \A y \in S : Max(S) >= y
<1> DEFINE D == {n - y : y \in S}
<1>1. D \in SUBSET Nat /\ D # {}
  OBVIOUS
<1>2. PICK d \in D : \A m \in D : d <= m
  BY <1>1, Least
<1>3. PICK x \in S : d = n - x
  OBVIOUS
<1>4. \A y \in S : x >= y
  <2> SUFFICES ASSUME NEW y \in S PROVE x >= y
    OBVIOUS
  <2>1. n - y \in D
    OBVIOUS
  <2>2. n - x <= n - y
    BY <1>2, <1>3, <2>1
  <2> QED BY <2>2
<1> QED BY <1>4 DEF Max

-----------------------------------------------------------------------------
(* Folds                                                                   *)

\* The function that a fold over 1..n is made of: g[s] folds over s.
IsFold(g, n, b, F) ==
  \A s \in SUBSET (1..n) :
    g[s] = IF s = {} THEN b ELSE F[<<g[s \ {Max(s)}], Max(s)>>]

LEMMA FoldExists ==
  ASSUME NEW n \in Nat, NEW V, NEW b \in V, NEW F \in [V \X (1..n) -> V]
  PROVE  \E g \in [SUBSET (1..n) -> V] : IsFold(g, n, b, F)
<1> DEFINE T == {k \in 0..n : \E g \in [SUBSET (1..k) -> V] : IsFold(g, k, b, F)}
<1>1. 0 \in T
  <2> DEFINE g == [s \in SUBSET (1..0) |-> b]
  <2>1. SUBSET (1..0) = {{}}
    OBVIOUS
  <2>2. g \in [SUBSET (1..0) -> V] /\ IsFold(g, 0, b, F)
    BY <2>1 DEF IsFold
  <2> QED BY <2>2
<1>2. ASSUME NEW k \in 1..n, k - 1 \in T PROVE k \in T
  <2>1. PICK h \in [SUBSET (1..(k - 1)) -> V] : IsFold(h, k - 1, b, F)
    BY <1>2
  <2> DEFINE g == [s \in SUBSET (1..k) |-> IF k \in s THEN F[<<h[s \ {k}], k>>] ELSE h[s]]
  <2>2. \A s \in SUBSET (1..k) : /\ s \ {k} \in SUBSET (1..(k - 1))
                                 /\ k \notin s => s \in SUBSET (1..(k - 1))
    OBVIOUS
  <2>3. g \in [SUBSET (1..k) -> V]
    BY <2>2
  <2>4. ASSUME NEW s \in SUBSET (1..k)
        PROVE  g[s] = IF s = {} THEN b ELSE F[<<g[s \ {Max(s)}], Max(s)>>]
    <3>1. CASE k \in s
      <4>1. s \in SUBSET (0..k) /\ k \in Nat
        OBVIOUS
      <4>2. Max(s) \in s /\ Max(s) >= k
        BY <3>1, <4>1, MaxIs
      <4>3. Max(s) = k
        <5>1. PICK m : m = Max(s)
          OBVIOUS
        <5>2. m \in 1..k /\ m >= k
          BY <4>2, <5>1
        <5>3. m = k
          BY <5>2
        <5> QED BY <5>1, <5>3
      <4>4. s \ {k} \in SUBSET (1..k) /\ k \notin s \ {k}
        OBVIOUS
      <4>5. g[s] = F[<<h[s \ {k}], k>>] /\ g[s \ {k}] = h[s \ {k}]
        BY <3>1, <4>4
      <4> HIDE DEF g
      <4> QED BY <3>1, <4>3, <4>5
    <3>2. CASE k \notin s
      <4>1. s \in SUBSET (1..(k - 1)) /\ s \ {Max(s)} \in SUBSET (1..k)
        BY <2>2, <3>2
      <4>2. g[s] = h[s] /\ g[s \ {Max(s)}] = h[s \ {Max(s)}]
        BY <3>2, <4>1
      <4>3. h[s] = IF s = {} THEN b ELSE F[<<h[s \ {Max(s)}], Max(s)>>]
        BY <2>1, <4>1 DEF IsFold
      <4> HIDE DEF g
      <4> QED BY <4>2, <4>3
    <3> QED BY <3>1, <3>2
  <2> HIDE DEF g
  <2>5. IsFold(g, k, b, F)
    BY <2>4 DEF IsFold
  <2> QED BY <2>3, <2>5
<1> HIDE DEF T
<1>3. n \in T
  BY <1>1, <1>2, UpTo
<1> QED BY <1>3 DEF T

LEMMA MaxUpTo ==
  ASSUME NEW n \in Nat, NEW k \in 1..n
  PROVE  /\ 1..k \in SUBSET (1..n) /\ 1..k # {}
         /\ Max(1..k) = k /\ (1..k) \ {k} = 1..(k - 1)
<1>1. 1..k \in SUBSET (0..n) /\ k \in 1..k /\ 1..k \in SUBSET (1..n)
  OBVIOUS
<1>2. PICK m : m = Max(1..k)
  OBVIOUS
<1>3. m \in 1..k /\ m >= k
  BY <1>1, <1>2, MaxIs
<1>4. m = k /\ (1..k) \ {k} = 1..(k - 1)
  BY <1>3
<1> QED BY <1>1, <1>2, <1>4

\* What is taken off a set of indices, and what is left.
LEMMA MaxTaken ==
  ASSUME NEW n \in Nat, NEW s \in SUBSET (1..n), s # {}
  PROVE  Max(s) \in 1..n /\ s \ {Max(s)} \in SUBSET (1..n)
<1>1. s \in SUBSET (0..n)
  OBVIOUS
<1> QED BY <1>1, MaxIs

\* The values of a fold after each of n elements.
IsTrace(x, n, V, b, F) ==
  /\ x \in [0..n -> V]
  /\ x[0] = b
  /\ \A k \in 1..n : x[k] = F[<<x[k - 1], k>>]

\* A function over sets of indices that goes on as F says from values in V.
Folds(it, n, V, b, F) ==
  /\ it[{}] = b
  /\ \A s \in SUBSET (1..n) :
       s # {} /\ it[s \ {Max(s)}] \in V => it[s] = F[<<it[s \ {Max(s)}], Max(s)>>]

HasTrace(it, n, V, b, F) == \E x : IsTrace(x, n, V, b, F) /\ it[1..n] = x[n]

LEMMA FoldTrace ==
  ASSUME NEW n \in Nat, NEW V, NEW b \in V, NEW F \in [V \X (1..n) -> V], NEW it,
         Folds(it, n, V, b, F)
  PROVE  HasTrace(it, n, V, b, F)
<1> DEFINE T == {k \in 0..n : it[1..k] \in V}
           x == [k \in 0..n |-> it[1..k]]
<1>1. it[1..0] = b
  <2>1. 1..0 = {}
    OBVIOUS
  <2> QED BY <2>1 DEF Folds
<1>2. ASSUME NEW k \in 1..n, it[1..(k - 1)] \in V
      PROVE  it[1..k] = F[<<it[1..(k - 1)], k>>] /\ it[1..k] \in V
  <2>1. PICK s : s = 1..k
    OBVIOUS
  <2>2. s \in SUBSET (1..n) /\ s # {} /\ Max(s) = k /\ s \ {k} = 1..(k - 1)
    BY <2>1, MaxUpTo
  <2>3. it[s] = F[<<it[1..(k - 1)], k>>]
    BY <1>2, <2>2 DEF Folds
  <2> QED BY <1>2, <2>1, <2>3
<1>3. 0 \in T
  BY <1>1
<1>4. ASSUME NEW k \in 1..n, k - 1 \in T PROVE k \in T
  <2>1. it[1..(k - 1)] \in V
    BY <1>4
  <2>2. it[1..k] \in V
    BY <1>2, <2>1
  <2> QED BY <2>2
<1> HIDE DEF T
<1>5. \A k \in 0..n : k \in T
  BY <1>3, <1>4, UpTo
<1>6. \A k \in 0..n : it[1..k] \in V
  BY <1>5 DEF T
<1>7. x \in [0..n -> V] /\ x[0] = b /\ it[1..n] = x[n]
  BY <1>1, <1>6
<1>8. ASSUME NEW k \in 1..n PROVE x[k] = F[<<x[k - 1], k>>]
  <2>1. k - 1 \in 0..n /\ k \in 0..n
    OBVIOUS
  <2> QED BY <1>2, <1>6, <2>1
<1> HIDE DEF x
<1> QED BY <1>7, <1>8 DEF IsTrace, HasTrace

-----------------------------------------------------------------------------
(* Sequences                                                               *)

\* The first k elements.
LEMMA FirstAre ==
  ASSUME NEW R, NEW s \in Seq(R), NEW k \in 0..Len(s)
  PROVE  /\ SubSeq(s, 1, k) \in Seq(R) /\ Len(SubSeq(s, 1, k)) = k
         /\ \A i \in 1..k : SubSeq(s, 1, k)[i] = s[i]
<1>1. Len(s) \in Nat /\ k \in Int /\ 1 \in Int /\ \A i \in 1..k : s[i] \in R
  OBVIOUS
<1>2. PICK t : t = SubSeq(s, 1, k)
  OBVIOUS
<1>3. /\ t \in Seq(R) /\ Len(t) = IF 1 <= k THEN k - 1 + 1 ELSE 0
      /\ \A i \in 1..k - 1 + 1 : t[i] = s[1 + i - 1]
  BY <1>1, <1>2, SubSeqProperties
<1>4. k - 1 + 1 = k /\ \A i \in 1..k : 1 + i - 1 = i
  BY <1>1
<1>5. Len(t) = k
  BY <1>1, <1>3
<1> QED BY <1>2, <1>3, <1>4, <1>5

LEMMA FirstIs ==
  ASSUME NEW R, NEW s \in Seq(R), NEW t \in Seq(R), NEW k \in 0..Len(s), Len(t) = k,
         \A i \in 1..k : t[i] = s[i]
  PROVE  t = SubSeq(s, 1, k)
BY FirstAre, SeqEqual

\* What is printed of one file, and counted, comes of all its hits.

\* One more element that was not there.
Appended(t, s, e) ==
  /\ Len(t) = Len(s) + 1 /\ Range(t) = Range(s) \cup {e}
  /\ IsInjective(s) /\ e \notin Range(s) => IsInjective(t)

LEMMA AppendNew ==
  ASSUME NEW S, NEW s \in Seq(S), NEW e \in S, NEW t, t = Append(s, e)
  PROVE  t \in Seq(S) /\ Appended(t, s, e)
<1>1. Len(s) \in Nat /\ DOMAIN s = 1..Len(s)
  OBVIOUS
<1>2. /\ t \in Seq(S) /\ Len(t) = Len(s) + 1 /\ t[Len(s) + 1] = e
      /\ \A i \in 1..Len(s) : t[i] = s[i]
  BY AppendProperties
<1>3. PICK n : n = Len(s)
  OBVIOUS
<1>4. /\ n \in Nat /\ DOMAIN s = 1..n /\ DOMAIN t = 1..n + 1 /\ t[n + 1] = e
      /\ \A i \in 1..n : t[i] = s[i]
  BY <1>1, <1>2, <1>3
<1>5. Range(t) = Range(s) \cup {e}
  <2>1. ASSUME NEW x \in Range(t) PROVE x \in Range(s) \cup {e}
    <3>1. PICK i \in 1..n + 1 : x = t[i]
      BY <1>4 DEF Range
    <3>2. i \in 1..n \/ i = n + 1
      BY <1>4
    <3> QED BY <1>4, <3>1, <3>2 DEF Range
  <2>2. ASSUME NEW x \in Range(s) PROVE x \in Range(t)
    <3>1. PICK i \in 1..n : x = s[i]
      BY <1>4 DEF Range
    <3>2. i \in 1..n + 1 /\ x = t[i]
      BY <1>4, <3>1
    <3> QED BY <1>4, <3>2 DEF Range
  <2>3. e \in Range(t)
    <3>1. n + 1 \in 1..n + 1
      BY <1>4
    <3> QED BY <1>4, <3>1 DEF Range
  <2> QED BY <2>1, <2>2, <2>3
<1>6. ASSUME IsInjective(s), e \notin Range(s) PROVE IsInjective(t)
  <2>1. /\ \A i \in 1..n : t[i] # e
        /\ \A i, j \in 1..n : t[i] = t[j] => i = j
    BY <1>4, <1>6 DEF IsInjective, Range
  <2> SUFFICES ASSUME NEW i \in 1..n + 1, NEW j \in 1..n + 1, t[i] = t[j] PROVE i = j
    BY <1>4 DEF IsInjective
  <2>2. (i \in 1..n \/ i = n + 1) /\ (j \in 1..n \/ j = n + 1)
    BY <1>4
  <2> QED BY <1>4, <2>1, <2>2
<1> QED BY <1>2, <1>5, <1>6 DEF Appended

\* InsertAt, position by position.
Inserted(r, s, m, e, S) ==
  /\ r \in Seq(S) /\ Len(r) = Len(s) + 1
  /\ \A i \in 1..m : r[i] = s[i]
  /\ r[m + 1] = e
  /\ \A i \in m + 2..Len(s) + 1 : r[i] = s[i - 1]

LEMMA InsertAtIs ==
  ASSUME NEW S, NEW s \in Seq(S), NEW m \in 0..Len(s), NEW e \in S
  PROVE  Inserted(InsertAt(s, m + 1, e), s, m, e, S)
<1> DEFINE a == SubSeq(s, 1, m)
           c == SubSeq(s, m + 1, Len(s))
           b == <<e>>
           n == Len(s) - m
<1>1. Len(s) \in Nat /\ m \in Nat /\ n \in Nat
  OBVIOUS
<1>2. a \in Seq(S) /\ Len(a) = m /\ \A i \in 1..m : a[i] = s[i]
  BY <1>1, SubSeqProperties
<1>3. c \in Seq(S) /\ Len(c) = n /\ \A i \in 1..n : c[i] = s[m + i]
  <2>1. \A i \in m + 1..Len(s) : s[i] \in S
    OBVIOUS
  <2>2. /\ c \in Seq(S) /\ Len(c) = IF m + 1 <= Len(s) THEN Len(s) - (m + 1) + 1 ELSE 0
        /\ \A i \in 1..Len(s) - (m + 1) + 1 : c[i] = s[(m + 1) + i - 1]
    BY <1>1, <2>1, SubSeqProperties
  <2> HIDE DEF c
  <2> QED BY <1>1, <2>2
<1>4. b \in Seq(S) /\ Len(b) = 1 /\ b[1] = e
  OBVIOUS
<1> HIDE DEF a, b, c
<1> DEFINE ab == a \o b
<1>5. /\ ab \in Seq(S) /\ Len(ab) = m + 1
      /\ \A i \in 1..m : ab[i] = s[i]
      /\ ab[m + 1] = e
  <2>1. /\ ab \in Seq(S) /\ Len(ab) = m + 1
        /\ \A i \in 1..m + 1 : ab[i] = IF i <= m THEN a[i] ELSE b[i - m]
    <3>1. /\ ab \in Seq(S) /\ Len(ab) = Len(a) + Len(b)
          /\ \A i \in 1..Len(a) + Len(b) : ab[i] = IF i <= Len(a) THEN a[i] ELSE b[i - Len(a)]
      BY <1>2, <1>4, ConcatProperties
    <3> HIDE DEF ab
    <3> QED BY <1>2, <1>4, <3>1
  <2> QED BY <1>1, <1>2, <1>4, <2>1
<1> HIDE DEF ab
<1>6. PICK r : r = ab \o c
  OBVIOUS
<1>7. r = InsertAt(s, m + 1, e)
  <2>1. (m + 1) - 1 = m
    BY <1>1
  <2> QED BY <1>6, <2>1 DEF InsertAt, a, b, c, ab
<1>8. /\ r \in Seq(S) /\ Len(r) = (m + 1) + n
      /\ \A i \in 1..(m + 1) + n : r[i] = IF i <= m + 1 THEN ab[i] ELSE c[i - (m + 1)]
  <2>1. /\ r \in Seq(S) /\ Len(r) = Len(ab) + Len(c)
        /\ \A i \in 1..Len(ab) + Len(c) : r[i] = IF i <= Len(ab) THEN ab[i] ELSE c[i - Len(ab)]
    <3>1. /\ ab \o c \in Seq(S) /\ Len(ab \o c) = Len(ab) + Len(c)
          /\ \A i \in 1..Len(ab) + Len(c) :
               (ab \o c)[i] = IF i <= Len(ab) THEN ab[i] ELSE c[i - Len(ab)]
      BY <1>3, <1>5, ConcatProperties
    <3> QED BY <1>6, <3>1
  <2> QED BY <1>3, <1>5, <2>1
<1>9. \A i \in 1..m : r[i] = s[i]
  BY <1>1, <1>5, <1>8
<1>10. r[m + 1] = e
  BY <1>1, <1>5, <1>8
<1>11. ASSUME NEW i \in m + 2..Len(s) + 1 PROVE r[i] = s[i - 1]
  <2>1. i \in 1..(m + 1) + n /\ ~(i <= m + 1) /\ i - (m + 1) \in 1..n
    BY <1>1
  <2>2. c[i - (m + 1)] = s[m + (i - (m + 1))] /\ m + (i - (m + 1)) = i - 1
    BY <1>1, <1>3, <2>1
  <2> QED BY <1>8, <2>1, <2>2
<1> QED BY <1>1, <1>8, <1>9, <1>10, <1>11, <1>7 DEF Inserted
=============================================================================
