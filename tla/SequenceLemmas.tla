--------------------------- MODULE SequenceLemmas ---------------------------
(***************************************************************************)
(* What Only and FlattenSeq do to a sequence that grows, is cut or is put  *)
(* together.  Both are recursive over data: the facts are proved by        *)
(* induction over sequences, with a set in the place of the formula that   *)
(* the library's induction theorems take as a parameter.                   *)
(***************************************************************************)
EXTENDS Subsequences, Integers, SequencesExt, WellFoundedInduction, TLAPS

----------------------------------------------------------------------------
\* Induction.  The library's induction theorems take the formula as a parameter; these
\* take the set of the numbers it holds of.

LEMMA LeastNumber ==
  ASSUME NEW T \in SUBSET Nat, T # {}
  PROVE  \E x \in T : \A y \in T : x <= y
<1> DEFINE R == {ss \in Nat \X Nat : ss[1] < ss[2]}
<1>1. OpToRel(<, Nat) = R
  BY Zenon DEF OpToRel
<1>2. IsWellFoundedOn(R, Nat)
  BY <1>1, NatLessThanWellFounded
<1> HIDE DEF R
<1>3. PICK x \in T : \A y \in T : ~ (<<y, x>> \in R)
  BY <1>2, WFMin
<1> USE DEF R
<1>4. ASSUME NEW y \in T, ~(x <= y) PROVE FALSE
  <2>1. <<y, x>> \in R
    BY <1>4
  <2> QED
    BY <1>3, <2>1
<1> QED
  BY <1>4

LEMMA Climb ==
  ASSUME NEW N \in Nat, NEW G, 0 \in G, \A n \in 0..(N - 1) : n \in G => n + 1 \in G
  PROVE  \A n \in 0..N : n \in G
<1> DEFINE T == {n \in 0..N : n \notin G}
<1> SUFFICES ASSUME T # {} PROVE FALSE
  OBVIOUS
<1>1. T \in SUBSET Nat
  OBVIOUS
<1>2. PICK x \in T : \A y \in T : x <= y
  <2> HIDE DEF T
  <2> QED
    BY <1>1, LeastNumber
<1>3. x # 0 /\ x - 1 \in 0..(N - 1) /\ x - 1 \notin T
  BY <1>2
<1>4. x - 1 \in G
  BY <1>3
<1> QED
  BY <1>3, <1>4

LEMMA Prefix ==
  ASSUME NEW S, NEW s \in Seq(S)
  PROVE  /\ SubSeq(s, 1, 0) = <<>> /\ SubSeq(s, 1, Len(s)) = s /\ Len(s) \in Nat
         /\ \A n \in 0..Len(s) : SubSeq(s, 1, n) \in Seq(S)
         /\ \A n \in 0..(Len(s) - 1) : s[n + 1] \in S /\ SubSeq(s, 1, n + 1) = Append(SubSeq(s, 1, n), s[n + 1])
OBVIOUS

LEMMA SequenceInduction ==
  ASSUME NEW S, NEW G, <<>> \in G, \A s \in Seq(S), x \in S : s \in G => Append(s, x) \in G
  PROVE  \A s \in Seq(S) : s \in G
<1> TAKE s \in Seq(S)
<1> DEFINE H == {n \in 0..Len(s) : SubSeq(s, 1, n) \in G}
<1>1. 0 \in H /\ Len(s) \in Nat /\ Len(s) \in 0..Len(s)
  <2>1. Len(s) \in Nat /\ SubSeq(s, 1, 0) = <<>>
    BY Prefix
  <2>2. SubSeq(s, 1, 0) \in G
    BY <2>1, Zenon
  <2>3. 0 \in 0..Len(s) /\ Len(s) \in 0..Len(s)
    BY <2>1
  <2> QED
    BY <2>1, <2>2, <2>3, Zenon
<1>2. ASSUME NEW n \in 0..(Len(s) - 1), n \in H PROVE n + 1 \in H
  <2>1. SubSeq(s, 1, n) \in Seq(S) /\ s[n + 1] \in S /\ n + 1 \in 0..Len(s)
        /\ SubSeq(s, 1, n + 1) = Append(SubSeq(s, 1, n), s[n + 1])
    BY Prefix
  <2> QED
    BY <1>2, <2>1
<1>3. Len(s) \in H
  <2> HIDE DEF H
  <2> QED
    BY <1>1, <1>2, Climb
<1> QED
  BY <1>3, Prefix

\* A recursive definition over 0..N has a solution.
Solves(F, D, b, N, next) ==
  F \in [0..N -> D] /\ F[0] = b /\ \A n \in 1..N : F[n] = next[n][F[n - 1]]

LEMMA Recursion ==
  ASSUME NEW D, NEW b, NEW N, NEW next, b \in D, N \in Nat, next \in [1..N -> [D -> D]]
  PROVE  \E F : Solves(F, D, b, N, next)
<1> DEFINE G == {m \in 0..N : \E F : Solves(F, D, b, m, next)}
<1>1. 0 \in G
  <2> DEFINE F == [n \in 0..0 |-> b]
  <2>1. Solves(F, D, b, 0, next)
    BY DEF Solves
  <2>2. 0 \in 0..N
    OBVIOUS
  <2> HIDE DEF F
  <2> QED
    BY <2>1, <2>2
<1>2. ASSUME NEW m \in 0..(N - 1), m \in G PROVE m + 1 \in G
  <2>1. PICK F : Solves(F, D, b, m, next)
    BY <1>2
  <2> DEFINE H == [n \in 0..(m + 1) |-> IF n = m + 1 THEN next[m + 1][F[m]] ELSE F[n]]
  <2>2. m + 1 \in 1..N /\ m + 1 \in 0..N /\ F[m] \in D /\ F \in [0..m -> D]
    BY <2>1 DEF Solves
  <2>3. next[m + 1][F[m]] \in D
    BY <2>2
  <2>4. H \in [0..(m + 1) -> D] /\ H[m + 1] = next[m + 1][F[m]] /\ \A n \in 0..m : H[n] = F[n]
    BY <2>2, <2>3
  <2> HIDE DEF H
  <2>5. H[0] = b
    BY <2>1, <2>4 DEF Solves
  <2>6. ASSUME NEW n \in 1..(m + 1) PROVE H[n] = next[n][H[n - 1]]
    <3>1. CASE n = m + 1
      BY <2>4, <3>1
    <3>2. CASE n \in 1..m
      BY <2>1, <2>4, <3>2 DEF Solves
    <3> QED
      BY <3>1, <3>2
  <2>7. Solves(H, D, b, m + 1, next)
    BY <2>4, <2>5, <2>6 DEF Solves
  <2> QED
    BY <2>2, <2>7
<1>3. N \in G
  <2> HIDE DEF G
  <2>1. N \in 0..N
    OBVIOUS
  <2> QED
    BY <1>1, <1>2, <2>1, Climb
<1> QED
  BY <1>3

LEMMA SolvesType ==
  ASSUME NEW F, NEW D, NEW b, NEW N \in Nat, NEW next, Solves(F, D, b, N, next)
  PROVE  F[N] \in D /\ \A n \in 1..N : F[n - 1] \in D
BY DEF Solves

----------------------------------------------------------------------------
\* Only: the elements of a sequence that are in a set.

KeptAt(F, s, T, n) == IF n = 0 THEN <<>> ELSE IF s[n] \in T THEN Append(F[n - 1], s[n]) ELSE F[n - 1]
IsKept(F, s, T, m) == F = [n \in 0..m |-> KeptAt(F, s, T, n)]

LEMMA OnlyIsKept ==
  ASSUME NEW S, NEW s \in Seq(S), NEW T
  PROVE  \E F : IsKept(F, s, T, Len(s)) /\ Only(s, T) = F[Len(s)]
<1> DEFINE F == CHOOSE F : IsKept(F, s, T, Len(s))
           N == Len(s)
           next == [n \in 1..N |-> [a \in Seq(S) |-> IF s[n] \in T THEN Append(a, s[n]) ELSE a]]
<1>1. \E H : IsKept(H, s, T, N)
  <2>1. N \in Nat /\ <<>> \in Seq(S) /\ next \in [1..N -> [Seq(S) -> Seq(S)]]
    OBVIOUS
  <2>2. PICK H : Solves(H, Seq(S), <<>>, N, next)
    <3> HIDE DEF N, next
    <3> QED
      BY <2>1, Recursion, Zenon
  <2>3. ASSUME NEW n \in 0..N PROVE H[n] = KeptAt(H, s, T, n)
    <3>1. CASE n = 0
      BY <2>2, <3>1 DEF KeptAt, Solves
    <3>2. CASE n # 0
      <4>1. n \in 1..N /\ n - 1 \in 0..N
        BY <2>1, <3>2
      <4>2. H[n] = IF s[n] \in T THEN Append(H[n - 1], s[n]) ELSE H[n - 1]
        BY <2>2, <4>1 DEF Solves
      <4> QED
        BY <3>2, <4>2 DEF KeptAt
    <3> QED
      BY <3>1, <3>2
  <2>4. H = [n \in 0..N |-> KeptAt(H, s, T, n)]
    BY <2>2, <2>3 DEF Solves
  <2> HIDE DEF N
  <2> QED
    BY <2>4 DEF IsKept
<1>2. IsKept(F, s, T, N)
  BY <1>1, Zenon
<1>3. Only(s, T) = F[N]
  BY Zenon DEF Only, IsKept, KeptAt
<1> HIDE DEF F
<1> QED
  BY <1>2, <1>3

LEMMA KeptValues ==
  ASSUME NEW s, NEW T, NEW N \in Nat, NEW F, IsKept(F, s, T, N)
  PROVE  /\ F[0] = <<>>
         /\ \A n \in 0..(N - 1) : F[n + 1] = IF s[n + 1] \in T THEN Append(F[n], s[n + 1]) ELSE F[n]
<1>1. \A n \in 0..N : F[n] = KeptAt(F, s, T, n)
  BY DEF IsKept
<1> QED
  BY <1>1 DEF KeptAt

\* Only of the beginnings of a sequence, one element after the other.
LEMMA OnlyPrefixes ==
  ASSUME NEW S, NEW s \in Seq(S), NEW T
  PROVE  \E F : /\ F[0] = <<>>
                /\ \A n \in 0..(Len(s) - 1) : F[n + 1] = IF s[n + 1] \in T THEN Append(F[n], s[n + 1]) ELSE F[n]
                /\ Only(s, T) = F[Len(s)]
<1>1. Len(s) \in Nat
  OBVIOUS
<1>2. PICK F : IsKept(F, s, T, Len(s)) /\ Only(s, T) = F[Len(s)]
  BY OnlyIsKept
<1>3. /\ F[0] = <<>>
      /\ \A n \in 0..(Len(s) - 1) : F[n + 1] = IF s[n + 1] \in T THEN Append(F[n], s[n + 1]) ELSE F[n]
  BY <1>1, <1>2, KeptValues
<1> QED
  BY <1>2, <1>3

LEMMA OnlyEmpty == ASSUME NEW T PROVE Only(<<>>, T) = <<>>
<1>1. <<>> \in Seq({}) /\ Len(<<>>) = 0
  OBVIOUS
<1> QED
  BY <1>1, OnlyPrefixes

LEMMA OnlyAppend ==
  ASSUME NEW S, NEW s \in Seq(S), NEW x \in S, NEW T
  PROVE  Only(Append(s, x), T) = IF x \in T THEN Append(Only(s, T), x) ELSE Only(s, T)
<1> DEFINE N == Len(s)
           a == Append(s, x)
<1>1. N \in Nat /\ a \in Seq(S) /\ Len(a) = N + 1 /\ a[N + 1] = x /\ \A n \in 0..(N - 1) : a[n + 1] = s[n + 1]
  OBVIOUS
<1> HIDE DEF N, a
<1>2. PICK F : /\ F[0] = <<>>
               /\ \A n \in 0..(N - 1) : F[n + 1] = IF s[n + 1] \in T THEN Append(F[n], s[n + 1]) ELSE F[n]
               /\ Only(s, T) = F[N]
  BY OnlyPrefixes DEF N
<1>3. PICK H : /\ H[0] = <<>>
               /\ \A n \in 0..N : H[n + 1] = IF a[n + 1] \in T THEN Append(H[n], a[n + 1]) ELSE H[n]
               /\ Only(a, T) = H[N + 1]
  <2>1. \E H : /\ H[0] = <<>>
               /\ \A n \in 0..(Len(a) - 1) : H[n + 1] = IF a[n + 1] \in T THEN Append(H[n], a[n + 1]) ELSE H[n]
               /\ Only(a, T) = H[Len(a)]
    BY <1>1, OnlyPrefixes
  <2> QED
    BY <1>1, <2>1
<1> DEFINE G == {n \in 0..N : F[n] = H[n]}
<1>4. 0 \in G
  BY <1>1, <1>2, <1>3
<1>5. \A n \in 0..(N - 1) : n \in G => n + 1 \in G
  BY <1>1, <1>2, <1>3
<1>6. N \in G
  <2>1. N \in 0..N
    BY <1>1
  <2> HIDE DEF G
  <2> QED
    BY <1>1, <1>4, <1>5, <2>1, Climb
<1>7. F[N] = H[N] /\ N \in 0..N
  BY <1>1, <1>6
<1>8. H[N + 1] = IF x \in T THEN Append(H[N], x) ELSE H[N]
  BY <1>1, <1>3, <1>7
<1> QED
  BY <1>2, <1>3, <1>7, <1>8 DEF a

----------------------------------------------------------------------------
\* FlattenSeq.

FlatAt(F, ss, i) == IF i = 1 THEN ss[i] ELSE F[i - 1] \o ss[i]
IsFlat(F, ss) == F = [i \in 1..Len(ss) |-> FlatAt(F, ss, i)]

LEMMA FlattenNothing == FlattenSeq(<<>>) = <<>>
BY DEF FlattenSeq

LEMMA FlattenPrefixes ==
  ASSUME NEW S, NEW ss \in Seq(Seq(S))
  PROVE  \E F : /\ F[0] = <<>>
                /\ \A n \in 1..Len(ss) : F[n - 1] \in Seq(S) /\ F[n] = F[n - 1] \o ss[n]
                /\ FlattenSeq(ss) = F[Len(ss)] /\ F[Len(ss)] \in Seq(S)
<1> DEFINE N == Len(ss)
           next == [n \in 1..N |-> [a \in Seq(S) |-> a \o ss[n]]]
<1>1. /\ N \in Nat /\ N = Len(ss) /\ ss \in [1..N -> Seq(S)] /\ (N = 0 => ss = <<>>)
      /\ <<>> \in Seq(S) /\ \A x \in Seq(S) : <<>> \o x = x
  OBVIOUS
<1>2. next \in [1..N -> [Seq(S) -> Seq(S)]]
  OBVIOUS
<1> HIDE DEF N
<1>3. PICK H : Solves(H, Seq(S), <<>>, N, next)
  <2> HIDE DEF next
  <2> QED
    BY <1>1, <1>2, Recursion, Zenon
<1>4. /\ H[0] = <<>> /\ H[N] \in Seq(S)
      /\ \A n \in 1..N : H[n - 1] \in Seq(S) /\ H[n] = H[n - 1] \o ss[n]
  <2>1. H \in [0..N -> Seq(S)] /\ H[0] = <<>> /\ \A n \in 1..N : H[n] = next[n][H[n - 1]]
    BY <1>3 DEF Solves
  <2>2. H[N] \in Seq(S) /\ \A n \in 1..N : H[n - 1] \in Seq(S)
    <3> HIDE DEF next
    <3> QED
      BY <1>1, <1>3, SolvesType
  <2>3. \A n \in 1..N, a \in Seq(S) : next[n][a] = a \o ss[n]
    OBVIOUS
  <2> HIDE DEF next
  <2> QED
    BY <2>1, <2>2, <2>3
<1> HIDE DEF next
<1>5. N # 0 => H[1] = ss[1]
  <2> SUFFICES ASSUME N # 0 PROVE H[1] = ss[1]
    OBVIOUS
  <2>1. 1 \in 1..N /\ ss[1] \in Seq(S)
    BY <1>1
  <2>2. 1 - 1 = 0
    OBVIOUS
  <2>3. H[1] = H[0] \o ss[1] /\ H[0] = <<>>
    BY <1>4, <2>1, <2>2, Zenon
  <2> QED
    BY <1>1, <2>1, <2>3, Zenon
<1>6. FlattenSeq(ss) = H[N]
  <2>1. CASE N = 0
    BY <1>1, <1>4, <2>1, FlattenNothing
  <2>2. CASE N # 0
    <3> DEFINE F == CHOOSE F : IsFlat(F, ss)
               K == [i \in 1..N |-> H[i]]
    <3>1. ASSUME NEW i \in 1..N PROVE K[i] = FlatAt(K, ss, i)
      <4>1. CASE i = 1
        BY <1>5, <2>2, <4>1 DEF FlatAt
      <4>2. CASE i # 1
        <5>1. i - 1 \in 1..N
          BY <1>1, <4>2
        <5> QED
          BY <1>4, <4>2, <5>1 DEF FlatAt
      <4> QED
        BY <4>1, <4>2
    <3>2. K = [i \in 1..N |-> FlatAt(K, ss, i)]
      BY <3>1
    <3> HIDE DEF K
    <3>3. IsFlat(K, ss)
      BY <1>1, <3>2 DEF IsFlat
    <3>4. IsFlat(F, ss)
      BY <3>3, Zenon
    <3>5. FlattenSeq(ss) = F[N]
      BY <1>1, <2>2, Zenon DEF FlattenSeq, IsFlat, FlatAt
    <3> HIDE DEF F
    <3>6. \A n \in 1..N : F[n] = FlatAt(F, ss, n)
      BY <1>1, <3>4 DEF IsFlat
    <3> DEFINE G == {n \in 0..N : n = 0 \/ F[n] = H[n]}
    <3>7. 0 \in G
      BY <1>1
    <3>8. ASSUME NEW n \in 0..(N - 1), n \in G PROVE n + 1 \in G
      <4>1. n + 1 \in 1..N /\ n + 1 \in 0..N /\ (n + 1) - 1 = n
        BY <1>1
      <4>2. H[n + 1] = H[n] \o ss[n + 1]
        BY <1>4, <4>1
      <4>3. F[n + 1] = FlatAt(F, ss, n + 1)
        BY <3>6, <4>1
      <4>4. CASE n = 0
        BY <1>5, <2>2, <4>1, <4>3, <4>4 DEF FlatAt
      <4>5. CASE n # 0
        <5>1. F[n] = H[n]
          BY <3>8, <4>5
        <5>2. n + 1 # 1
          BY <4>5
        <5>3. F[n + 1] = F[n] \o ss[n + 1]
          BY <4>1, <4>3, <5>2, Zenon DEF FlatAt
        <5> QED
          BY <4>1, <4>2, <5>1, <5>3
      <4> QED
        BY <4>4, <4>5
    <3>9. N \in G
      <4>1. N \in 0..N
        BY <1>1
      <4> HIDE DEF G
      <4> QED
        BY <1>1, <3>7, <3>8, <4>1, Climb
    <3> QED
      BY <2>2, <3>5, <3>9
  <2> QED
    BY <2>1, <2>2
<1> QED
  BY <1>1, <1>4, <1>6

LEMMA FlattenAppend ==
  ASSUME NEW S, NEW ss \in Seq(Seq(S)), NEW x \in Seq(S)
  PROVE  FlattenSeq(ss) \in Seq(S) /\ FlattenSeq(Append(ss, x)) = FlattenSeq(ss) \o x
<1> DEFINE N == Len(ss)
           a == Append(ss, x)
<1>1. /\ N \in Nat /\ a \in Seq(Seq(S)) /\ Len(a) = N + 1 /\ a[N + 1] = x
      /\ \A n \in 1..N : a[n] = ss[n]
  OBVIOUS
<1> HIDE DEF N, a
<1>2. PICK F : /\ F[0] = <<>>
               /\ \A n \in 1..N : F[n - 1] \in Seq(S) /\ F[n] = F[n - 1] \o ss[n]
               /\ FlattenSeq(ss) = F[N] /\ F[N] \in Seq(S)
  BY FlattenPrefixes DEF N
<1>3. PICK H : /\ H[0] = <<>>
               /\ \A n \in 1..(N + 1) : H[n - 1] \in Seq(S) /\ H[n] = H[n - 1] \o a[n]
               /\ FlattenSeq(a) = H[N + 1]
  <2>1. \E H : /\ H[0] = <<>>
               /\ \A n \in 1..Len(a) : H[n - 1] \in Seq(S) /\ H[n] = H[n - 1] \o a[n]
               /\ FlattenSeq(a) = H[Len(a)] /\ H[Len(a)] \in Seq(S)
    BY <1>1, FlattenPrefixes
  <2> QED
    BY <1>1, <2>1
<1> DEFINE G == {n \in 0..N : F[n] = H[n]}
<1>4. 0 \in G
  BY <1>1, <1>2, <1>3
<1>5. ASSUME NEW n \in 0..(N - 1), n \in G PROVE n + 1 \in G
  <2>1. n + 1 \in 1..N /\ n + 1 \in 1..(N + 1) /\ n + 1 \in 0..N /\ (n + 1) - 1 = n
    BY <1>1
  <2>2. F[n + 1] = F[n] \o ss[n + 1] /\ H[n + 1] = H[n] \o a[n + 1] /\ F[n] = H[n] /\ a[n + 1] = ss[n + 1]
    BY <1>1, <1>2, <1>3, <1>5, <2>1
  <2>3. F[n + 1] = H[n + 1]
    BY <2>2, Zenon
  <2> QED
    BY <2>1, <2>3
<1>6. N \in G
  <2>1. N \in 0..N
    BY <1>1
  <2> HIDE DEF G
  <2> QED
    BY <1>1, <1>4, <1>5, <2>1, Climb
<1>7. F[N] = H[N]
  BY <1>6
<1>8. H[N + 1] = H[N] \o x
  <2>1. N + 1 \in 1..(N + 1) /\ (N + 1) - 1 = N
    BY <1>1
  <2> QED
    BY <1>1, <1>3, <2>1
<1> QED
  BY <1>2, <1>3, <1>7, <1>8 DEF a

----------------------------------------------------------------------------
\* From here on sequences are taken abstractly: the provers know more about Seq and
\* \o than helps them to apply a lemma.

SeqOver(S)   == Seq(S)
Join(s, t) == s \o t

LEMMA EmptyType == ASSUME NEW S PROVE <<>> \in SeqOver(S)
BY DEF SeqOver

LEMMA Items ==
  ASSUME NEW S, NEW s \in SeqOver(S)
  PROVE  Len(s) \in Nat /\ DOMAIN s = 1..Len(s) /\ \A i \in DOMAIN s : s[i] \in S
BY DEF SeqOver

LEMMA LastType ==
  ASSUME NEW S, NEW s \in SeqOver(S), s # <<>>
  PROVE  s[Len(s)] \in S
BY DEF SeqOver

LEMMA Listed ==
  ASSUME NEW S, NEW n \in Nat, NEW f \in [1..n -> S]
  PROVE  f \in SeqOver(S)
BY DEF SeqOver

LEMMA AppendType ==
  ASSUME NEW S, NEW s \in SeqOver(S), NEW x \in S
  PROVE  Append(s, x) \in SeqOver(S)
BY DEF SeqOver

LEMMA OneType ==
  ASSUME NEW S, NEW x \in S
  PROVE  <<x>> \in SeqOver(S)
BY DEF SeqOver

LEMMA AppendOne == ASSUME NEW x PROVE Append(<<>>, x) = <<x>>
OBVIOUS

LEMMA JoinType ==
  ASSUME NEW S, NEW s \in SeqOver(S), NEW t \in SeqOver(S)
  PROVE  Join(s, t) \in SeqOver(S)
BY DEF SeqOver, Join

LEMMA JoinNothing ==
  ASSUME NEW S, NEW s \in SeqOver(S)
  PROVE  Join(s, <<>>) = s /\ Join(<<>>, s) = s
BY DEF SeqOver, Join

LEMMA JoinAssociative ==
  ASSUME NEW S, NEW s \in SeqOver(S), NEW t \in SeqOver(S), NEW u \in SeqOver(S)
  PROVE  Join(Join(s, t), u) = Join(s, Join(t, u))
BY DEF SeqOver, Join

LEMMA JoinAppend ==
  ASSUME NEW S, NEW s \in SeqOver(S), NEW t \in SeqOver(S), NEW x \in S
  PROVE  Join(s, Append(t, x)) = Append(Join(s, t), x)
BY DEF SeqOver, Join

LEMMA AppendIsJoin ==
  ASSUME NEW S, NEW s \in SeqOver(S), NEW x \in S
  PROVE  Append(s, x) = Join(s, <<x>>)
BY DEF SeqOver, Join

LEMMA HeadTail ==
  ASSUME NEW S, NEW s \in SeqOver(S), s # <<>>
  PROVE  Head(s) \in S /\ Tail(s) \in SeqOver(S) /\ s = Join(<<Head(s)>>, Tail(s))
BY DEF SeqOver, Join

LEMMA Beginnings ==
  ASSUME NEW S, NEW s \in SeqOver(S)
  PROVE  /\ SubSeq(s, 1, 0) = <<>> /\ SubSeq(s, 1, Len(s)) = s
         /\ \A n \in 0..Len(s) : SubSeq(s, 1, n) \in SeqOver(S)
         /\ \A n \in 0..(Len(s) - 1) : s[n + 1] \in S /\ SubSeq(s, 1, n + 1) = Append(SubSeq(s, 1, n), s[n + 1])
BY Prefix DEF SeqOver

LEMMA Growth ==
  ASSUME NEW S, NEW G, <<>> \in G, \A s \in SeqOver(S), x \in S : s \in G => Append(s, x) \in G
  PROVE  \A s \in SeqOver(S) : s \in G
BY SequenceInduction DEF SeqOver

WithLast(s, y) == [s EXCEPT ![Len(s)] = y]

LEMMA LastReplaced ==
  ASSUME NEW S, NEW s \in SeqOver(S), s # <<>>, NEW y \in S
  PROVE  \E r \in SeqOver(S) : s[Len(s)] \in S /\ s = Append(r, s[Len(s)]) /\ WithLast(s, y) = Append(r, y)
<1> DEFINE n == Len(s) - 1
           r == SubSeq(s, 1, n)
           t == [s EXCEPT ![Len(s)] = y]
           u == Append(r, y)
<1>1. n \in 0..(Len(s) - 1) /\ n \in 0..Len(s) /\ n + 1 = Len(s) /\ Len(s) \in Nat /\ s \in Seq(S)
  BY DEF SeqOver
<1>2. r \in Seq(S) /\ s[n + 1] \in S /\ SubSeq(s, 1, n + 1) = Append(r, s[n + 1]) /\ SubSeq(s, 1, Len(s)) = s
  <2> HIDE DEF n
  <2> QED
    BY <1>1, Prefix
<1>3. s[Len(s)] \in S /\ s = Append(r, s[Len(s)])
  <2> HIDE DEF n, r
  <2> QED
    BY <1>1, <1>2
<1>4. Len(r) = n /\ \A i \in 1..n : r[i] = s[i]
  <2> HIDE DEF n
  <2> QED
    BY <1>1
<1>5. t \in Seq(S) /\ Len(t) = Len(s) /\ t[Len(s)] = y /\ \A i \in 1..n : t[i] = s[i]
  <2>1. s \in [1..Len(s) -> S] /\ Len(s) \in 1..Len(s) /\ \A i \in 1..n : i \in 1..Len(s) /\ i # Len(s)
    <3>1. s \in [1..Len(s) -> S]
      BY <1>1
    <3> HIDE DEF n
    <3> QED
      BY <1>1, <3>1
  <2>2. t \in [1..Len(s) -> S] /\ t[Len(s)] = y /\ \A i \in 1..n : t[i] = s[i]
    <3> DEFINE m == Len(s)
    <3>1. s \in [1..m -> S] /\ m \in 1..m /\ \A i \in 1..n : i \in 1..m /\ i # m
      BY <2>1
    <3> HIDE DEF n, m
    <3>2. [s EXCEPT ![m] = y] \in [1..m -> S] /\ [s EXCEPT ![m] = y][m] = y
          /\ \A i \in 1..n : [s EXCEPT ![m] = y][i] = s[i]
      BY <3>1
    <3> QED
      BY <3>2 DEF m
  <2> HIDE DEF t, n
  <2> QED
    BY <1>1, <2>2
<1>6. u \in Seq(S) /\ Len(u) = Len(s) /\ u[Len(s)] = y /\ \A i \in 1..n : u[i] = s[i]
  <2> HIDE DEF r, n
  <2> QED
    BY <1>1, <1>2, <1>4
<1> HIDE DEF t, u, r, n
<1>7. t = u
  <2>1. \A i \in 1..Len(s) : i \in 1..n \/ i = Len(s)
    BY <1>1
  <2>2. \A i \in 1..Len(s) : t[i] = u[i]
    BY <1>5, <1>6, <2>1
  <2> QED
    BY <1>5, <1>6, <2>2
<1> QED
  BY <1>2, <1>3, <1>7 DEF t, u, SeqOver, WithLast

LEMMA ToSetNothing == ToSet(<<>>) = {}
BY DEF ToSet

LEMMA ToSetAppend ==
  ASSUME NEW S, NEW s \in SeqOver(S), NEW x \in S
  PROVE  ToSet(Append(s, x)) = ToSet(s) \cup {x}
<1> DEFINE a == Append(s, x)
<1>1. /\ DOMAIN a = 1..(Len(s) + 1) /\ DOMAIN s = 1..Len(s) /\ Len(s) \in Nat
      /\ a[Len(s) + 1] = x /\ \A i \in 1..Len(s) : a[i] = s[i]
  BY DEF SeqOver
<1> HIDE DEF a
<1>2. \A y : (\E i \in DOMAIN a : a[i] = y) <=> (\E i \in DOMAIN s : s[i] = y) \/ y = x
  BY <1>1
<1>3. ToSet(a) = ToSet(s) \cup {x}
  BY <1>2 DEF ToSet
<1> QED
  BY <1>3 DEF a

LEMMA ToSetType ==
  ASSUME NEW S, NEW s \in SeqOver(S)
  PROVE  ToSet(s) \subseteq S
BY DEF ToSet, SeqOver

LEMMA ToSetJoin ==
  ASSUME NEW S, NEW s \in SeqOver(S), NEW t \in SeqOver(S)
  PROVE  ToSet(Join(s, t)) = ToSet(s) \cup ToSet(t)
<1> DEFINE G == {r \in SeqOver(S) : ToSet(Join(s, r)) = ToSet(s) \cup ToSet(r)}
<1>1. <<>> \in G
  BY EmptyType, JoinNothing, ToSetNothing
<1>2. ASSUME NEW r \in SeqOver(S), NEW x \in S, r \in G PROVE Append(r, x) \in G
  <2>1. Append(r, x) \in SeqOver(S) /\ ToSet(Append(r, x)) = ToSet(r) \cup {x}
    BY AppendType, ToSetAppend
  <2>2. Join(s, Append(r, x)) = Append(Join(s, r), x) /\ Join(s, r) \in SeqOver(S)
    BY JoinAppend, JoinType
  <2>3. ToSet(Append(Join(s, r), x)) = ToSet(Join(s, r)) \cup {x}
    BY <2>2, ToSetAppend
  <2>4. ToSet(Join(s, r)) = ToSet(s) \cup ToSet(r)
    BY <1>2
  <2> QED
    BY <2>1, <2>2, <2>3, <2>4
<1>3. t \in G
  <2> HIDE DEF G
  <2> QED
    BY <1>1, <1>2, Growth
<1> QED
  BY <1>3

----------------------------------------------------------------------------
\* What the elements of a sequence give, one after the other.

Gather(f, s) == FlattenSeq([i \in DOMAIN s |-> f[s[i]]])

LEMMA GatherNothing == ASSUME NEW f PROVE Gather(f, <<>>) = <<>>
<1>1. [i \in DOMAIN <<>> |-> f[<<>>[i]]] = <<>>
  OBVIOUS
<1> QED
  BY <1>1, FlattenNothing DEF Gather

LEMMA GatherAppend ==
  ASSUME NEW E, NEW S, NEW f \in [E -> SeqOver(S)], NEW s \in SeqOver(E), NEW x \in E
  PROVE  Gather(f, Append(s, x)) = Join(Gather(f, s), f[x])
<1> DEFINE m == [i \in DOMAIN s |-> f[s[i]]]
           a == Append(s, x)
<1>1. f[x] \in Seq(S) /\ \A y \in E : f[y] \in Seq(S)
  BY DEF SeqOver
<1>2. DOMAIN s = 1..Len(s) /\ Len(s) \in Nat /\ \A i \in DOMAIN s : s[i] \in E
  BY DEF SeqOver
<1>3. m \in Seq(Seq(S)) /\ Len(m) = Len(s)
  BY <1>1, <1>2
<1>4. /\ DOMAIN a = 1..(Len(s) + 1) /\ a[Len(s) + 1] = x
      /\ \A i \in DOMAIN s : a[i] = s[i]
  BY DEF SeqOver
<1>5. [i \in DOMAIN a |-> f[a[i]]] = Append(m, f[x])
  <2> DEFINE b == [i \in DOMAIN a |-> f[a[i]]]
             c == Append(m, f[x])
  <2>1. /\ DOMAIN c = 1..(Len(s) + 1) /\ c[Len(s) + 1] = f[x]
        /\ \A i \in DOMAIN s : c[i] = f[s[i]]
    BY <1>1, <1>2, <1>3
  <2>2. \A i \in DOMAIN c : c[i] = b[i]
    <3> HIDE DEF a, c
    <3> QED
      BY <1>2, <1>4, <2>1
  <2>3. c = [i \in DOMAIN c |-> c[i]]
    BY <1>1, <1>3
  <2> HIDE DEF a, c
  <2> QED
    BY <1>4, <2>1, <2>2, <2>3
<1> HIDE DEF m, a
<1> QED
  BY <1>1, <1>3, <1>5, FlattenAppend DEF Gather, Join, m, a

LEMMA GatherType ==
  ASSUME NEW E, NEW S, NEW f \in [E -> SeqOver(S)], NEW s \in SeqOver(E)
  PROVE  Gather(f, s) \in SeqOver(S)
<1> DEFINE G == {r \in SeqOver(E) : Gather(f, r) \in SeqOver(S)}
<1>1. <<>> \in G
  BY EmptyType, GatherNothing
<1>2. ASSUME NEW r \in SeqOver(E), NEW x \in E, r \in G PROVE Append(r, x) \in G
  <2>1. Append(r, x) \in SeqOver(E) /\ f[x] \in SeqOver(S)
    BY AppendType
  <2>2. Gather(f, Append(r, x)) = Join(Gather(f, r), f[x])
    BY GatherAppend
  <2>3. Join(Gather(f, r), f[x]) \in SeqOver(S)
    BY <1>2, <2>1, JoinType
  <2> QED
    BY <2>1, <2>2, <2>3
<1>3. s \in G
  <2> HIDE DEF G
  <2> QED
    BY <1>1, <1>2, Growth
<1> QED
  BY <1>3

LEMMA GatherJoin ==
  ASSUME NEW E, NEW S, NEW f \in [E -> SeqOver(S)], NEW s \in SeqOver(E), NEW t \in SeqOver(E)
  PROVE  Gather(f, Join(s, t)) = Join(Gather(f, s), Gather(f, t))
<1> DEFINE G == {r \in SeqOver(E) : Gather(f, Join(s, r)) = Join(Gather(f, s), Gather(f, r))}
<1>1. <<>> \in G
  <2>1. Gather(f, s) \in SeqOver(S)
    BY GatherType
  <2>2. Join(s, <<>>) = s /\ Join(Gather(f, s), <<>>) = Gather(f, s)
    BY <2>1, JoinNothing
  <2> QED
    BY <2>2, EmptyType, GatherNothing
<1>2. ASSUME NEW r \in SeqOver(E), NEW x \in E, r \in G PROVE Append(r, x) \in G
  <2>1. /\ Append(r, x) \in SeqOver(E) /\ f[x] \in SeqOver(S) /\ Join(s, r) \in SeqOver(E)
        /\ Join(s, Append(r, x)) = Append(Join(s, r), x)
    BY AppendType, JoinType, JoinAppend
  <2>2. Gather(f, s) \in SeqOver(S) /\ Gather(f, r) \in SeqOver(S)
    BY GatherType
  <2>3. Gather(f, Append(r, x)) = Join(Gather(f, r), f[x])
    BY GatherAppend
  <2>4. Gather(f, Append(Join(s, r), x)) = Join(Gather(f, Join(s, r)), f[x])
    BY <2>1, GatherAppend
  <2>5. Join(Join(Gather(f, s), Gather(f, r)), f[x]) = Join(Gather(f, s), Join(Gather(f, r), f[x]))
    BY <2>1, <2>2, JoinAssociative
  <2>6. Gather(f, Join(s, r)) = Join(Gather(f, s), Gather(f, r))
    BY <1>2
  <2> QED
    BY <2>1, <2>3, <2>4, <2>5, <2>6
<1>3. t \in G
  <2> HIDE DEF G
  <2> QED
    BY <1>1, <1>2, Growth
<1> QED
  BY <1>3

LEMMA GatherOne ==
  ASSUME NEW E, NEW S, NEW f \in [E -> SeqOver(S)], NEW x \in E
  PROVE  Gather(f, <<x>>) = f[x]
<1>1. <<>> \in SeqOver(E) /\ Append(<<>>, x) = <<x>> /\ f[x] \in SeqOver(S)
  BY EmptyType, AppendOne
<1>2. Gather(f, Append(<<>>, x)) = Join(Gather(f, <<>>), f[x])
  BY <1>1, GatherAppend
<1>3. Join(<<>>, f[x]) = f[x]
  BY <1>1, JoinNothing
<1> QED
  BY <1>1, <1>2, <1>3, GatherNothing

LEMMA GatherCons ==
  ASSUME NEW E, NEW S, NEW f \in [E -> SeqOver(S)], NEW s \in SeqOver(E), s # <<>>
  PROVE  Gather(f, s) = Join(f[Head(s)], Gather(f, Tail(s)))
<1>1. /\ Head(s) \in E /\ Tail(s) \in SeqOver(E)
      /\ s = Join(<<Head(s)>>, Tail(s)) /\ <<Head(s)>> \in SeqOver(E)
  BY HeadTail, OneType
<1>2. Gather(f, Join(<<Head(s)>>, Tail(s))) = Join(Gather(f, <<Head(s)>>), Gather(f, Tail(s)))
  BY <1>1, GatherJoin
<1>3. Gather(f, <<Head(s)>>) = f[Head(s)]
  BY <1>1, GatherOne
<1> QED
  BY <1>1, <1>2, <1>3

\* Only what is given for the elements matters.
LEMMA GatherSame ==
  ASSUME NEW s, NEW f, NEW g, \A x \in ToSet(s) : f[x] = g[x]
  PROVE  Gather(f, s) = Gather(g, s)
<1>1. [i \in DOMAIN s |-> f[s[i]]] = [i \in DOMAIN s |-> g[s[i]]]
  BY DEF ToSet
<1> QED
  BY <1>1, Zenon DEF Gather

LEMMA GatherCompose ==
  ASSUME NEW E, NEW D, NEW S, NEW f \in [E -> SeqOver(D)], NEW g \in [D -> SeqOver(S)],
         NEW h, \A x \in E : h[x] = Gather(g, f[x]), h \in [E -> SeqOver(S)], NEW s \in SeqOver(E)
  PROVE  Gather(g, Gather(f, s)) = Gather(h, s)
<1> DEFINE G == {r \in SeqOver(E) : Gather(g, Gather(f, r)) = Gather(h, r)}
<1>1. <<>> \in G
  BY EmptyType, GatherNothing
<1>2. ASSUME NEW r \in SeqOver(E), NEW x \in E, r \in G PROVE Append(r, x) \in G
  <2>1. Append(r, x) \in SeqOver(E) /\ f[x] \in SeqOver(D) /\ Gather(f, r) \in SeqOver(D)
    BY AppendType, GatherType
  <2>2. Gather(f, Append(r, x)) = Join(Gather(f, r), f[x])
    BY GatherAppend
  <2>3. Gather(h, Append(r, x)) = Join(Gather(h, r), h[x])
    BY GatherAppend
  <2>4. Gather(g, Join(Gather(f, r), f[x])) = Join(Gather(g, Gather(f, r)), Gather(g, f[x]))
    BY <2>1, GatherJoin
  <2>5. Gather(g, Gather(f, r)) = Gather(h, r)
    BY <1>2
  <2> QED
    BY <2>1, <2>2, <2>3, <2>4, <2>5
<1>3. s \in G
  <2> HIDE DEF G
  <2> QED
    BY <1>1, <1>2, Growth
<1> QED
  BY <1>3

\* Replacing the last element by one that gives more at its end.
LEMMA GatherLast ==
  ASSUME NEW E, NEW S, NEW f \in [E -> SeqOver(S)], NEW s \in SeqOver(E), s # <<>>,
         NEW y \in E, NEW z \in SeqOver(S), f[y] = Join(f[s[Len(s)]], z)
  PROVE  Gather(f, WithLast(s, y)) = Join(Gather(f, s), z)
<1>1. PICK r \in SeqOver(E) : s[Len(s)] \in E /\ s = Append(r, s[Len(s)]) /\ WithLast(s, y) = Append(r, y)
  BY LastReplaced
<1> DEFINE x == s[Len(s)]
<1>2. x \in E /\ s = Append(r, x) /\ f[y] = Join(f[x], z)
  BY <1>1
<1> HIDE DEF x
<1>3. Gather(f, Append(r, x)) = Join(Gather(f, r), f[x])
  BY <1>2, GatherAppend
<1>4. Gather(f, Append(r, y)) = Join(Gather(f, r), f[y])
  BY GatherAppend
<1>5. Gather(f, r) \in SeqOver(S) /\ f[x] \in SeqOver(S)
  BY <1>2, GatherType
<1>6. Join(Join(Gather(f, r), f[x]), z) = Join(Gather(f, r), Join(f[x], z))
  BY <1>5, JoinAssociative
<1> QED
  BY <1>1, <1>2, <1>3, <1>4, <1>6, Zenon

LEMMA GatherRange ==
  ASSUME NEW E, NEW S, NEW f \in [E -> SeqOver(S)], NEW s \in SeqOver(E)
  PROVE  ToSet(Gather(f, s)) = UNION {ToSet(f[x]) : x \in ToSet(s)}
<1> DEFINE G == {r \in SeqOver(E) : ToSet(Gather(f, r)) = UNION {ToSet(f[x]) : x \in ToSet(r)}}
<1>1. <<>> \in G
  BY EmptyType, ToSetNothing, GatherNothing
<1>2. ASSUME NEW r \in SeqOver(E), NEW x \in E, r \in G PROVE Append(r, x) \in G
  <2>1. Append(r, x) \in SeqOver(E) /\ f[x] \in SeqOver(S) /\ Gather(f, r) \in SeqOver(S)
    BY AppendType, GatherType
  <2>2. Gather(f, Append(r, x)) = Join(Gather(f, r), f[x])
    BY GatherAppend
  <2>3. ToSet(Join(Gather(f, r), f[x])) = ToSet(Gather(f, r)) \cup ToSet(f[x])
    BY <2>1, ToSetJoin
  <2>4. ToSet(Append(r, x)) = ToSet(r) \cup {x}
    BY ToSetAppend
  <2>5. ToSet(Gather(f, r)) = UNION {ToSet(f[y]) : y \in ToSet(r)}
    BY <1>2
  <2>6. UNION {ToSet(f[y]) : y \in ToSet(r) \cup {x}} = (UNION {ToSet(f[y]) : y \in ToSet(r)}) \cup ToSet(f[x])
    OBVIOUS
  <2>7. ToSet(Gather(f, Append(r, x))) = UNION {ToSet(f[y]) : y \in ToSet(Append(r, x))}
    BY <2>2, <2>3, <2>4, <2>5, <2>6, Zenon
  <2> QED
    BY <2>1, <2>7
<1>3. s \in G
  <2> HIDE DEF G
  <2> QED
    BY <1>1, <1>2, Growth
<1> QED
  BY <1>3

----------------------------------------------------------------------------
\* Only, in terms of what each element gives.

Keep(S, T) == [x \in S |-> IF x \in T THEN <<x>> ELSE <<>>]

LEMMA KeepType == ASSUME NEW S, NEW T PROVE Keep(S, T) \in [S -> SeqOver(S)]
<1>1. \A x \in S : <<x>> \in SeqOver(S) /\ <<>> \in SeqOver(S)
  BY OneType, EmptyType
<1> QED
  BY <1>1 DEF Keep

LEMMA OnlyIsGather ==
  ASSUME NEW S, NEW T, NEW s \in SeqOver(S)
  PROVE  Only(s, T) = Gather(Keep(S, T), s)
<1> DEFINE G == {r \in SeqOver(S) : Only(r, T) = Gather(Keep(S, T), r)}
<1>1. <<>> \in G
  BY EmptyType, GatherNothing, OnlyEmpty
<1>2. ASSUME NEW r \in SeqOver(S), NEW x \in S, r \in G PROVE Append(r, x) \in G
  <2>1. Append(r, x) \in SeqOver(S)
    BY AppendType
  <2>2. Only(Append(r, x), T) = IF x \in T THEN Append(Only(r, T), x) ELSE Only(r, T)
    BY OnlyAppend DEF SeqOver
  <2>3. Keep(S, T) \in [S -> SeqOver(S)]
    BY KeepType
  <2>4. Gather(Keep(S, T), Append(r, x)) = Join(Gather(Keep(S, T), r), Keep(S, T)[x])
    BY <2>3, GatherAppend
  <2>5. Gather(Keep(S, T), r) \in SeqOver(S)
    BY <2>3, GatherType
  <2>6. Only(r, T) = Gather(Keep(S, T), r)
    BY <1>2
  <2>7. Keep(S, T)[x] = IF x \in T THEN <<x>> ELSE <<>>
    BY DEF Keep
  <2>8. CASE x \in T
    <3>1. Append(Only(r, T), x) = Join(Only(r, T), <<x>>)
      BY <2>5, <2>6, AppendIsJoin
    <3> QED
      BY <2>1, <2>2, <2>4, <2>6, <2>7, <2>8, <3>1
  <2>9. CASE x \notin T
    <3>1. Join(Only(r, T), <<>>) = Only(r, T)
      BY <2>5, <2>6, JoinNothing
    <3> QED
      BY <2>1, <2>2, <2>4, <2>6, <2>7, <2>9, <3>1
  <2> QED
    BY <2>8, <2>9
<1>3. s \in G
  <2> HIDE DEF G
  <2> QED
    BY <1>1, <1>2, Growth
<1> QED
  BY <1>3

LEMMA OnlyGrows ==
  ASSUME NEW S, NEW T, NEW s \in SeqOver(S), NEW x \in S
  PROVE  Only(Append(s, x), T) = IF x \in T THEN Append(Only(s, T), x) ELSE Only(s, T)
BY OnlyAppend DEF SeqOver

LEMMA OnlyType ==
  ASSUME NEW S, NEW T, NEW s \in SeqOver(S)
  PROVE  Only(s, T) \in SeqOver(S) /\ Only(s, T) \in SeqOver(S \cap T)
<1> DEFINE G == {r \in SeqOver(S) : Only(r, T) \in SeqOver(S) /\ Only(r, T) \in SeqOver(S \cap T)}
<1>1. <<>> \in G
  BY EmptyType, OnlyEmpty
<1>2. ASSUME NEW r \in SeqOver(S), NEW x \in S, r \in G PROVE Append(r, x) \in G
  <2>1. Append(r, x) \in SeqOver(S) /\ Append(Only(r, T), x) \in SeqOver(S)
    BY <1>2, AppendType
  <2>2. x \in T => Append(Only(r, T), x) \in SeqOver(S \cap T)
    BY <1>2, AppendType
  <2>3. Only(Append(r, x), T) = IF x \in T THEN Append(Only(r, T), x) ELSE Only(r, T)
    BY OnlyGrows
  <2> QED
    BY <1>2, <2>1, <2>2, <2>3
<1>3. s \in G
  <2> HIDE DEF G
  <2> QED
    BY <1>1, <1>2, Growth
<1> QED
  BY <1>3

\* What is kept of a sequence, wherever it stands.
LEMMA OnlyRange ==
  ASSUME NEW S, NEW T, NEW s \in SeqOver(S)
  PROVE  ToSet(Only(s, T)) = ToSet(s) \cap T
<1> DEFINE G == {r \in SeqOver(S) : ToSet(Only(r, T)) = ToSet(r) \cap T}
<1>1. <<>> \in G
  BY EmptyType, OnlyEmpty, ToSetNothing
<1>2. ASSUME NEW r \in SeqOver(S), NEW y \in S, r \in G PROVE Append(r, y) \in G
  <2>1. Only(r, T) \in SeqOver(S) /\ Append(r, y) \in SeqOver(S)
    BY OnlyType, AppendType
  <2>2. /\ ToSet(Append(r, y)) = ToSet(r) \cup {y}
        /\ ToSet(Append(Only(r, T), y)) = ToSet(Only(r, T)) \cup {y}
    BY <2>1, ToSetAppend
  <2>3. Only(Append(r, y), T) = IF y \in T THEN Append(Only(r, T), y) ELSE Only(r, T)
    BY OnlyGrows
  <2>4. ToSet(Only(r, T)) = ToSet(r) \cap T
    BY <1>2
  <2>5. ToSet(Only(Append(r, y), T)) = ToSet(Append(r, y)) \cap T
    BY <2>2, <2>3, <2>4
  <2> QED
    BY <2>1, <2>5
<1>3. s \in G
  <2> HIDE DEF G
  <2> QED
    BY <1>1, <1>2, Growth
<1> QED
  BY <1>3

LEMMA ToSetEmpty ==
  ASSUME NEW S, NEW s \in SeqOver(S), ToSet(s) = {}
  PROVE  s = <<>>
<1>1. DOMAIN s = {} /\ s \in Seq(S)
  BY DEF SeqOver, ToSet
<1> QED
  BY <1>1

LEMMA OnlyNone ==
  ASSUME NEW S, NEW T, NEW s \in SeqOver(S), ToSet(s) \cap T = {}
  PROVE  Only(s, T) = <<>>
BY OnlyType, OnlyRange, ToSetEmpty

\* Sets that agree on the elements keep the same.
LEMMA OnlySame ==
  ASSUME NEW S, NEW T, NEW U, NEW s \in SeqOver(S), ToSet(s) \cap T = ToSet(s) \cap U
  PROVE  Only(s, T) = Only(s, U)
<1>1. \A x \in ToSet(s) : x \in S /\ (x \in T <=> x \in U)
  BY ToSetType
<1>2. \A x \in ToSet(s) : Keep(S, T)[x] = Keep(S, U)[x]
  BY <1>1 DEF Keep
<1> QED
  BY <1>2, GatherSame, OnlyIsGather

LEMMA OnlyAll ==
  ASSUME NEW S, NEW T, NEW s \in SeqOver(S), ToSet(s) \subseteq T
  PROVE  Only(s, T) = s
<1> DEFINE G == {r \in SeqOver(S) : Only(r, S) = r}
<1>1. <<>> \in G
  BY EmptyType, OnlyEmpty
<1>2. ASSUME NEW r \in SeqOver(S), NEW x \in S, r \in G PROVE Append(r, x) \in G
  BY <1>2, AppendType, OnlyGrows
<1>3. s \in G
  <2> HIDE DEF G
  <2> QED
    BY <1>1, <1>2, Growth
<1>4. ToSet(s) \cap T = ToSet(s) \cap S
  BY ToSetType
<1>5. Only(s, T) = Only(s, S)
  BY <1>4, OnlySame
<1> QED
  BY <1>3, <1>5

LEMMA OnlyTwice ==
  ASSUME NEW S, NEW T, NEW U, NEW s \in SeqOver(S)
  PROVE  Only(Only(s, T), U) = Only(s, T \cap U)
<1> DEFINE G == {r \in SeqOver(S) : Only(Only(r, T), U) = Only(r, T \cap U)}
<1>1. <<>> \in G
  BY EmptyType, OnlyEmpty
<1>2. ASSUME NEW r \in SeqOver(S), NEW x \in S, r \in G PROVE Append(r, x) \in G
  <2>1. Only(r, T) \in SeqOver(S) /\ Append(r, x) \in SeqOver(S)
    BY OnlyType, AppendType
  <2>2. /\ Only(Append(r, x), T) = IF x \in T THEN Append(Only(r, T), x) ELSE Only(r, T)
        /\ Only(Append(r, x), T \cap U) = IF x \in T \cap U THEN Append(Only(r, T \cap U), x) ELSE Only(r, T \cap U)
    BY OnlyGrows
  <2>3. Only(Append(Only(r, T), x), U) = IF x \in U THEN Append(Only(Only(r, T), U), x) ELSE Only(Only(r, T), U)
    BY <2>1, OnlyGrows
  <2>4. Only(Only(r, T), U) = Only(r, T \cap U)
    BY <1>2
  <2>5. Only(Only(Append(r, x), T), U) = Only(Append(r, x), T \cap U)
    <3>1. CASE x \in T /\ x \in U
      BY <2>2, <2>3, <2>4, <3>1, Zenon
    <3>2. CASE x \in T /\ x \notin U
      BY <2>2, <2>3, <2>4, <3>2, Zenon
    <3>3. CASE x \notin T
      BY <2>2, <2>3, <2>4, <3>3, Zenon
    <3> QED
      BY <3>1, <3>2, <3>3
  <2> QED
    BY <2>1, <2>5
<1>3. s \in G
  <2> HIDE DEF G
  <2> QED
    BY <1>1, <1>2, Growth
<1> QED
  BY <1>3

\* Elements that give nothing may be left out.
LEMMA GatherOnly ==
  ASSUME NEW E, NEW S, NEW T, NEW f \in [E -> SeqOver(S)], NEW s \in SeqOver(E),
         \A x \in E : x \notin T => f[x] = <<>>
  PROVE  Gather(f, Only(s, T)) = Gather(f, s)
<1> DEFINE G == {r \in SeqOver(E) : Gather(f, Only(r, T)) = Gather(f, r)}
<1>1. <<>> \in G
  BY EmptyType, OnlyEmpty
<1>2. ASSUME NEW r \in SeqOver(E), NEW x \in E, r \in G PROVE Append(r, x) \in G
  <2>1. Append(r, x) \in SeqOver(E) /\ Only(r, T) \in SeqOver(E) /\ Gather(f, r) \in SeqOver(S)
    BY AppendType, OnlyType, GatherType
  <2>2. Gather(f, Append(r, x)) = Join(Gather(f, r), f[x])
    BY GatherAppend
  <2>3. Gather(f, Append(Only(r, T), x)) = Join(Gather(f, Only(r, T)), f[x])
    BY <2>1, GatherAppend
  <2>4. Gather(f, Only(r, T)) = Gather(f, r)
    BY <1>2
  <2>5. Join(Gather(f, r), <<>>) = Gather(f, r)
    BY <2>1, JoinNothing
  <2>6. CASE x \in T
    BY <2>1, <2>2, <2>3, <2>4, <2>6, OnlyGrows
  <2>7. CASE x \notin T
    BY <2>1, <2>2, <2>4, <2>5, <2>7, OnlyGrows
  <2> QED
    BY <2>6, <2>7
<1>3. s \in G
  <2> HIDE DEF G
  <2> QED
    BY <1>1, <1>2, Growth
<1> QED
  BY <1>3

\* Where nothing in B comes before anything in A, what is in A comes first.
LEMMA OnlySplit ==
  ASSUME NEW S, NEW A, NEW B, NEW s \in SeqOver(S),
         \A i, j \in DOMAIN s : s[i] \in A /\ s[j] \in B => i < j
  PROVE  Only(s, A \cup B) = Join(Only(s, A), Only(s, B))
<1> DEFINE Split(r) == \A i, j \in DOMAIN r : r[i] \in A /\ r[j] \in B => i < j
           G == {r \in SeqOver(S) : Split(r) => Only(r, A \cup B) = Join(Only(r, A), Only(r, B))}
<1>1. <<>> \in G
  <2>1. Only(<<>>, A \cup B) = <<>> /\ Only(<<>>, A) = <<>> /\ Only(<<>>, B) = <<>>
    BY OnlyEmpty
  <2>2. Join(<<>>, <<>>) = <<>> /\ <<>> \in SeqOver(S)
    BY EmptyType, JoinNothing
  <2> QED
    BY <2>1, <2>2
<1>2. ASSUME NEW r \in SeqOver(S), NEW x \in S, r \in G PROVE Append(r, x) \in G
  <2> DEFINE a == Append(r, x)
  <2> SUFFICES ASSUME Split(a) PROVE Only(a, A \cup B) = Join(Only(a, A), Only(a, B))
    BY AppendType
  <2>1. /\ DOMAIN a = 1..(Len(r) + 1) /\ Len(r) \in Nat /\ DOMAIN r = 1..Len(r)
        /\ a[Len(r) + 1] = x /\ \A i \in 1..Len(r) : a[i] = r[i]
    BY DEF SeqOver
  <2> HIDE DEF a
  <2>2. Split(r)
    BY <2>1
  <2>3. Only(r, A \cup B) = Join(Only(r, A), Only(r, B))
    BY <1>2, <2>2
  <2>4. /\ Only(a, A \cup B) = IF x \in A \cup B THEN Append(Only(r, A \cup B), x) ELSE Only(r, A \cup B)
        /\ Only(a, A) = IF x \in A THEN Append(Only(r, A), x) ELSE Only(r, A)
        /\ Only(a, B) = IF x \in B THEN Append(Only(r, B), x) ELSE Only(r, B)
    BY OnlyGrows DEF a
  <2>5. Only(r, A) \in SeqOver(S) /\ Only(r, B) \in SeqOver(S)
    BY OnlyType
  <2>6. CASE x \in A
    <3>1. x \notin B
      BY <2>1, <2>6
    <3>2. \A j \in DOMAIN r : r[j] \notin B
      <4>1. ASSUME NEW j \in DOMAIN r, r[j] \in B PROVE FALSE
        <5>1. Len(r) + 1 \in DOMAIN a /\ j \in DOMAIN a /\ a[j] \in B /\ a[Len(r) + 1] \in A /\ ~(Len(r) + 1 < j)
          BY <2>1, <2>6, <4>1
        <5> QED
          BY <5>1
      <4> QED
        BY <4>1
    <3>3. ToSet(r) \cap B = {}
      BY <3>2 DEF ToSet
    <3>4. Only(r, B) = <<>>
      BY <3>3, OnlyNone
    <3>5. Only(a, A \cup B) = Append(Only(r, A), x)
      BY <2>3, <2>4, <2>5, <2>6, <3>4, JoinNothing
    <3>6. Append(Only(r, A), x) \in SeqOver(S)
      BY <2>5, AppendType
    <3> QED
      BY <2>4, <2>6, <3>1, <3>4, <3>5, <3>6, JoinNothing
  <2>7. CASE x \notin A /\ x \in B
    <3>1. Join(Only(r, A), Append(Only(r, B), x)) = Append(Join(Only(r, A), Only(r, B)), x)
      BY <2>5, JoinAppend
    <3>2. Only(a, A \cup B) = Append(Join(Only(r, A), Only(r, B)), x)
      BY <2>3, <2>4, <2>7
    <3> QED
      BY <2>4, <2>7, <3>1, <3>2
  <2>8. CASE x \notin A /\ x \notin B
    BY <2>3, <2>4, <2>8
  <2> QED
    BY <2>6, <2>7, <2>8
<1>3. s \in G
  <2> HIDE DEF G, Split
  <2> QED
    BY <1>1, <1>2, Growth
<1> QED
  BY <1>3

----------------------------------------------------------------------------
\* The largest and the smallest of some numbers.

LEMMA MaxIs ==
  ASSUME NEW S, S \subseteq Int, S # {}, NEW b \in Int, \A x \in S : x <= b
  PROVE  Max(S) \in S /\ \A x \in S : x <= Max(S)
<1> DEFINE T == {b - x : x \in S}
<1>1. T \in SUBSET Nat /\ T # {}
  <2>1. \A x \in S : b - x \in Nat
    OBVIOUS
  <2>2. \A y \in T : y \in Nat
    BY <2>1
  <2>3. PICK x \in S : TRUE
    OBVIOUS
  <2>4. b - x \in T
    OBVIOUS
  <2> HIDE DEF T
  <2> QED
    BY <2>2, <2>4
<1>2. PICK d \in T : \A y \in T : d <= y
  <2> HIDE DEF T
  <2> QED
    BY <1>1, LeastNumber
<1>3. PICK m \in S : d = b - m
  BY <1>2
<1>4. ASSUME NEW x \in S PROVE m >= x
  <2>1. b - x \in T /\ x \in Int /\ m \in Int
    OBVIOUS
  <2>2. b - m <= b - x
    BY <1>2, <1>3, <2>1
  <2> QED
    BY <2>1, <2>2
<1>5. \E m1 \in S : \A x \in S : m1 >= x
  BY <1>4
<1>6. Max(S) \in S /\ \A x \in S : Max(S) >= x
  BY <1>5, Zenon DEF Max
<1> QED
  BY <1>6

LEMMA MinOfTwo ==
  ASSUME NEW a \in Int, NEW b \in Int
  PROVE  Min({a, b}) \in {a, b} /\ Min({a, b}) <= a /\ Min({a, b}) <= b
<1>1. \E m \in {a, b} : \A x \in {a, b} : m <= x
  OBVIOUS
<1>2. Min({a, b}) \in {a, b} /\ \A x \in {a, b} : Min({a, b}) <= x
  BY <1>1, Zenon DEF Min
<1> QED
  BY <1>2

----------------------------------------------------------------------------
\* Sequences without repetitions.

Distinct(s) == \A i, j \in DOMAIN s : s[i] = s[j] => i = j

LEMMA DistinctAppend ==
  ASSUME NEW S, NEW s \in SeqOver(S), NEW x \in S
  PROVE  Distinct(Append(s, x)) <=> Distinct(s) /\ x \notin ToSet(s)
<1> DEFINE a == Append(s, x)
<1>1. /\ Len(s) \in Nat /\ DOMAIN s = 1..Len(s) /\ DOMAIN a = 1..(Len(s) + 1)
      /\ a[Len(s) + 1] = x /\ \A i \in 1..Len(s) : a[i] = s[i]
  BY DEF SeqOver
<1>2. x \notin ToSet(s) <=> \A i \in 1..Len(s) : s[i] # x
  BY <1>1 DEF ToSet
<1> HIDE DEF a
<1>3. ASSUME Distinct(a) PROVE Distinct(s) /\ x \notin ToSet(s)
  <2>1. \A i \in 1..Len(s) : s[i] # x
    BY <1>1, <1>3 DEF Distinct
  <2> QED
    BY <1>1, <1>2, <1>3, <2>1 DEF Distinct
<1>4. ASSUME Distinct(s), x \notin ToSet(s) PROVE Distinct(a)
  <2> SUFFICES ASSUME NEW i \in DOMAIN a, NEW j \in DOMAIN a, a[i] = a[j] PROVE i = j
    BY DEF Distinct
  <2>1. CASE i \in 1..Len(s) /\ j \in 1..Len(s)
    BY <1>1, <1>4, <2>1 DEF Distinct
  <2>2. CASE i = Len(s) + 1 \/ j = Len(s) + 1
    BY <1>1, <1>2, <1>4, <2>2
  <2> QED
    BY <1>1, <2>1, <2>2
<1> QED
  BY <1>3, <1>4 DEF a

LEMMA DistinctNothing == Distinct(<<>>)
BY DEF Distinct

LEMMA DistinctOnly ==
  ASSUME NEW S, NEW T, NEW s \in SeqOver(S), Distinct(s)
  PROVE  Distinct(Only(s, T))
<1> DEFINE G == {r \in SeqOver(S) : Distinct(r) => Distinct(Only(r, T))}
<1>1. <<>> \in G
  BY EmptyType, OnlyEmpty, DistinctNothing
<1>2. ASSUME NEW r \in SeqOver(S), NEW x \in S, r \in G PROVE Append(r, x) \in G
  <2>1. Append(r, x) \in SeqOver(S) /\ Only(r, T) \in SeqOver(S)
    BY AppendType, OnlyType
  <2>2. Only(Append(r, x), T) = IF x \in T THEN Append(Only(r, T), x) ELSE Only(r, T)
    BY OnlyGrows
  <2>3. Distinct(Append(r, x)) <=> Distinct(r) /\ x \notin ToSet(r)
    BY DistinctAppend
  <2>4. Distinct(Append(Only(r, T), x)) <=> Distinct(Only(r, T)) /\ x \notin ToSet(Only(r, T))
    BY <2>1, DistinctAppend
  <2>5. ToSet(Only(r, T)) \subseteq ToSet(r)
    BY OnlyRange
  <2> QED
    BY <1>2, <2>1, <2>2, <2>3, <2>4, <2>5
<1>3. s \in G
  <2> HIDE DEF G
  <2> QED
    BY <1>1, <1>2, Growth
<1> QED
  BY <1>3

LEMMA DistinctJoin ==
  ASSUME NEW S, NEW s \in SeqOver(S), NEW t \in SeqOver(S)
  PROVE  Distinct(Join(s, t)) <=> Distinct(s) /\ Distinct(t) /\ ToSet(s) \cap ToSet(t) = {}
<1> DEFINE P(r) == Distinct(Join(s, r)) <=> Distinct(s) /\ Distinct(r) /\ ToSet(s) \cap ToSet(r) = {}
           G == {r \in SeqOver(S) : P(r)}
<1>1. <<>> \in G
  BY EmptyType, JoinNothing, DistinctNothing, ToSetNothing
<1>2. ASSUME NEW r \in SeqOver(S), NEW x \in S, r \in G PROVE Append(r, x) \in G
  <2>1. Append(r, x) \in SeqOver(S) /\ Join(s, r) \in SeqOver(S)
    BY AppendType, JoinType
  <2>2. Join(s, Append(r, x)) = Append(Join(s, r), x)
    BY JoinAppend
  <2>3. Distinct(Append(r, x)) <=> Distinct(r) /\ x \notin ToSet(r)
    BY DistinctAppend
  <2>4. Distinct(Append(Join(s, r), x)) <=> Distinct(Join(s, r)) /\ x \notin ToSet(Join(s, r))
    BY <2>1, DistinctAppend
  <2>5. ToSet(Join(s, r)) = ToSet(s) \cup ToSet(r)
    BY ToSetJoin
  <2>6. ToSet(Append(r, x)) = ToSet(r) \cup {x}
    BY ToSetAppend
  <2>7. P(r)
    BY <1>2
  <2>8. P(Append(r, x))
    BY <2>2, <2>3, <2>4, <2>5, <2>6, <2>7
  <2> QED
    BY <2>1, <2>8
<1>3. t \in G
  <2> HIDE DEF G
  <2> QED
    BY <1>1, <1>2, Growth
<1> QED
  BY <1>3

\* What is gathered repeats nothing if no part does and no two parts share anything.
Apart(f, s) ==
  /\ \A i \in DOMAIN s : Distinct(f[s[i]])
  /\ \A i, j \in DOMAIN s : i # j => ToSet(f[s[i]]) \cap ToSet(f[s[j]]) = {}

LEMMA ApartAppend ==
  ASSUME NEW E, NEW f, NEW s \in SeqOver(E), NEW x \in E
  PROVE  Apart(f, Append(s, x)) <=>
           /\ Apart(f, s) /\ Distinct(f[x])
           /\ (UNION {ToSet(f[y]) : y \in ToSet(s)}) \cap ToSet(f[x]) = {}
<1> DEFINE a == Append(s, x)
           n == Len(s)
<1>1. /\ n \in Nat /\ DOMAIN s = 1..n /\ DOMAIN a = 1..(n + 1) /\ 1..(n + 1) = 1..n \cup {n + 1} /\ n + 1 \notin 1..n
      /\ a[n + 1] = x /\ \A i \in 1..n : a[i] = s[i]
  BY DEF SeqOver
<1>2. ToSet(s) = {s[i] : i \in 1..n}
  BY <1>1 DEF ToSet
<1>3. (UNION {ToSet(f[y]) : y \in ToSet(s)}) \cap ToSet(f[x]) = {} <=> \A i \in 1..n : ToSet(f[s[i]]) \cap ToSet(f[x]) = {}
  BY <1>2
<1> HIDE DEF a, n
<1>4. ASSUME Apart(f, a)
      PROVE  Apart(f, s) /\ Distinct(f[x]) /\ \A i \in 1..n : ToSet(f[s[i]]) \cap ToSet(f[x]) = {}
  <2>1. \A i \in 1..n : Distinct(f[s[i]])
    BY <1>1, <1>4 DEF Apart
  <2>2. \A i, j \in 1..n : i # j => ToSet(f[s[i]]) \cap ToSet(f[s[j]]) = {}
    BY <1>1, <1>4 DEF Apart
  <2>3. Distinct(f[x])
    BY <1>1, <1>4 DEF Apart
  <2>4. ASSUME NEW i \in 1..n PROVE ToSet(f[s[i]]) \cap ToSet(f[x]) = {}
    BY <1>1, <1>4 DEF Apart
  <2> QED
    BY <1>1, <2>1, <2>2, <2>3, <2>4 DEF Apart
<1>5. ASSUME Apart(f, s), Distinct(f[x]), \A i \in 1..n : ToSet(f[s[i]]) \cap ToSet(f[x]) = {}
      PROVE  Apart(f, a)
  <2>1. \A i \in 1..(n + 1) : Distinct(f[a[i]])
    BY <1>1, <1>5 DEF Apart
  <2>2. ASSUME NEW i \in 1..(n + 1), NEW j \in 1..(n + 1), i # j PROVE ToSet(f[a[i]]) \cap ToSet(f[a[j]]) = {}
    <3>1. CASE i \in 1..n /\ j \in 1..n
      BY <1>1, <1>5, <2>2, <3>1 DEF Apart
    <3>2. CASE i = n + 1 \/ j = n + 1
      BY <1>1, <1>5, <2>2, <3>2
    <3> QED
      BY <1>1, <3>1, <3>2
  <2> QED
    BY <1>1, <2>1, <2>2 DEF Apart
<1> QED
  BY <1>3, <1>4, <1>5 DEF a

LEMMA DistinctGather ==
  ASSUME NEW E, NEW S, NEW f \in [E -> SeqOver(S)], NEW s \in SeqOver(E)
  PROVE  Distinct(Gather(f, s)) <=> Apart(f, s)
<1> DEFINE G == {r \in SeqOver(E) : Distinct(Gather(f, r)) <=> Apart(f, r)}
<1>1. <<>> \in G
  <2>1. Apart(f, <<>>)
    BY DEF Apart
  <2> QED
    BY <2>1, EmptyType, GatherNothing, DistinctNothing
<1>2. ASSUME NEW r \in SeqOver(E), NEW x \in E, r \in G PROVE Append(r, x) \in G
  <2>1. Append(r, x) \in SeqOver(E) /\ Gather(f, r) \in SeqOver(S) /\ f[x] \in SeqOver(S)
    BY AppendType, GatherType
  <2>2. Gather(f, Append(r, x)) = Join(Gather(f, r), f[x])
    BY GatherAppend
  <2>3. Distinct(Join(Gather(f, r), f[x]))
          <=> Distinct(Gather(f, r)) /\ Distinct(f[x]) /\ ToSet(Gather(f, r)) \cap ToSet(f[x]) = {}
    BY <2>1, DistinctJoin
  <2>4. ToSet(Gather(f, r)) = UNION {ToSet(f[y]) : y \in ToSet(r)}
    BY GatherRange
  <2>5. Apart(f, Append(r, x)) <=>
          /\ Apart(f, r) /\ Distinct(f[x])
          /\ (UNION {ToSet(f[y]) : y \in ToSet(r)}) \cap ToSet(f[x]) = {}
    BY ApartAppend
  <2>6. Distinct(Gather(f, r)) <=> Apart(f, r)
    BY <1>2
  <2>7. Distinct(Gather(f, Append(r, x))) <=> Apart(f, Append(r, x))
    BY <2>2, <2>3, <2>4, <2>5, <2>6
  <2> QED
    BY <2>1, <2>7
<1>3. s \in G
  <2> HIDE DEF G
  <2> QED
    BY <1>1, <1>2, Growth
<1> QED
  BY <1>3

\* Where the elements of a set come first, they are a beginning.
LEMMA OnlyBeginning ==
  ASSUME NEW S, NEW T, NEW s \in SeqOver(S), NEW n \in 0..Len(s), \A k \in DOMAIN s : s[k] \in T <=> k <= n
  PROVE  Only(s, T) = SubSeq(s, 1, n)
<1> DEFINE upTo(k) == SubSeq(s, 1, k)
           G == {k \in 0..Len(s) : Only(upTo(k), T) = upTo(IF k <= n THEN k ELSE n)}
<1>1. /\ upTo(0) = <<>> /\ upTo(Len(s)) = s
      /\ \A k \in 0..Len(s) : upTo(k) \in SeqOver(S)
      /\ \A k \in 0..(Len(s) - 1) : s[k + 1] \in S /\ upTo(k + 1) = Append(upTo(k), s[k + 1])
  BY Beginnings
<1>2. Len(s) \in Nat /\ DOMAIN s = 1..Len(s)
  BY Items
<1> HIDE DEF upTo
<1>3. 0 \in G
  BY <1>1, <1>2, OnlyEmpty
<1>4. ASSUME NEW k \in 0..(Len(s) - 1), k \in G PROVE k + 1 \in G
  <2>1. k \in 0..Len(s) /\ k + 1 \in 0..Len(s) /\ k + 1 \in DOMAIN s
    BY <1>2
  <2>2. upTo(k) \in SeqOver(S) /\ s[k + 1] \in S /\ upTo(k + 1) = Append(upTo(k), s[k + 1])
    BY <1>1, <2>1
  <2>3. Only(upTo(k + 1), T) = IF s[k + 1] \in T THEN Append(Only(upTo(k), T), s[k + 1]) ELSE Only(upTo(k), T)
    <3>1. \A r \in SeqOver(S), x \in S : Only(Append(r, x), T) = IF x \in T THEN Append(Only(r, T), x) ELSE Only(r, T)
      BY OnlyGrows
    <3> HIDE DEF G
    <3> QED
      BY <2>2, <3>1
  <2>4. Only(upTo(k), T) = upTo(IF k <= n THEN k ELSE n)
    BY <1>4
  <2>5. CASE k + 1 <= n
    <3>1. k <= n /\ s[k + 1] \in T
      BY <2>1, <2>5
    <3> QED
      BY <2>1, <2>2, <2>3, <2>4, <2>5, <3>1
  <2>6. CASE ~(k + 1 <= n)
    <3>1. s[k + 1] \notin T /\ (IF k <= n THEN k ELSE n) = n
      BY <2>1, <2>6
    <3> QED
      BY <2>1, <2>3, <2>4, <2>6, <3>1
  <2> QED
    BY <2>5, <2>6
<1>5. Len(s) \in G
  <2> HIDE DEF G
  <2>1. Len(s) \in 0..Len(s)
    BY <1>2
  <2> QED
    BY <1>2, <1>3, <1>4, <2>1, Climb
<1>6. (IF Len(s) <= n THEN Len(s) ELSE n) = n
  <2>1. \A m \in Nat : \A k \in 0..m : (IF m <= k THEN m ELSE k) = k
    OBVIOUS
  <2> QED
    BY <1>2, <2>1, Zenon
<1> QED
  BY <1>1, <1>5, <1>6 DEF upTo

LEMMA OnlyUpTo ==
  ASSUME NEW S, NEW T, NEW s \in SeqOver(S), \A j, k \in DOMAIN s : j <= k /\ s[k] \in T => s[j] \in T
  PROVE  LET n == Max({0} \cup {k \in DOMAIN s : s[k] \in T})
         IN  n \in 0..Len(s) /\ Only(s, T) = SubSeq(s, 1, n) /\ \A k \in DOMAIN s : s[k] \in T <=> k <= n
<1> DEFINE M == {0} \cup {k \in DOMAIN s : s[k] \in T}
           n == Max(M)
<1>1. Len(s) \in Nat /\ DOMAIN s = 1..Len(s)
  BY Items
<1>2. n \in M /\ \A k \in M : k <= n
  <2>1. M \subseteq Int /\ M # {} /\ Len(s) \in Int /\ \A k \in M : k <= Len(s)
    BY <1>1
  <2> HIDE DEF M
  <2> QED
    BY <2>1, MaxIs
<1> HIDE DEF n
<1>3. n \in 0..Len(s)
  BY <1>1, <1>2
<1>4. \A k \in DOMAIN s : s[k] \in T <=> k <= n
  BY <1>1, <1>2
<1>5. Only(s, T) = SubSeq(s, 1, n)
  BY <1>3, <1>4, OnlyBeginning
<1> QED
  BY <1>3, <1>4, <1>5 DEF n

----------------------------------------------------------------------------
\* Sequences that grow, item by item; sequences of sequences.

LEMMA JoinItems ==
  ASSUME NEW S, NEW s \in SeqOver(S), NEW t \in SeqOver(S)
  PROVE  /\ Len(Join(s, t)) = Len(s) + Len(t)
         /\ \A i \in DOMAIN s : i \in DOMAIN Join(s, t) /\ Join(s, t)[i] = s[i]
         /\ \A k \in DOMAIN t : Len(s) + k \in DOMAIN Join(s, t) /\ Join(s, t)[Len(s) + k] = t[k]
         /\ \A i \in DOMAIN Join(s, t) : i \in DOMAIN s \/ \E k \in DOMAIN t : i = Len(s) + k
<1>1. Len(s) \in Nat /\ Len(t) \in Nat /\ DOMAIN s = 1..Len(s) /\ DOMAIN t = 1..Len(t)
  BY Items
<1>2. Len(Join(s, t)) = Len(s) + Len(t) /\ DOMAIN Join(s, t) = 1..(Len(s) + Len(t))
  BY DEF Join, SeqOver
<1>3. (\A i \in 1..Len(s) : Join(s, t)[i] = s[i]) /\ \A k \in 1..Len(t) : Join(s, t)[Len(s) + k] = t[k]
  BY DEF Join, SeqOver
<1>4. ASSUME NEW i \in 1..(Len(s) + Len(t)), i \notin 1..Len(s) PROVE \E k \in 1..Len(t) : i = Len(s) + k
  <2>1. i - Len(s) \in 1..Len(t) /\ i = Len(s) + (i - Len(s))
    BY <1>1, <1>4
  <2> QED
    BY <2>1
<1>5. /\ \A i \in 1..Len(s) : i \in 1..(Len(s) + Len(t))
      /\ \A k \in 1..Len(t) : Len(s) + k \in 1..(Len(s) + Len(t))
  BY <1>1
<1> QED
  BY <1>1, <1>2, <1>3, <1>4, <1>5

LEMMA AppendItems ==
  ASSUME NEW S, NEW s \in SeqOver(S), NEW x \in S
  PROVE  /\ Len(Append(s, x)) = Len(s) + 1 /\ Append(s, x)[Len(s) + 1] = x
         /\ Len(s) + 1 \in DOMAIN Append(s, x) /\ Len(s) + 1 \notin DOMAIN s
         /\ \A i \in DOMAIN s : i \in DOMAIN Append(s, x) /\ Append(s, x)[i] = s[i]
         /\ \A i \in DOMAIN Append(s, x) : i \in DOMAIN s \/ i = Len(s) + 1
BY DEF SeqOver

LEMMA FlattenOne ==
  ASSUME NEW S, NEW t \in SeqOver(S)
  PROVE  FlattenSeq(<<t>>) = t
<1>1. <<>> \in Seq(Seq(S)) /\ t \in Seq(S) /\ Append(<<>>, t) = <<t>>
  BY DEF SeqOver
<1>2. FlattenSeq(Append(<<>>, t)) = FlattenSeq(<<>>) \o t /\ FlattenSeq(<<>>) = <<>>
  BY <1>1, FlattenAppend, FlattenNothing
<1>3. <<>> \o t = t
  BY <1>1
<1> QED
  BY <1>1, <1>2, <1>3

LEMMA FlattenGrows ==
  ASSUME NEW S, NEW ss \in SeqOver(SeqOver(S)), NEW x \in SeqOver(S)
  PROVE  FlattenSeq(ss) \in SeqOver(S) /\ FlattenSeq(Append(ss, x)) = Join(FlattenSeq(ss), x)
BY FlattenAppend DEF SeqOver, Join

\* Flattening is gathering.
LEMMA FlattenIsGather ==
  ASSUME NEW S, NEW ss \in SeqOver(SeqOver(S))
  PROVE  LET f == [x \in SeqOver(S) |-> x]
         IN  f \in [SeqOver(S) -> SeqOver(S)] /\ Gather(f, ss) = FlattenSeq(ss)
<1> DEFINE f == [x \in SeqOver(S) |-> x]
<1>1. f \in [SeqOver(S) -> SeqOver(S)]
  OBVIOUS
<1>2. [i \in DOMAIN ss |-> f[ss[i]]] = [i \in DOMAIN ss |-> ss[i]]
  BY Items
<1>3. ss = [i \in DOMAIN ss |-> ss[i]]
  BY DEF SeqOver
<1> QED
  BY <1>1, <1>2, <1>3 DEF Gather

LEMMA FlattenCons ==
  ASSUME NEW S, NEW ss \in SeqOver(SeqOver(S)), ss # <<>>
  PROVE  FlattenSeq(ss) = Join(Head(ss), FlattenSeq(Tail(ss)))
<1> DEFINE f == [x \in SeqOver(S) |-> x]
<1>1. /\ f \in [SeqOver(S) -> SeqOver(S)] /\ Gather(f, ss) = FlattenSeq(ss)
      /\ Head(ss) \in SeqOver(S) /\ Tail(ss) \in SeqOver(SeqOver(S))
  BY FlattenIsGather, HeadTail
<1>2. Gather(f, Tail(ss)) = FlattenSeq(Tail(ss))
  BY <1>1, FlattenIsGather
<1>3. f[Head(ss)] = Head(ss)
  BY <1>1
<1> HIDE DEF f
<1>4. Gather(f, ss) = Join(f[Head(ss)], Gather(f, Tail(ss)))
  BY <1>1, GatherCons
<1> QED
  BY <1>1, <1>2, <1>3, <1>4

LEMMA FlattenJoin ==
  ASSUME NEW S, NEW ss \in SeqOver(SeqOver(S)), NEW tt \in SeqOver(SeqOver(S))
  PROVE  FlattenSeq(Join(ss, tt)) = Join(FlattenSeq(ss), FlattenSeq(tt))
<1> DEFINE f == [x \in SeqOver(S) |-> x]
<1>1. f \in [SeqOver(S) -> SeqOver(S)] /\ Gather(f, ss) = FlattenSeq(ss) /\ Gather(f, tt) = FlattenSeq(tt)
  BY FlattenIsGather
<1>2. Join(ss, tt) \in SeqOver(SeqOver(S))
  BY JoinType
<1>3. Gather(f, Join(ss, tt)) = FlattenSeq(Join(ss, tt))
  BY <1>2, FlattenIsGather
<1> HIDE DEF f
<1> QED
  BY <1>1, <1>3, GatherJoin

LEMMA FlattenType ==
  ASSUME NEW S, NEW ss \in SeqOver(SeqOver(S))
  PROVE  FlattenSeq(ss) \in SeqOver(S)
<1> DEFINE f == [x \in SeqOver(S) |-> x]
<1>1. f \in [SeqOver(S) -> SeqOver(S)] /\ Gather(f, ss) = FlattenSeq(ss)
  BY FlattenIsGather
<1> HIDE DEF f
<1> QED
  BY <1>1, GatherType

LEMMA LastTwo ==
  ASSUME NEW S, NEW pieces \in SeqOver(SeqOver(S)), Len(pieces) > 1
  PROVE  LET n == Len(pieces)
         IN  /\ pieces[n - 1] \in SeqOver(S) /\ pieces[n] \in SeqOver(S) /\ n - 1 \in 1..(n - 1)
             /\ SubSeq(pieces, 1, n - 2) \in SeqOver(SeqOver(S)) /\ Len(SubSeq(pieces, 1, n - 2)) = n - 2
             /\ \A k \in 1..(n - 2) : SubSeq(pieces, 1, n - 2)[k] = pieces[k]
             /\ pieces = Append(Append(SubSeq(pieces, 1, n - 2), pieces[n - 1]), pieces[n])
<1> DEFINE n == Len(pieces)
<1>1. n \in Nat /\ n - 2 \in 0..(n - 1) /\ n - 1 \in 0..(n - 1) /\ n - 2 \in 0..n /\ (n - 2) + 1 = n - 1 /\ (n - 1) + 1 = n
      /\ n - 1 \in 1..(n - 1) /\ n - 1 \in 1..n /\ n \in 1..n
  BY Items
<1>2. /\ SubSeq(pieces, 1, n) = pieces /\ SubSeq(pieces, 1, n - 2) \in SeqOver(SeqOver(S))
      /\ SubSeq(pieces, 1, n - 1) = Append(SubSeq(pieces, 1, n - 2), pieces[n - 1])
      /\ SubSeq(pieces, 1, n) = Append(SubSeq(pieces, 1, n - 1), pieces[n])
  <2>1. /\ SubSeq(pieces, 1, n) = pieces /\ SubSeq(pieces, 1, n - 2) \in SeqOver(SeqOver(S))
        /\ SubSeq(pieces, 1, (n - 2) + 1) = Append(SubSeq(pieces, 1, n - 2), pieces[(n - 2) + 1])
        /\ SubSeq(pieces, 1, (n - 1) + 1) = Append(SubSeq(pieces, 1, n - 1), pieces[(n - 1) + 1])
    <3> HIDE DEF n
    <3>1. \A k \in 0..(n - 1) : SubSeq(pieces, 1, k + 1) = Append(SubSeq(pieces, 1, k), pieces[k + 1])
      BY Beginnings DEF n
    <3>2. SubSeq(pieces, 1, n) = pieces /\ \A k \in 0..n : SubSeq(pieces, 1, k) \in SeqOver(SeqOver(S))
      BY Beginnings DEF n
    <3> QED
      BY <1>1, <3>1, <3>2
  <2> HIDE DEF n
  <2> QED
    BY <1>1, <2>1
<1>3. pieces[n - 1] \in SeqOver(S) /\ pieces[n] \in SeqOver(S)
  BY <1>1, Items
<1>4. Len(SubSeq(pieces, 1, n - 2)) = n - 2 /\ \A k \in 1..(n - 2) : SubSeq(pieces, 1, n - 2)[k] = pieces[k]
  BY <1>1 DEF SeqOver
<1> QED
  BY <1>1, <1>2, <1>3, <1>4

LEMMA TailIs ==
  ASSUME NEW S, NEW s \in SeqOver(S), s # <<>>
  PROVE  Tail(s) = [k \in 1..(Len(s) - 1) |-> s[k + 1]]
<1>1. Tail(s) \in Seq(S) /\ Len(Tail(s)) = Len(s) - 1 /\ Len(s) \in Nat /\ Len(s) # 0
  BY DEF SeqOver
<1>2. DOMAIN Tail(s) = 1..(Len(s) - 1) /\ \A k \in 1..(Len(s) - 1) : Tail(s)[k] = s[k + 1]
  BY <1>1 DEF SeqOver
<1>3. \A t \in Seq(S) : t = [k \in DOMAIN t |-> t[k]]
  OBVIOUS
<1>4. Tail(s) = [k \in DOMAIN Tail(s) |-> Tail(s)[k]]
  BY <1>1, <1>3
<1> QED
  BY <1>2, <1>4

LEMMA LastSplit ==
  ASSUME NEW S, NEW s \in SeqOver(S), s # <<>>
  PROVE  \E r \in SeqOver(S), x \in S : s = Append(r, x)
<1>1. s[Len(s)] \in S
  BY LastType
<1>2. \E r \in SeqOver(S) : s[Len(s)] \in S /\ s = Append(r, s[Len(s)]) /\ WithLast(s, s[Len(s)]) = Append(r, s[Len(s)])
  BY <1>1, LastReplaced
<1> QED
  BY <1>2

LEMMA SameLength ==
  ASSUME NEW a \in Nat, NEW b \in Nat, 1..a = 1..b
  PROVE  a = b
<1>1. a >= 1 => a \in 1..b
  OBVIOUS
<1>2. b >= 1 => b \in 1..a
  OBVIOUS
<1> QED
  BY <1>1, <1>2

LEMMA PairIs ==
  ASSUME NEW u \in Int, NEW v \in Int, u <= v
  PROVE  Min({u, v}) = u /\ Max({u, v}) = v
<1>1. u \in {u, v} /\ \A y \in {u, v} : u <= y
  OBVIOUS
<1>2. v \in {u, v} /\ \A y \in {u, v} : v >= y /\ y <= v
  OBVIOUS
<1>3. Min({u, v}) \in {u, v} /\ \A y \in {u, v} : Min({u, v}) <= y
  BY <1>1, Zenon DEF Min
<1>4. Max({u, v}) \in {u, v} /\ \A x \in {u, v} : x <= Max({u, v})
  <2>1. {u, v} \subseteq Int /\ {u, v} # {} /\ \A x \in {u, v} : x <= v
    BY <1>2
  <2> HIDE <1>1
  <2> QED
    BY <2>1, MaxIs
<1> QED
  BY <1>1, <1>2, <1>3, <1>4

Run(s, p, n) == [k \in 1..n |-> s[p + k]]  \* n items after the p-th

LEMMA SubSeqGrows ==
  ASSUME NEW S, NEW s \in SeqOver(S), NEW p \in Nat, NEW n \in Nat, p + n <= Len(s)
  PROVE  /\ Run(s, p, n) \in SeqOver(S) /\ Len(Run(s, p, n)) = n /\ \A k \in 1..n : Run(s, p, n)[k] = s[p + k]
         /\ Join(SubSeq(s, 1, p), Run(s, p, n)) = SubSeq(s, 1, p + n)
<1> DEFINE t == Run(s, p, n)
           a == SubSeq(s, 1, p)
           b == SubSeq(s, 1, p + n)
<1>1. Len(s) \in Nat /\ DOMAIN s = 1..Len(s) /\ \A i \in 1..Len(s) : s[i] \in S
  BY Items
<1>2. t \in [1..n -> S]
  <2>1. \A k \in 1..n : p + k \in 1..Len(s)
    BY <1>1
  <2> QED
    BY <1>1, <2>1 DEF Run
<1>3. t \in SeqOver(S) /\ \A k \in 1..n : t[k] = s[p + k]
  BY <1>2, Listed DEF Run
<1>4. Len(t) = n
  <2>1. Len(t) \in Nat /\ DOMAIN t = 1..Len(t) /\ DOMAIN t = 1..n
    BY <1>2, <1>3, Items
  <2> QED
    BY <2>1, SameLength
<1> HIDE DEF t
<1>5. /\ a \in SeqOver(S) /\ Len(a) = p /\ \A i \in 1..p : a[i] = s[i]
      /\ b \in SeqOver(S) /\ Len(b) = p + n /\ \A i \in 1..(p + n) : b[i] = s[i]
  BY <1>1 DEF SeqOver
<1> HIDE DEF a, b
<1>6. Join(a, t) \in SeqOver(S) /\ Len(Join(a, t)) = p + n
  BY <1>3, <1>4, <1>5, JoinType, JoinItems
<1>7. \A i \in 1..(p + n) : Join(a, t)[i] = b[i]
  <2> TAKE i \in 1..(p + n)
  <2>1. DOMAIN a = 1..p /\ DOMAIN t = 1..n
    BY <1>3, <1>4, <1>5, Items
  <2>2. CASE i \in 1..p
    <3>1. Join(a, t)[i] = a[i]
      BY <1>3, <1>5, <2>1, <2>2, JoinItems
    <3> QED
      BY <1>5, <2>2, <3>1
  <2>3. CASE i \notin 1..p
    <3>1. i - p \in 1..n /\ p + (i - p) = i
      BY <2>3
    <3>2. \A k \in 1..n : Join(a, t)[Len(a) + k] = t[k]
      <4>1. a \in SeqOver(S) /\ t \in SeqOver(S)
        BY <1>3, <1>5
      <4>2. \A k \in DOMAIN t : Join(a, t)[Len(a) + k] = t[k]
        BY <4>1, JoinItems
      <4> QED
        BY <2>1, <4>2
    <3> QED
      BY <1>3, <1>5, <3>1, <3>2
  <2> QED
    BY <2>2, <2>3
<1>8. Join(a, t) = b
  BY <1>5, <1>6, <1>7 DEF SeqOver
<1> QED
  BY <1>3, <1>4, <1>8 DEF t, a, b

----------------------------------------------------------------------------
\* Rising numbers: a set of numbers is listed in one way only.

Rising(s) == \A i, j \in DOMAIN s : i < j => s[i] < s[j]

LEMMA RisingAppend ==
  ASSUME NEW s \in SeqOver(Nat), NEW x \in Nat
  PROVE  Rising(Append(s, x)) <=> Rising(s) /\ \A y \in ToSet(s) : y < x
<1> DEFINE new == Append(s, x)
<1>1. /\ Len(s) \in Nat /\ DOMAIN s = 1..Len(s) /\ \A i \in DOMAIN s : s[i] \in Nat
      /\ new[Len(s) + 1] = x /\ Len(s) + 1 \in DOMAIN new
      /\ (\A i \in DOMAIN s : i \in DOMAIN new /\ new[i] = s[i])
      /\ \A i \in DOMAIN new : i \in DOMAIN s \/ i = Len(s) + 1
  BY Items, AppendItems
<1> HIDE DEF new
<1>2. ASSUME Rising(new) PROVE Rising(s) /\ \A y \in ToSet(s) : y < x
  <2>1. Rising(s)
    BY <1>1, <1>2 DEF Rising
  <2>2. ASSUME NEW y \in ToSet(s) PROVE y < x
    <3>1. PICK i \in DOMAIN s : s[i] = y
      BY DEF ToSet
    <3>2. i < Len(s) + 1
      BY <1>1
    <3> QED
      BY <1>1, <1>2, <3>1, <3>2 DEF Rising
  <2> QED
    BY <2>1, <2>2
<1>3. ASSUME Rising(s), \A y \in ToSet(s) : y < x PROVE Rising(new)
  <2>1. ASSUME NEW i \in DOMAIN new, NEW j \in DOMAIN new, i < j PROVE new[i] < new[j]
    <3>1. i \in DOMAIN s
      BY <1>1, <2>1
    <3>2. s[i] \in ToSet(s)
      BY <3>1 DEF ToSet
    <3> QED
      BY <1>1, <1>3, <2>1, <3>1, <3>2 DEF Rising
  <2> QED
    BY <2>1 DEF Rising
<1> QED
  BY <1>2, <1>3 DEF new

LEMMA RisingOnly ==
  ASSUME NEW T, NEW s \in SeqOver(Nat), Rising(s)
  PROVE  Rising(Only(s, T))
<1> DEFINE G == {r \in SeqOver(Nat) : Rising(r) => Rising(Only(r, T))}
<1>1. <<>> \in G
  <2>1. <<>> \in SeqOver(Nat) /\ Only(<<>>, T) = <<>>
    BY EmptyType, OnlyEmpty
  <2> QED
    BY <2>1
<1>2. ASSUME NEW r \in SeqOver(Nat), NEW x \in Nat, r \in G PROVE Append(r, x) \in G
  <2>1. Only(Append(r, x), T) = IF x \in T THEN Append(Only(r, T), x) ELSE Only(r, T)
    BY OnlyGrows
  <2>2. Only(r, T) \in SeqOver(Nat) /\ ToSet(Only(r, T)) = ToSet(r) \cap T
    BY OnlyType, OnlyRange
  <2>3. Append(r, x) \in SeqOver(Nat)
    BY AppendType
  <2>4. Rising(Append(r, x)) <=> Rising(r) /\ \A y \in ToSet(r) : y < x
    BY RisingAppend
  <2>5. Rising(Append(Only(r, T), x)) <=> Rising(Only(r, T)) /\ \A y \in ToSet(Only(r, T)) : y < x
    BY <2>2, RisingAppend
  <2>6. Rising(r) => Rising(Only(r, T))
    BY <1>2
  <2>7. Rising(Append(r, x)) => Rising(Only(Append(r, x), T))
    BY <2>1, <2>2, <2>4, <2>5, <2>6
  <2> QED
    BY <2>3, <2>7
<1>3. s \in G
  <2> HIDE DEF G
  <2> QED
    BY <1>1, <1>2, Growth
<1> QED
  BY <1>3

LEMMA RisingUnique ==
  ASSUME NEW s \in SeqOver(Nat), NEW t \in SeqOver(Nat), Rising(s), Rising(t), ToSet(s) = ToSet(t)
  PROVE  s = t
<1> DEFINE G == {r \in SeqOver(Nat) : Rising(r) => \A q \in SeqOver(Nat) : Rising(q) /\ ToSet(q) = ToSet(r) => q = r}
<1>1. <<>> \in G
  <2>1. <<>> \in SeqOver(Nat) /\ ToSet(<<>>) = {}
    BY EmptyType, ToSetNothing
  <2>2. \A q \in SeqOver(Nat) : ToSet(q) = {} => q = <<>>
    BY ToSetEmpty
  <2> QED
    BY <2>1, <2>2
<1>2. ASSUME NEW r \in SeqOver(Nat), NEW x \in Nat, r \in G PROVE Append(r, x) \in G
  <2>1. Append(r, x) \in SeqOver(Nat) /\ ToSet(Append(r, x)) = ToSet(r) \cup {x}
    BY AppendType, ToSetAppend
  <2>2. ASSUME Rising(Append(r, x)), NEW q \in SeqOver(Nat), Rising(q), ToSet(q) = ToSet(r) \cup {x}
        PROVE  q = Append(r, x)
    <3>1. Rising(r) /\ \A y \in ToSet(r) : y < x
      BY <2>2, RisingAppend
    <3>2. q # <<>>
      BY <2>2, ToSetNothing
    <3>4. PICK u \in SeqOver(Nat), z \in Nat : q = Append(u, z)
      BY <3>2, LastSplit
    <3>5. ToSet(q) = ToSet(u) \cup {z} /\ Rising(u) /\ \A y \in ToSet(u) : y < z
      <4>1. ToSet(Append(u, z)) = ToSet(u) \cup {z}
        BY ToSetAppend
      <4> QED
        BY <2>2, <3>4, <4>1, RisingAppend
    <3>6. z = x
      <4>1. z = x \/ z < x
        BY <2>2, <3>1, <3>5
      <4>2. x = z \/ x < z
        BY <2>2, <3>5
      <4> QED
        BY <4>1, <4>2
    <3>7. ToSet(u) = ToSet(r)
      <4>1. x \notin ToSet(u) /\ x \notin ToSet(r)
        BY <3>1, <3>5, <3>6
      <4> QED
        BY <2>2, <3>5, <3>6, <4>1
    <3>8. u = r
      BY <1>2, <3>1, <3>5, <3>7
    <3> QED
      BY <3>4, <3>6, <3>8
  <2>3. Rising(Append(r, x)) => \A q \in SeqOver(Nat) : Rising(q) /\ ToSet(q) = ToSet(Append(r, x)) => q = Append(r, x)
    BY <2>1, <2>2
  <2> QED
    BY <2>1, <2>3
<1>3. s \in G
  <2> HIDE DEF G
  <2> QED
    BY <1>1, <1>2, Growth
<1> QED
  BY <1>3

\* As long as before, so nothing was dropped.
LEMMA OnlyLength ==
  ASSUME NEW S, NEW T, NEW s \in SeqOver(S)
  PROVE  Len(Only(s, T)) <= Len(s) /\ (Len(Only(s, T)) = Len(s) => ToSet(s) \subseteq T)
<1> DEFINE G == {r \in SeqOver(S) : Len(Only(r, T)) <= Len(r) /\ (Len(Only(r, T)) = Len(r) => ToSet(r) \subseteq T)}
<1>1. <<>> \in G
  <2>1. <<>> \in SeqOver(S) /\ Only(<<>>, T) = <<>> /\ ToSet(<<>>) = {} /\ Len(<<>>) = 0
    BY EmptyType, OnlyEmpty, ToSetNothing
  <2> QED
    BY <2>1
<1>2. ASSUME NEW r \in SeqOver(S), NEW x \in S, r \in G PROVE Append(r, x) \in G
  <2>1. Only(Append(r, x), T) = IF x \in T THEN Append(Only(r, T), x) ELSE Only(r, T)
    BY OnlyGrows
  <2>2. Only(r, T) \in SeqOver(S)
    BY OnlyType
  <2>3. /\ Len(Append(r, x)) = Len(r) + 1 /\ Len(Append(Only(r, T), x)) = Len(Only(r, T)) + 1
        /\ Len(r) \in Nat /\ Len(Only(r, T)) \in Nat
    BY <2>2, Items, AppendItems
  <2>4. Append(r, x) \in SeqOver(S) /\ ToSet(Append(r, x)) = ToSet(r) \cup {x}
    BY AppendType, ToSetAppend
  <2>5. Len(Only(r, T)) <= Len(r) /\ (Len(Only(r, T)) = Len(r) => ToSet(r) \subseteq T)
    BY <1>2
  <2>6. /\ Len(Only(Append(r, x), T)) <= Len(Append(r, x))
        /\ Len(Only(Append(r, x), T)) = Len(Append(r, x)) => ToSet(Append(r, x)) \subseteq T
    <3>1. CASE x \in T
      BY <2>1, <2>3, <2>4, <2>5, <3>1
    <3>2. CASE x \notin T
      BY <2>1, <2>3, <2>5, <3>2
    <3> QED
      BY <3>1, <3>2
  <2> QED
    BY <2>4, <2>6
<1>3. s \in G
  <2> HIDE DEF G
  <2> QED
    BY <1>1, <1>2, Growth
<1> QED
  BY <1>3

----------------------------------------------------------------------------
\* Pack: texts joined into runs.  Which run takes which text is a set of pairs here.

PackedAt(F, texts, T, n) ==
  IF n = 0 THEN <<>>
  ELSE IF F[n - 1] # <<>> /\ <<Last(F[n - 1]), n>> \in T
       THEN WithLast(F[n - 1], Join(Last(F[n - 1]), texts[n]))
       ELSE Append(F[n - 1], texts[n])
IsPacked(F, texts, T) == F = [n \in 0..Len(texts) |-> PackedAt(F, texts, T, n)]
Packing(runs, texts, T) == \E F : IsPacked(F, texts, T) /\ runs = F[Len(texts)]

LEMMA WithLastType ==
  ASSUME NEW S, NEW s \in SeqOver(S), s # <<>>, NEW y \in S
  PROVE  WithLast(s, y) \in SeqOver(S)
<1>1. PICK r \in SeqOver(S) : WithLast(s, y) = Append(r, y)
  BY LastReplaced
<1> QED
  BY <1>1, AppendType

LEMMA Agree ==
  ASSUME NEW N \in Nat, NEW F, NEW H, F[0] = H[0], \A n \in 1..N : F[n - 1] = H[n - 1] => F[n] = H[n]
  PROVE  F[N] = H[N]
<1> DEFINE G == {n \in 0..N : F[n] = H[n]}
<1>1. 0 \in G /\ N \in 0..N
  OBVIOUS
<1>2. \A n \in 0..(N - 1) : n \in G => n + 1 \in G
  <2> TAKE n \in 0..(N - 1)
  <2>1. n + 1 \in 1..N /\ (n + 1) - 1 = n
    OBVIOUS
  <2> QED
    BY <2>1
<1>3. N \in G
  <2> HIDE DEF G
  <2> QED
    BY <1>1, <1>2, Climb
<1> QED
  BY <1>3

LEMMA PackingExists ==
  ASSUME NEW S, NEW texts \in SeqOver(SeqOver(S)), NEW T
  PROVE  \E F : IsPacked(F, texts, T) /\ F \in [0..Len(texts) -> SeqOver(SeqOver(S))]
<1> DEFINE N == Len(texts)
           D == SeqOver(SeqOver(S))
           step(a, n) == IF a # <<>> /\ <<Last(a), n>> \in T THEN WithLast(a, Join(Last(a), texts[n])) ELSE Append(a, texts[n])
           next == [n \in 1..N |-> [a \in D |-> step(a, n)]]
<1>1. N \in Nat /\ \A n \in 1..N : texts[n] \in SeqOver(S)
  BY Items
<1>2. <<>> \in D
  BY EmptyType
<1>3. ASSUME NEW n \in 1..N, NEW a \in D PROVE step(a, n) \in D
  <2>1. CASE a # <<>> /\ <<Last(a), n>> \in T
    <3>1. Last(a) \in SeqOver(S)
      BY <2>1, LastType DEF Last
    <3>2. Join(Last(a), texts[n]) \in SeqOver(S)
      BY <1>1, <3>1, JoinType
    <3> QED
      BY <2>1, <3>2, WithLastType
  <2>2. CASE ~(a # <<>> /\ <<Last(a), n>> \in T)
    BY <1>1, <2>2, AppendType
  <2> QED
    BY <2>1, <2>2
<1>4. next \in [1..N -> [D -> D]]
  <2> HIDE DEF step, D, N
  <2> QED
    BY <1>3
<1>5. \A n \in 1..N, a \in D : next[n][a] = step(a, n)
  <2> HIDE DEF step, D, N
  <2> QED
    OBVIOUS
<1> HIDE DEF next, N, D
<1>6. PICK F : Solves(F, D, <<>>, N, next)
  BY <1>1, <1>2, <1>4, Recursion, Zenon
<1>7. F \in [0..N -> D] /\ F[0] = <<>> /\ \A n \in 1..N : F[n] = next[n][F[n - 1]]
  BY <1>6 DEF Solves
<1>8. ASSUME NEW n \in 0..N PROVE F[n] = PackedAt(F, texts, T, n)
  <2>1. CASE n = 0
    BY <1>7, <2>1 DEF PackedAt
  <2>2. CASE n # 0
    <3>1. n \in 1..N /\ n - 1 \in 0..N
      BY <1>1, <2>2
    <3>2. F[n - 1] \in D
      BY <1>7, <3>1
    <3>3. F[n] = step(F[n - 1], n)
      BY <1>5, <1>7, <3>1, <3>2
    <3> QED
      BY <2>2, <3>3 DEF PackedAt
  <2> QED
    BY <2>1, <2>2
<1>9. F = [n \in 0..N |-> PackedAt(F, texts, T, n)]
  BY <1>7, <1>8
<1> QED
  BY <1>7, <1>9 DEF IsPacked, N, D

\* The same, as the model writes it.
LEMMA PackedIs ==
  ASSUME NEW S, NEW texts \in SeqOver(SeqOver(S)), NEW T, NEW F \in [0..Len(texts) -> SeqOver(SeqOver(S))],
         IsPacked(F, texts, T), NEW n \in 0..Len(texts)
  PROVE  /\ n # 0 /\ F[n - 1] # <<>> => n \in DOMAIN texts /\ Last(F[n - 1]) \in SeqOver(S)
         /\ F[n] = IF n = 0 THEN <<>>
                   ELSE IF F[n - 1] # <<>> /\ <<Last(F[n - 1]), n>> \in T
                        THEN [F[n - 1] EXCEPT ![Len(F[n - 1])] = @ \o texts[n]] ELSE Append(F[n - 1], texts[n])
<1>1. F[n] = PackedAt(F, texts, T, n)
  BY DEF IsPacked
<1>2. ASSUME n # 0, F[n - 1] # <<>>
      PROVE  /\ n \in DOMAIN texts /\ Last(F[n - 1]) \in SeqOver(S)
             /\ WithLast(F[n - 1], Join(Last(F[n - 1]), texts[n])) = [F[n - 1] EXCEPT ![Len(F[n - 1])] = @ \o texts[n]]
  <2>1. n - 1 \in 0..Len(texts) /\ n \in DOMAIN texts
    BY <1>2, Items
  <2>2. F[n - 1] \in SeqOver(SeqOver(S))
    BY <2>1
  <2>3. Last(F[n - 1]) \in SeqOver(S) /\ Last(F[n - 1]) = F[n - 1][Len(F[n - 1])]
    BY <1>2, <2>2, LastType DEF Last
  <2>4. WithLast(F[n - 1], Join(Last(F[n - 1]), texts[n])) = [F[n - 1] EXCEPT ![Len(F[n - 1])] = @ \o texts[n]]
    BY <2>2, <2>3 DEF WithLast, Join, SeqOver
  <2> QED
    BY <2>1, <2>3, <2>4
<1> QED
  BY <1>1, <1>2 DEF PackedAt

LEMMA PackedSteps ==
  ASSUME NEW S, NEW texts \in SeqOver(SeqOver(S)), NEW T, NEW F, IsPacked(F, texts, T)
  PROVE  /\ F[0] = <<>>
         /\ \A n \in 0..(Len(texts) - 1) :
              F[n + 1] = IF F[n] # <<>> /\ <<Last(F[n]), n + 1>> \in T
                         THEN WithLast(F[n], Join(Last(F[n]), texts[n + 1])) ELSE Append(F[n], texts[n + 1])
<1>1. Len(texts) \in Nat
  BY Items
<1>2. \A n \in 0..Len(texts) : F[n] = PackedAt(F, texts, T, n)
  BY DEF IsPacked
<1>3. F[0] = <<>>
  <2>1. 0 \in 0..Len(texts)
    BY <1>1
  <2> QED
    BY <1>2, <2>1, Zenon DEF PackedAt
<1>4. ASSUME NEW n \in 0..(Len(texts) - 1)
      PROVE  F[n + 1] = IF F[n] # <<>> /\ <<Last(F[n]), n + 1>> \in T
                        THEN WithLast(F[n], Join(Last(F[n]), texts[n + 1])) ELSE Append(F[n], texts[n + 1])
  <2>1. n + 1 \in 0..Len(texts) /\ n + 1 # 0 /\ (n + 1) - 1 = n
    BY <1>1
  <2>2. F[n + 1] = PackedAt(F, texts, T, n + 1)
    BY <1>2, <2>1
  <2> QED
    BY <2>1, <2>2, Zenon DEF PackedAt
<1> QED
  BY <1>3, <1>4

\* What a set contains of which every text is, and every run that takes a text.
LEMMA PackedRuns ==
  ASSUME NEW S, NEW texts \in SeqOver(SeqOver(S)), NEW T, NEW runs, Packing(runs, texts, T), NEW G,
         \A k \in DOMAIN texts : texts[k] \in G,
         \A r \in G, k \in DOMAIN texts : r \in SeqOver(S) /\ <<r, k>> \in T => Join(r, texts[k]) \in G
  PROVE  runs \in SeqOver(SeqOver(S) \cap G)
<1> DEFINE N == Len(texts)
           A == SeqOver(S) \cap G
           D == SeqOver(A)
<1>1. N \in Nat /\ DOMAIN texts = 1..N /\ \A n \in 1..N : texts[n] \in SeqOver(S)
  BY Items
<1>2. PICK F : IsPacked(F, texts, T) /\ runs = F[N]
  BY DEF Packing
<1> DEFINE Typed == {n \in 0..N : F[n] \in D}
<1>3. 0 \in Typed
  BY <1>1, <1>2, PackedSteps, EmptyType
<1>4. ASSUME NEW n \in 0..(N - 1), n \in Typed PROVE n + 1 \in Typed
  <2> DEFINE a == F[n]
             t == texts[n + 1]
  <2>1. n + 1 \in DOMAIN texts /\ n + 1 \in 0..N /\ t \in SeqOver(S) /\ t \in G /\ a \in D
    BY <1>1, <1>4
  <2>2. F[n + 1] = IF a # <<>> /\ <<Last(a), n + 1>> \in T THEN WithLast(a, Join(Last(a), t)) ELSE Append(a, t)
    BY <1>2, PackedSteps
  <2> HIDE DEF t, a
  <2>3. CASE a # <<>> /\ <<Last(a), n + 1>> \in T
    <3>1. Last(a) \in A
      BY <2>1, <2>3, LastType DEF Last
    <3>2. Join(Last(a), t) \in SeqOver(S)
      BY <2>1, <3>1, JoinType
    <3>3. Join(Last(a), t) \in A
      BY <2>1, <2>3, <3>1, <3>2 DEF t
    <3>4. WithLast(a, Join(Last(a), t)) \in D
      BY <2>1, <2>3, <3>3, WithLastType
    <3> QED
      BY <2>1, <2>2, <2>3, <3>4
  <2>4. CASE ~(a # <<>> /\ <<Last(a), n + 1>> \in T)
    <3>1. Append(a, t) \in D
      BY <2>1, AppendType
    <3> QED
      BY <2>1, <2>2, <2>4, <3>1
  <2> QED
    BY <2>3, <2>4
<1>5. N \in Typed
  <2> HIDE DEF Typed
  <2>1. N \in 0..N
    BY <1>1
  <2> QED
    BY <1>1, <1>3, <1>4, <2>1, Climb
<1> QED
  BY <1>2, <1>5

\* Packing takes every text, once and in order.
LEMMA PackedAll ==
  ASSUME NEW S, NEW texts \in SeqOver(SeqOver(S)), NEW T, NEW runs, Packing(runs, texts, T)
  PROVE  FlattenSeq(runs) = FlattenSeq(texts)
<1> DEFINE N == Len(texts)
           D == SeqOver(SeqOver(S))
<1>1. N \in Nat /\ DOMAIN texts = 1..N /\ \A n \in 1..N : texts[n] \in SeqOver(S)
  BY Items
<1>2. PICK F : IsPacked(F, texts, T) /\ runs = F[N]
  BY DEF Packing
<1> DEFINE Fit == {n \in 0..N : F[n] \in D /\ FlattenSeq(F[n]) = FlattenSeq(SubSeq(texts, 1, n))}
<1>3. 0 \in Fit
  <2>1. F[0] = <<>> /\ SubSeq(texts, 1, 0) = <<>>
    BY <1>2, PackedSteps, Beginnings
  <2>2. 0 \in 0..N /\ <<>> \in D
    BY <1>1, EmptyType
  <2> QED
    BY <2>1, <2>2, Zenon
<1>4. ASSUME NEW n \in 0..(N - 1), n \in Fit PROVE n + 1 \in Fit
  <2> DEFINE a == F[n]
             t == texts[n + 1]
             b == SubSeq(texts, 1, n)
  <2>1. n + 1 \in 0..N /\ t \in SeqOver(S) /\ a \in D /\ FlattenSeq(a) = FlattenSeq(b) /\ n \in 0..N
    BY <1>1, <1>4
  <2>2. F[n + 1] = IF a # <<>> /\ <<Last(a), n + 1>> \in T THEN WithLast(a, Join(Last(a), t)) ELSE Append(a, t)
    BY <1>2, PackedSteps
  <2>3. b \in D /\ SubSeq(texts, 1, n + 1) = Append(b, t)
    BY <2>1, Beginnings
  <2> HIDE DEF t, a, b
  <2>4. FlattenSeq(Append(b, t)) = Join(FlattenSeq(b), t)
    BY <2>1, <2>3, FlattenAppend DEF SeqOver, Join
  <2>5. CASE a # <<>> /\ <<Last(a), n + 1>> \in T
    <3>1. Last(a) \in SeqOver(S) /\ Last(a) = a[Len(a)]
      BY <2>1, <2>5, LastType DEF Last
    <3> DEFINE y == Join(Last(a), t)
    <3>2. y \in SeqOver(S)
      BY <2>1, <3>1, JoinType
    <3> HIDE DEF y
    <3>3. PICK r \in D : a = Append(r, Last(a)) /\ WithLast(a, y) = Append(r, y)
      <4>1. PICK r \in D : a = Append(r, a[Len(a)]) /\ WithLast(a, y) = Append(r, y)
        <5>1. \A u \in SeqOver(SeqOver(S)), z \in SeqOver(S) : u # <<>> =>
                \E r \in SeqOver(SeqOver(S)) : u = Append(r, u[Len(u)]) /\ WithLast(u, z) = Append(r, z)
          BY LastReplaced
        <5> QED
          BY <2>1, <2>5, <3>2, <5>1, Zenon
      <4> QED
        BY <3>1, <4>1
    <3>4. WithLast(a, y) \in D
      BY <3>2, <3>3, AppendType
    <3>5. /\ FlattenSeq(r) \in SeqOver(S) /\ FlattenSeq(Append(r, y)) = Join(FlattenSeq(r), y)
          /\ FlattenSeq(Append(r, Last(a))) = Join(FlattenSeq(r), Last(a))
      BY <3>1, <3>2, FlattenAppend DEF SeqOver, Join
    <3>6. Join(FlattenSeq(r), y) = Join(Join(FlattenSeq(r), Last(a)), t)
      BY <2>1, <3>1, <3>5, JoinAssociative DEF y
    <3>7. FlattenSeq(WithLast(a, y)) = FlattenSeq(Append(b, t))
      BY <2>1, <2>4, <3>3, <3>5, <3>6
    <3>8. F[n + 1] = WithLast(a, y)
      BY <2>2, <2>5 DEF y
    <3> QED
      BY <2>1, <2>3, <3>4, <3>7, <3>8
  <2>6. CASE ~(a # <<>> /\ <<Last(a), n + 1>> \in T)
    <3>1. Append(a, t) \in D
      BY <2>1, AppendType
    <3>2. FlattenSeq(Append(a, t)) = Join(FlattenSeq(a), t)
      BY <2>1, FlattenAppend DEF SeqOver, Join
    <3> QED
      BY <2>1, <2>2, <2>3, <2>4, <2>6, <3>1, <3>2
  <2> QED
    BY <2>5, <2>6
<1>5. N \in Fit
  <2> HIDE DEF Fit
  <2>1. N \in 0..N
    BY <1>1
  <2> QED
    BY <1>1, <1>3, <1>4, <2>1, Climb
<1> QED
  BY <1>2, <1>5, Beginnings

Refused(s, texts, T) == \A k \in 1..(Len(s) - 1) : \E n \in DOMAIN texts : <<s[k], n>> \notin T

\* A run that is not the last has refused a text.
LEMMA PackedFull ==
  ASSUME NEW S, NEW texts \in SeqOver(SeqOver(S)), NEW T, NEW runs, Packing(runs, texts, T)
  PROVE  runs \in SeqOver(SeqOver(S)) /\ Refused(runs, texts, T)
<1> DEFINE N == Len(texts)
           D == SeqOver(SeqOver(S))
<1>1. N \in Nat /\ DOMAIN texts = 1..N /\ \A n \in 1..N : texts[n] \in SeqOver(S)
  BY Items
<1>2. PICK F : IsPacked(F, texts, T) /\ runs = F[N]
  BY DEF Packing
<1> DEFINE Fit == {n \in 0..N : F[n] \in D /\ Refused(F[n], texts, T)}
<1>3. 0 \in Fit
  <2>1. F[0] = <<>> /\ Len(<<>>) = 0 /\ <<>> \in D
    BY <1>2, PackedSteps, EmptyType
  <2>2. Refused(<<>>, texts, T) /\ 0 \in 0..N
    BY <1>1 DEF Refused
  <2> QED
    BY <2>1, <2>2, Zenon
<1>4. ASSUME NEW n \in 0..(N - 1), n \in Fit PROVE n + 1 \in Fit
  <2> DEFINE a == F[n]
             t == texts[n + 1]
  <2>1. n + 1 \in DOMAIN texts /\ n + 1 \in 0..N /\ t \in SeqOver(S) /\ a \in D /\ Refused(a, texts, T)
    BY <1>1, <1>4
  <2>2. F[n + 1] = IF a # <<>> /\ <<Last(a), n + 1>> \in T THEN WithLast(a, Join(Last(a), t)) ELSE Append(a, t)
    BY <1>2, PackedSteps
  <2>3. Len(a) \in Nat
    BY <2>1, Items
  <2> HIDE DEF t, a
  <2>4. CASE a # <<>> /\ <<Last(a), n + 1>> \in T
    <3>1. Last(a) \in SeqOver(S)
      BY <2>1, <2>4, LastType DEF Last
    <3> DEFINE y == Join(Last(a), t)
    <3>2. y \in SeqOver(S)
      BY <2>1, <3>1, JoinType
    <3> HIDE DEF y
    <3>3. WithLast(a, y) \in D
      BY <2>1, <2>4, <3>2, WithLastType
    <3>4. Len(WithLast(a, y)) = Len(a) /\ \A k \in 1..(Len(a) - 1) : WithLast(a, y)[k] = a[k]
      BY <2>1 DEF WithLast, SeqOver
    <3>5. Refused(WithLast(a, y), texts, T)
      BY <2>1, <3>4 DEF Refused
    <3> QED
      BY <2>1, <2>2, <2>4, <3>3, <3>5 DEF y
  <2>5. CASE ~(a # <<>> /\ <<Last(a), n + 1>> \in T)
    <3>1. Append(a, t) \in D
      BY <2>1, AppendType
    <3>2. Len(Append(a, t)) = Len(a) + 1 /\ \A k \in 1..Len(a) : Append(a, t)[k] = a[k]
      BY <2>1 DEF SeqOver
    <3>3. a # <<>> => <<a[Len(a)], n + 1>> \notin T
      BY <2>5 DEF Last
    <3>4. ASSUME NEW k \in 1..Len(a) PROVE \E m \in DOMAIN texts : <<a[k], m>> \notin T
      <4>1. CASE k = Len(a)
        <5>1. a # <<>>
          BY <4>1, <2>3
        <5> QED
          BY <2>1, <3>3, <4>1, <5>1
      <4>2. CASE k # Len(a)
        <5>1. k \in 1..(Len(a) - 1)
          BY <2>3, <4>2
        <5> QED
          BY <2>1, <5>1, Zenon DEF Refused
      <4> QED
        BY <4>1, <4>2
    <3>5. Refused(Append(a, t), texts, T)
      <4>1. (Len(a) + 1) - 1 = Len(a)
        BY <2>3
      <4> QED
        BY <3>2, <3>4, <4>1 DEF Refused
    <3> QED
      BY <2>1, <2>2, <2>5, <3>1, <3>5
  <2> QED
    BY <2>4, <2>5
<1>5. N \in Fit
  <2> HIDE DEF Fit
  <2>1. N \in 0..N
    BY <1>1
  <2> QED
    BY <1>1, <1>3, <1>4, <2>1, Climb
<1> QED
  BY <1>2, <1>5

LEMMA SinglesAre ==
  ASSUME NEW S, NEW seq \in SeqOver(S)
  PROVE  /\ Singles(seq) \in SeqOver(SeqOver(S)) /\ DOMAIN Singles(seq) = DOMAIN seq /\ Len(Singles(seq)) = Len(seq)
         /\ FlattenSeq(Singles(seq)) = seq /\ \A k \in DOMAIN seq : Singles(seq)[k] = <<seq[k]>>
<1> DEFINE f == [x \in S |-> <<x>>]
<1>1. Len(seq) \in Nat /\ DOMAIN seq = 1..Len(seq) /\ \A k \in DOMAIN seq : seq[k] \in S /\ <<seq[k]>> \in SeqOver(S)
  BY Items, OneType
<1>2. Singles(seq) \in [1..Len(seq) -> SeqOver(S)]
  BY <1>1 DEF Singles
<1>3. Singles(seq) \in SeqOver(SeqOver(S)) /\ DOMAIN Singles(seq) = DOMAIN seq /\ Len(Singles(seq)) = Len(seq)
  <2>1. Singles(seq) \in SeqOver(SeqOver(S))
    BY <1>1, <1>2, Listed
  <2> QED
    BY <1>1, <1>2, <2>1, Items
<1>4. f = Keep(S, S)
  BY DEF Keep
<1>5. Gather(f, seq) = Only(seq, S)
  BY <1>4, OnlyIsGather
<1>6. Only(seq, S) = seq
  BY OnlyAll, ToSetType
<1>7. Singles(seq) = [k \in DOMAIN seq |-> f[seq[k]]]
  BY <1>1 DEF Singles
<1>8. FlattenSeq(Singles(seq)) = seq
  BY <1>5, <1>6, <1>7, Zenon DEF Gather
<1> QED
  BY <1>1, <1>3, <1>8 DEF Singles
=============================================================================
