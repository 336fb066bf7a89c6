----------------------------- MODULE DataLemmas -----------------------------
(***************************************************************************)
(* Facts about numbers and sequences that the proofs of several components *)
(* rest on.  Induction comes from the library's theorem that a             *)
(* well-founded relation has minimal elements.                             *)
(***************************************************************************)
EXTENDS SequencesExt, SequenceTheorems, WellFoundedInduction, TLAPS

(* A set of natural numbers has a least one. *)
LEMMA LeastNumber ==
    ASSUME NEW S, S \subseteq Nat, S # {}
    PROVE  \E x \in S : \A y \in S : x =< y
<1> DEFINE Below == OpToRel(<, Nat)
<1>1. IsWellFoundedOn(Below, Nat)
  BY NatLessThanWellFounded DEF OpToRel
<1>2. \A x, y \in Nat : x < y => <<x, y>> \in Below
  BY DEF OpToRel
<1> HIDE DEF Below
<1>3. PICK x \in S : \A y \in S : ~(<<y, x>> \in Below)
  BY <1>1, WFMin, Zenon
<1>4. ASSUME NEW y \in S PROVE x =< y
  <2>1. x \in Nat /\ y \in Nat /\ ~(<<y, x>> \in Below)
    BY <1>3
  <2>2. ~(y < x)
    BY <2>1, <1>2, Zenon
  <2> QED BY <2>1, <2>2
<1> QED BY <1>4

(* Induction on the natural numbers: a set that has 0 and with each number *)
(* the next has them all.                                                  *)
LEMMA Inductive ==
    ASSUME NEW S, S \subseteq Nat, 0 \in S, \A n \in S : n + 1 \in S
    PROVE  \A n \in Nat : n \in S
<1> SUFFICES ASSUME Nat \ S # {} PROVE FALSE
    OBVIOUS
<1>1. PICK x \in Nat \ S : \A y \in Nat \ S : x =< y
  BY LeastNumber, Nat \ S \subseteq Nat
<1>2. x - 1 \in Nat /\ x - 1 \in S
  BY <1>1
<1>3. (x - 1) + 1 = x
  BY <1>1
<1> QED BY <1>1, <1>2, <1>3

-----------------------------------------------------------------------------
(* FlattenSeq, by its prefixes. *)

(* F[i] is the concatenation of the first i parts of S. *)
RunningConcat(F, X, S) ==
    /\ F[0] = <<>>
    /\ \A i \in 1..Len(S) : F[i] = F[i - 1] \o S[i]
    /\ \A i \in 0..Len(S) : F[i] \in Seq(X)
    /\ FlattenSeq(S) = F[Len(S)]

IsConcat(g, S, n) ==
    g = [i \in 1..n |-> IF i = 1 THEN S[i] ELSE g[i - 1] \o S[i]]

(* The prefixes of a concatenation exist for every sequence of sequences. *)
LEMMA ConcatExists ==
    ASSUME NEW S
    PROVE  \A n \in Nat : \E g : IsConcat(g, S, n)
<1> DEFINE N == {n \in Nat : \E g : IsConcat(g, S, n)}
<1>1. 0 \in N
  <2> DEFINE g == [i \in 1..0 |-> <<>>]
  <2>1. IsConcat(g, S, 0)
    BY DEF IsConcat
  <2> QED BY <2>1
<1>2. ASSUME NEW n \in N PROVE n + 1 \in N
  <2>1. PICK g : IsConcat(g, S, n)
    OBVIOUS
  <2> DEFINE h == [i \in 1..(n + 1) |->
                      IF i = n + 1 THEN IF n = 0 THEN S[1] ELSE g[n] \o S[n + 1]
                                   ELSE g[i]]
  <2>2. \A i \in 1..n : g[i] = IF i = 1 THEN S[i] ELSE g[i - 1] \o S[i]
    BY <2>1 DEF IsConcat
  <2>3. ASSUME NEW i \in 1..(n + 1)
        PROVE  h[i] = IF i = 1 THEN S[i] ELSE h[i - 1] \o S[i]
    <3>1. CASE i = n + 1 /\ n = 0
      BY <3>1
    <3>2. CASE i = n + 1 /\ n # 0
      <4>1. i # 1 /\ i - 1 = n /\ n \in 1..(n + 1) /\ n # n + 1
        BY <3>2
      <4> QED BY <3>2, <4>1
    <3>3. CASE i # n + 1
      <4>1. i \in 1..n /\ (i # 1 => i - 1 \in 1..(n + 1) /\ i - 1 # n + 1)
        BY <3>3
      <4> QED BY <3>3, <4>1, <2>2
    <3> QED BY <3>1, <3>2, <3>3
  <2>4. IsConcat(h, S, n + 1)
    BY <2>3 DEF IsConcat
  <2> QED BY <2>4
<1> HIDE DEF N
<1>3. \A n \in Nat : n \in N
  BY <1>1, <1>2, Inductive DEF N
<1> QED BY <1>3 DEF N

(* Every sequence of sequences has its prefixes. *)
LEMMA Flattened ==
    ASSUME NEW X, NEW S \in Seq(Seq(X))
    PROVE  \E F : RunningConcat(F, X, S)
<1> DEFINE n == Len(S)
           g == CHOOSE f : IsConcat(f, S, n)
           F == [i \in 0..n |-> IF i = 0 THEN <<>> ELSE g[i]]
<1>1. n \in Nat /\ \A i \in 1..n : S[i] \in Seq(X)
  BY LenProperties, ElementOfSeq
<1>2. IsConcat(g, S, n)
  BY <1>1, ConcatExists
<1>3. \A i \in 1..n : g[i] = IF i = 1 THEN S[i] ELSE g[i - 1] \o S[i]
  BY <1>2 DEF IsConcat
<1>4. FlattenSeq(S) = IF n = 0 THEN S ELSE g[n]
  BY DEF FlattenSeq, IsConcat
<1> HIDE DEF g
<1>5. \A i \in 1..n : F[i] = g[i]
  BY <1>1
<1>6. F[0] = <<>>
  BY <1>1
<1>7. ASSUME NEW i \in 1..n PROVE F[i] = F[i - 1] \o S[i]
  <2>1. CASE i = 1
    <3>1. F[i] = S[1] /\ F[i - 1] = <<>>
      BY <1>1, <1>3, <1>5, <1>6, <2>1
    <3>2. S[1] \in Seq(X)
      BY <1>1, <2>1
    <3> QED BY <2>1, <3>1, <3>2, ConcatEmptySeq
  <2>2. CASE i # 1
    <3>1. i - 1 \in 1..n
      BY <1>1, <2>2
    <3> QED BY <1>3, <1>5, <2>2, <3>1
  <2> QED BY <2>1, <2>2
<1> HIDE DEF F
<1>8. \A i \in 0..n : F[i] \in Seq(X)
  <2> DEFINE N == {i \in Nat : i <= n => F[i] \in Seq(X)}
  <2>1. 0 \in N
    BY <1>6, EmptySeq
  <2>2. ASSUME NEW i \in N PROVE i + 1 \in N
    <3> SUFFICES ASSUME i + 1 <= n PROVE F[i + 1] \in Seq(X)
        OBVIOUS
    <3>1. i + 1 \in 1..n /\ (i + 1) - 1 = i
      BY <1>1
    <3>2. F[i + 1] = F[i] \o S[i + 1]
      BY <1>7, <3>1
    <3>3. F[i] \in Seq(X) /\ S[i + 1] \in Seq(X)
      BY <1>1, <3>1
    <3> QED BY <3>2, <3>3, ConcatProperties
  <2> HIDE DEF N
  <2>3. \A i \in Nat : i \in N
    BY <2>1, <2>2, Inductive DEF N
  <2> QED BY <1>1, <2>3 DEF N
<1>9. FlattenSeq(S) = F[n]
  <2>1. CASE n = 0
    BY <1>4, <1>6, <2>1, EmptySeq
  <2>2. CASE n # 0
    <3>1. n \in 1..n
      BY <1>1, <2>2
    <3> QED BY <1>4, <1>5, <2>2, <3>1
  <2> QED BY <2>1, <2>2
<1> QED BY <1>6, <1>7, <1>8, <1>9 DEF RunningConcat

(* The first m parts are where they should be in the m-th prefix. *)
Placed(F, S, m) ==
    /\ \A i \in 0..m : Len(F[i]) <= Len(F[m])
    /\ \A i \in 1..m : \A q \in 1..Len(S[i]) :
          /\ Len(F[i - 1]) + q \in 1..Len(F[m])
          /\ F[m][Len(F[i - 1]) + q] = S[i][q]
    /\ \A p \in 1..Len(F[m]) :
          \E i \in 1..m : \E q \in 1..Len(S[i]) : p = Len(F[i - 1]) + q

(* Where the parts are in the concatenation c: part i is behind the first  *)
(* i - 1, and every element belongs to a part.                             *)
LaidOut(F, S, c) ==
    /\ Len(F[0]) = 0
    /\ Len(F[Len(S)]) = Len(c)
    /\ \A i \in 1..Len(S) : Len(F[i]) = Len(F[i - 1]) + Len(S[i])
    /\ \A i \in 0..Len(S) : Len(F[i]) \in Nat
    /\ \A j \in 0..Len(S) : \A i \in 0..j : Len(F[i]) <= Len(F[j])
    /\ \A i \in 1..Len(S) : \A q \in 1..Len(S[i]) : c[Len(F[i - 1]) + q] = S[i][q]
    /\ \A p \in 1..Len(c) :
          \E i \in 1..Len(S) : \E q \in 1..Len(S[i]) : p = Len(F[i - 1]) + q

(* Where each part lies in the concatenation. *)
LEMMA Layout ==
    ASSUME NEW X, NEW S \in Seq(Seq(X)), NEW F, RunningConcat(F, X, S)
    PROVE  LaidOut(F, S, FlattenSeq(S))
<1> DEFINE n == Len(S)
<1>1. n \in Nat /\ \A i \in 1..n : S[i] \in Seq(X) /\ Len(S[i]) \in Nat
  BY LenProperties, ElementOfSeq
<1>2. /\ F[0] = <<>>
      /\ \A i \in 1..n : F[i] = F[i - 1] \o S[i]
      /\ \A i \in 0..n : F[i] \in Seq(X) /\ Len(F[i]) \in Nat
      /\ FlattenSeq(S) = F[n]
  BY LenProperties DEF RunningConcat
<1>3. Len(F[0]) = 0
  BY <1>2, EmptySeq
<1> HIDE DEF n
<1>4. ASSUME NEW i \in 1..n
      PROVE  /\ Len(F[i]) = Len(F[i - 1]) + Len(S[i])
             /\ \A p \in 1..Len(F[i - 1]) : F[i][p] = F[i - 1][p]
             /\ \A q \in 1..Len(S[i]) : F[i][Len(F[i - 1]) + q] = S[i][q]
  <2> DEFINE a == F[i - 1]
             b == S[i]
  <2>1. a \in Seq(X) /\ b \in Seq(X) /\ Len(a) \in Nat /\ Len(b) \in Nat /\ F[i] = a \o b
    <3>1. i - 1 \in 0..n /\ i \in 0..n
      BY <1>1
    <3> QED BY <1>1, <1>2, <3>1
  <2> HIDE DEF a, b
  <2>2. /\ Len(a \o b) = Len(a) + Len(b)
        /\ \A p \in 1..(Len(a) + Len(b)) :
              (a \o b)[p] = IF p <= Len(a) THEN a[p] ELSE b[p - Len(a)]
    BY <2>1, ConcatProperties
  <2>3. ASSUME NEW p \in 1..Len(a) PROVE F[i][p] = a[p]
    BY <2>1, <2>2
  <2>4. ASSUME NEW q \in 1..Len(b) PROVE F[i][Len(a) + q] = b[q]
    <3>1. /\ Len(a) + q \in 1..(Len(a) + Len(b)) /\ ~(Len(a) + q <= Len(a))
          /\ (Len(a) + q) - Len(a) = q
      BY <2>1
    <3> QED BY <2>1, <2>2, <3>1
  <2> QED BY <2>1, <2>2, <2>3, <2>4 DEF a, b
<1> DEFINE N == {m \in Nat : m <= n => Placed(F, S, m)}
<1>5. 0 \in N
  BY <1>3 DEF Placed
<1>6. ASSUME NEW m \in N PROVE m + 1 \in N
  <2> SUFFICES ASSUME m + 1 <= n PROVE Placed(F, S, m + 1)
      OBVIOUS
  <2> DEFINE j == m + 1
             lm == Len(F[m])
             lj == Len(F[j])
             lp == Len(S[j])
  <2>1. Placed(F, S, m) /\ m \in Nat /\ m \in 0..n
    BY <1>1
  <2>2. j \in 1..n /\ j - 1 = m /\ j = m + 1 /\ j \in 0..n
    BY <1>1
  <2> HIDE DEF N, j
  <2>3. /\ lj = lm + lp
        /\ \A p \in 1..lm : F[j][p] = F[m][p]
        /\ \A q \in 1..lp : F[j][lm + q] = S[j][q]
    <3>1. /\ lj = Len(F[j - 1]) + lp
          /\ \A p \in 1..Len(F[j - 1]) : F[j][p] = F[j - 1][p]
          /\ \A q \in 1..lp : F[j][Len(F[j - 1]) + q] = S[j][q]
      BY <1>4, <2>2
    <3> QED BY <2>2, <3>1
  <2>4. lm \in Nat /\ lj \in Nat /\ lp \in Nat
    BY <1>1, <1>2, <2>1, <2>2
  <2> HIDE DEF lm, lj, lp
  <2>5. ASSUME NEW i \in 0..j PROVE Len(F[i]) <= lj
    <3>1. CASE i = j
      BY <2>4, <3>1 DEF lj
    <3>2. CASE i # j
      <4>1. i \in 0..m /\ i \in 0..n
        BY <2>1, <2>2, <3>2, <1>1
      <4>2. Len(F[i]) <= lm /\ Len(F[i]) \in Nat
        BY <1>2, <2>1, <4>1 DEF Placed, lm
      <4> QED BY <2>3, <2>4, <4>2
    <3> QED BY <3>1, <3>2
  <2>6. ASSUME NEW i \in 1..j, NEW q \in 1..Len(S[i])
        PROVE  Len(F[i - 1]) + q \in 1..lj /\ F[j][Len(F[i - 1]) + q] = S[i][q]
    <3>1. CASE i = j
      <4>1. q \in 1..lp /\ Len(F[i - 1]) = lm
        BY <2>2, <3>1 DEF lp, lm
      <4>2. lm + q \in 1..lj
        BY <2>3, <2>4, <4>1
      <4>3. F[j][lm + q] = S[j][q]
        BY <2>3, <4>1
      <4> QED BY <3>1, <4>1, <4>2, <4>3
    <3>2. CASE i # j
      <4>1. i \in 1..m
        BY <2>1, <2>2, <3>2
      <4>2. Len(F[i - 1]) + q \in 1..lm /\ F[m][Len(F[i - 1]) + q] = S[i][q]
        BY <2>1, <4>1 DEF Placed, lm
      <4>3. Len(F[i - 1]) + q \in 1..lj
        BY <2>3, <2>4, <4>2
      <4> QED BY <2>3, <4>2, <4>3
    <3> QED BY <3>1, <3>2
  <2>7. ASSUME NEW p \in 1..lj
        PROVE  \E i \in 1..j : \E q \in 1..Len(S[i]) : p = Len(F[i - 1]) + q
    <3>1. CASE p <= lm
      <4>1. p \in 1..lm
        BY <2>4, <3>1
      <4>2. PICK i \in 1..m : \E q \in 1..Len(S[i]) : p = Len(F[i - 1]) + q
        BY <2>1, <4>1 DEF Placed, lm
      <4>3. i \in 1..j
        BY <2>1, <2>2, <4>2
      <4> QED BY <4>2, <4>3
    <3>2. CASE ~(p <= lm)
      <4>1. p - lm \in 1..lp /\ p = lm + (p - lm)
        BY <2>3, <2>4, <3>2
      <4>2. j \in 1..j /\ lm = Len(F[j - 1]) /\ lp = Len(S[j])
        BY <2>1, <2>2 DEF lm, lp
      <4> QED BY <4>1, <4>2
    <3> QED BY <3>1, <3>2
  <2>8. Placed(F, S, j)
    BY <2>5, <2>6, <2>7 DEF Placed, lj
  <2> QED BY <2>8 DEF j
<1> HIDE DEF N
<1>7. \A m \in Nat : m \in N
  BY <1>5, <1>6, Inductive DEF N
<1>8. \A m \in 0..n : Placed(F, S, m)
  BY <1>1, <1>7 DEF N
<1>9. n \in 0..n
  BY <1>1
<1>10. /\ \A j \in 0..n : \A i \in 0..j : Len(F[i]) <= Len(F[j])
       /\ \A i \in 1..n : \A q \in 1..Len(S[i]) : F[n][Len(F[i - 1]) + q] = S[i][q]
       /\ \A p \in 1..Len(F[n]) :
             \E i \in 1..n : \E q \in 1..Len(S[i]) : p = Len(F[i - 1]) + q
  BY <1>8, <1>9 DEF Placed
<1> QED BY <1>2, <1>3, <1>4, <1>10 DEF n, LaidOut

-----------------------------------------------------------------------------
(* Two lists together have the members of both. *)
LEMMA ConcatRange ==
    ASSUME NEW X, NEW s \in Seq(X), NEW u \in Seq(X)
    PROVE  Range(s \o u) = Range(s) \cup Range(u)
<1> DEFINE c == s \o u
<1>1. /\ c \in Seq(X) /\ Len(c) = Len(s) + Len(u)
      /\ \A i \in 1..(Len(s) + Len(u)) :
             c[i] = IF i <= Len(s) THEN s[i] ELSE u[i - Len(s)]
      /\ Len(s) \in Nat /\ Len(u) \in Nat
  BY ConcatProperties
<1>2. DOMAIN c = 1..(Len(s) + Len(u)) /\ DOMAIN s = 1..Len(s) /\ DOMAIN u = 1..Len(u)
  BY <1>1
<1> HIDE DEF c
<1>3. ASSUME NEW x \in Range(c) PROVE x \in Range(s) \cup Range(u)
  <2>1. PICK i \in 1..(Len(s) + Len(u)) : c[i] = x
    BY <1>2 DEF Range
  <2>2. CASE i <= Len(s)
    <3>1. i \in DOMAIN s /\ s[i] = x
      BY <1>1, <1>2, <2>1, <2>2
    <3> QED BY <3>1 DEF Range
  <2>3. CASE ~(i <= Len(s))
    <3>1. i - Len(s) \in DOMAIN u /\ u[i - Len(s)] = x
      BY <1>1, <1>2, <2>1, <2>3
    <3> QED BY <3>1 DEF Range
  <2> QED BY <2>2, <2>3
<1>4. ASSUME NEW x \in Range(s) PROVE x \in Range(c)
  <2>1. PICK i \in 1..Len(s) : s[i] = x
    BY <1>2 DEF Range
  <2>2. i \in DOMAIN c /\ c[i] = x
    BY <1>1, <1>2, <2>1
  <2> QED BY <2>2 DEF Range
<1>5. ASSUME NEW x \in Range(u) PROVE x \in Range(c)
  <2>1. PICK i \in 1..Len(u) : u[i] = x
    BY <1>2 DEF Range
  <2>2. Len(s) + i \in 1..(Len(s) + Len(u)) /\ ~(Len(s) + i <= Len(s))
        /\ (Len(s) + i) - Len(s) = i
    BY <1>1, <2>1
  <2>3. Len(s) + i \in DOMAIN c /\ c[Len(s) + i] = x
    BY <1>1, <1>2, <2>1, <2>2
  <2> QED BY <2>3 DEF Range
<1> QED BY <1>3, <1>4, <1>5 DEF c
=============================================================================
