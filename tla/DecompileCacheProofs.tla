------------------------ MODULE DecompileCacheProofs ------------------------
(***************************************************************************)
(* Proofs about DecompileCache, for any keys, sizes, cap and callers.      *)
(***************************************************************************)
EXTENDS DecompileCache, DataLemmas

-----------------------------------------------------------------------------
(* Freed: the sum of the sizes of the first keys. *)

IsSum(g, s, sz, n) ==
    g = [i \in 0..n |-> IF i = 0 THEN 0 ELSE g[i - 1] + sz[s[i]]]

(* A running sum exists for every sequence of keys. *)
LEMMA SumExists ==
    ASSUME NEW s, NEW sz
    PROVE  \A n \in Nat : \E g : IsSum(g, s, sz, n)
<1> DEFINE S == {n \in Nat : \E g : IsSum(g, s, sz, n)}
<1>1. 0 \in S
  <2> DEFINE g == [i \in 0..0 |-> 0]
  <2>1. IsSum(g, s, sz, 0)
    BY DEF IsSum
  <2> QED BY <2>1
<1>2. ASSUME NEW n \in S PROVE n + 1 \in S
  <2>1. PICK g : IsSum(g, s, sz, n)
    OBVIOUS
  <2> DEFINE h == [i \in 0..(n + 1) |-> IF i = n + 1 THEN g[n] + sz[s[n + 1]] ELSE g[i]]
  <2>2. \A i \in 0..n : g[i] = IF i = 0 THEN 0 ELSE g[i - 1] + sz[s[i]]
    BY <2>1 DEF IsSum
  <2>3. \A i \in 0..(n + 1) : h[i] = IF i = 0 THEN 0 ELSE h[i - 1] + sz[s[i]]
    <3> SUFFICES ASSUME NEW i \in 0..(n + 1)
                 PROVE  h[i] = IF i = 0 THEN 0 ELSE h[i - 1] + sz[s[i]]
        OBVIOUS
    <3>1. CASE i = n + 1
      <4>1. i # 0 /\ i - 1 = n /\ n \in 0..(n + 1) /\ n # n + 1
        BY <3>1
      <4> QED BY <3>1, <4>1
    <3>2. CASE i # n + 1
      <4>1. i \in 0..n /\ (i # 0 => i - 1 \in 0..(n + 1) /\ i - 1 # n + 1)
        BY <3>2
      <4> QED BY <3>2, <4>1, <2>2
    <3> QED BY <3>1, <3>2
  <2>4. IsSum(h, s, sz, n + 1)
    BY <2>3 DEF IsSum
  <2> QED BY <2>4
<1> HIDE DEF S
<1>3. \A n \in Nat : n \in S
  BY <1>1, <1>2, Inductive DEF S
<1> QED BY <1>3 DEF S

(* ... and there is only one. *)
LEMMA SumUnique ==
    ASSUME NEW s, NEW sz, NEW n \in Nat, NEW m \in Nat,
           NEW g, NEW h, IsSum(g, s, sz, n), IsSum(h, s, sz, m)
    PROVE  \A i \in Nat : i <= n /\ i <= m => g[i] = h[i]
<1> DEFINE S == {i \in Nat : i <= n /\ i <= m => g[i] = h[i]}
<1>1. /\ \A i \in 0..n : g[i] = IF i = 0 THEN 0 ELSE g[i - 1] + sz[s[i]]
      /\ \A i \in 0..m : h[i] = IF i = 0 THEN 0 ELSE h[i - 1] + sz[s[i]]
  BY DEF IsSum
<1>2. 0 \in S
  BY <1>1
<1>3. ASSUME NEW i \in S PROVE i + 1 \in S
  <2> SUFFICES ASSUME i + 1 <= n, i + 1 <= m PROVE g[i + 1] = h[i + 1]
      OBVIOUS
  <2>1. g[i] = h[i] /\ i + 1 \in 0..n /\ i + 1 \in 0..m /\ (i + 1) - 1 = i /\ i + 1 # 0
    OBVIOUS
  <2> QED BY <1>1, <2>1
<1> HIDE DEF S
<1>4. \A i \in Nat : i \in S
  BY <1>2, <1>3, Inductive DEF S
<1> QED BY <1>4 DEF S

(* Freed is such a running sum. *)
LEMMA FreedSum ==
    ASSUME NEW s, NEW sz, NEW n \in Nat
    PROVE  \E g : IsSum(g, s, sz, n) /\ Freed(s, sz, n) = g[n]
<1> DEFINE g == CHOOSE f : IsSum(f, s, sz, n)
<1>1. IsSum(g, s, sz, n)
  BY SumExists
<1>2. Freed(s, sz, n) = g[n]
  BY DEF Freed, IsSum
<1> QED BY <1>1, <1>2

(* What one more eviction frees. *)
LEMMA FreedRecursive ==
    ASSUME NEW s, NEW sz, NEW n \in Nat
    PROVE  /\ Freed(s, sz, 0) = 0
           /\ Freed(s, sz, n + 1) = Freed(s, sz, n) + sz[s[n + 1]]
<1>1. Freed(s, sz, 0) = 0
  BY FreedSum DEF IsSum
<1>2. PICK g : IsSum(g, s, sz, n) /\ Freed(s, sz, n) = g[n]
  BY FreedSum
<1>3. PICK h : IsSum(h, s, sz, n + 1) /\ Freed(s, sz, n + 1) = h[n + 1]
  BY FreedSum
<1>4. g[n] = h[n]
  BY <1>2, <1>3, SumUnique
<1>5. h[n + 1] = h[n] + sz[s[n + 1]]
  BY <1>3 DEF IsSum
<1> QED BY <1>1, <1>2, <1>3, <1>4, <1>5

(* A sum of sizes is a number. *)
LEMMA FreedType ==
    ASSUME NEW s, NEW sz, NEW n \in Nat, \A i \in 1..n : sz[s[i]] \in Nat
    PROVE  \A m \in 0..n : Freed(s, sz, m) \in Nat
<1> DEFINE S == {m \in Nat : m <= n => Freed(s, sz, m) \in Nat}
<1>1. 0 \in S
  BY FreedRecursive
<1>2. ASSUME NEW m \in S PROVE m + 1 \in S
  <2> SUFFICES ASSUME m + 1 <= n PROVE Freed(s, sz, m + 1) \in Nat
      OBVIOUS
  <2>1. Freed(s, sz, m) \in Nat /\ sz[s[m + 1]] \in Nat
    OBVIOUS
  <2> QED BY <2>1, FreedRecursive
<1> HIDE DEF S
<1>3. \A m \in Nat : m \in S
  BY <1>1, <1>2, Inductive DEF S
<1> QED BY <1>3 DEF S

(* s after its first c keys up to ce, and t after d up to de, have the     *)
(* same sizes.                                                             *)
SameSegment(s, sz, c, ce, t, tz, d, de) ==
    /\ c \in Nat /\ ce \in Nat /\ d \in Nat /\ de \in Nat
    /\ c <= ce /\ ce - c = de - d
    /\ \A i \in 1..ce : sz[s[i]] \in Nat
    /\ \A i \in 1..de : tz[t[i]] \in Nat
    /\ \A i \in (c + 1)..ce : sz[s[i]] = tz[t[(i - c) + d]]

(* Two such segments add up to the same. *)
LEMMA Segments ==
    ASSUME NEW s, NEW sz, NEW c, NEW ce, NEW t, NEW tz, NEW d, NEW de,
           SameSegment(s, sz, c, ce, t, tz, d, de)
    PROVE  Freed(s, sz, ce) - Freed(s, sz, c) = Freed(t, tz, de) - Freed(t, tz, d)
<1>0. /\ c \in Nat /\ ce \in Nat /\ d \in Nat /\ de \in Nat
      /\ c <= ce /\ ce - c = de - d
      /\ \A i \in 1..ce : sz[s[i]] \in Nat
      /\ \A i \in 1..de : tz[t[i]] \in Nat
      /\ \A i \in (c + 1)..ce : sz[s[i]] = tz[t[(i - c) + d]]
  BY DEF SameSegment
<1> DEFINE S == {m \in Nat : c + m <= ce => Freed(s, sz, c + m) - Freed(s, sz, c)
                                             = Freed(t, tz, d + m) - Freed(t, tz, d)}
<1>1. /\ \A m \in 0..ce : Freed(s, sz, m) \in Nat
      /\ \A m \in 0..de : Freed(t, tz, m) \in Nat
  BY <1>0, FreedType
<1>2. 0 \in S
  <2>1. c + 0 = c /\ d + 0 = d /\ c \in 0..ce /\ d \in 0..de
    BY <1>0
  <2>2. Freed(s, sz, c) - Freed(s, sz, c) = Freed(t, tz, d) - Freed(t, tz, d)
    BY <1>1, <2>1
  <2> QED BY <2>1, <2>2
<1>3. ASSUME NEW m \in S PROVE m + 1 \in S
  <2> SUFFICES ASSUME c + (m + 1) <= ce
               PROVE  Freed(s, sz, c + (m + 1)) - Freed(s, sz, c)
                      = Freed(t, tz, d + (m + 1)) - Freed(t, tz, d)
      OBVIOUS
  <2>1. /\ c + m \in Nat /\ d + m \in Nat /\ c + m <= ce
        /\ c + (m + 1) = (c + m) + 1 /\ d + (m + 1) = (d + m) + 1
        /\ c \in 0..ce /\ c + m \in 0..ce /\ (c + m) + 1 \in (c + 1)..ce
        /\ d \in 0..de /\ d + m \in 0..de /\ (d + m) + 1 \in 1..de
        /\ (((c + m) + 1) - c) + d = (d + m) + 1
    BY <1>0
  <2>2. /\ Freed(s, sz, (c + m) + 1) = Freed(s, sz, c + m) + sz[s[(c + m) + 1]]
        /\ Freed(t, tz, (d + m) + 1) = Freed(t, tz, d + m) + tz[t[(d + m) + 1]]
    BY <2>1, FreedRecursive
  <2>3. sz[s[(c + m) + 1]] = tz[t[(d + m) + 1]] /\ tz[t[(d + m) + 1]] \in Nat
    BY <1>0, <2>1
  <2>4. Freed(s, sz, c + m) - Freed(s, sz, c) = Freed(t, tz, d + m) - Freed(t, tz, d)
    BY <2>1
  <2>5. /\ Freed(s, sz, c + m) \in Nat /\ Freed(s, sz, c) \in Nat
        /\ Freed(t, tz, d + m) \in Nat /\ Freed(t, tz, d) \in Nat
    BY <1>1, <2>1
  <2> HIDE DEF S
  <2> QED BY <2>1, <2>2, <2>3, <2>4, <2>5
<1> HIDE DEF S
<1>4. \A m \in Nat : m \in S
  BY <1>2, <1>3, Inductive DEF S
<1>5. /\ ce - c \in S
      /\ c + (ce - c) = ce /\ d + (ce - c) = de
  BY <1>0, <1>4
<1> QED BY <1>0, <1>5 DEF S

(* The same from the start. *)
LEMMA SameFreed ==
    ASSUME NEW s, NEW sz, NEW t, NEW tz, NEW n \in Nat,
           \A i \in 1..n : sz[s[i]] \in Nat /\ sz[s[i]] = tz[t[i]]
    PROVE  Freed(s, sz, n) = Freed(t, tz, n)
<1>1. Freed(s, sz, 0) = 0 /\ Freed(t, tz, 0) = 0
  BY FreedRecursive
<1>2. Freed(s, sz, n) - Freed(s, sz, 0) = Freed(t, tz, n) - Freed(t, tz, 0)
  <2>1. 0 \in Nat /\ 0 <= n /\ n - 0 = n - 0
    OBVIOUS
  <2>2. /\ \A i \in 1..n : sz[s[i]] \in Nat
        /\ \A i \in 1..n : tz[t[i]] \in Nat
    OBVIOUS
  <2>3. ASSUME NEW i \in (0 + 1)..n PROVE sz[s[i]] = tz[t[(i - 0) + 0]]
    <3>1. i \in 1..n /\ (i - 0) + 0 = i
      OBVIOUS
    <3> QED BY <3>1
  <2>4. SameSegment(s, sz, 0, n, t, tz, 0, n)
    BY <2>1, <2>2, <2>3 DEF SameSegment
  <2> QED BY <2>4, Segments
<1>3. Freed(s, sz, n) \in Nat /\ Freed(t, tz, n) \in Nat
  BY FreedType
<1> QED BY <1>1, <1>2, <1>3

(* The order of the keys. *)

(* What is left when the first n keys are dropped. *)
LEMMA Remainder ==
    ASSUME NEW s \in Seq(Keys), NEW n \in 0..Len(s)
    PROVE  /\ SubSeq(s, n + 1, Len(s)) \in Seq(Keys)
           /\ Len(SubSeq(s, n + 1, Len(s))) = Len(s) - n
           /\ \A i \in 1..(Len(s) - n) : SubSeq(s, n + 1, Len(s))[i] = s[n + i]
<1> DEFINE m == n + 1
           b == SubSeq(s, m, Len(s))
<1>1. m \in Int /\ Len(s) \in Int /\ m = n + 1 /\ n \in Nat /\ n <= Len(s)
  BY LenProperties
<1>2. \A i \in m..Len(s) : s[i] \in Keys
  BY LenProperties
<1> HIDE DEF m
<1>3. /\ b \in Seq(Keys)
      /\ Len(b) = IF m <= Len(s) THEN Len(s) - m + 1 ELSE 0
      /\ \A i \in 1..(Len(s) - m + 1) : b[i] = s[m + i - 1]
  BY <1>1, <1>2, SubSeqProperties
<1> HIDE DEF b
<1>4. Len(b) = Len(s) - n
  BY <1>1, <1>3
<1>5. ASSUME NEW i \in 1..(Len(s) - n) PROVE b[i] = s[n + i]
  <2>1. i \in 1..(Len(s) - m + 1) /\ m + i - 1 = n + i
    BY <1>1
  <2> QED BY <1>3, <2>1
<1> QED BY <1>3, <1>4, <1>5 DEF b, m

(* move_to_end takes the key out of its place and closes the gap. *)
LEMMA MoveToEndPlaces ==
    ASSUME NEW s \in Seq(Keys), NEW k, k \in Range(s)
    PROVE  \E p \in 1..Len(s) :
              /\ s[p] = k
              /\ MoveToEnd(s, k) \in Seq(Keys)
              /\ Len(MoveToEnd(s, k)) = Len(s)
              /\ \A i \in 1..(p - 1) : MoveToEnd(s, k)[i] = s[i]
              /\ \A i \in p..(Len(s) - 1) : MoveToEnd(s, k)[i] = s[i + 1]
              /\ MoveToEnd(s, k)[Len(s)] = k
<1>1. Len(s) \in Nat /\ DOMAIN s = 1..Len(s) /\ \A i \in 1..Len(s) : s[i] \in Keys
  BY LenProperties
<1>2. k \in Keys /\ \E i \in 1..Len(s) : s[i] = k
  BY <1>1 DEF Range
<1> DEFINE I == {i \in 1..Len(s) : s[i] = k}
           p == Min(I)
<1>3. p \in I
  <2>1. I \subseteq Nat /\ I # {}
    BY <1>1, <1>2
  <2>2. \E x \in I : \A y \in I : x =< y
    BY <2>1, LeastNumber
  <2> QED BY <2>2 DEF Min
<1>4. RemoveFirst(s, k) = SubSeq(s, 1, p - 1) \o SubSeq(s, p + 1, Len(s))
  BY <1>2, <1>3 DEF RemoveFirst, RemoveAt, SelectInSeq
<1> HIDE DEF p, I
<1>5. p \in 1..Len(s) /\ s[p] = k
  BY <1>3 DEF I
<1>6. /\ SubSeq(s, 1, p - 1) \in Seq(Keys) /\ Len(SubSeq(s, 1, p - 1)) = p - 1
      /\ \A i \in 1..(p - 1) : SubSeq(s, 1, p - 1)[i] = s[i]
  BY <1>1, <1>5, SubSeqProperties
<1>7. /\ SubSeq(s, p + 1, Len(s)) \in Seq(Keys)
      /\ Len(SubSeq(s, p + 1, Len(s))) = Len(s) - p
      /\ \A i \in 1..(Len(s) - p) : SubSeq(s, p + 1, Len(s))[i] = s[p + i]
  <2>1. p \in 0..Len(s) /\ Len(s) - p \in Nat
    BY <1>1, <1>5
  <2> QED BY <2>1, Remainder, Zenon
<1> DEFINE r == RemoveFirst(s, k)
<1>8. /\ r \in Seq(Keys) /\ Len(r) = Len(s) - 1
      /\ \A i \in 1..(p - 1) : r[i] = s[i]
      /\ \A i \in p..(Len(s) - 1) : r[i] = s[i + 1]
  <2> DEFINE a == SubSeq(s, 1, p - 1)
             b == SubSeq(s, p + 1, Len(s))
  <2>1. /\ a \o b \in Seq(Keys) /\ Len(a \o b) = Len(a) + Len(b)
        /\ \A i \in 1..(Len(a) + Len(b)) :
              (a \o b)[i] = IF i <= Len(a) THEN a[i] ELSE b[i - Len(a)]
    BY <1>6, <1>7, ConcatProperties
  <2> HIDE DEF a, b
  <2>2. r = a \o b
    BY <1>4 DEF a, b
  <2>3. Len(a) = p - 1 /\ Len(b) = Len(s) - p
    BY <1>6, <1>7 DEF a, b
  <2>9. Len(a) + Len(b) = Len(s) - 1
    BY <1>1, <1>5, <2>3
  <2>4. ASSUME NEW i \in 1..(p - 1) PROVE r[i] = s[i]
    <3>1. i \in 1..(Len(a) + Len(b)) /\ i <= Len(a)
      BY <1>1, <1>5, <2>3, <2>9
    <3> QED BY <1>6, <2>1, <2>2, <3>1 DEF a
  <2>5. ASSUME NEW i \in p..(Len(s) - 1) PROVE r[i] = s[i + 1]
    <3>1. /\ i \in 1..(Len(a) + Len(b)) /\ ~(i <= Len(a))
          /\ i - Len(a) \in 1..(Len(s) - p) /\ p + (i - Len(a)) = i + 1
      BY <1>1, <1>5, <2>3, <2>9
    <3>2. r[i] = b[i - Len(a)]
      BY <2>1, <2>2, <3>1
    <3>3. b[i - Len(a)] = s[p + (i - Len(a))]
      BY <1>7, <3>1 DEF b
    <3> QED BY <3>1, <3>2, <3>3, Zenon
  <2> QED BY <2>1, <2>2, <2>9, <2>4, <2>5
<1> HIDE DEF r
<1>9. /\ Append(r, k) \in Seq(Keys) /\ Len(Append(r, k)) = Len(s)
      /\ \A i \in 1..(Len(s) - 1) : Append(r, k)[i] = r[i]
      /\ Append(r, k)[Len(s)] = k
  <2>1. /\ Append(r, k) \in Seq(Keys) /\ Len(Append(r, k)) = Len(r) + 1
        /\ \A i \in 1..Len(r) : Append(r, k)[i] = r[i]
        /\ Append(r, k)[Len(r) + 1] = k
    BY <1>2, <1>8, AppendProperties
  <2>2. Len(r) = Len(s) - 1 /\ Len(r) + 1 = Len(s)
    BY <1>1, <1>8
  <2> QED BY <2>1, <2>2, Zenon
<1>10. MoveToEnd(s, k) = Append(r, k)
  BY DEF MoveToEnd, r
<1>11. /\ \A i \in 1..(p - 1) : Append(r, k)[i] = s[i]
       /\ \A i \in p..(Len(s) - 1) : Append(r, k)[i] = s[i + 1]
  BY <1>1, <1>5, <1>8, <1>9
<1> QED BY <1>5, <1>9, <1>10, <1>11

(* It keeps the keys, each once. *)
LEMMA MoveToEndRange ==
    ASSUME NEW s \in Seq(Keys), IsInjective(s), NEW k, k \in Range(s)
    PROVE  IsInjective(MoveToEnd(s, k)) /\ Range(MoveToEnd(s, k)) = Range(s)
<1> DEFINE t == MoveToEnd(s, k)
<1>1. PICK p \in 1..Len(s) :
          /\ s[p] = k
          /\ t \in Seq(Keys) /\ Len(t) = Len(s)
          /\ \A i \in 1..(p - 1) : t[i] = s[i]
          /\ \A i \in p..(Len(s) - 1) : t[i] = s[i + 1]
          /\ t[Len(s)] = k
  BY MoveToEndPlaces
<1> HIDE DEF t
<1>2. Len(s) \in Nat /\ DOMAIN s = 1..Len(s) /\ DOMAIN t = 1..Len(s)
  BY <1>1, LenProperties
<1> DEFINE From(i) == IF i < p THEN i ELSE IF i < Len(s) THEN i + 1 ELSE p
<1>3. \A i \in 1..Len(s) : From(i) \in 1..Len(s) /\ t[i] = s[From(i)]
  BY <1>1, <1>2
<1>4. \A i, j \in 1..Len(s) : From(i) = From(j) => i = j
  BY <1>2
<1>5. ASSUME NEW j \in 1..Len(s) PROVE \E i \in 1..Len(s) : t[i] = s[j]
  <2>1. CASE j < p
    BY <1>1, <1>2, <2>1
  <2>2. CASE j = p
    BY <1>1, <1>2, <2>2
  <2>3. CASE j > p
    <3>1. j - 1 \in p..(Len(s) - 1) /\ j - 1 \in 1..Len(s) /\ (j - 1) + 1 = j
      BY <1>1, <1>2, <2>3
    <3>2. t[j - 1] = s[(j - 1) + 1]
      BY <1>1, <3>1
    <3> QED BY <3>1, <3>2
  <2> QED BY <1>1, <1>2, <2>1, <2>2, <2>3
<1> HIDE DEF From
<1>6. IsInjective(t)
  BY <1>2, <1>3, <1>4 DEF IsInjective
<1>7. Range(t) = Range(s)
  <2>1. Range(t) = {t[i] : i \in 1..Len(s)} /\ Range(s) = {s[i] : i \in 1..Len(s)}
    BY <1>2 DEF Range
  <2>2. ASSUME NEW x \in Range(t) PROVE x \in Range(s)
    <3>1. PICK i \in 1..Len(s) : x = t[i]
      BY <2>1
    <3> QED BY <1>3, <2>1, <3>1
  <2>3. ASSUME NEW x \in Range(s) PROVE x \in Range(t)
    <3>1. PICK j \in 1..Len(s) : x = s[j]
      BY <2>1
    <3>2. PICK i \in 1..Len(s) : t[i] = s[j]
      BY <1>5
    <3> QED BY <2>1, <3>1, <3>2
  <2> QED BY <2>2, <2>3
<1> QED BY <1>6, <1>7 DEF t

(* s lists its keys in the order of the relation u. *)
Sorted(s, u) == \A i, j \in DOMAIN s : <<s[i], s[j]>> \in u <=> i < j

(* The relation once k is the last one used, keys being the cached ones. *)
Later(u, keys, k) == {p \in u : p[1] # k /\ p[2] # k} \cup ((keys \ {k}) \X {k})

(* Order of use among the entries that stay. *)
LEMMA LaterPairs ==
    ASSUME NEW u, NEW keys, NEW k
    PROVE  /\ \A x, y \in keys : x # k /\ y # k =>
                 (<<x, y>> \in Later(u, keys, k) <=> <<x, y>> \in u)
           /\ \A x \in keys : x # k => <<x, k>> \in Later(u, keys, k)
           /\ \A y : <<k, y>> \notin Later(u, keys, k)
BY DEF Later

(* Moving the entry just used to the end keeps the order. *)
LEMMA MoveToEndSorted ==
    ASSUME NEW s \in Seq(Keys), IsInjective(s), NEW k, k \in Range(s),
           NEW u, Sorted(s, u)
    PROVE  Sorted(MoveToEnd(s, k), Later(u, Range(s), k))
<1> DEFINE t == MoveToEnd(s, k)
           L == Len(s)
           v == Later(u, Range(s), k)
<1>1. PICK p \in 1..L :
          /\ s[p] = k
          /\ t \in Seq(Keys) /\ Len(t) = L
          /\ \A i \in 1..(p - 1) : t[i] = s[i]
          /\ \A i \in p..(L - 1) : t[i] = s[i + 1]
          /\ t[L] = k
  BY MoveToEndPlaces
<1>2. L \in Nat /\ DOMAIN s = 1..L /\ DOMAIN t = 1..L
  BY <1>1, LenProperties
<1> HIDE DEF t, L, v
<1> DEFINE From(i) == IF i < p THEN i ELSE i + 1
<1>3. \A i \in 1..(L - 1) : From(i) \in 1..L /\ From(i) # p /\ t[i] = s[From(i)]
  BY <1>1, <1>2
<1>4. \A i, j \in 1..(L - 1) : From(i) < From(j) <=> i < j
  BY <1>2
<1> HIDE DEF From
<1>5. \A i \in 1..(L - 1) : t[i] # k /\ t[i] \in Range(s)
  BY <1>1, <1>2, <1>3 DEF IsInjective, Range
<1> SUFFICES ASSUME NEW i \in 1..L, NEW j \in 1..L PROVE <<t[i], t[j]>> \in v <=> i < j
    BY <1>2 DEF Sorted, t, v
<1>6. /\ i \in 1..(L - 1) \/ i = L
      /\ j \in 1..(L - 1) \/ j = L
  BY <1>2
<1>7. CASE i \in 1..(L - 1) /\ j \in 1..(L - 1)
  <2>1. <<t[i], t[j]>> \in v <=> <<s[From(i)], s[From(j)]>> \in u
    BY <1>3, <1>5, <1>7, LaterPairs DEF v
  <2>2. <<s[From(i)], s[From(j)]>> \in u <=> From(i) < From(j)
    BY <1>2, <1>3, <1>7 DEF Sorted
  <2> QED BY <1>4, <1>7, <2>1, <2>2
<1>8. CASE i \in 1..(L - 1) /\ j = L
  <2>1. <<t[i], t[j]>> \in v
    BY <1>1, <1>5, <1>8, LaterPairs DEF v
  <2>2. i < j
    BY <1>2, <1>8
  <2> QED BY <2>1, <2>2
<1>9. CASE i = L
  <2>1. <<t[i], t[j]>> \notin v
    BY <1>1, <1>9, LaterPairs DEF v
  <2>2. ~(i < j)
    BY <1>2, <1>9
  <2> QED BY <2>1, <2>2
<1> QED BY <1>6, <1>7, <1>8, <1>9

(* A new key goes to the end. *)
LEMMA AppendOrder ==
    ASSUME NEW s \in Seq(Keys), IsInjective(s), NEW k \in Keys, k \notin Range(s)
    PROVE  /\ Append(s, k) \in Seq(Keys) /\ Len(Append(s, k)) = Len(s) + 1
           /\ \A i \in 1..Len(s) : Append(s, k)[i] = s[i]
           /\ Append(s, k)[Len(s) + 1] = k
           /\ IsInjective(Append(s, k))
           /\ Range(Append(s, k)) = Range(s) \cup {k}
           /\ \A u : Sorted(s, u) => Sorted(Append(s, k), Later(u, Range(s), k))
<1> DEFINE t == Append(s, k)
           L == Len(s) + 1
<1>1. /\ t \in Seq(Keys) /\ Len(t) = L
      /\ \A i \in 1..Len(s) : t[i] = s[i]
      /\ t[L] = k
  BY AppendProperties
<1>2. Len(s) \in Nat /\ DOMAIN s = 1..Len(s) /\ DOMAIN t = 1..L
  BY <1>1, LenProperties
<1>3. L \in Nat /\ L = Len(s) + 1
  BY <1>2
<1> HIDE DEF t, L
<1>4. \A i \in 1..L : i \in 1..Len(s) \/ i = L
  BY <1>2, <1>3
<1>5. \A i \in 1..Len(s) : i \in 1..L /\ i < L /\ t[i] \in Range(s) /\ t[i] # k
  BY <1>1, <1>2, <1>3 DEF Range
<1>6. IsInjective(t)
  BY <1>1, <1>2, <1>4, <1>5 DEF IsInjective
<1>7. Range(t) = Range(s) \cup {k}
  <2>1. Range(t) = {t[i] : i \in 1..L} /\ Range(s) = {s[i] : i \in 1..Len(s)}
    BY <1>2 DEF Range
  <2>2. L \in 1..L
    BY <1>2, <1>3
  <2>3. ASSUME NEW x \in Range(t) PROVE x \in Range(s) \cup {k}
    BY <1>1, <1>4, <1>5, <2>1
  <2>4. ASSUME NEW x \in Range(s) PROVE x \in Range(t)
    <3>1. PICK i \in 1..Len(s) : x = s[i]
      BY <2>1
    <3> QED BY <1>1, <1>5, <2>1, <3>1
  <2>5. k \in Range(t)
    BY <1>1, <2>1, <2>2
  <2> QED BY <2>3, <2>4, <2>5
<1>8. ASSUME NEW u, Sorted(s, u) PROVE Sorted(t, Later(u, Range(s), k))
  <2> DEFINE v == Later(u, Range(s), k)
  <2> HIDE DEF v
  <2> SUFFICES ASSUME NEW i \in 1..L, NEW j \in 1..L PROVE <<t[i], t[j]>> \in v <=> i < j
      BY <1>2 DEF Sorted, v
  <2>1. CASE i \in 1..Len(s) /\ j \in 1..Len(s)
    <3>1. <<t[i], t[j]>> \in v <=> <<s[i], s[j]>> \in u
      BY <1>1, <1>5, <2>1, LaterPairs DEF v
    <3> QED BY <1>2, <1>8, <2>1, <3>1 DEF Sorted
  <2>2. CASE i \in 1..Len(s) /\ j = L
    <3>1. <<t[i], t[j]>> \in v
      BY <1>1, <1>5, <2>2, LaterPairs DEF v
    <3> QED BY <1>5, <2>2, <3>1
  <2>3. CASE i = L
    <3>1. <<t[i], t[j]>> \notin v
      BY <1>1, <2>3, LaterPairs DEF v
    <3>2. ~(i < j)
      BY <1>3, <2>3
    <3> QED BY <3>1, <3>2
  <2> QED BY <1>4, <2>1, <2>2, <2>3
<1> QED BY <1>1, <1>3, <1>6, <1>7, <1>8 DEF t, L

(* What is left keeps its order. *)
LEMMA RemainderOrder ==
    ASSUME NEW s \in Seq(Keys), IsInjective(s), NEW n \in 0..Len(s), NEW t,
           t = SubSeq(s, n + 1, Len(s))
    PROVE  /\ IsInjective(t)
           /\ Range(t) \subseteq Range(s)
           /\ \A u : Sorted(s, u) => Sorted(t, u \cap (Range(t) \X Range(t)))
<1>1. /\ t \in Seq(Keys) /\ Len(t) = Len(s) - n
      /\ \A i \in 1..(Len(s) - n) : t[i] = s[n + i]
  BY Remainder
<1>2. Len(s) \in Nat /\ n \in Nat /\ DOMAIN s = 1..Len(s) /\ DOMAIN t = 1..(Len(s) - n)
  BY <1>1, LenProperties
<1>3. ASSUME NEW i \in DOMAIN t PROVE n + i \in DOMAIN s /\ t[i] = s[n + i]
  <2>1. i \in 1..(Len(s) - n) /\ n + i \in 1..Len(s)
    BY <1>2
  <2> QED BY <1>1, <1>2, <2>1
<1>4. IsInjective(t)
  <2> SUFFICES ASSUME NEW i \in DOMAIN t, NEW j \in DOMAIN t, t[i] = t[j] PROVE i = j
      BY DEF IsInjective
  <2>1. n + i = n + j
    BY <1>3 DEF IsInjective
  <2> QED BY <1>2, <2>1
<1>5. Range(t) \subseteq Range(s)
  BY <1>3 DEF Range
<1>6. ASSUME NEW u, Sorted(s, u) PROVE Sorted(t, u \cap (Range(t) \X Range(t)))
  <2> SUFFICES ASSUME NEW i \in DOMAIN t, NEW j \in DOMAIN t
               PROVE  <<t[i], t[j]>> \in u \cap (Range(t) \X Range(t)) <=> i < j
      BY DEF Sorted
  <2>1. t[i] \in Range(t) /\ t[j] \in Range(t)
    BY DEF Range
  <2>2. <<t[i], t[j]>> \in u <=> n + i < n + j
    BY <1>3, <1>6 DEF Sorted
  <2>3. n + i < n + j <=> i < j
    BY <1>2
  <2> QED BY <2>1, <2>2, <2>3
<1> QED BY <1>4, <1>5, <1>6

(* What is left adds up to the sum without what was dropped. *)
LEMMA RemainderFreed ==
    ASSUME NEW s \in Seq(Keys), NEW n \in 0..Len(s), NEW sz, NEW t, NEW tz,
           \A i \in 1..Len(s) : sz[s[i]] \in Nat,
           t = SubSeq(s, n + 1, Len(s)),
           \A j \in Range(t) : tz[j] = sz[j]
    PROVE  Freed(t, tz, Len(t)) = Freed(s, sz, Len(s)) - Freed(s, sz, n)
<1> DEFINE L == Len(s)
           d == Len(t)
           o == 0
<1>1. /\ t \in Seq(Keys) /\ d = L - n
      /\ \A i \in 1..(L - n) : t[i] = s[n + i]
      /\ DOMAIN t = 1..d
  BY Remainder, LenProperties
<1>2. L \in Nat /\ d \in Nat /\ n \in Nat /\ n <= L /\ o \in Nat
  BY <1>1, LenProperties
<1>0. o = 0
  OBVIOUS
<1> HIDE DEF L, d, o
<1>3. ASSUME NEW i \in 1..d
      PROVE  n + i \in 1..L /\ t[i] = s[n + i] /\ t[i] \in Range(t)
  <2>1. n + i \in 1..L /\ t[i] = s[n + i]
    BY <1>1, <1>2
  <2>2. t[i] \in Range(t)
    BY <1>1 DEF Range
  <2> QED BY <2>1, <2>2
<1>4. \A i \in 1..L : sz[s[i]] \in Nat
  BY DEF L
<1>5. \A i \in 1..d : tz[t[i]] = sz[s[n + i]]
  BY <1>3
<1>6. \A i \in 1..d : tz[t[i]] \in Nat
  BY <1>3, <1>4, <1>5
<1>7. ASSUME NEW i \in (n + 1)..L PROVE sz[s[i]] = tz[t[(i - n) + o]]
  <2>1. (i - n) + o \in 1..d /\ n + ((i - n) + o) = i
    BY <1>0, <1>1, <1>2
  <2> QED BY <1>5, <2>1
<1>8. L - n = d - o
  BY <1>0, <1>1, <1>2
<1>9. Freed(s, sz, L) - Freed(s, sz, n) = Freed(t, tz, d) - Freed(t, tz, o)
  <2>1. SameSegment(s, sz, n, L, t, tz, o, d)
    BY <1>2, <1>4, <1>6, <1>7, <1>8 DEF SameSegment
  <2> QED BY <2>1, Segments
<1>10. Freed(t, tz, o) = 0
  BY <1>0, FreedRecursive
<1>11. Freed(t, tz, d) \in Nat
  <2>1. \A m \in 0..d : Freed(t, tz, m) \in Nat
    BY <1>2, <1>6, FreedType
  <2> QED BY <1>2, <2>1
<1>12. Freed(t, tz, d) = Freed(s, sz, L) - Freed(s, sz, n)
  BY <1>9, <1>10, <1>11
<1> QED BY <1>12 DEF L, d

(* Moving a key does not change what the keys add up to. *)
LEMMA MoveToEndFreed ==
    ASSUME NEW s \in Seq(Keys), NEW k, k \in Range(s), NEW sz,
           \A j \in Range(s) : sz[j] \in Nat
    PROVE  Freed(MoveToEnd(s, k), sz, Len(s)) = Freed(s, sz, Len(s))
<1> DEFINE t == MoveToEnd(s, k)
           L == Len(s)
<1>1. PICK p \in 1..L :
          /\ s[p] = k
          /\ t \in Seq(Keys) /\ Len(t) = L
          /\ \A i \in 1..(p - 1) : t[i] = s[i]
          /\ \A i \in p..(L - 1) : t[i] = s[i + 1]
          /\ t[L] = k
  BY MoveToEndPlaces
<1>2. L \in Nat /\ \A i \in 1..L : sz[s[i]] \in Nat
  BY LenProperties DEF Range
<1> HIDE DEF t, L
<1>3. \A i \in 1..L : sz[t[i]] \in Nat
  <2> SUFFICES ASSUME NEW i \in 1..L PROVE sz[t[i]] \in Nat
      OBVIOUS
  <2>1. \/ i \in 1..(p - 1)
        \/ i \in p..(L - 1) /\ i + 1 \in 1..L
        \/ i = L
    BY <1>2
  <2> QED BY <2>1, <1>1, <1>2
<1>4. Freed(t, sz, p - 1) = Freed(s, sz, p - 1)
  BY <1>1, <1>2, <1>3, SameFreed
<1>5. Freed(t, sz, L - 1) - Freed(t, sz, p - 1) = Freed(s, sz, L) - Freed(s, sz, p)
  <2>1. /\ p - 1 \in Nat /\ L - 1 \in Nat /\ p - 1 <= L - 1 /\ p \in Nat
        /\ (L - 1) - (p - 1) = L - p
    BY <1>2
  <2>2. \A i \in 1..(L - 1) : sz[t[i]] \in Nat
    BY <1>2, <1>3
  <2>3. ASSUME NEW i \in ((p - 1) + 1)..(L - 1) PROVE sz[t[i]] = sz[s[(i - (p - 1)) + p]]
    <3>1. i \in p..(L - 1) /\ (i - (p - 1)) + p = i + 1
      BY <1>2
    <3> QED BY <1>1, <3>1
  <2>4. SameSegment(t, sz, p - 1, L - 1, s, sz, p, L)
    BY <1>2, <2>1, <2>2, <2>3 DEF SameSegment
  <2> QED BY <2>4, Segments
<1>6. /\ Freed(s, sz, p) = Freed(s, sz, p - 1) + sz[k]
      /\ Freed(t, sz, L) = Freed(t, sz, L - 1) + sz[k]
  <2>1. p - 1 \in Nat /\ (p - 1) + 1 = p /\ L - 1 \in Nat /\ (L - 1) + 1 = L
    BY <1>2
  <2>2. /\ Freed(s, sz, (p - 1) + 1) = Freed(s, sz, p - 1) + sz[s[(p - 1) + 1]]
        /\ Freed(t, sz, (L - 1) + 1) = Freed(t, sz, L - 1) + sz[t[(L - 1) + 1]]
    BY <2>1, FreedRecursive, Zenon
  <2> QED BY <1>1, <2>1, <2>2, Zenon
<1>7. /\ Freed(s, sz, p) \in Nat /\ Freed(s, sz, p - 1) \in Nat
      /\ Freed(s, sz, L) \in Nat /\ Freed(t, sz, L) \in Nat
      /\ Freed(t, sz, L - 1) \in Nat /\ sz[k] \in Nat
  <2>1. p \in 0..L /\ p - 1 \in 0..L /\ L \in 0..L /\ L - 1 \in 0..L
    BY <1>2
  <2> QED BY <1>1, <1>2, <1>3, <2>1, FreedType
<1>8. Freed(t, sz, L) = Freed(s, sz, L)
  BY <1>4, <1>5, <1>6, <1>7
<1> QED BY <1>8 DEF t, L

-----------------------------------------------------------------------------
(* The sum over all keys of a sequence, and what one step does to it. *)

Sum(s, f) == Freed(s, f, Len(s))

(* f with nothing for k. *)
Without(s, f, k) == [j \in Range(s) |-> IF j = k THEN 0 ELSE f[j]]

(* The sum depends on the sizes of the keys that are there only. *)
LEMMA SumAgrees ==
    ASSUME NEW s \in Seq(Keys), NEW f, NEW g,
           \A j \in Range(s) : f[j] \in Nat /\ f[j] = g[j]
    PROVE  Sum(s, f) = Sum(s, g) /\ Sum(s, f) \in Nat
<1>1. Len(s) \in Nat /\ DOMAIN s = 1..Len(s)
  BY LenProperties
<1>2. \A i \in 1..Len(s) : f[s[i]] \in Nat /\ f[s[i]] = g[s[i]]
  BY <1>1 DEF Range
<1>3. Freed(s, f, Len(s)) = Freed(s, g, Len(s))
  BY <1>1, <1>2, SameFreed
<1>4. Len(s) \in 0..Len(s)
  BY <1>1
<1>5. Freed(s, f, Len(s)) \in Nat
  BY <1>1, <1>2, <1>4, FreedType
<1> QED BY <1>3, <1>5 DEF Sum

(* One key counts v instead of nothing. *)
LEMMA SumSplit ==
    ASSUME NEW s \in Seq(Keys), IsInjective(s), NEW k, k \in Range(s),
           NEW f, NEW g, NEW v \in Nat, g[k] = v,
           \A j \in Range(s) : j # k => f[j] \in Nat /\ g[j] = f[j]
    PROVE  /\ Sum(s, g) = Sum(s, Without(s, f, k)) + v
           /\ Sum(s, Without(s, f, k)) \in Nat
<1> DEFINE w == Without(s, f, k)
           L == Len(s)
<1>1. L \in Nat /\ DOMAIN s = 1..L
  BY LenProperties
<1>2. PICK p \in 1..L : s[p] = k
  BY <1>1 DEF Range
<1>3. \A i \in 1..L : s[i] \in Range(s) /\ (i # p => s[i] # k)
  BY <1>1, <1>2 DEF Range, IsInjective
<1>4. /\ \A i \in 1..L : i # p => w[s[i]] \in Nat /\ w[s[i]] = g[s[i]]
      /\ w[s[p]] = 0 /\ g[s[p]] = v
  BY <1>2, <1>3 DEF Without
<1>5. /\ \A i \in 1..L : w[s[i]] \in Nat
      /\ \A i \in 1..L : g[s[i]] \in Nat
  BY <1>4
<1> HIDE DEF w, L
<1>6. Freed(s, w, p - 1) = Freed(s, g, p - 1)
  <2>1. p - 1 \in Nat /\ \A i \in 1..(p - 1) : i \in 1..L /\ i # p
    BY <1>1, <1>2
  <2>2. \A i \in 1..(p - 1) : w[s[i]] \in Nat /\ w[s[i]] = g[s[i]]
    BY <1>4, <2>1
  <2> QED BY <2>1, <2>2, SameFreed
<1>7. Freed(s, w, L) - Freed(s, w, p) = Freed(s, g, L) - Freed(s, g, p)
  <2>1. p \in Nat /\ p <= L /\ L - p = L - p
    BY <1>1, <1>2
  <2>2. ASSUME NEW i \in (p + 1)..L PROVE w[s[i]] = g[s[(i - p) + p]]
    <3>1. i \in 1..L /\ i # p /\ (i - p) + p = i
      BY <1>1, <1>2
    <3> QED BY <1>4, <3>1
  <2>3. SameSegment(s, w, p, L, s, g, p, L)
    BY <1>1, <1>5, <2>1, <2>2 DEF SameSegment
  <2> QED BY <2>3, Segments
<1>8. /\ Freed(s, w, p) = Freed(s, w, p - 1) + 0
      /\ Freed(s, g, p) = Freed(s, g, p - 1) + v
  <2>1. p - 1 \in Nat /\ (p - 1) + 1 = p
    BY <1>1, <1>2
  <2>2. /\ Freed(s, w, (p - 1) + 1) = Freed(s, w, p - 1) + w[s[(p - 1) + 1]]
        /\ Freed(s, g, (p - 1) + 1) = Freed(s, g, p - 1) + g[s[(p - 1) + 1]]
    BY <2>1, FreedRecursive, Zenon
  <2> QED BY <1>4, <2>1, <2>2
<1>9. /\ Freed(s, w, L) \in Nat /\ Freed(s, w, p) \in Nat /\ Freed(s, w, p - 1) \in Nat
      /\ Freed(s, g, L) \in Nat /\ Freed(s, g, p) \in Nat /\ Freed(s, g, p - 1) \in Nat
  <2>1. p \in 0..L /\ p - 1 \in 0..L /\ L \in 0..L
    BY <1>1, <1>2
  <2>2. /\ \A m \in 0..L : Freed(s, w, m) \in Nat
        /\ \A m \in 0..L : Freed(s, g, m) \in Nat
    BY <1>1, <1>5, FreedType
  <2> QED BY <2>1, <2>2
<1>10. Freed(s, g, L) = Freed(s, w, L) + v
  BY <1>6, <1>7, <1>8, <1>9
<1> QED BY <1>9, <1>10 DEF Sum, w, L

(* A new key adds its size. *)
LEMMA SumAppend ==
    ASSUME NEW s \in Seq(Keys), IsInjective(s), NEW k \in Keys, k \notin Range(s),
           NEW f, NEW g, NEW v \in Nat, g[k] = v,
           \A j \in Range(s) : f[j] \in Nat /\ g[j] = f[j]
    PROVE  Sum(Append(s, k), g) = Sum(s, f) + v /\ Sum(s, f) \in Nat
<1> DEFINE t == Append(s, k)
           L == Len(s)
<1>1. L \in Nat /\ DOMAIN s = 1..L
  BY LenProperties
<1>2. /\ Len(t) = L + 1
      /\ \A i \in 1..L : t[i] = s[i]
      /\ t[L + 1] = k
  BY AppendOrder
<1>3. \A i \in 1..L : g[t[i]] \in Nat /\ g[t[i]] = f[s[i]]
  BY <1>1, <1>2 DEF Range
<1> HIDE DEF t, L
<1>4. Freed(t, g, L) = Freed(s, f, L)
  BY <1>1, <1>3, SameFreed
<1>5. Freed(t, g, L + 1) = Freed(t, g, L) + g[t[L + 1]]
  BY <1>1, FreedRecursive
<1>6. L \in 0..L /\ \A i \in 1..L : f[s[i]] \in Nat
  BY <1>1, <1>3
<1>7. Freed(s, f, L) \in Nat
  BY <1>1, <1>6, FreedType
<1> QED BY <1>2, <1>4, <1>5, <1>7 DEF Sum, t, L

(* The front key takes its size with it; the rest keeps its order. *)
LEMMA TailFacts ==
    ASSUME NEW s \in Seq(Keys), IsInjective(s), s # <<>>
    PROVE  /\ Head(s) \in Range(s) /\ Head(s) \in Keys
           /\ Tail(s) \in Seq(Keys) /\ IsInjective(Tail(s))
           /\ Range(Tail(s)) = Range(s) \ {Head(s)}
           /\ Len(s) > 0 /\ Len(Tail(s)) = Len(s) - 1
           /\ \A i \in 1..(Len(s) - 1) : Tail(s)[i] = s[i + 1]
           /\ \A u : Sorted(s, u)
                  => Sorted(Tail(s), u \cap (Range(Tail(s)) \X Range(Tail(s))))
           /\ \A f : (\A j \in Range(s) : f[j] \in Nat)
                  => /\ Sum(Tail(s), f) = Sum(s, f) - f[Head(s)]
                     /\ Sum(Tail(s), f) \in Nat /\ Sum(s, f) \in Nat
<1> DEFINE t == Tail(s)
           L == Len(s)
<1>1. L \in Nat /\ L > 0 /\ DOMAIN s = 1..L /\ Head(s) = s[1]
  BY LenProperties, EmptySeq
<1>2. /\ t \in Seq(Keys) /\ Len(t) = L - 1
      /\ \A i \in 1..(L - 1) : t[i] = s[i + 1]
  <2>1. /\ t \in Seq(Keys) /\ Len(t) = L - 1
        /\ \A i \in 1..Len(t) : t[i] = s[i + 1]
    BY HeadTailProperties
  <2> QED BY <2>1
<1>3. DOMAIN t = 1..(L - 1)
  BY <1>2, LenProperties
<1>4. 1 \in 0..L /\ t = SubSeq(s, 1 + 1, L)
  <2>1. t = SubSeq(s, 2, L) /\ 1 + 1 = 2
    BY TailIsSubSeq
  <2> QED BY <1>1, <2>1
<1>5. /\ IsInjective(t)
      /\ \A u : Sorted(s, u) => Sorted(t, u \cap (Range(t) \X Range(t)))
  BY <1>4, RemainderOrder
<1>6. Head(s) \in Range(s) /\ Head(s) \in Keys
  BY <1>1, ElementOfSeq DEF Range
<1>7. Range(t) = Range(s) \ {Head(s)}
  <2>1. ASSUME NEW j \in Range(t) PROVE j \in Range(s) /\ j # Head(s)
    <3>1. PICK i \in 1..(L - 1) : t[i] = j
      BY <1>3 DEF Range
    <3>2. i + 1 \in 1..L /\ i + 1 # 1 /\ 1 \in 1..L /\ s[i + 1] = j
      BY <1>1, <1>2, <3>1
    <3> QED BY <1>1, <3>2 DEF Range, IsInjective
  <2>2. ASSUME NEW j \in Range(s), j # Head(s) PROVE j \in Range(t)
    <3>1. PICK i \in 1..L : s[i] = j
      BY <1>1 DEF Range
    <3>2. i - 1 \in 1..(L - 1) /\ (i - 1) + 1 = i
      BY <1>1, <2>2, <3>1
    <3>3. t[i - 1] = j
      BY <1>2, <3>1, <3>2
    <3> QED BY <1>3, <3>2, <3>3 DEF Range
  <2> QED BY <2>1, <2>2
<1>8. ASSUME NEW f, \A j \in Range(s) : f[j] \in Nat
      PROVE  /\ Sum(t, f) = Sum(s, f) - f[Head(s)]
             /\ Sum(t, f) \in Nat /\ Sum(s, f) \in Nat
  <2>1. \A i \in 1..L : f[s[i]] \in Nat
    BY <1>1, <1>8 DEF Range
  <2>2. Sum(t, f) = Freed(s, f, L) - Freed(s, f, 1)
    BY <1>4, <2>1, RemainderFreed DEF Sum
  <2>3. Freed(s, f, 0) = 0 /\ Freed(s, f, 0 + 1) = Freed(s, f, 0) + f[s[0 + 1]]
    BY FreedRecursive
  <2>4. f[s[1]] \in Nat
    BY <1>1, <2>1
  <2>5. Freed(s, f, 1) = f[s[1]]
    BY <2>3, <2>4
  <2>6. Sum(s, f) \in Nat
    BY <1>8, SumAgrees
  <2>7. \A j \in Range(t) : f[j] \in Nat
    BY <1>7, <1>8
  <2>8. Sum(t, f) \in Nat
    BY <1>2, <2>7, SumAgrees
  <2> QED BY <1>1, <2>2, <2>5, <2>6, <2>8 DEF Sum
<1> QED BY <1>1, <1>2, <1>5, <1>6, <1>7, <1>8
-----------------------------------------------------------------------------
(* Types, and each key once in the order: in every interleaving.           *)

Shape == TypeOK /\ IsInjective(order)

LEMMA SizeOfType ==
    ASSUME TypeOK, NEW k
    PROVE  SizeOf(k) \in Nat /\ \A j \in DOMAIN sizes : sizes[j] \in Nat
BY SizesAssumption DEF TypeOK, SizeOf, Range

(* What is in a thread's hands is an entry. *)
LEMMA FillType ==
    ASSUME TypeOK, NEW t \in Threads, at[t] \in {"missed"} \cup Putting
    PROVE  fill[t].key \in Keys /\ fill[t].size \in Sizes /\ fill[t].size \in Nat
BY SizesAssumption DEF TypeOK, Entries

(* The keys that are there are keys, and an assignment puts one in once.   *)
LEMMA AssignShape ==
    ASSUME Shape, NEW k \in Keys
    PROVE  /\ Assign(order, k) \in Seq(Keys) /\ IsInjective(Assign(order, k))
           /\ Range(Assign(order, k)) = Cached \cup {k}
           /\ k \in Cached => Assign(order, k) = order
           /\ k \notin Cached => Assign(order, k) = Append(order, k)
           /\ Cached \subseteq Keys
<1>1. order \in Seq(Keys) /\ IsInjective(order)
  BY DEF Shape, TypeOK
<1>2. Contains(order, k) <=> k \in Cached
  <2>1. DOMAIN order = 1..Len(order)
    BY <1>1, LenProperties
  <2> QED BY <2>1 DEF Contains, Cached, Range
<1>3. Cached \subseteq Keys
  BY <1>1, LenProperties DEF Cached, Range
<1>4. CASE k \in Cached
  BY <1>1, <1>2, <1>3, <1>4 DEF Assign, Cached
<1>5. CASE k \notin Cached
  <2>1. Assign(order, k) = Append(order, k)
    BY <1>2, <1>5 DEF Assign
  <2>2. /\ Append(order, k) \in Seq(Keys) /\ IsInjective(Append(order, k))
        /\ Range(Append(order, k)) = Cached \cup {k}
    BY <1>1, <1>5, AppendOrder DEF Cached
  <2> QED BY <1>3, <1>5, <2>1, <2>2
<1> QED BY <1>4, <1>5

(* The order after a hit. *)
LEMMA TouchShape ==
    ASSUME Shape, NEW k \in Cached
    PROVE  /\ MoveToEnd(order, k) \in Seq(Keys) /\ IsInjective(MoveToEnd(order, k))
           /\ Range(MoveToEnd(order, k)) = Cached
           /\ Len(MoveToEnd(order, k)) = Len(order)
<1>1. order \in Seq(Keys) /\ IsInjective(order) /\ k \in Range(order)
  BY DEF Shape, TypeOK, Cached
<1> QED BY <1>1, MoveToEndPlaces, MoveToEndRange DEF Cached

(* The history of uses stays one of pairs of keys. *)
LEMMA UseShape ==
    ASSUME Shape, NEW k \in Keys, UseNow(k)
    PROVE  used' \subseteq Keys \X Keys
<1>1. used \subseteq Keys \X Keys /\ Cached \subseteq Keys
  BY AssignShape DEF Shape, TypeOK
<1> QED BY <1>1 DEF UseNow

LEMMA ShapeInit == Init => Shape
<1> SUFFICES ASSUME Init PROVE Shape
    OBVIOUS
<1>1. order = <<>> /\ sizes = <<>> /\ order \in Seq(Keys)
  BY DEF Init
<1>2. DOMAIN order = {} /\ DOMAIN sizes = {} /\ Range(sizes) = {}
  BY <1>1 DEF Range
<1>3. at \in [Threads -> {"idle"}] /\ \A t \in Threads : at[t] = "idle"
  BY DEF Init
<1>4. /\ fill \in [Threads -> Entries \cup {None}]
      /\ victim \in [Threads -> Keys \cup {None}]
      /\ held \in [Threads -> Int]
  BY DEF Init
<1>5. total \in Int /\ used \subseteq Keys \X Keys
  BY DEF Init
<1>6. overwritten \in BOOLEAN /\ overlapped \in BOOLEAN
  BY Zenon DEF Init
<1>7. TypeOK
  BY <1>1, <1>2, <1>3, <1>4, <1>5, <1>6 DEF TypeOK, Putting
<1> QED BY <1>1, <1>2, <1>7 DEF Shape, IsInjective

(* Every step keeps both. *)
LEMMA ShapeStep == Shape /\ [Next]_vars => Shape'
<1> SUFFICES ASSUME Shape, [Next]_vars PROVE Shape'
    OBVIOUS
<1>0. TypeOK /\ IsInjective(order)
  BY DEF Shape
<1>1. ASSUME NEW t \in Threads, NEW k \in Keys, Hit(t, k) PROVE Shape'
  <2>1. k \in Cached /\ order' = MoveToEnd(order, k) /\ UseNow(k)
    BY <1>1 DEF Hit, Touch
  <2>2. order' \in Seq(Keys) /\ IsInjective(order')
    BY <2>1, TouchShape
  <2>3. used' \subseteq Keys \X Keys
    BY <2>1, UseShape
  <2>4. overlapped' \in BOOLEAN
    BY <1>0, <1>1, Zenon DEF Hit, TypeOK
  <2>5. at' \in [Threads -> {"idle", "missed", "done"} \cup Putting \cup Flushing]
    BY <1>0, <1>1 DEF Hit, TypeOK, Over, GoTo
  <2>6. \A u \in Threads : at'[u] \in {"missed"} \cup Putting
            => at[u] = at'[u]
    BY <1>0, <1>1 DEF Hit, TypeOK, Over, GoTo, Putting
  <2>7. UNCHANGED <<sizes, total, fill, victim, held, overwritten>>
    BY <1>1 DEF Hit
  <2> QED BY <1>0, <2>2, <2>3, <2>4, <2>5, <2>6, <2>7 DEF Shape, TypeOK, Putting
<1>2. ASSUME NEW t \in Threads, NEW k \in Keys, Miss(t, k) PROVE Shape'
  <2>1. PICK z \in Sizes : fill' = [fill EXCEPT ![t] = [key |-> k, size |-> z]]
    BY <1>2 DEF Miss
  <2>2. [key |-> k, size |-> z] \in Entries
    BY DEF Entries
  <2>3. /\ at' = [at EXCEPT ![t] = "missed"]
        /\ UNCHANGED <<order, sizes, total, victim, held, used, overwritten, overlapped>>
    BY <1>2 DEF Miss, GoTo
  <2> QED BY <1>0, <2>1, <2>2, <2>3 DEF Shape, TypeOK, Putting
<1>3. ASSUME NEW t \in Threads, GiveUp(t) PROVE Shape'
  BY <1>0, <1>3 DEF GiveUp, Shape, TypeOK, Over, GoTo, Putting, Flushing
<1>4. ASSUME NEW t \in Threads, PutBegin(t) PROVE Shape'
  <2>1. fill[t].key \in Keys /\ total - SizeOf(fill[t].key) \in Int
    BY <1>0, <1>4, FillType, SizeOfType DEF PutBegin, TypeOK
  <2>2. held' \in [Threads -> Int]
    BY <1>0, <1>4, <2>1 DEF PutBegin, TypeOK
  <2>3. overlapped' \in BOOLEAN
    BY <1>0, <1>4, Zenon DEF PutBegin, TypeOK
  <2>4. /\ at' = [at EXCEPT ![t] = "off"] \/ at' = [at EXCEPT ![t] = "assign"]
        /\ at[t] = "missed"
        /\ UNCHANGED <<order, sizes, total, fill, victim, used, overwritten>>
    BY <1>4 DEF PutBegin, GoTo
  <2> QED BY <1>0, <2>2, <2>3, <2>4 DEF Shape, TypeOK, Putting
<1>5. ASSUME NEW t \in Threads, PutOff(t) PROVE Shape'
  BY <1>0, <1>5 DEF PutOff, Shape, TypeOK, GoTo, Putting
<1>6. ASSUME NEW t \in Threads, PutAssign(t) PROVE Shape'
  <2>1. fill[t].key \in Keys
    BY <1>0, <1>6, FillType DEF PutAssign, Putting
  <2>2. order' = Assign(order, fill[t].key) /\ UseNow(fill[t].key)
    BY <1>6 DEF PutAssign
  <2>3. order' \in Seq(Keys) /\ IsInjective(order')
    BY <2>1, <2>2, AssignShape
  <2>4. used' \subseteq Keys \X Keys
    BY <2>1, <2>2, UseShape
  <2>5. overwritten' \in BOOLEAN
    BY <1>0, <1>6, Zenon DEF PutAssign, TypeOK
  <2>6. /\ at[t] = "assign" /\ at' = [at EXCEPT ![t] = "size"]
        /\ UNCHANGED <<sizes, total, fill, victim, held, overlapped>>
    BY <1>6 DEF PutAssign, GoTo
  <2> QED BY <1>0, <2>3, <2>4, <2>5, <2>6 DEF Shape, TypeOK, Putting
<1>7. ASSUME NEW t \in Threads, PutSize(t) PROVE Shape'
  <2>1. fill[t].key \in Keys /\ fill[t].size \in Sizes
    BY <1>0, <1>7, FillType DEF PutSize, Putting
  <2>2. sizes' = [j \in DOMAIN sizes \cup {fill[t].key} |->
                     IF j = fill[t].key THEN fill[t].size ELSE sizes[j]]
    BY <1>7 DEF PutSize
  <2>3. DOMAIN sizes' \subseteq Keys /\ Range(sizes') \subseteq Sizes
    BY <1>0, <2>1, <2>2 DEF TypeOK, Range
  <2>4. /\ at[t] = "size" /\ at' = [at EXCEPT ![t] = "add"]
        /\ UNCHANGED <<order, total, fill, victim, held, used, overwritten, overlapped>>
    BY <1>7 DEF PutSize, GoTo
  <2> QED BY <1>0, <2>3, <2>4 DEF Shape, TypeOK, Putting
<1>8. ASSUME NEW t \in Threads, PutAdd(t) PROVE Shape'
  <2>1. fill[t].size \in Nat
    BY <1>0, <1>8, FillType DEF PutAdd, Putting
  <2>2. total' \in Int
    BY <1>0, <1>8, <2>1 DEF PutAdd, TypeOK
  <2>3. /\ at[t] = "add" /\ at' = [at EXCEPT ![t] = "loop"]
        /\ UNCHANGED <<order, sizes, fill, victim, held, used, overwritten, overlapped>>
    BY <1>8 DEF PutAdd, GoTo
  <2> QED BY <1>0, <2>2, <2>3 DEF Shape, TypeOK, Putting
<1>9. ASSUME NEW t \in Threads, PutEvict(t) PROVE Shape'
  <2>1. /\ order # <<>> /\ order' = Tail(order)
        /\ victim' = [victim EXCEPT ![t] = Head(order)]
        /\ used' \subseteq used
    BY <1>9 DEF PutEvict, OverCap, Pop
  <2>2. order' \in Seq(Keys) /\ IsInjective(order') /\ Head(order) \in Keys
    BY <1>0, <2>1, TailFacts DEF TypeOK
  <2>3. /\ at[t] = "loop" /\ at' = [at EXCEPT ![t] = "popped"]
        /\ UNCHANGED <<sizes, total, fill, held, overwritten, overlapped>>
    BY <1>9 DEF PutEvict, Pop, GoTo
  <2> QED BY <1>0, <2>1, <2>2, <2>3 DEF Shape, TypeOK, Putting
<1>10. ASSUME NEW t \in Threads, PutFree(t) PROVE Shape'
  <2>1. total - SizeOf(victim[t]) \in Int
    BY <1>0, SizeOfType DEF TypeOK
  <2>2. sizes' = [j \in DOMAIN sizes \ {victim[t]} |-> sizes[j]]
    BY <1>10 DEF PutFree
  <2>3. DOMAIN sizes' \subseteq Keys /\ Range(sizes') \subseteq Sizes
    BY <1>0, <2>2 DEF TypeOK, Range
  <2>4. /\ at[t] = "popped" /\ at' = [at EXCEPT ![t] = "taken"]
        /\ held' = [held EXCEPT ![t] = total - SizeOf(victim[t])]
        /\ victim' = [victim EXCEPT ![t] = None]
        /\ UNCHANGED <<order, total, fill, used, overwritten, overlapped>>
    BY <1>10 DEF PutFree, GoTo
  <2> QED BY <1>0, <2>1, <2>3, <2>4 DEF Shape, TypeOK, Putting
<1>11. ASSUME NEW t \in Threads, PutTake(t) PROVE Shape'
  BY <1>0, <1>11 DEF PutTake, Shape, TypeOK, GoTo, Putting
<1>12. ASSUME NEW t \in Threads, PutEnd(t) PROVE Shape'
  BY <1>0, <1>12 DEF PutEnd, Shape, TypeOK, Over, GoTo, Putting, Flushing
<1>13. CASE FlushEntries
  <2>1. order' = <<>> /\ order' \in Seq(Keys) /\ used' = {} /\ overwritten' = FALSE
    BY <1>13 DEF FlushEntries
  <2>2. IsInjective(order')
    BY <2>1 DEF IsInjective
  <2>3. overlapped' \in BOOLEAN
    BY <1>13, Zenon DEF FlushEntries, Another
  <2>4. /\ at["server"] = "idle" /\ at' = [at EXCEPT !["server"] = "clear_sizes"]
        /\ UNCHANGED <<sizes, total, fill, victim, held>>
    BY <1>13 DEF FlushEntries, GoTo
  <2> QED BY <1>0, <2>1, <2>2, <2>3, <2>4 DEF Shape, TypeOK, Putting, Flushing, Threads
<1>14. CASE FlushSizes
  <2>1. sizes' = <<>> /\ DOMAIN sizes' = {} /\ Range(sizes') = {}
    BY <1>14 DEF FlushSizes, Range
  <2> QED BY <1>0, <1>14, <2>1 DEF FlushSizes, Shape, TypeOK, GoTo, Putting, Flushing, Threads
<1>15. CASE FlushTotal
  BY <1>0, <1>15 DEF FlushTotal, Shape, TypeOK, Over, GoTo, Putting, Flushing, Threads
<1>16. CASE UNCHANGED vars
  BY <1>0, <1>16 DEF vars, Shape, TypeOK
<1> QED BY <1>1, <1>2, <1>3, <1>4, <1>5, <1>6, <1>7, <1>8, <1>9, <1>10, <1>11, <1>12,
           <1>13, <1>14, <1>15, <1>16 DEF Next, PutStep, Flush

LEMMA Shaped == Spec => []Shape
BY ShapeInit, ShapeStep, PTL DEF Spec

(* The variables keep their types in every interleaving; the counter of    *)
(* bytes is an integer only: overlapping puts can drive it below 0.        *)
THEOREM CacheTypes == Spec => []TypeOK
<1>1. Shape => TypeOK
  BY DEF Shape
<1> QED BY <1>1, Shaped, PTL

-----------------------------------------------------------------------------
(* The cap and the order of use: in every interleaving too.                *)

(* A thread in put() or invalidate() keeps the cache from being quiet. *)
LEMMA BusyThread ==
    ASSUME TypeOK, NEW t \in Threads, NEW step, GoTo(t, step)
    PROVE  /\ at'[t] = step
           /\ \A u \in Threads \ {t} : at'[u] = at[u]
           /\ step \in Putting \cup Flushing => ~Quiet'
BY DEF GoTo, TypeOK, Quiet, Busy

(* The step a thread's last statement takes it to. *)
LEMMA OverThread ==
    ASSUME TypeOK, NEW t \in Threads, Over(t)
    PROVE  /\ at'[t] \in {"idle", "done"}
           /\ \A u \in Threads \ {t} : at'[u] = at[u]
           /\ ~Busy(t)'
BY DEF Over, GoTo, TypeOK, Busy, Putting, Flushing

LEMMA CapInit == Init => UnderCap
BY DEF Init, UnderCap

LEMMA CapStep == Shape /\ UnderCap /\ [Next]_vars => UnderCap'
<1> SUFFICES ASSUME Shape, UnderCap, [Next]_vars, Quiet'
             PROVE  total' <= MaxBytes \/ order' = <<>>
    BY DEF UnderCap
<1>0. TypeOK
  BY DEF Shape
<1>1. ASSUME NEW t \in Threads, NEW k \in Keys, Hit(t, k)
      PROVE  total' <= MaxBytes \/ order' = <<>>
  <2>1. k \in Cached /\ at[t] = "idle" /\ Over(t) /\ total' = total
    BY <1>1 DEF Hit
  <2>2. Quiet
    BY <1>0, <2>1, OverThread DEF Quiet, Busy, Putting, Flushing
  <2>3. order # <<>>
    BY <2>1 DEF Cached, Range
  <2> QED BY <2>1, <2>2, <2>3 DEF UnderCap
<1>2. ASSUME NEW t \in Threads, NEW k \in Keys, Miss(t, k)
      PROVE  total' <= MaxBytes \/ order' = <<>>
  <2>1. at[t] = "idle" /\ GoTo(t, "missed") /\ total' = total /\ order' = order
    BY <1>2 DEF Miss
  <2>2. Quiet
    BY <1>0, <2>1, BusyThread DEF Quiet, Busy, Putting, Flushing
  <2> QED BY <2>1, <2>2 DEF UnderCap
<1>3. ASSUME NEW t \in Threads, GiveUp(t)
      PROVE  total' <= MaxBytes \/ order' = <<>>
  <2>1. at[t] \in {"idle", "missed"} /\ Over(t) /\ total' = total /\ order' = order
    BY <1>3 DEF GiveUp
  <2>2. Quiet
    BY <1>0, <2>1, OverThread DEF Quiet, Busy, Putting, Flushing
  <2> QED BY <2>1, <2>2 DEF UnderCap
<1>4. ASSUME NEW t \in Threads,
             PutBegin(t) \/ PutOff(t) \/ PutAssign(t) \/ PutSize(t) \/ PutAdd(t)
                \/ PutEvict(t) \/ PutFree(t) \/ PutTake(t)
      PROVE  FALSE
  <2>1. \E step \in Putting : GoTo(t, step)
    BY <1>4 DEF PutBegin, PutOff, PutAssign, PutSize, PutAdd, PutEvict, Pop, PutFree,
                PutTake, Putting
  <2> QED BY <1>0, <2>1, BusyThread
<1>5. ASSUME NEW t \in Threads, PutEnd(t)
      PROVE  total' <= MaxBytes \/ order' = <<>>
  <2>1. ~OverCap /\ total' = total /\ order' = order
    BY <1>5 DEF PutEnd
  <2>2. total \in Int /\ MaxBytes \in Nat
    BY <1>0, SizesAssumption DEF TypeOK
  <2> QED BY <2>1, <2>2 DEF OverCap
<1>6. CASE FlushEntries \/ FlushSizes
  <2>1. \E step \in Flushing : GoTo("server", step)
    BY <1>6 DEF FlushEntries, FlushSizes, Flushing
  <2> QED BY <1>0, <2>1, BusyThread DEF Threads
<1>7. CASE FlushTotal
  BY <1>7, SizesAssumption DEF FlushTotal
<1>8. CASE UNCHANGED vars
  BY <1>8 DEF vars, UnderCap, Quiet, Busy
<1> QED BY <1>1, <1>2, <1>3, <1>4, <1>5, <1>6, <1>7, <1>8 DEF Next, PutStep, Flush

(* Between two calls the counter is never over the cap while something is  *)
(* cached, for any keys, sizes and cap and in every interleaving of the    *)
(* statements of the two threads.                                          *)
THEOREM CapHolds == Spec => []UnderCap
BY Shaped, CapInit, CapStep, PTL DEF Spec

(* What the history says, with the names of the lemmas. *)
LEMMA Ordered ==
    /\ LeastRecentlyUsedFirst <=> (~overwritten => Sorted(order, used))
    /\ LeastRecentlyUsedFirst' <=> (~overwritten' => Sorted(order', used'))
    /\ \A k : UseNow(k) /\ ~overwritten' => used' = Later(used, Range(order), k)
BY DEF LeastRecentlyUsedFirst, Sorted, UseNow, Later, Cached

LEMMA OrderInit == Init => LeastRecentlyUsedFirst
<1> SUFFICES ASSUME Init PROVE LeastRecentlyUsedFirst
    OBVIOUS
<1>1. order = <<>> /\ DOMAIN order = {}
  BY DEF Init
<1> QED BY <1>1 DEF LeastRecentlyUsedFirst

LEMMA OrderStep == Shape /\ LeastRecentlyUsedFirst /\ [Next]_vars => LeastRecentlyUsedFirst'
<1> SUFFICES ASSUME Shape, LeastRecentlyUsedFirst, [Next]_vars, ~overwritten'
             PROVE  Sorted(order', used')
    BY Ordered, Zenon
<1>0. order \in Seq(Keys) /\ IsInjective(order) /\ TypeOK
  BY DEF Shape, TypeOK
<1>1. ASSUME NEW t \in Threads, NEW k \in Keys, Hit(t, k) PROVE Sorted(order', used')
  <2>1. k \in Range(order) /\ order' = MoveToEnd(order, k) /\ UseNow(k) /\ ~overwritten
    BY <1>1 DEF Hit, Touch, Cached
  <2>2. Sorted(order, used) /\ used' = Later(used, Range(order), k)
    BY <2>1, Ordered
  <2> QED BY <1>0, <2>1, <2>2, MoveToEndSorted
<1>2. ASSUME NEW t \in Threads, PutAssign(t) PROVE Sorted(order', used')
  <2> DEFINE k == fill[t].key
  <2>1. k \in Keys
    BY <1>0, <1>2, FillType DEF PutAssign, Putting
  <2>2. /\ order' = Assign(order, k) /\ UseNow(k)
        /\ overwritten' = (overwritten \/ k \in Cached)
    BY <1>2 DEF PutAssign
  <2> HIDE DEF k
  <2>3. ~overwritten /\ k \notin Cached
    BY <2>2
  <2>4. order' = Append(order, k)
    BY <2>1, <2>2, <2>3, AssignShape
  <2>5. Sorted(order, used) /\ used' = Later(used, Range(order), k)
    BY <2>2, <2>3, Ordered
  <2> QED BY <1>0, <2>1, <2>3, <2>4, <2>5, AppendOrder DEF Cached
<1>3. ASSUME NEW t \in Threads, PutEvict(t) PROVE Sorted(order', used')
  <2>1. /\ order # <<>> /\ order' = Tail(order) /\ overwritten' = overwritten
        /\ used' = used \cap (Range(order') \X Range(order'))
    BY <1>3 DEF PutEvict, OverCap, Pop
  <2>2. Sorted(order, used)
    BY <2>1, Ordered
  <2> QED BY <1>0, <2>1, <2>2, TailFacts
<1>4. CASE FlushEntries
  <2>1. order' = <<>> /\ DOMAIN order' = {}
    BY <1>4 DEF FlushEntries
  <2> QED BY <2>1 DEF Sorted
<1>5. CASE UNCHANGED <<order, used, overwritten>>
  BY <1>5, Ordered
<1>6. ASSUME NEW t \in Threads, NEW k \in Keys, Miss(t, k)
      PROVE  UNCHANGED <<order, used, overwritten>>
  BY <1>6 DEF Miss
<1>7. ASSUME NEW t \in Threads,
             GiveUp(t) \/ PutBegin(t) \/ PutOff(t) \/ PutSize(t) \/ PutAdd(t)
                \/ PutFree(t) \/ PutTake(t) \/ PutEnd(t)
      PROVE  UNCHANGED <<order, used, overwritten>>
  BY <1>7 DEF GiveUp, PutBegin, PutOff, PutSize, PutAdd, PutFree, PutTake, PutEnd
<1>8. FlushSizes \/ FlushTotal \/ UNCHANGED vars => UNCHANGED <<order, used, overwritten>>
  BY DEF FlushSizes, FlushTotal, vars
<1> QED BY <1>1, <1>2, <1>3, <1>4, <1>5, <1>6, <1>7, <1>8 DEF Next, PutStep, Flush

(* Without a second put of one key, the eviction order is the order of     *)
(* last use, however the two threads interleave.                           *)
THEOREM EvictsInOrderOfUse == Spec => []LeastRecentlyUsedFirst
BY Shaped, OrderInit, OrderStep, PTL DEF Spec

-----------------------------------------------------------------------------
(* The accounting, as long as no two methods overlap: what holds between   *)
(* two statements of put() and invalidate().                               *)

OthersOf(k) == Sum(order, Without(order, sizes, k))

(* The totals agree. *)
Exact == DOMAIN sizes = Cached /\ total = Bytes

(* k is the last entry the loop would evict. *)
Newest(k) == order # <<>> /\ order[Len(order)] = k

(* A result that fits is there, and the last in line for eviction. *)
Kept(t) ==
    ~overwritten /\ fill[t].size <= MaxBytes
        => Newest(fill[t].key) /\ sizes[fill[t].key] = fill[t].size

(* What each statement of put() finds. *)
Stage(t) ==
    LET k == fill[t].key
    IN  /\ at[t] = "off" =>
              /\ DOMAIN sizes = Cached /\ k \in Cached
              /\ held[t] = OthersOf(k)
        /\ at[t] = "assign" =>
              /\ DOMAIN sizes = Cached
              /\ total = OthersOf(k)
        /\ at[t] = "size" =>
              /\ DOMAIN sizes \cup {k} = Cached
              /\ total = OthersOf(k)
              /\ ~overwritten => Newest(k)
        /\ at[t] = "add" =>
              /\ DOMAIN sizes = Cached /\ k \in Cached
              /\ sizes[k] = fill[t].size
              /\ total = OthersOf(k)
              /\ ~overwritten => Newest(k)
        /\ at[t] = "loop" => Exact /\ Kept(t)
        /\ at[t] = "popped" =>
              /\ victim[t] \notin Cached /\ DOMAIN sizes = Cached \cup {victim[t]}
              /\ total = Bytes + sizes[victim[t]]
              /\ Kept(t)
        /\ at[t] = "taken" =>
              /\ DOMAIN sizes = Cached /\ held[t] = Bytes
              /\ Kept(t)
        /\ at[t] = "clear_sizes" => order = <<>>
        /\ at[t] = "zero" => order = <<>> /\ sizes = <<>>

InStep ==
    ~overlapped =>
        /\ Quiet => Exact
        /\ \A t \in Threads : Busy(t) => Stage(t) /\ ~Another(t)

(* A thread that is in a method alone leaves it, or goes on to a statement *)
(* that finds what it needs.                                               *)
LEMMA Onward ==
    ASSUME Shape, NEW t \in Threads, ~Another(t),
           \/ \E step \in Putting \cup Flushing : GoTo(t, step) /\ Stage(t)'
           \/ Over(t) /\ Exact'
    PROVE  InStep'
<1>0. TypeOK
  BY DEF Shape
<1>1. \A u \in Threads \ {t} : at'[u] = at[u]
  BY <1>0, BusyThread, OverThread
<1>2. ~Another(t)'
  BY <1>1 DEF Another, Busy
<1>3. CASE \E step \in Putting \cup Flushing : GoTo(t, step) /\ Stage(t)'
  <2>1. ~Quiet'
    BY <1>0, <1>3, BusyThread
  <2>2. \A u \in Threads : Busy(u)' => u = t
    BY <1>2 DEF Another
  <2> QED BY <1>2, <1>3, <2>1, <2>2 DEF InStep
<1>4. CASE Over(t) /\ Exact'
  <2>1. ~Busy(t)'
    BY <1>0, <1>4, OverThread
  <2>2. \A u \in Threads : ~Busy(u)'
    BY <1>2, <2>1 DEF Another
  <2> QED BY <1>4, <2>2 DEF InStep
<1> QED BY <1>3, <1>4

(* Alone in a method, and what it finds there. *)
LEMMA Alone ==
    ASSUME InStep, ~overlapped, NEW t \in Threads, at[t] \in Putting \cup Flushing
    PROVE  Stage(t) /\ ~Another(t)
BY DEF InStep, Busy

(* About to enter a method that no other thread is in. *)
LEMMA Entering ==
    ASSUME InStep, ~overlapped, NEW t \in Threads, ~Another(t), ~Busy(t)
    PROVE  Exact
BY DEF InStep, Quiet, Another

(* The order and the sizes as the lemmas about sums want them. *)
LEMMA CachedSizes ==
    ASSUME Shape
    PROVE  /\ order \in Seq(Keys) /\ IsInjective(order) /\ Cached = Range(order)
           /\ Bytes = Sum(order, sizes)
           /\ \A j \in DOMAIN sizes : sizes[j] \in Nat
BY SizeOfType DEF Shape, TypeOK, Cached, Bytes, Sum

(* The sum is that of the other entries and the one. *)
LEMMA SumOfOthers ==
    ASSUME Shape, NEW k, k \in Cached, DOMAIN sizes = Cached
    PROVE  /\ Bytes = OthersOf(k) + sizes[k]
           /\ OthersOf(k) \in Nat /\ sizes[k] \in Nat /\ Bytes \in Nat
<1>1. /\ order \in Seq(Keys) /\ IsInjective(order) /\ Cached = Range(order)
      /\ Bytes = Sum(order, sizes)
      /\ \A j \in Range(order) : sizes[j] \in Nat
  BY CachedSizes
<1>2. sizes[k] \in Nat /\ k \in Range(order)
  BY <1>1
<1>3. /\ Sum(order, sizes) = Sum(order, Without(order, sizes, k)) + sizes[k]
      /\ Sum(order, Without(order, sizes, k)) \in Nat
  BY <1>1, <1>2, SumSplit
<1>4. Bytes = OthersOf(k) + sizes[k] /\ OthersOf(k) \in Nat
  BY <1>1, <1>3 DEF OthersOf
<1>5. Bytes \in Nat
  BY <1>2, <1>4
<1> QED BY <1>2, <1>4, <1>5

-----------------------------------------------------------------------------
(* One lemma per method or statement. *)

LEMMA InStepHit ==
    ASSUME Shape, InStep, NEW t \in Threads, NEW k \in Keys, Hit(t, k), ~overlapped'
    PROVE  InStep'
<1>1. /\ ~overlapped /\ ~Another(t) /\ at[t] = "idle" /\ k \in Cached /\ Over(t)
      /\ order' = MoveToEnd(order, k) /\ sizes' = sizes /\ total' = total
  BY DEF Hit, Touch
<1>2. Exact
  BY <1>1, Entering DEF Busy, Putting, Flushing
<1>3. /\ order \in Seq(Keys) /\ Cached = Range(order) /\ Bytes = Sum(order, sizes)
      /\ \A j \in Range(order) : sizes[j] \in Nat
  BY <1>2, CachedSizes DEF Exact
<1>4. Range(order') = Cached /\ Len(order') = Len(order)
  BY <1>1, TouchShape
<1>5. Freed(order', sizes, Len(order)) = Freed(order, sizes, Len(order))
  BY <1>1, <1>3, MoveToEndFreed
<1>6. Exact'
  BY <1>1, <1>2, <1>4, <1>5 DEF Exact, Cached, Bytes
<1> QED BY <1>1, <1>6, Onward

(* Outside the methods nothing of this changes. *)
LEMMA InStepIdle ==
    ASSUME Shape, InStep, NEW t \in Threads,
           at[t] \in {"idle", "missed"}, at'[t] \in {"idle", "missed", "done"},
           \A u \in Threads \ {t} : at'[u] = at[u] /\ fill'[u] = fill[u],
           UNCHANGED <<order, sizes, total, victim, held, overwritten, overlapped>>
    PROVE  InStep'
<1>1. ~Busy(t) /\ ~Busy(t)' /\ \A u \in Threads : Busy(u)' <=> Busy(u)
  BY DEF Busy, Putting, Flushing
<1>2. ASSUME NEW u \in Threads \ {t}, Stage(u) PROVE Stage(u)'
  <2>1. at'[u] = at[u] /\ fill'[u] = fill[u]
    OBVIOUS
  <2> QED BY <1>2, <2>1
          DEF Stage, Cached, Bytes, OthersOf, Newest, Exact, Kept
<1> QED BY <1>1, <1>2 DEF InStep, Quiet, Another, Exact, Cached, Bytes

LEMMA InStepBegin ==
    ASSUME Shape, InStep, NEW t \in Threads, PutBegin(t), ~overlapped'
    PROVE  InStep'
<1> DEFINE k == fill[t].key
<1>1. /\ ~overlapped /\ ~Another(t) /\ at[t] = "missed"
      /\ UNCHANGED <<order, sizes, total, fill, overwritten>>
      /\ \/ /\ k \in Cached
            /\ held' = [held EXCEPT ![t] = total - SizeOf(k)]
            /\ GoTo(t, "off")
         \/ k \notin Cached /\ GoTo(t, "assign")
  BY DEF PutBegin
<1>2. Exact /\ TypeOK
  BY <1>1, Entering DEF Busy, Putting, Flushing, Shape
<1>3. Cached' = Cached /\ OthersOf(k)' = OthersOf(k) /\ k' = k
  BY <1>1 DEF Cached, OthersOf
<1> HIDE DEF k
<1>4. CASE k \in Cached
  <2>1. /\ GoTo(t, "off") /\ held'[t] = total - SizeOf(k)
    BY <1>1, <1>2, <1>4 DEF TypeOK
  <2>2. SizeOf(k) = sizes[k] /\ DOMAIN sizes = Cached /\ total = Bytes
    BY <1>2, <1>4 DEF SizeOf, Exact
  <2>3. held'[t] = OthersOf(k)
    <3>1. /\ Bytes = OthersOf(k) + sizes[k]
          /\ OthersOf(k) \in Nat /\ sizes[k] \in Nat
      BY <1>4, <2>2, SumOfOthers
    <3>2. held'[t] = Bytes - sizes[k]
      BY <2>1, <2>2
    <3> QED BY <3>1, <3>2
  <2>4. at'[t] = "off"
    BY <1>2, <2>1, BusyThread
  <2>5. Stage(t)'
    BY <1>1, <1>3, <1>4, <2>2, <2>3, <2>4 DEF Stage, k
  <2>6. "off" \in Putting \cup Flushing
    BY DEF Putting
  <2> QED BY <1>1, <2>1, <2>5, <2>6, Onward
<1>5. CASE k \notin Cached
  <2>1. GoTo(t, "assign") /\ at'[t] = "assign"
    BY <1>1, <1>2, <1>5, BusyThread
  <2>2. Sum(order, sizes) = Sum(order, Without(order, sizes, k))
    <3>1. /\ order \in Seq(Keys)
          /\ \A j \in Range(order) : sizes[j] \in Nat /\ j # k
      BY <1>2, <1>5, CachedSizes DEF Exact
    <3>2. \A j \in Range(order) : sizes[j] = Without(order, sizes, k)[j]
      BY <3>1 DEF Without
    <3> QED BY <3>1, <3>2, SumAgrees
  <2>3. total = OthersOf(k) /\ DOMAIN sizes = Cached
    BY <1>2, <2>2, CachedSizes DEF Exact, OthersOf
  <2>4. Stage(t)'
    BY <1>1, <1>3, <2>1, <2>3 DEF Stage, k
  <2>5. "assign" \in Putting \cup Flushing
    BY DEF Putting
  <2> QED BY <1>1, <2>1, <2>4, <2>5, Onward
<1> QED BY <1>4, <1>5

LEMMA InStepOff ==
    ASSUME Shape, InStep, ~overlapped, NEW t \in Threads, PutOff(t)
    PROVE  InStep'
<1> DEFINE k == fill[t].key
<1>1. /\ at[t] = "off" /\ total' = held[t] /\ GoTo(t, "assign")
      /\ UNCHANGED <<order, sizes, fill>>
  BY DEF PutOff
<1>2. "off" \in Putting \cup Flushing /\ "assign" \in Putting \cup Flushing /\ TypeOK
  BY DEF Putting, Shape
<1>3. Stage(t) /\ ~Another(t)
  BY <1>1, <1>2, Alone
<1>4. at'[t] = "assign"
  BY <1>1, <1>2, BusyThread
<1>5. Stage(t)'
  BY <1>1, <1>3, <1>4 DEF Stage, Cached, OthersOf
<1> QED BY <1>1, <1>2, <1>3, <1>5, Onward

LEMMA InStepAssign ==
    ASSUME Shape, InStep, ~overlapped, NEW t \in Threads, PutAssign(t)
    PROVE  InStep'
<1> DEFINE k == fill[t].key
<1>1. /\ at[t] = "assign" /\ GoTo(t, "size") /\ order' = Assign(order, k)
      /\ overwritten' = (overwritten \/ k \in Cached)
      /\ UNCHANGED <<sizes, total, fill>>
  BY DEF PutAssign
<1>2. "assign" \in Putting \cup Flushing /\ "size" \in Putting \cup Flushing /\ TypeOK
  BY DEF Putting, Shape
<1>3. Stage(t) /\ ~Another(t)
  BY <1>1, <1>2, Alone
<1>4. DOMAIN sizes = Cached /\ total = OthersOf(k)
  BY <1>1, <1>3 DEF Stage
<1>5. k \in Keys
  BY <1>1, <1>2, FillType DEF Putting
<1>6. at'[t] = "size" /\ k' = k
  BY <1>1, <1>2, BusyThread
<1> HIDE DEF k
<1>7. /\ order \in Seq(Keys) /\ IsInjective(order) /\ Cached = Range(order)
      /\ \A j \in Range(order) : sizes[j] \in Nat
  BY <1>4, CachedSizes
<1>8. /\ Cached' = Cached \cup {k}
      /\ k \in Cached => order' = order
      /\ k \notin Cached => order' = Append(order, k)
  BY <1>1, <1>5, AssignShape DEF Cached
<1>9. OthersOf(k)' = OthersOf(k)
  <2>1. CASE k \in Cached
    <3>1. order' = order /\ sizes' = sizes
      BY <1>1, <1>8, <2>1
    <3> QED BY <1>6, <3>1 DEF OthersOf
  <2>2. CASE k \notin Cached
    <3> DEFINE f == Without(order, sizes, k)
               g == Without(order', sizes, k)
    <3>1. /\ g[k] = 0 /\ 0 \in Nat
          /\ \A j \in Range(order) : f[j] \in Nat /\ g[j] = f[j]
      BY <1>7, <1>8, <2>2 DEF Without, Cached
    <3> HIDE DEF f, g
    <3>2. Sum(Append(order, k), g) = Sum(order, f) + 0 /\ Sum(order, f) \in Nat
      BY <1>5, <1>7, <2>2, <3>1, SumAppend
    <3>3. Sum(Append(order, k), g) = Sum(order, f)
      BY <3>2
    <3>4. Sum(order', g) = Sum(order, f)
      BY <1>8, <2>2, <3>3
    <3> QED BY <1>1, <1>6, <3>4 DEF OthersOf, f, g
  <2> QED BY <2>1, <2>2
<1>10. ASSUME ~overwritten' PROVE Newest(k)'
  <2>1. order' = Append(order, k)
    BY <1>1, <1>8, <1>10
  <2>2. /\ Len(order') = Len(order) + 1 /\ order'[Len(order) + 1] = k
        /\ Len(order) \in Nat /\ order' \in Seq(Keys)
    BY <1>5, <1>7, <2>1, AppendProperties, LenProperties
  <2>3. order' # <<>>
    BY <2>2, EmptySeq
  <2> QED BY <1>6, <2>2, <2>3 DEF Newest
<1>11. Stage(t)'
  BY <1>1, <1>4, <1>6, <1>8, <1>9, <1>10 DEF Stage, k
<1> QED BY <1>1, <1>2, <1>3, <1>11, Onward

LEMMA InStepSize ==
    ASSUME Shape, InStep, ~overlapped, NEW t \in Threads, PutSize(t)
    PROVE  InStep'
<1> DEFINE k == fill[t].key
           z == fill[t].size
<1>1. /\ at[t] = "size" /\ GoTo(t, "add")
      /\ sizes' = [j \in DOMAIN sizes \cup {k} |-> IF j = k THEN z ELSE sizes[j]]
      /\ UNCHANGED <<order, total, fill, overwritten>>
  BY DEF PutSize
<1>2. "size" \in Putting \cup Flushing /\ "add" \in Putting \cup Flushing /\ TypeOK
  BY DEF Putting, Shape
<1>3. Stage(t) /\ ~Another(t)
  BY <1>1, <1>2, Alone
<1>4. DOMAIN sizes \cup {k} = Cached /\ total = OthersOf(k) /\ (~overwritten => Newest(k))
  BY <1>1, <1>3 DEF Stage
<1>5. at'[t] = "add" /\ k' = k /\ z' = z
  BY <1>1, <1>2, BusyThread
<1> HIDE DEF k, z
<1>6. DOMAIN sizes' = Cached' /\ k \in Cached' /\ sizes'[k] = z
  BY <1>1, <1>4 DEF Cached
<1>7. OthersOf(k)' = OthersOf(k)
  <2>1. \A j \in Range(order) : j # k => sizes'[j] = sizes[j]
    BY <1>1, <1>4 DEF Cached
  <2>2. Without(order, sizes', k) = Without(order, sizes, k)
    BY <2>1 DEF Without
  <2> QED BY <1>1, <1>5, <2>2 DEF OthersOf
<1>8. (~overwritten => Newest(k))'
  BY <1>1, <1>4, <1>5 DEF Newest
<1>9. Stage(t)'
  BY <1>1, <1>4, <1>5, <1>6, <1>7, <1>8 DEF Stage, k, z
<1> QED BY <1>1, <1>2, <1>3, <1>9, Onward

LEMMA InStepAdd ==
    ASSUME Shape, InStep, ~overlapped, NEW t \in Threads, PutAdd(t)
    PROVE  InStep'
<1>1. /\ at[t] = "add" /\ GoTo(t, "loop") /\ total' = total + fill[t].size
      /\ UNCHANGED <<order, sizes, fill, overwritten>>
  BY DEF PutAdd
<1>2. "add" \in Putting \cup Flushing /\ "loop" \in Putting \cup Flushing /\ TypeOK
  BY DEF Putting, Shape
<1>3. Stage(t) /\ ~Another(t)
  BY <1>1, <1>2, Alone
<1>4. /\ DOMAIN sizes = Cached /\ fill[t].key \in Cached
      /\ sizes[fill[t].key] = fill[t].size
      /\ total = OthersOf(fill[t].key)
      /\ ~overwritten => Newest(fill[t].key)
  BY <1>1, <1>3 DEF Stage
<1>5. at'[t] = "loop"
  BY <1>1, <1>2, BusyThread
<1>6. total' = Bytes
  <2>1. Bytes = OthersOf(fill[t].key) + sizes[fill[t].key]
    BY <1>4, SumOfOthers
  <2> QED BY <1>1, <1>4, <2>1
<1>7. Exact'
  BY <1>1, <1>4, <1>6 DEF Exact, Cached, Bytes
<1>8. Kept(t)'
  BY <1>1, <1>4 DEF Kept, Newest
<1>9. Stage(t)'
  BY <1>5, <1>7, <1>8 DEF Stage
<1> QED BY <1>1, <1>2, <1>3, <1>9, Onward

LEMMA InStepEvict ==
    ASSUME Shape, InStep, ~overlapped, NEW t \in Threads, PutEvict(t)
    PROVE  InStep'
<1> DEFINE k == fill[t].key
<1>1. /\ at[t] = "loop" /\ GoTo(t, "popped") /\ OverCap
      /\ victim' = [victim EXCEPT ![t] = Head(order)]
      /\ order' = Tail(order)
      /\ UNCHANGED <<sizes, total, fill, overwritten>>
  BY DEF PutEvict, Pop
<1>2. "loop" \in Putting \cup Flushing /\ "popped" \in Putting \cup Flushing /\ TypeOK
  BY DEF Putting, Shape
<1>3. Stage(t) /\ ~Another(t)
  BY <1>1, <1>2, Alone
<1>4. DOMAIN sizes = Cached /\ total = Bytes /\ Kept(t)
  BY <1>1, <1>3 DEF Stage, Exact
<1>5. at'[t] = "popped" /\ victim'[t] = Head(order)
  BY <1>1, <1>2, BusyThread DEF TypeOK
<1>6. /\ order \in Seq(Keys) /\ IsInjective(order) /\ Cached = Range(order)
      /\ Bytes = Sum(order, sizes)
      /\ \A j \in Range(order) : sizes[j] \in Nat
      /\ order # <<>> /\ total > MaxBytes
  BY <1>1, <1>4, CachedSizes DEF OverCap
<1>7. /\ Head(order) \in Range(order) /\ Range(order') = Range(order) \ {Head(order)}
      /\ order' \in Seq(Keys)
      /\ Len(order) > 0 /\ Len(order') = Len(order) - 1
      /\ \A i \in 1..(Len(order) - 1) : order'[i] = order[i + 1]
      /\ Sum(order', sizes) = Sum(order, sizes) - sizes[Head(order)]
      /\ Sum(order', sizes) \in Nat /\ Sum(order, sizes) \in Nat
  BY <1>1, <1>6, TailFacts
<1>8. sizes[Head(order)] \in Nat
  BY <1>6, <1>7
<1>9. total = Sum(order', sizes) + sizes[Head(order)]
  BY <1>4, <1>6, <1>7, <1>8
<1>10. /\ victim'[t] \notin Cached' /\ DOMAIN sizes' = Cached' \cup {victim'[t]}
       /\ total' = Bytes' + sizes'[victim'[t]]
  BY <1>1, <1>4, <1>5, <1>6, <1>7, <1>9 DEF Cached, Bytes, Sum
<1>11. Kept(t)'
  <2> SUFFICES ASSUME ~overwritten, fill[t].size <= MaxBytes
               PROVE  Newest(k)' /\ sizes[k] = fill[t].size
      BY <1>1 DEF Kept
  <2>1. order[Len(order)] = k /\ sizes[k] = fill[t].size
    BY <1>4 DEF Kept, Newest
  <2>2. Len(order) \in Nat /\ Len(order') \in Nat
    BY <1>6, <1>7, LenProperties
  <2>3. Len(order) # 1
    <3> SUFFICES ASSUME Len(order) = 1 PROVE FALSE
        OBVIOUS
    <3>1. Head(order) = k
      BY <1>6, <2>1
    <3>2. order' = <<>> /\ Len(order') = 0
      BY <1>7, EmptySeq
    <3>3. Sum(order', sizes) = 0
      BY <3>2, FreedRecursive DEF Sum
    <3>4. total = sizes[k] /\ fill[t].size \in Nat /\ MaxBytes \in Nat
      BY <1>8, <1>9, <3>1, <3>3, <2>1, SizesAssumption
    <3> QED BY <1>6, <2>1, <3>4
  <2>4. Len(order) - 1 \in 1..(Len(order) - 1) /\ (Len(order) - 1) + 1 = Len(order)
    BY <1>7, <2>2, <2>3
  <2>5. order'[Len(order')] = k
    BY <1>7, <2>1, <2>4
  <2>6. order' # <<>>
    BY <1>7, <2>2, <2>3, EmptySeq
  <2> QED BY <1>1, <2>1, <2>5, <2>6 DEF Newest
<1>12. Stage(t)'
  BY <1>5, <1>10, <1>11 DEF Stage
<1> QED BY <1>1, <1>2, <1>3, <1>12, Onward

(* The newest entry is one of the cached ones. *)
LEMMA NewestCached ==
    ASSUME Shape, NEW k, Newest(k)
    PROVE  k \in Cached
<1>1. order \in Seq(Keys) /\ order # <<>> /\ order[Len(order)] = k
  BY DEF Shape, TypeOK, Newest
<1>2. Len(order) \in 1..Len(order) /\ DOMAIN order = 1..Len(order)
  BY <1>1, LenProperties, EmptySeq
<1> QED BY <1>1, <1>2 DEF Cached, Range

LEMMA InStepFree ==
    ASSUME Shape, InStep, ~overlapped, NEW t \in Threads, PutFree(t)
    PROVE  InStep'
<1> DEFINE v == victim[t]
<1>1. /\ at[t] = "popped" /\ GoTo(t, "taken")
      /\ held' = [held EXCEPT ![t] = total - SizeOf(v)]
      /\ sizes' = [j \in DOMAIN sizes \ {v} |-> sizes[j]]
      /\ UNCHANGED <<order, fill, overwritten>>
  BY DEF PutFree
<1>2. "popped" \in Putting \cup Flushing /\ "taken" \in Putting \cup Flushing /\ TypeOK
  BY DEF Putting, Shape
<1>3. Stage(t) /\ ~Another(t)
  BY <1>1, <1>2, Alone
<1>4. /\ v \notin Cached /\ DOMAIN sizes = Cached \cup {v}
      /\ total = Bytes + sizes[v] /\ Kept(t)
  BY <1>1, <1>3 DEF Stage
<1>5. at'[t] = "taken" /\ held'[t] = total - SizeOf(v)
  BY <1>1, <1>2, BusyThread DEF TypeOK
<1> HIDE DEF v
<1>6. DOMAIN sizes' = Cached' /\ \A j \in Cached : sizes'[j] = sizes[j]
  BY <1>1, <1>4 DEF Cached
<1>7. /\ order \in Seq(Keys) /\ Cached = Range(order) /\ Bytes = Sum(order, sizes)
      /\ \A j \in DOMAIN sizes : sizes[j] \in Nat
  BY CachedSizes
<1>8. Sum(order, sizes) = Sum(order, sizes') /\ Sum(order, sizes) \in Nat
  BY <1>4, <1>6, <1>7, SumAgrees
<1>9. SizeOf(v) = sizes[v] /\ sizes[v] \in Nat
  BY <1>4, <1>7 DEF SizeOf
<1>10. held'[t] = Bytes'
  <2>1. total - sizes[v] = Bytes
    BY <1>4, <1>7, <1>8, <1>9
  <2> QED BY <1>1, <1>5, <1>7, <1>8, <1>9, <2>1 DEF Bytes, Sum
<1>11. Kept(t)'
  <2> SUFFICES ASSUME ~overwritten, fill[t].size <= MaxBytes
               PROVE  Newest(fill[t].key) /\ sizes'[fill[t].key] = fill[t].size
      BY <1>1 DEF Kept, Newest
  <2>1. Newest(fill[t].key) /\ sizes[fill[t].key] = fill[t].size
    BY <1>4 DEF Kept
  <2>2. fill[t].key \in Cached
    BY <2>1, NewestCached
  <2> QED BY <1>6, <2>1, <2>2
<1>12. Stage(t)'
  BY <1>5, <1>6, <1>10, <1>11 DEF Stage
<1> QED BY <1>1, <1>2, <1>3, <1>12, Onward

LEMMA InStepTake ==
    ASSUME Shape, InStep, ~overlapped, NEW t \in Threads, PutTake(t)
    PROVE  InStep'
<1>1. /\ at[t] = "taken" /\ GoTo(t, "loop") /\ total' = held[t]
      /\ UNCHANGED <<order, sizes, fill, overwritten>>
  BY DEF PutTake
<1>2. "taken" \in Putting \cup Flushing /\ "loop" \in Putting \cup Flushing /\ TypeOK
  BY DEF Putting, Shape
<1>3. Stage(t) /\ ~Another(t)
  BY <1>1, <1>2, Alone
<1>4. at'[t] = "loop"
  BY <1>1, <1>2, BusyThread
<1>5. DOMAIN sizes = Cached /\ held[t] = Bytes /\ Kept(t)
  BY <1>1, <1>3 DEF Stage
<1>6. Exact' /\ Kept(t)'
  BY <1>1, <1>5 DEF Exact, Kept, Cached, Bytes, Newest
<1>7. Stage(t)'
  BY <1>4, <1>6 DEF Stage
<1> QED BY <1>1, <1>2, <1>3, <1>7, Onward

LEMMA InStepEnd ==
    ASSUME Shape, InStep, ~overlapped, NEW t \in Threads, PutEnd(t)
    PROVE  InStep'
<1>1. at[t] = "loop" /\ Over(t) /\ UNCHANGED <<order, sizes, total>>
  BY DEF PutEnd
<1>2. "loop" \in Putting \cup Flushing
  BY DEF Putting
<1>3. Stage(t) /\ ~Another(t)
  BY <1>1, <1>2, Alone
<1>4. Exact'
  BY <1>1, <1>3 DEF Stage, Exact, Cached, Bytes
<1> QED BY <1>1, <1>3, <1>4, Onward

(* invalidate() leaves an empty cache whatever it finds. *)
LEMMA InStepFlush ==
    ASSUME Shape, InStep, Flush, ~overlapped'
    PROVE  InStep'
<1>0. TypeOK /\ "server" \in Threads /\ Flushing \subseteq Putting \cup Flushing
      /\ "clear_sizes" \in Flushing /\ "zero" \in Flushing
  BY DEF Shape, Threads, Flushing
<1>1. CASE FlushEntries
  <2>1. ~Another("server") /\ GoTo("server", "clear_sizes") /\ order' = <<>>
    BY <1>1 DEF FlushEntries
  <2>2. at'["server"] = "clear_sizes"
    BY <1>0, <2>1, BusyThread
  <2>3. Stage("server")'
    BY <2>1, <2>2 DEF Stage
  <2> QED BY <1>0, <2>1, <2>3, Onward
<1>2. CASE FlushSizes
  <2>1. /\ at["server"] = "clear_sizes" /\ ~overlapped /\ GoTo("server", "zero")
        /\ order' = order /\ sizes' = <<>>
    BY <1>2 DEF FlushSizes
  <2>2. Stage("server") /\ ~Another("server")
    BY <1>0, <2>1, Alone
  <2>3. at'["server"] = "zero"
    BY <1>0, <2>1, BusyThread
  <2>4. Stage("server")'
    BY <2>1, <2>2, <2>3 DEF Stage
  <2> QED BY <1>0, <2>1, <2>2, <2>4, Onward
<1>3. CASE FlushTotal
  <2>1. /\ at["server"] = "zero" /\ ~overlapped /\ Over("server")
        /\ order' = order /\ sizes' = sizes /\ total' = 0
    BY <1>3 DEF FlushTotal
  <2>2. Stage("server") /\ ~Another("server")
    BY <1>0, <2>1, Alone
  <2>3. order' = <<>> /\ sizes' = <<>>
    BY <2>1, <2>2 DEF Stage
  <2>4. DOMAIN sizes' = {} /\ Cached' = {} /\ Len(order') = 0
    BY <2>3 DEF Cached, Range
  <2>5. Bytes' = 0
    BY <2>4, FreedRecursive DEF Bytes
  <2>6. Exact'
    BY <2>1, <2>4, <2>5 DEF Exact
  <2> QED BY <1>0, <2>1, <2>2, <2>6, Onward
<1> QED BY <1>1, <1>2, <1>3 DEF Flush

LEMMA InStepInit == Init => InStep
<1> SUFFICES ASSUME Init PROVE InStep
    OBVIOUS
<1>1. order = <<>> /\ sizes = <<>> /\ total = 0 /\ \A t \in Threads : at[t] = "idle"
  BY DEF Init
<1>2. DOMAIN sizes = {} /\ Cached = {} /\ Len(order) = 0
  BY <1>1 DEF Cached, Range
<1>3. Bytes = 0
  BY <1>2, FreedRecursive DEF Bytes
<1> QED BY <1>1, <1>2, <1>3 DEF InStep, Exact, Busy, Putting, Flushing

LEMMA InStepStep == Shape /\ InStep /\ [Next]_vars => InStep'
<1> SUFFICES ASSUME Shape, InStep, [Next]_vars, ~overlapped' PROVE InStep'
    BY DEF InStep
<1>0. TypeOK
  BY DEF Shape
<1>1. ASSUME NEW t \in Threads, NEW k \in Keys, Hit(t, k) PROVE InStep'
  BY <1>1, InStepHit
<1>2. ASSUME NEW t \in Threads, NEW k \in Keys, Miss(t, k) PROVE InStep'
  <2>1. PICK z \in Sizes : fill' = [fill EXCEPT ![t] = [key |-> k, size |-> z]]
    BY <1>2 DEF Miss
  <2>2. /\ at[t] = "idle" /\ GoTo(t, "missed")
        /\ UNCHANGED <<order, sizes, total, victim, held, overwritten, overlapped>>
    BY <1>2 DEF Miss
  <2>3. /\ at'[t] = "missed"
        /\ \A u \in Threads \ {t} : at'[u] = at[u] /\ fill'[u] = fill[u]
    BY <1>0, <2>1, <2>2, BusyThread DEF TypeOK
  <2> QED BY <2>2, <2>3, InStepIdle
<1>3. ASSUME NEW t \in Threads, GiveUp(t) PROVE InStep'
  <2>1. /\ at[t] \in {"idle", "missed"} /\ Over(t)
        /\ fill' = [fill EXCEPT ![t] = None]
        /\ UNCHANGED <<order, sizes, total, victim, held, overwritten, overlapped>>
    BY <1>3 DEF GiveUp
  <2>2. /\ at'[t] \in {"idle", "done"}
        /\ \A u \in Threads \ {t} : at'[u] = at[u] /\ fill'[u] = fill[u]
    BY <1>0, <2>1, OverThread DEF TypeOK
  <2> QED BY <2>1, <2>2, InStepIdle
<1>4. ASSUME NEW t \in Threads, PutStep(t) PROVE InStep'
  <2>1. CASE PutBegin(t)
    BY <2>1, InStepBegin
  <2>2. CASE ~PutBegin(t)
    <3>1. ~overlapped
      BY <1>4, <2>2 DEF PutStep, PutOff, PutAssign, PutSize, PutAdd, PutEvict, Pop,
                        PutFree, PutTake, PutEnd
    <3> QED BY <1>4, <2>2, <3>1, InStepOff, InStepAssign, InStepSize, InStepAdd,
               InStepEvict, InStepFree, InStepTake, InStepEnd DEF PutStep
  <2> QED BY <2>1, <2>2
<1>5. CASE Flush
  BY <1>5, InStepFlush
<1>6. CASE UNCHANGED vars
  BY <1>6 DEF vars, InStep, Quiet, Busy, Another, Exact, Stage, Kept, Newest, OthersOf,
              Cached, Bytes
<1> QED BY <1>1, <1>2, <1>3, <1>4, <1>5, <1>6 DEF Next

LEMMA Stepwise == Spec => [](Shape /\ InStep)
BY Shaped, InStepInit, InStepStep, PTL DEF Spec

-----------------------------------------------------------------------------

(* Until two methods overlap, the two dicts have the same keys and the     *)
(* total is the sum of the sizes between any two calls, whatever was put,  *)
(* put again, evicted and flushed, for any keys, sizes and cap; a flush    *)
(* with nothing else under way restores it.                                *)
THEOREM TotalsAddUp == Spec => []Accounting
<1>1. InStep => Accounting
  BY DEF InStep, Accounting, Exact
<1> QED BY <1>1, Stepwise, PTL

(* Which statements make a thread pop an entry, and leave put(). *)
LEMMA ThreadMoves ==
    ASSUME TypeOK, [Next]_vars, NEW t \in Threads, at[t] \in Putting, at'[t] # at[t]
    PROVE  PutStep(t)
<1>1. ASSUME NEW u \in Threads, NEW k \in Keys, Hit(u, k) \/ Miss(u, k) PROVE FALSE
  <2>1. at[u] = "idle" /\ \A w \in Threads \ {u} : at'[w] = at[w]
    BY <1>1, BusyThread, OverThread DEF Hit, Miss
  <2> QED BY <2>1 DEF Putting
<1>2. ASSUME NEW u \in Threads, GiveUp(u) PROVE FALSE
  <2>1. at[u] \in {"idle", "missed"} /\ \A w \in Threads \ {u} : at'[w] = at[w]
    BY <1>2, OverThread DEF GiveUp
  <2> QED BY <2>1 DEF Putting
<1>3. ASSUME NEW u \in Threads, PutStep(u) PROVE u = t
  <2>1. \A w \in Threads \ {u} : at'[w] = at[w]
    BY <1>3, BusyThread, OverThread
       DEF PutStep, PutBegin, PutOff, PutAssign, PutSize, PutAdd, PutEvict, Pop, PutFree,
           PutTake, PutEnd
  <2> QED BY <2>1
<1>4. CASE Flush
  <2>1. "server" \in Threads /\ at["server"] \notin Putting
    BY <1>4 DEF Flush, FlushEntries, FlushSizes, FlushTotal, Putting, Threads
  <2>2. \A w \in Threads \ {"server"} : at'[w] = at[w]
    BY <1>4, <2>1, BusyThread, OverThread DEF Flush, FlushEntries, FlushSizes, FlushTotal
  <2> QED BY <2>1, <2>2
<1>5. ~UNCHANGED vars
  BY DEF vars
<1> QED BY <1>1, <1>2, <1>3, <1>4, <1>5 DEF Next

LEMMA OnlyEvictPops ==
    ASSUME TypeOK, [Next]_vars, NEW t \in Threads, at[t] = "loop", at'[t] = "popped"
    PROVE  PutEvict(t)
<1>1. PutStep(t)
  BY ThreadMoves DEF Putting
<1>2. ~PutEnd(t)
  BY OverThread DEF PutEnd
<1> QED BY <1>1, <1>2
        DEF PutStep, PutBegin, PutOff, PutAssign, PutSize, PutAdd, PutFree, PutTake

LEMMA OnlyEndLeaves ==
    ASSUME TypeOK, [Next]_vars, NEW t \in Threads,
           at[t] \in Putting, at'[t] \in {"idle", "done"}
    PROVE  PutEnd(t)
<1>1. PutStep(t)
  BY ThreadMoves DEF Putting
<1> QED BY <1>1, BusyThread
        DEF PutStep, PutBegin, PutOff, PutAssign, PutSize, PutAdd, PutEvict, Pop, PutFree,
            PutTake

(* With no overlap, an entry is dropped only while the entries there are   *)
(* exceed the cap.                                                         *)
THEOREM EvictsOnlyWhatItMust == Spec => NoNeedlessEviction
<1>1. ASSUME Shape, InStep, [Next]_vars, NEW t \in Threads,
             at[t] = "loop", at'[t] = "popped", ~overlapped
      PROVE  Bytes > MaxBytes
  <2>1. "loop" \in Putting \cup Flushing
    BY DEF Putting
  <2>2. total = Bytes
    BY <1>1, <2>1, Alone DEF Stage, Exact
  <2>3. PutEvict(t)
    BY <1>1, OnlyEvictPops DEF Shape
  <2> QED BY <2>2, <2>3 DEF PutEvict, OverCap
<1>2. Shape /\ InStep /\ [Next]_vars =>
          [\A t \in Threads :
              at[t] = "loop" /\ at'[t] = "popped" /\ ~overlapped
                  => Bytes > MaxBytes]_vars
  BY <1>1
<1> QED BY <1>2, Stepwise, PTL DEF Spec, NoNeedlessEviction

(* With no overlap and no second put, a result that fits the cap is in the *)
(* cache when its put ends, for any cap and any other entries.             *)
THEOREM OwnResultStays == Spec => FreshEntryStays
<1>1. ASSUME Shape, InStep, [Next]_vars, NEW t \in Threads,
             at[t] \in Putting, at'[t] \in {"idle", "done"},
             fill[t].size <= MaxBytes, ~overwritten, ~overlapped
      PROVE  fill[t].key \in Cached
  <2>1. PutEnd(t)
    BY <1>1, OnlyEndLeaves DEF Shape
  <2>2. at[t] = "loop" /\ "loop" \in Putting \cup Flushing
    BY <2>1 DEF PutEnd, Putting
  <2>3. Newest(fill[t].key)
    BY <1>1, <2>2, Alone DEF Stage, Kept
  <2> QED BY <1>1, <2>3, NewestCached
<1>2. Shape /\ InStep /\ [Next]_vars =>
          [\A t \in Threads :
              (/\ at[t] \in Putting /\ at'[t] \in {"idle", "done"}
               /\ fill[t].size <= MaxBytes /\ ~overwritten /\ ~overlapped)
                  => fill[t].key \in Cached]_vars
  BY <1>1
<1> QED BY <1>2, Stepwise, PTL DEF Spec, FreshEntryStays
=============================================================================
