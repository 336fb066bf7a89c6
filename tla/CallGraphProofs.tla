-------------------------- MODULE CallGraphProofs --------------------------
(***************************************************************************)
(* Proofs about CallGraph, for any finite set of functions, any calls      *)
(* between them, any depth and any limit: what the breadth-first search    *)
(* has queued and found, and that it finds the first paths in order.       *)
(***************************************************************************)
EXTENDS CallGraph, DataLemmas, FiniteSetTheorems

Sorted(f) == \A i, j \in 1..Len(f) : i < j => Before(f[i], f[j])

Begins(q, p) == Len(q) <= Len(p) /\ \A i \in 1..Len(q) : p[i] = q[i]

(* A path without its last function: the one that was expanded to it.      *)
Parent(p) == [i \in 1..Depth(p) |-> p[i]]

Paths == Seq(Functions) \ {<<>>}

TypeOK ==
    /\ calls \in [Functions -> SUBSET Functions]
    /\ source \in Functions /\ target \in Functions
    /\ max_depth \in Nat /\ limit \in Nat
    /\ pc \in {"check", "search", "done", "error"}
    /\ queue \in Seq(Paths)
    /\ paths \in Seq(Paths)
    /\ pc \in {"check", "error"} => queue = <<>> /\ paths = <<>>

(* The queue is in order, all of it behind what was found, and what was    *)
(* expanded to any of it came before the first of it.                      *)
InOrder ==
    /\ Sorted(queue)
    /\ \A p \in Range(paths), q \in Range(queue) : Before(p, q)
    /\ \A q \in Range(queue) : Len(q) > 1 => Before(Parent(q), Head(queue))

(* Each path that is asked for is found or goes on from a queued one.      *)
NoneMissed ==
    pc \in {"search", "done"} =>
        \A p \in AllPaths \ Range(paths) : \E q \in Range(queue) : Begins(q, p)

(* Nothing is found but what is asked for, in order, and the search stops  *)
(* at the limit or when nothing is left.                                   *)
Results ==
    /\ Sorted(paths)
    /\ Range(paths) \subseteq AllPaths
    /\ Len(paths) <= limit
    /\ pc = "done" => queue = <<>> \/ Len(paths) = limit

SearchInv == TypeOK /\ Sound /\ InOrder /\ NoneMissed /\ Results

-----------------------------------------------------------------------------
(* Before, and sequences in its order.                                     *)

LEMMA BeforeLength ==
    ASSUME NEW p, NEW q, Before(p, q), Len(p) \in Nat, Len(q) \in Nat
    PROVE  Len(p) <= Len(q)
BY DEF Before

LEMMA BeforeTransitive ==
    ASSUME NEW X, X \subseteq Nat,
           NEW p \in Seq(X), NEW q \in Seq(X), NEW r \in Seq(X),
           Before(p, q), Before(q, r)
    PROVE  Before(p, r)
<1>1. /\ Len(p) \in Nat /\ Len(q) \in Nat /\ Len(r) \in Nat
      /\ \A i \in 1..Len(p) : p[i] \in Nat
      /\ \A i \in 1..Len(q) : q[i] \in Nat
      /\ \A i \in 1..Len(r) : r[i] \in Nat
  BY LenProperties, ElementOfSeq
<1>2. CASE Len(p) < Len(q) \/ Len(q) < Len(r)
  <2>1. Len(p) <= Len(q) /\ Len(q) <= Len(r)
    BY <1>1, BeforeLength
  <2>2. Len(p) < Len(r)
    BY <1>1, <1>2, <2>1
  <2> QED BY <2>2 DEF Before
<1>3. CASE ~(Len(p) < Len(q)) /\ ~(Len(q) < Len(r))
  <2>1. Len(p) = Len(q) /\ Len(q) = Len(r)
    BY <1>3 DEF Before
  <2>2. PICK i \in 1..Len(p) : p[i] < q[i] /\ \A j \in 1..(i - 1) : p[j] = q[j]
    BY <1>3 DEF Before
  <2>3. PICK k \in 1..Len(p) : q[k] < r[k] /\ \A j \in 1..(k - 1) : q[j] = r[j]
    BY <1>3, <2>1 DEF Before
  <2>4. i \in Nat /\ k \in Nat
    BY <1>1
  <2>5. \E m \in 1..Len(p) : p[m] < r[m] /\ \A j \in 1..(m - 1) : p[j] = r[j]
    <3>1. CASE i < k
      <4>1. i \in 1..(k - 1) /\ \A j \in 1..(i - 1) : j \in 1..(k - 1)
        BY <2>4, <3>1
      <4>2. p[i] < r[i] /\ \A j \in 1..(i - 1) : p[j] = r[j]
        BY <2>2, <2>3, <4>1
      <4> QED BY <4>2
    <3>2. CASE i = k
      <4>1. p[i] < r[i]
        BY <1>1, <2>1, <2>2, <2>3, <3>2
      <4> QED BY <2>2, <2>3, <3>2, <4>1
    <3>3. CASE k < i
      <4>1. k \in 1..(i - 1) /\ \A j \in 1..(k - 1) : j \in 1..(i - 1)
        BY <2>4, <3>3
      <4>2. p[k] < r[k] /\ \A j \in 1..(k - 1) : p[j] = r[j]
        BY <2>2, <2>3, <4>1
      <4> QED BY <4>2
    <3> QED BY <2>4, <3>1, <3>2, <3>3
  <2> QED BY <2>1, <2>5 DEF Before
<1> QED BY <1>2, <1>3

(* The head of a sequence and its tail make up its range; in a sorted one  *)
(* the head is before all of the tail.                                     *)
LEMMA HeadAndTail ==
    ASSUME NEW X, NEW s \in Seq(X), s # <<>>
    PROVE  /\ Head(s) \in X /\ Tail(s) \in Seq(X)
           /\ Range(s) = {Head(s)} \cup Range(Tail(s))
           /\ Range(Tail(s)) # {} => Head(Tail(s)) \in Range(Tail(s))
           /\ Sorted(s) => /\ Sorted(Tail(s))
                           /\ \A x \in Range(Tail(s)) : Before(Head(s), x)
<1>1. PICK n : n = Len(s)
  OBVIOUS
<1>2. PICK t : t = Tail(s)
  OBVIOUS
<1>3. n \in Nat \ {0} /\ DOMAIN s = 1..n
  BY <1>1, LenProperties, EmptySeq
<1>4. /\ Head(s) \in X /\ t \in Seq(X) /\ Len(t) = n - 1
      /\ \A i \in 1..(n - 1) : t[i] = s[i + 1]
  BY <1>1, <1>2, HeadTailProperties
<1>5. DOMAIN t = 1..(n - 1)
  BY <1>4, LenProperties
<1>6. Head(s) = s[1]
  OBVIOUS
<1>7. Range(s) = {Head(s)} \cup Range(t)
  <2>1. ASSUME NEW x \in Range(s) PROVE x \in {Head(s)} \cup Range(t)
    <3>1. PICK i \in 1..n : x = s[i]
      BY <1>3 DEF Range
    <3>2. CASE i = 1
      BY <1>6, <3>1, <3>2
    <3>3. CASE i # 1
      <4>1. i - 1 \in 1..(n - 1) /\ (i - 1) + 1 = i
        BY <1>3, <3>3
      <4>2. t[i - 1] = x
        BY <1>4, <3>1, <4>1
      <4> QED BY <1>5, <4>1, <4>2 DEF Range
    <3> QED BY <3>2, <3>3
  <2>2. ASSUME NEW x \in Range(t) PROVE x \in Range(s)
    <3>1. PICK i \in 1..(n - 1) : x = t[i]
      BY <1>5 DEF Range
    <3>2. i + 1 \in 1..n /\ s[i + 1] = x
      BY <1>3, <1>4, <3>1
    <3> QED BY <1>3, <3>2 DEF Range
  <2>3. Head(s) \in Range(s)
    BY <1>3, <1>6 DEF Range
  <2> QED BY <2>1, <2>2, <2>3
<1>8. Range(t) # {} => Head(t) \in Range(t)
  <2> SUFFICES ASSUME Range(t) # {} PROVE Head(t) \in Range(t)
      OBVIOUS
  <2>1. 1 \in DOMAIN t
    BY <1>3, <1>5 DEF Range
  <2>2. Head(t) = t[1]
    BY <1>4
  <2> QED BY <2>1, <2>2 DEF Range
<1>9. ASSUME Sorted(s) PROVE Sorted(t) /\ \A x \in Range(t) : Before(Head(s), x)
  <2>1. \A i \in 1..(n - 1) : i + 1 \in 1..n /\ 1 \in 1..n /\ 1 < i + 1
    BY <1>3
  <2>2. \A i, j \in 1..(n - 1) : i < j => i + 1 < j + 1
    BY <1>3
  <2>3. \A i, j \in 1..(n - 1) : i < j => Before(t[i], t[j])
    BY <1>1, <1>4, <1>9, <2>1, <2>2 DEF Sorted
  <2>4. \A i \in 1..(n - 1) : Before(s[1], t[i])
    BY <1>1, <1>4, <1>9, <2>1 DEF Sorted
  <2>5. Sorted(t)
    BY <1>4, <2>3 DEF Sorted
  <2> QED BY <1>5, <1>6, <2>4, <2>5 DEF Range
<1> QED BY <1>2, <1>4, <1>7, <1>8, <1>9

(* Two sorted sequences, all of one before all of the other. *)
LEMMA SortedConcat ==
    ASSUME NEW X, NEW s \in Seq(X), NEW u \in Seq(X), Sorted(s), Sorted(u),
           \A x \in Range(s), y \in Range(u) : Before(x, y)
    PROVE  Sorted(s \o u)
<1> DEFINE c == s \o u
<1>1. PICK n : n = Len(s)
  OBVIOUS
<1>2. PICK m : m = Len(u)
  OBVIOUS
<1>3. /\ Len(c) = n + m
      /\ \A i \in 1..(n + m) : c[i] = IF i <= n THEN s[i] ELSE u[i - n]
  BY <1>1, <1>2, ConcatProperties
<1>4. n \in Nat /\ m \in Nat /\ DOMAIN s = 1..n /\ DOMAIN u = 1..m
  BY <1>1, <1>2, LenProperties
<1> HIDE DEF c
<1>5. ASSUME NEW i \in 1..(n + m), NEW j \in 1..(n + m), i < j
      PROVE  Before(c[i], c[j])
  <2>1. CASE j <= n
    <3>1. i \in 1..n /\ j \in 1..n /\ i <= n
      BY <1>4, <1>5, <2>1
    <3> QED BY <1>1, <1>3, <1>5, <3>1, <2>1 DEF Sorted
  <2>2. CASE ~(i <= n)
    <3>1. i - n \in 1..m /\ j - n \in 1..m /\ i - n < j - n /\ ~(j <= n)
      BY <1>4, <1>5, <2>2
    <3>2. Before(u[i - n], u[j - n])
      BY <1>2, <3>1 DEF Sorted
    <3> QED BY <1>3, <3>1, <3>2, <2>2
  <2>3. CASE i <= n /\ ~(j <= n)
    <3>1. i \in 1..n /\ j - n \in 1..m
      BY <1>4, <2>3
    <3>2. s[i] \in Range(s) /\ u[j - n] \in Range(u)
      BY <1>4, <3>1 DEF Range
    <3> QED BY <1>3, <2>3, <3>2
  <2> QED BY <2>1, <2>2, <2>3
<1> QED BY <1>3, <1>5 DEF Sorted, c

(* Append is a concatenation with one element. *)
LEMMA AppendOne ==
    ASSUME NEW X, NEW s \in Seq(X), NEW x \in X
    PROVE  /\ <<x>> \in Seq(X) /\ Range(<<x>>) = {x} /\ Sorted(<<x>>)
           /\ Append(s, x) = s \o <<x>>
<1>1. <<x>> \in Seq(X) /\ Len(<<x>>) = 1 /\ <<x>>[1] = x
  OBVIOUS
<1>2. DOMAIN <<x>> = 1..1
  BY <1>1, LenProperties
<1>3. Range(<<x>>) = {x}
  <2>1. \A i : i \in 1..1 <=> i = 1
    OBVIOUS
  <2> QED BY <1>1, <1>2, <2>1 DEF Range
<1>4. \A i, j \in 1..1 : ~(i < j)
  OBVIOUS
<1>5. Sorted(<<x>>)
  BY <1>1, <1>4 DEF Sorted
<1>6. Append(s, x) = s \o <<x>>
  OBVIOUS
<1> QED BY <1>1, <1>3, <1>5, <1>6

-----------------------------------------------------------------------------
(* ByEntryPoint and Extensions.                                            *)

Increases(s, S) ==
    /\ s \in [1..Cardinality(S) -> S]
    /\ \A i, j \in DOMAIN s : i < j => s[i] < s[j]

(* The numbers of a finite set can be listed from the least on. *)
LEMMA Increasing ==
    ASSUME NEW S, S \subseteq Nat, IsFiniteSet(S)
    PROVE  \E s : Increases(s, S)
<1> DEFINE N == {n \in Nat : \A T \in SUBSET Nat :
                     IsFiniteSet(T) /\ Cardinality(T) = n => \E s : Increases(s, T)}
<1>1. 0 \in N
  <2> SUFFICES ASSUME NEW T \in SUBSET Nat, IsFiniteSet(T), Cardinality(T) = 0
               PROVE  \E s : Increases(s, T)
      OBVIOUS
  <2>1. PICK s : s = [i \in 1..0 |-> 0]
    OBVIOUS
  <2>2. s \in [1..0 -> T] /\ \A i, j \in DOMAIN s : FALSE
    BY <2>1
  <2> QED BY <2>2 DEF Increases
<1>2. ASSUME NEW n \in N PROVE n + 1 \in N
  <2> SUFFICES ASSUME NEW T \in SUBSET Nat, IsFiniteSet(T), Cardinality(T) = n + 1
               PROVE  \E s : Increases(s, T)
      OBVIOUS
  <2>1. n \in Nat /\ n + 1 # 0
    OBVIOUS
  <2>2. T # {}
    BY <2>1, FS_EmptySet
  <2>3. PICK x \in T : \A y \in T : x <= y
    BY <2>2, LeastNumber
  <2>4. PICK U : U = T \ {x}
    OBVIOUS
  <2>5. IsFiniteSet(U) /\ Cardinality(U) = n /\ U \in SUBSET Nat
    <3>1. IsFiniteSet(U) /\ Cardinality(U) = (n + 1) - 1
      BY <2>4, FS_RemoveElement
    <3> QED BY <2>1, <2>4, <3>1
  <2>6. PICK s : Increases(s, U)
    BY <2>5
  <2> HIDE DEF N
  <2>7. s \in [1..n -> U] /\ \A i, j \in 1..n : i < j => s[i] < s[j]
    BY <2>5, <2>6 DEF Increases
  <2>8. PICK h : h = [i \in 1..(n + 1) |-> IF i = 1 THEN x ELSE s[i - 1]]
    OBVIOUS
  <2>9. \A i \in 1..(n + 1) : i # 1 => i - 1 \in 1..n
    BY <2>1
  <2>10. \A y \in U : x < y /\ y \in T
    BY <2>3, <2>4
  <2>11. \A i \in 1..(n + 1) : IF i = 1 THEN h[i] = x
                                        ELSE h[i] = s[i - 1] /\ h[i] \in U
    BY <2>7, <2>8, <2>9
  <2>12. h \in [1..(n + 1) -> T]
    BY <2>8, <2>10, <2>11
  <2>13. ASSUME NEW i \in 1..(n + 1), NEW j \in 1..(n + 1), i < j
         PROVE  h[i] < h[j]
    <3>1. j # 1 /\ (i # 1 => i - 1 < j - 1)
      BY <2>1, <2>13
    <3>2. CASE i = 1
      BY <2>10, <2>11, <3>1, <3>2
    <3>3. CASE i # 1
      BY <2>7, <2>9, <2>11, <3>1, <3>3
    <3> QED BY <3>2, <3>3
  <2> QED BY <2>12, <2>13 DEF Increases
<1> HIDE DEF N
<1>3. \A n \in Nat : n \in N
  BY <1>1, <1>2, Inductive DEF N
<1>4. Cardinality(S) \in Nat
  BY FS_CardinalityType
<1> QED BY <1>3, <1>4 DEF N

(* ByEntryPoint lists a finite set of entry points, all of it, in order. *)
LEMMA Listed ==
    ASSUME NEW S, S \subseteq Nat, IsFiniteSet(S)
    PROVE  /\ ByEntryPoint(S) \in Seq(S)
           /\ Range(ByEntryPoint(S)) = S
           /\ \A i, j \in 1..Len(ByEntryPoint(S)) :
                 i < j => ByEntryPoint(S)[i] < ByEntryPoint(S)[j]
<1>1. PICK n : n = Cardinality(S)
  OBVIOUS
<1>2. PICK s : s = ByEntryPoint(S)
  OBVIOUS
<1>3. n \in Nat
  BY <1>1, FS_CardinalityType
<1>4. s \in [1..n -> S] /\ \A i, j \in 1..n : i < j => s[i] < s[j]
  BY <1>1, <1>2, Increasing DEF Increases, ByEntryPoint
<1>5. s \in Seq(S) /\ Len(s) = n
  <2>1. s \in Seq(S)
    BY <1>3, <1>4, SeqDef
  <2>2. DOMAIN s = 1..n /\ DOMAIN s = 1..Len(s) /\ Len(s) \in Nat
    BY <1>4, <2>1, LenProperties
  <2> QED BY <1>3, <2>1, <2>2
<1>6. IsInjective(s)
  <2> SUFFICES ASSUME NEW i \in 1..n, NEW j \in 1..n, s[i] = s[j] PROVE i = j
      BY <1>4 DEF IsInjective
  <2>1. \A x, y \in Nat : x = y => ~(x < y) /\ ~(y < x)
    OBVIOUS
  <2>2. s[i] \in Nat /\ s[j] \in Nat
    BY <1>4
  <2>3. ~(s[i] < s[j]) /\ ~(s[j] < s[i])
    BY <2>1, <2>2
  <2>4. ~(i < j) /\ ~(j < i)
    BY <1>4, <2>3
  <2> QED BY <1>3, <2>4
<1>7. IsFiniteSet(1..n) /\ Cardinality(1..n) = n
  BY <1>3, FS_Interval
<1>8. s \in Surjection(1..n, S)
  <2>1. s \in Injection(1..n, S)
    BY <1>4, <1>6 DEF Injection
  <2> QED BY <1>1, <1>7, <2>1, FS_Injection
<1>9. Range(s) = S
  BY <1>4, <1>8 DEF Range, Surjection
<1> QED BY <1>2, <1>4, <1>5, <1>9

LEMMA PathProperties ==
    ASSUME NEW p \in Paths
    PROVE  /\ p \in Seq(Functions) /\ Len(p) \in Nat \ {0} /\ DOMAIN p = 1..Len(p)
           /\ \A i \in 1..Len(p) : p[i] \in Functions /\ p[i] \in Nat
           /\ Last(p) = p[Len(p)] /\ Last(p) \in Functions
           /\ Depth(p) = Len(p) - 1
<1>1. p \in Seq(Functions) /\ Len(p) \in Nat \ {0} /\ DOMAIN p = 1..Len(p)
  BY LenProperties, EmptySeq DEF Paths
<1>2. \A i \in 1..Len(p) : p[i] \in Functions
  BY <1>1, ElementOfSeq
<1>3. Len(p) \in 1..Len(p)
  BY <1>1
<1> QED BY <1>1, <1>2, <1>3, FunctionsAssumption DEF Last, Depth

LEMMA ParentProperties ==
    ASSUME NEW p \in Paths
    PROVE  /\ Parent(p) \in Seq(Functions) /\ Len(Parent(p)) = Len(p) - 1
           /\ \A i \in 1..(Len(p) - 1) : Parent(p)[i] = p[i]
<1>1. PICK m : m = Len(p) - 1
  OBVIOUS
<1>2. PICK o : o = Parent(p)
  OBVIOUS
<1>3. m \in Nat /\ o = [i \in 1..m |-> p[i]] /\ \A i \in 1..m : i \in 1..Len(p)
  BY <1>1, <1>2, PathProperties DEF Parent
<1>4. \A i \in 1..m : p[i] \in Functions
  BY <1>3, PathProperties
<1>5. o \in [1..m -> Functions]
  BY <1>3, <1>4
<1>6. o \in Seq(Functions)
  BY <1>3, <1>5, SeqDef
<1>7. DOMAIN o = 1..m /\ DOMAIN o = 1..Len(o) /\ Len(o) \in Nat
  BY <1>5, <1>6, LenProperties
<1>8. Len(o) = m
  BY <1>3, <1>7
<1> QED BY <1>1, <1>2, <1>3, <1>6, <1>8

(* A path with one more function. *)
LEMMA OneMore ==
    ASSUME NEW p \in Paths, NEW f \in Functions
    PROVE  /\ Append(p, f) \in Paths /\ Len(Append(p, f)) = Len(p) + 1
           /\ \A i \in 1..Len(p) : Append(p, f)[i] = p[i]
           /\ Append(p, f)[Len(p) + 1] = f
           /\ Parent(Append(p, f)) = p
<1>1. PICK q : q = Append(p, f)
  OBVIOUS
<1>2. p \in Seq(Functions) /\ Len(p) \in Nat
  BY PathProperties
<1>3. /\ q \in Seq(Functions) /\ Len(q) = Len(p) + 1
      /\ \A i \in 1..Len(p) : q[i] = p[i]
      /\ q[Len(p) + 1] = f
  BY <1>1, <1>2, AppendProperties
<1>4. q # <<>>
  BY <1>2, <1>3, EmptySeq
<1>5. Parent(q) = p
  <2>1. Depth(q) = Len(p)
    BY <1>2, <1>3 DEF Depth
  <2>2. p = [i \in 1..Len(p) |-> p[i]]
    BY <1>2, LenProperties
  <2> QED BY <1>3, <2>1, <2>2 DEF Parent
<1> QED BY <1>1, <1>3, <1>4, <1>5 DEF Paths

(* What a path is expanded to: one path for each callee not in it, in order. *)
LEMMA Expanded ==
    ASSUME calls \in [Functions -> SUBSET Functions], NEW p \in Paths
    PROVE  /\ Extensions(p) \in Seq(Paths)
           /\ Range(Extensions(p)) = {Append(p, f) : f \in calls[Last(p)] \ Range(p)}
           /\ Sorted(Extensions(p))
<1>1. PICK S : S = calls[Last(p)] \ Range(p)
  OBVIOUS
<1>2. PICK cs : cs = ByEntryPoint(S)
  OBVIOUS
<1>3. PICK n : n = Len(cs)
  OBVIOUS
<1>4. S \subseteq Functions /\ S \subseteq Nat /\ IsFiniteSet(S)
  <2>1. S \subseteq Functions
    BY <1>1, PathProperties
  <2> QED BY <2>1, FunctionsAssumption, FS_Subset
<1>5. /\ cs \in Seq(S) /\ Range(cs) = S
      /\ \A i, j \in 1..n : i < j => cs[i] < cs[j]
  BY <1>2, <1>3, <1>4, Listed
<1>6. n \in Nat /\ DOMAIN cs = 1..n /\ \A i \in 1..n : cs[i] \in S
  BY <1>3, <1>5, LenProperties, ElementOfSeq
<1>7. PICK e : e = Extensions(p)
  OBVIOUS
<1>8. e = [i \in 1..n |-> Append(p, cs[i])]
  BY <1>1, <1>2, <1>6, <1>7 DEF Extensions, Callees
<1>9. \A i \in 1..n : e[i] = Append(p, cs[i]) /\ e[i] \in Paths
  BY <1>4, <1>6, <1>8, OneMore
<1>10. e \in Seq(Paths) /\ Len(e) = n
  <2>1. e \in [1..n -> Paths]
    BY <1>8, <1>9
  <2>2. e \in Seq(Paths)
    BY <1>6, <2>1, SeqDef
  <2>3. DOMAIN e = 1..n /\ DOMAIN e = 1..Len(e) /\ Len(e) \in Nat
    BY <2>1, <2>2, LenProperties
  <2> QED BY <1>6, <2>2, <2>3
<1>11. Range(e) = {Append(p, f) : f \in S}
  <2>1. DOMAIN e = 1..n
    BY <1>8
  <2> QED BY <1>5, <1>6, <1>9, <2>1 DEF Range
<1>12. ASSUME NEW i \in 1..n, NEW j \in 1..n, i < j PROVE Before(e[i], e[j])
  <2>1. PICK l : l = Len(p)
    OBVIOUS
  <2>2. l \in Nat
    BY <2>1, PathProperties
  <2>3. \A k \in 1..n : /\ Len(e[k]) = l + 1 /\ e[k][l + 1] = cs[k]
                         /\ \A m \in 1..l : e[k][m] = p[m]
    <3>1. ASSUME NEW k \in 1..n
          PROVE  /\ Len(e[k]) = l + 1 /\ e[k][l + 1] = cs[k]
                 /\ \A m \in 1..l : e[k][m] = p[m]
      <4>1. cs[k] \in Functions /\ e[k] = Append(p, cs[k])
        BY <1>4, <1>6, <1>9
      <4> QED BY <2>1, <4>1, OneMore
    <3> QED BY <3>1
  <2>4. l + 1 \in 1..(l + 1) /\ \A k \in 1..((l + 1) - 1) : k \in 1..l
    BY <2>2
  <2>5. cs[i] < cs[j]
    BY <1>5, <1>12
  <2> QED BY <2>3, <2>4, <2>5 DEF Before
<1> QED BY <1>1, <1>7, <1>10, <1>11, <1>12 DEF Sorted

-----------------------------------------------------------------------------
(* The paths that are asked for.                                           *)

SoundPath(p) ==
    /\ IsCallPath(p)
    /\ Depth(p) <= max_depth
    /\ \A i \in 1..Depth(p) : p[i] # target

LEMMA InAllPaths ==
    ASSUME max_depth \in Nat
    PROVE  \A p : p \in AllPaths <=> /\ p \in Paths /\ Len(p) <= max_depth + 1
                                     /\ IsCallPath(p) /\ Last(p) = target
<1>1. ASSUME NEW p \in AllPaths
      PROVE  /\ p \in Paths /\ Len(p) <= max_depth + 1
             /\ IsCallPath(p) /\ Last(p) = target
  <2>1. PICK n \in 1..(max_depth + 1) : p \in [1..n -> Functions]
    BY DEF AllPaths
  <2>2. n \in Nat /\ n # 0 /\ n <= max_depth + 1
    BY <2>1
  <2>3. p \in Seq(Functions)
    BY <2>1, <2>2, SeqDef
  <2>4. DOMAIN p = 1..n /\ DOMAIN p = 1..Len(p) /\ Len(p) \in Nat
    BY <2>1, <2>3, LenProperties
  <2>5. Len(p) = n
    BY <2>2, <2>4
  <2>6. p # <<>>
    BY <2>2, <2>5, EmptySeq
  <2> QED BY <2>2, <2>3, <2>5, <2>6 DEF AllPaths, Paths, Last
<1>2. ASSUME NEW p \in Paths, Len(p) <= max_depth + 1, IsCallPath(p), Last(p) = target
      PROVE  p \in AllPaths
  <2>1. p \in [1..Len(p) -> Functions]
    BY LenProperties DEF Paths
  <2>2. Len(p) \in 1..(max_depth + 1)
    BY <1>2, PathProperties
  <2> QED BY <1>2, <2>1, <2>2 DEF AllPaths, Last
<1> QED BY <1>1, <1>2

(* A path that is asked for ends where a queued one ends that reaches the  *)
(* target or is as long.                                                   *)
LEMMA NoFurther ==
    ASSUME max_depth \in Nat, NEW h \in Paths, NEW p \in AllPaths, Begins(h, p),
           Last(h) = target \/ Len(p) <= Len(h)
    PROVE  p = h /\ Last(h) = target
<1>1. p \in Paths /\ IsCallPath(p) /\ Last(p) = target
  BY InAllPaths
<1>2. /\ Len(h) \in 1..Len(h) /\ Len(h) \in 1..Len(p) /\ Len(p) \in 1..Len(p)
      /\ Last(h) = h[Len(h)] /\ Last(p) = p[Len(p)] /\ DOMAIN p = 1..Len(p)
  BY <1>1, PathProperties DEF Begins
<1>3. Len(p) = Len(h)
  <2>1. CASE Len(p) <= Len(h)
    BY <1>1, <2>1, PathProperties DEF Begins
  <2>2. CASE Last(h) = target
    <3>1. p[Len(h)] = p[Len(p)]
      BY <1>1, <1>2, <2>2 DEF Begins
    <3> QED BY <1>1, <1>2, <3>1 DEF IsCallPath, IsInjective
  <2> QED BY <2>1, <2>2
<1>4. p = h
  BY <1>1, <1>3, SeqEqual, PathProperties DEF Begins
<1> QED BY <1>1, <1>4

(* One that goes further goes on with a callee not in the queued one. *)
LEMMA GoesOn ==
    ASSUME max_depth \in Nat, calls \in [Functions -> SUBSET Functions],
           NEW h \in Paths, NEW p \in AllPaths, Begins(h, p), Last(h) # target
    PROVE  \E f \in calls[Last(h)] \ Range(h) : Begins(Append(h, f), p)
<1>1. PICK l : l = Len(h)
  OBVIOUS
<1>2. p \in Paths /\ IsCallPath(p)
  BY InAllPaths
<1>3. /\ l \in Nat \ {0} /\ Len(p) \in Nat /\ l <= Len(p) /\ ~(Len(p) <= l)
      /\ DOMAIN p = 1..Len(p) /\ DOMAIN h = 1..l
      /\ Last(h) = h[l] /\ \A i \in 1..l : p[i] = h[i]
      /\ Depth(p) = Len(p) - 1
  BY <1>1, <1>2, NoFurther, PathProperties DEF Begins
<1>4. l \in 1..l /\ l \in 1..(Len(p) - 1) /\ l + 1 \in 1..Len(p)
  BY <1>3
<1>5. PICK f : f = p[l + 1]
  OBVIOUS
<1>6. f \in calls[Last(h)]
  BY <1>2, <1>3, <1>4, <1>5 DEF IsCallPath
<1>7. ASSUME f \in Range(h) PROVE FALSE
  <2>1. PICK i \in 1..l : h[i] = f
    BY <1>3, <1>7 DEF Range
  <2>2. i \in 1..Len(p) /\ p[i] = p[l + 1] /\ i # l + 1
    BY <1>3, <1>5, <2>1
  <2> QED BY <1>2, <1>3, <1>4, <2>2 DEF IsCallPath, IsInjective
<1>8. Begins(Append(h, f), p)
  <2>1. f \in Functions
    BY <1>6, PathProperties
  <2>2. /\ Len(Append(h, f)) = l + 1 /\ Append(h, f)[l + 1] = f
        /\ \A i \in 1..l : Append(h, f)[i] = h[i]
    BY <1>1, <2>1, OneMore
  <2>3. l + 1 <= Len(p) /\ \A i \in 1..(l + 1) : i \in 1..l \/ i = l + 1
    BY <1>3
  <2> QED BY <1>3, <1>5, <2>2, <2>3 DEF Begins
<1> QED BY <1>6, <1>7, <1>8

LEMMA SoundMore ==
    ASSUME max_depth \in Nat, calls \in [Functions -> SUBSET Functions],
           NEW h \in Paths, SoundPath(h), Last(h) # target, Depth(h) < max_depth,
           NEW f \in calls[Last(h)] \ Range(h)
    PROVE  SoundPath(Append(h, f))
<1>1. PICK l : l = Len(h)
  OBVIOUS
<1>2. PICK k : k = Append(h, f)
  OBVIOUS
<1>3. /\ l \in Nat \ {0} /\ Last(h) = h[l] /\ DOMAIN h = 1..l /\ Depth(h) = l - 1
      /\ f \in Functions
  BY <1>1, PathProperties
<1>4. /\ k \in Paths /\ Len(k) = l + 1 /\ k[l + 1] = f
      /\ \A i \in 1..l : k[i] = h[i]
  BY <1>1, <1>2, <1>3, OneMore
<1>5. DOMAIN k = 1..(l + 1) /\ Depth(k) = (l + 1) - 1
  BY <1>4, PathProperties
<1>6. /\ 1 \in 1..l /\ \A i \in 1..(l + 1) : i \in 1..l \/ i = l + 1
      /\ (l + 1) - 1 = l /\ l - 1 < max_depth
      /\ \A i \in 1..l : i # l => i \in 1..(l - 1) /\ i + 1 \in 1..l
      /\ l \notin 1..(l - 1)
  BY <1>3
<1>7. h[1] = source /\ IsInjective(h) /\ \A i \in 1..(l - 1) : h[i + 1] \in calls[h[i]]
  BY <1>3 DEF SoundPath, IsCallPath
<1>8. \A i \in 1..l : h[i] # f
  BY <1>3 DEF Range
<1>9. IsInjective(k)
  BY <1>3, <1>4, <1>5, <1>6, <1>7, <1>8 DEF IsInjective
<1>10. \A i \in 1..l : k[i + 1] \in calls[k[i]]
  BY <1>3, <1>4, <1>6, <1>7
<1>11. \A i \in 1..l : k[i] # target
  BY <1>3, <1>4, <1>6 DEF SoundPath
<1>12. l <= max_depth
  BY <1>3, <1>6
<1> QED BY <1>2, <1>4, <1>5, <1>6, <1>7, <1>9, <1>10, <1>11, <1>12 DEF SoundPath, IsCallPath

(* What waits in the queue, expanded from a path before h, comes before *)
(* what h is expanded to.                                               *)
LEMMA ChildrenLater ==
    ASSUME NEW h \in Paths, NEW q \in Paths, Before(h, q),
           Len(q) > 1 => Before(Parent(q), h), NEW f \in Functions
    PROVE  Before(q, Append(h, f))
<1>1. PICK l : l = Len(h)
  OBVIOUS
<1>2. PICK k : k = Append(h, f)
  OBVIOUS
<1>3. l \in Nat \ {0} /\ Len(q) \in Nat \ {0} /\ Depth(q) = Len(q) - 1
  BY <1>1, PathProperties
<1>4. Len(k) = l + 1 /\ \A i \in 1..l : k[i] = h[i]
  BY <1>1, <1>2, OneMore
<1>5. CASE Len(q) <= l
  <2>1. Len(q) < l + 1
    BY <1>3, <1>5
  <2> QED BY <1>2, <1>4, <2>1 DEF Before
<1>6. CASE ~(Len(q) <= l)
  <2>1. PICK o : o = Parent(q)
    OBVIOUS
  <2>2. Len(o) = Len(q) - 1 /\ \A i \in 1..(Len(q) - 1) : o[i] = q[i]
    BY <2>1, ParentProperties
  <2>3. Before(o, h) /\ Len(o) = Len(q) - 1
    BY <1>3, <1>6, <2>1, <2>2
  <2>4. Len(o) = l /\ Len(q) = l + 1
    <3>1. Len(o) <= l
      BY <1>1, <1>3, <2>2, <2>3, BeforeLength
    <3> QED BY <1>3, <1>6, <2>2, <3>1
  <2>5. PICK i \in 1..l : o[i] < h[i] /\ \A j \in 1..(i - 1) : o[j] = h[j]
    BY <1>1, <1>3, <2>3, <2>4 DEF Before
  <2>6. /\ i \in 1..(l + 1) /\ i \in 1..(Len(q) - 1)
        /\ \A j \in 1..(i - 1) : j \in 1..l /\ j \in 1..(Len(q) - 1)
    BY <1>3, <2>4, <2>5
  <2>7. q[i] < k[i] /\ \A j \in 1..(i - 1) : q[j] = k[j]
    BY <1>4, <2>2, <2>5, <2>6
  <2> QED BY <1>2, <1>4, <2>4, <2>6, <2>7 DEF Before
<1> QED BY <1>5, <1>6

-----------------------------------------------------------------------------
(* The invariant.                                                          *)

LEMMA RequestKept ==
    ASSUME UNCHANGED request
    PROVE  AllPaths' = AllPaths /\ \A p : SoundPath(p)' <=> SoundPath(p)
<1>1. /\ calls' = calls /\ source' = source /\ target' = target
      /\ max_depth' = max_depth /\ limit' = limit
  BY DEF request
<1> QED BY <1>1 DEF AllPaths, SoundPath, IsCallPath

LEMMA RangeOf ==
    ASSUME NEW X, NEW s \in Seq(X)
    PROVE  \A x \in Range(s) : x \in X
BY LenProperties, ElementOfSeq DEF Range

(* What is known when an iteration takes the head h off the queue. *)
LEMMA AtHead ==
    ASSUME SearchInv, Iterate, NEW h, h = Head(queue), NEW t, t = Tail(queue)
    PROVE  /\ h \in Paths /\ SoundPath(h)
           /\ t \in Seq(Paths) /\ Sorted(t)
           /\ \A q \in Range(t) : /\ q \in Paths /\ SoundPath(q) /\ Before(h, q)
                                  /\ Len(q) > 1 => Before(Parent(q), h)
           /\ \A p \in Range(paths) : /\ SoundPath(p) /\ Before(p, h)
                                     /\ \A q \in Range(t) : Before(p, q)
           /\ \A p \in AllPaths \ Range(paths) :
                 Begins(h, p) \/ \E q \in Range(t) : Begins(q, p)
<1>1. queue \in Seq(Paths) /\ paths \in Seq(Paths) /\ queue # <<>> /\ pc = "search"
  BY DEF SearchInv, TypeOK, Iterate
<1>2. /\ h \in Paths /\ t \in Seq(Paths) /\ Range(queue) = {h} \cup Range(t)
      /\ Sorted(queue) => Sorted(t) /\ \A q \in Range(t) : Before(h, q)
  BY <1>1, HeadAndTail
<1>3. \A q \in Range(queue) \cup Range(paths) : q \in Paths /\ SoundPath(q)
  BY <1>1, RangeOf DEF SearchInv, Sound, SoundPath
<1>4. InOrder
  BY DEF SearchInv
<1>5. \A p \in AllPaths \ Range(paths) : \E q \in Range(queue) : Begins(q, p)
  BY <1>1 DEF SearchInv, NoneMissed
<1> QED BY <1>2, <1>3, <1>4, <1>5 DEF InOrder

(* A queue that holds paths after h, expanded from h or from paths before  *)
(* it, has a head after all they were expanded from.                       *)
LEMMA StillBehind ==
    ASSUME NEW h \in Paths, NEW s \in Seq(Paths),
           \A q \in Range(s) : /\ Before(h, q)
                               /\ Len(q) > 1 => Parent(q) = h \/ Before(Parent(q), h)
    PROVE  \A q \in Range(s) : Len(q) > 1 => Before(Parent(q), Head(s))
<1> SUFFICES ASSUME NEW q \in Range(s), Len(q) > 1 PROVE Before(Parent(q), Head(s))
    OBVIOUS
<1>1. q \in Paths
  BY RangeOf
<1>2. s # <<>>
  <2>1. DOMAIN s = 1..Len(s) /\ DOMAIN s # {}
    BY LenProperties DEF Range
  <2>2. Len(s) # 0
    BY <2>1
  <2> QED BY <2>2, EmptySeq
<1>3. Head(s) \in Range(s) /\ Head(s) \in Paths
  BY <1>2, HeadAndTail
<1>4. Before(h, Head(s))
  BY <1>3
<1>5. CASE Parent(q) = h
  BY <1>4, <1>5
<1>6. CASE Before(Parent(q), h)
  <2>1. /\ Parent(q) \in Seq(Functions) /\ h \in Seq(Functions)
        /\ Head(s) \in Seq(Functions) /\ Functions \subseteq Nat
    BY <1>1, <1>3, ParentProperties, PathProperties, FunctionsAssumption
  <2> QED BY <1>4, <1>6, <2>1, BeforeTransitive
<1> QED BY <1>5, <1>6

LEMMA FoundKeeps ==
    ASSUME SearchInv, Found
    PROVE  SearchInv'
<1>1. PICK h : h = Head(queue)
  OBVIOUS
<1>2. PICK t : t = Tail(queue)
  OBVIOUS
<1>3. /\ Iterate /\ Last(h) = target /\ UNCHANGED request
      /\ queue' = t /\ paths' = Append(paths, h) /\ pc' = pc /\ pc = "search"
  BY <1>1, <1>2 DEF Found, Iterate
<1>4. /\ h \in Paths /\ SoundPath(h)
      /\ t \in Seq(Paths) /\ Sorted(t)
      /\ \A q \in Range(t) : /\ q \in Paths /\ SoundPath(q) /\ Before(h, q)
                             /\ Len(q) > 1 => Before(Parent(q), h)
      /\ \A p \in Range(paths) : /\ SoundPath(p) /\ Before(p, h)
                                /\ \A q \in Range(t) : Before(p, q)
      /\ \A p \in AllPaths \ Range(paths) :
            Begins(h, p) \/ \E q \in Range(t) : Begins(q, p)
  BY <1>1, <1>2, <1>3, AtHead
<1>5. TypeOK /\ Results
  BY DEF SearchInv
<1>6. /\ paths' \in Seq(Paths) /\ Len(paths') = Len(paths) + 1
      /\ Range(paths') = Range(paths) \cup {h}
      /\ Sorted(paths')
  <2>1. paths \in Seq(Paths) /\ Sorted(paths)
    BY <1>5 DEF TypeOK, Results
  <2>2. /\ <<h>> \in Seq(Paths) /\ Range(<<h>>) = {h} /\ Sorted(<<h>>)
        /\ paths' = paths \o <<h>>
    BY <1>3, <1>4, <2>1, AppendOne
  <2>3. Sorted(paths')
    BY <1>4, <2>1, <2>2, SortedConcat
  <2>4. Len(paths') = Len(paths) + 1 /\ paths' \in Seq(Paths)
    BY <1>3, <1>4, <2>1, AppendProperties
  <2>5. Range(paths \o <<h>>) = Range(paths) \cup Range(<<h>>)
    BY <2>1, <2>2, ConcatRange
  <2> QED BY <2>2, <2>3, <2>4, <2>5
<1>7. AllPaths' = AllPaths /\ \A p : SoundPath(p)' <=> SoundPath(p)
  BY <1>3, RequestKept
<1>8. max_depth \in Nat
  BY <1>5 DEF TypeOK
<1>9. h \in AllPaths
  <2>1. Len(h) - 1 <= max_depth /\ Len(h) \in Nat
    BY <1>4, PathProperties DEF SoundPath
  <2>2. Len(h) <= max_depth + 1
    BY <1>8, <2>1
  <2> QED BY <1>3, <1>4, <1>8, <2>2, InAllPaths DEF SoundPath
<1>10. TypeOK'
  BY <1>3, <1>4, <1>5, <1>6 DEF TypeOK, request
<1>11. Sound'
  <2>1. \A p \in Range(t) \cup Range(paths') : SoundPath(p)'
    BY <1>4, <1>6, <1>7
  <2> QED BY <1>3, <2>1 DEF Sound, SoundPath
<1>12. InOrder'
  <2>1. \A q \in Range(t) : Len(q) > 1 => Before(Parent(q), Head(t))
    BY <1>4, StillBehind
  <2>2. \A p \in Range(paths'), q \in Range(t) : Before(p, q)
    BY <1>4, <1>6
  <2> QED BY <1>3, <1>4, <2>1, <2>2 DEF InOrder
<1>13. NoneMissed'
  <2>1. ASSUME NEW p \in AllPaths \ Range(paths')
        PROVE  \E q \in Range(t) : Begins(q, p)
    <3>1. p \in AllPaths \ Range(paths) /\ p # h
      BY <1>6, <2>1
    <3>2. ~Begins(h, p)
      BY <1>3, <1>4, <1>8, <3>1, NoFurther
    <3> QED BY <1>4, <3>1, <3>2
  <2> QED BY <1>3, <1>7, <2>1 DEF NoneMissed
<1>14. Results'
  <2>1. Len(paths') <= limit'
    <3>1. Len(paths) < limit /\ limit \in Nat /\ Len(paths) \in Nat /\ limit' = limit
      BY <1>3, <1>5, LenProperties DEF Iterate, TypeOK, request
    <3> QED BY <1>6, <3>1
  <2> QED BY <1>3, <1>5, <1>6, <1>7, <1>9, <2>1 DEF Results
<1> QED BY <1>10, <1>11, <1>12, <1>13, <1>14 DEF SearchInv

LEMMA TooDeepKeeps ==
    ASSUME SearchInv, TooDeep
    PROVE  SearchInv'
<1>1. PICK h : h = Head(queue)
  OBVIOUS
<1>2. PICK t : t = Tail(queue)
  OBVIOUS
<1>3. /\ Iterate /\ Last(h) # target /\ Depth(h) >= max_depth /\ UNCHANGED request
      /\ queue' = t /\ paths' = paths /\ pc' = pc /\ pc = "search"
  BY <1>1, <1>2 DEF TooDeep, Iterate
<1>4. /\ h \in Paths
      /\ t \in Seq(Paths) /\ Sorted(t)
      /\ \A q \in Range(t) : /\ q \in Paths /\ SoundPath(q) /\ Before(h, q)
                             /\ Len(q) > 1 => Before(Parent(q), h)
      /\ \A p \in Range(paths) : /\ SoundPath(p) /\ Before(p, h)
                                /\ \A q \in Range(t) : Before(p, q)
      /\ \A p \in AllPaths \ Range(paths) :
            Begins(h, p) \/ \E q \in Range(t) : Begins(q, p)
  BY <1>1, <1>2, <1>3, AtHead
<1>5. TypeOK /\ Results
  BY DEF SearchInv
<1>6. AllPaths' = AllPaths /\ \A p : SoundPath(p)' <=> SoundPath(p)
  BY <1>3, RequestKept
<1>7. TypeOK'
  BY <1>3, <1>4, <1>5 DEF TypeOK, request
<1>8. Sound'
  <2>1. \A p \in Range(t) \cup Range(paths) : SoundPath(p)'
    BY <1>4, <1>6
  <2> QED BY <1>3, <2>1 DEF Sound, SoundPath
<1>9. InOrder'
  <2>1. \A q \in Range(t) : Len(q) > 1 => Before(Parent(q), Head(t))
    BY <1>4, StillBehind
  <2> QED BY <1>3, <1>4, <2>1 DEF InOrder
<1>10. NoneMissed'
  <2>1. ASSUME NEW p \in AllPaths \ Range(paths)
        PROVE  \E q \in Range(t) : Begins(q, p)
    <3>1. max_depth \in Nat
      BY <1>5 DEF TypeOK
    <3>2. Len(p) <= max_depth + 1 /\ Len(p) \in Nat
      BY <3>1, InAllPaths, PathProperties
    <3>3. Len(p) <= Len(h)
      BY <1>3, <1>4, <3>1, <3>2, PathProperties
    <3>4. ~Begins(h, p)
      BY <1>3, <1>4, <3>1, <3>3, NoFurther
    <3> QED BY <1>4, <3>4
  <2> QED BY <1>3, <1>6, <2>1 DEF NoneMissed
<1>11. Results'
  BY <1>3, <1>5, <1>6 DEF Results, request
<1> QED BY <1>7, <1>8, <1>9, <1>10, <1>11 DEF SearchInv

LEMMA ExpandKeeps ==
    ASSUME SearchInv, Expand
    PROVE  SearchInv'
<1>1. PICK h : h = Head(queue)
  OBVIOUS
<1>2. PICK t : t = Tail(queue)
  OBVIOUS
<1>3. PICK e : e = Extensions(h)
  OBVIOUS
<1>4. PICK new : new = calls[Last(h)] \ Range(h)
  OBVIOUS
<1>5. PICK s : s = t \o e
  OBVIOUS
<1>6. /\ Iterate /\ Last(h) # target /\ Depth(h) < max_depth /\ UNCHANGED request
      /\ queue' = s /\ paths' = paths /\ pc' = pc /\ pc = "search"
  BY <1>1, <1>2, <1>3, <1>5 DEF Expand, Iterate, Enqueued
<1>7. /\ h \in Paths /\ SoundPath(h)
      /\ t \in Seq(Paths) /\ Sorted(t)
      /\ \A q \in Range(t) : /\ q \in Paths /\ SoundPath(q) /\ Before(h, q)
                             /\ Len(q) > 1 => Before(Parent(q), h)
      /\ \A p \in Range(paths) : /\ SoundPath(p) /\ Before(p, h)
                                 /\ \A q \in Range(t) : Before(p, q)
      /\ \A p \in AllPaths \ Range(paths) :
            Begins(h, p) \/ \E q \in Range(t) : Begins(q, p)
  BY <1>1, <1>2, <1>6, AtHead
<1>8. TypeOK /\ Results
  BY DEF SearchInv
<1>9. max_depth \in Nat /\ calls \in [Functions -> SUBSET Functions] /\ paths \in Seq(Paths)
  BY <1>8 DEF TypeOK
<1>10. e \in Seq(Paths) /\ Sorted(e) /\ Range(e) = {Append(h, f) : f \in new}
  BY <1>3, <1>4, <1>7, <1>9, Expanded
<1>11. new \subseteq Functions
  BY <1>4, <1>7, <1>9, PathProperties
<1>12. ASSUME NEW k \in Range(e)
       PROVE  /\ k \in Paths /\ SoundPath(k) /\ Before(h, k) /\ Parent(k) = h
              /\ \A p \in Range(paths) : Before(p, k)
              /\ \A q \in Range(t) : Before(q, k)
  <2>1. PICK f \in new : k = Append(h, f)
    BY <1>10
  <2>2. k \in Paths /\ Len(k) = Len(h) + 1 /\ Parent(k) = h /\ f \in Functions
    BY <1>7, <1>11, <2>1, OneMore
  <2>3. SoundPath(k)
    BY <1>4, <1>6, <1>7, <1>9, <2>1, SoundMore
  <2>4. Before(h, k)
    <3>1. Len(h) < Len(k)
      BY <1>7, <2>2, PathProperties
    <3> QED BY <3>1 DEF Before
  <2>5. ASSUME NEW p \in Range(paths) PROVE Before(p, k)
    <3>1. p \in Paths
      BY <1>9, RangeOf
    <3>2. /\ p \in Seq(Functions) /\ h \in Seq(Functions) /\ k \in Seq(Functions)
          /\ Functions \subseteq Nat /\ Before(p, h)
      BY <1>7, <2>2, <3>1, PathProperties, FunctionsAssumption
    <3> QED BY <2>4, <3>2, BeforeTransitive
  <2>6. ASSUME NEW q \in Range(t) PROVE Before(q, k)
    BY <1>7, <2>1, <2>2, ChildrenLater
  <2> QED BY <2>2, <2>3, <2>4, <2>5, <2>6
<1>13. s \in Seq(Paths) /\ Range(s) = Range(t) \cup Range(e) /\ Sorted(s)
  <2>1. s \in Seq(Paths)
    BY <1>5, <1>7, <1>10, ConcatProperties
  <2>2. Range(s) = Range(t) \cup Range(e)
    BY <1>5, <1>7, <1>10, ConcatRange
  <2>3. \A q \in Range(t), k \in Range(e) : Before(q, k)
    BY <1>12
  <2>4. Sorted(s)
    BY <1>5, <1>7, <1>10, <2>3, SortedConcat
  <2> QED BY <2>1, <2>2, <2>4
<1>14. AllPaths' = AllPaths /\ \A p : SoundPath(p)' <=> SoundPath(p)
  BY <1>6, RequestKept
<1>15. TypeOK'
  BY <1>6, <1>8, <1>13 DEF TypeOK, request
<1>16. Sound'
  <2>1. \A p \in Range(s) \cup Range(paths) : SoundPath(p)'
    BY <1>7, <1>12, <1>13, <1>14
  <2> QED BY <1>6, <2>1 DEF Sound, SoundPath
<1>17. InOrder'
  <2>1. \A q \in Range(s) : /\ Before(h, q)
                            /\ Len(q) > 1 => Parent(q) = h \/ Before(Parent(q), h)
    BY <1>7, <1>12, <1>13
  <2>2. \A q \in Range(s) : Len(q) > 1 => Before(Parent(q), Head(s))
    BY <1>7, <1>13, <2>1, StillBehind
  <2>3. \A p \in Range(paths), q \in Range(s) : Before(p, q)
    BY <1>7, <1>12, <1>13
  <2> QED BY <1>6, <1>13, <2>2, <2>3 DEF InOrder
<1>18. NoneMissed'
  <2>1. ASSUME NEW p \in AllPaths \ Range(paths)
        PROVE  \E q \in Range(s) : Begins(q, p)
    <3>1. CASE Begins(h, p)
      <4>1. PICK f \in new : Begins(Append(h, f), p)
        BY <1>4, <1>6, <1>7, <1>9, <3>1, GoesOn
      <4>2. Append(h, f) \in Range(s)
        BY <1>10, <1>13, <4>1
      <4> QED BY <4>1, <4>2
    <3>2. CASE ~Begins(h, p)
      BY <1>7, <1>13, <3>2
    <3> QED BY <3>1, <3>2
  <2> QED BY <1>6, <1>14, <2>1 DEF NoneMissed
<1>19. Results'
  BY <1>6, <1>8, <1>14 DEF Results, request
<1> QED BY <1>15, <1>16, <1>17, <1>18, <1>19 DEF SearchInv

LEMMA BeginKeeps ==
    ASSUME SearchInv, Begin
    PROVE  SearchInv'
<1>1. /\ UNCHANGED request /\ queue' = <<<<source>>>> /\ paths' = paths /\ paths = <<>>
      /\ pc' = "search" /\ TypeOK /\ limit > 0
  BY DEF Begin, SearchInv, TypeOK
<1>2. PICK h : h = <<source>>
  OBVIOUS
<1>3. source \in Functions /\ max_depth \in Nat
  BY <1>1 DEF TypeOK
<1>4. /\ h \in Seq(Functions) /\ Len(h) = 1 /\ h[1] = source /\ h # <<>>
  BY <1>2, <1>3
<1>5. h \in Paths
  BY <1>4 DEF Paths
<1>6. queue' \in Seq(Paths) /\ Range(queue') = {h} /\ Sorted(queue')
  <2>1. queue' = <<h>>
    BY <1>1, <1>2
  <2>2. <<>> \in Seq(Paths)
    BY EmptySeq
  <2> QED BY <1>5, <2>1, <2>2, AppendOne
<1>7. Range(paths) = {} /\ Len(paths) = 0 /\ Sorted(paths)
  <2>1. DOMAIN paths = {} /\ Len(paths) = 0 /\ 1..0 = {}
    BY <1>1
  <2> QED BY <2>1 DEF Range, Sorted
<1>8. AllPaths' = AllPaths /\ \A p : SoundPath(p)' <=> SoundPath(p)
  BY <1>1, RequestKept
<1>9. TypeOK'
  BY <1>1, <1>6 DEF TypeOK, request
<1>10. Sound'
  <2>1. Depth(h) = 0 /\ DOMAIN h = 1..1
    BY <1>4, <1>5, PathProperties
  <2>2. 1..0 = {} /\ \A a, b \in 1..1 : a = b
    OBVIOUS
  <2>3. SoundPath(h)
    BY <1>3, <1>4, <2>1, <2>2 DEF SoundPath, IsCallPath, IsInjective
  <2>4. \A p \in Range(queue') \cup Range(paths) : SoundPath(p)'
    BY <1>6, <1>7, <1>8, <2>3
  <2> QED BY <1>1, <2>4 DEF Sound, SoundPath
<1>11. InOrder'
  <2>1. ASSUME NEW q \in Range(queue') PROVE ~(Len(q) > 1)
    <3>1. q = h
      BY <1>6
    <3>2. Len(q) = 1
      BY <1>4, <3>1
    <3> QED BY <3>2
  <2> QED BY <1>1, <1>6, <1>7, <2>1 DEF InOrder
<1>12. NoneMissed'
  <2>1. ASSUME NEW p \in AllPaths PROVE Begins(h, p)
    <3>1. p[1] = source /\ Len(p) \in Nat \ {0}
      BY <1>3, InAllPaths, PathProperties DEF IsCallPath
    <3>2. \A i \in 1..1 : i = 1
      OBVIOUS
    <3> QED BY <1>4, <3>1, <3>2 DEF Begins
  <2> QED BY <1>6, <1>8, <2>1 DEF NoneMissed
<1>13. Results'
  <2>1. 0 <= limit
    BY <1>1 DEF TypeOK
  <2> QED BY <1>1, <1>7, <2>1 DEF Results, request
<1> QED BY <1>9, <1>10, <1>11, <1>12, <1>13 DEF SearchInv

(* A step that leaves the search alone. *)
LEMMA OthersKeep ==
    ASSUME SearchInv, Refuse \/ Return \/ UNCHANGED vars
    PROVE  SearchInv'
<1>1. /\ UNCHANGED <<request, queue, paths>>
      /\ \/ pc' = pc
         \/ pc = "check" /\ pc' = "error"
         \/ pc = "search" /\ pc' = "done" /\ (queue = <<>> \/ Len(paths) >= limit)
  BY DEF Refuse, Return, vars
<1>2. AllPaths' = AllPaths /\ \A p : SoundPath(p)' <=> SoundPath(p)
  BY <1>1, RequestKept
<1>3. TypeOK /\ Sound /\ InOrder /\ NoneMissed /\ Results
  BY DEF SearchInv
<1>4. TypeOK'
  BY <1>1, <1>3 DEF TypeOK, request
<1>5. Sound'
  <2>1. \A p \in Range(queue) \cup Range(paths) : SoundPath(p)'
    BY <1>2, <1>3 DEF Sound, SoundPath
  <2> QED BY <1>1, <2>1 DEF Sound, SoundPath
<1>6. InOrder'
  BY <1>1, <1>3 DEF InOrder
<1>7. NoneMissed'
  BY <1>1, <1>2, <1>3 DEF NoneMissed
<1>8. Results'
  <2>1. Len(paths) \in Nat /\ limit \in Nat
    BY <1>3, LenProperties DEF TypeOK
  <2>2. Len(paths) >= limit => Len(paths) = limit
    BY <1>3, <2>1 DEF Results
  <2> QED BY <1>1, <1>2, <1>3, <2>2 DEF Results, request
<1> QED BY <1>4, <1>5, <1>6, <1>7, <1>8 DEF SearchInv

(* The invariant holds of every search.                                    *)
THEOREM SearchInvariant == Spec => []SearchInv
<1>1. ASSUME Init PROVE SearchInv
  <2>1. queue = <<>> /\ paths = <<>> /\ pc = "check"
    BY <1>1 DEF Init
  <2>2. Range(queue) = {} /\ Range(paths) = {} /\ Len(queue) = 0 /\ Len(paths) = 0
    <3>1. DOMAIN <<>> = {}
      OBVIOUS
    <3> QED BY <2>1, <3>1 DEF Range
  <2>3. 1..0 = {}
    OBVIOUS
  <2>4. TypeOK
    <3>1. <<>> \in Seq(Paths) /\ 0..MaxDepth \subseteq Nat /\ 0..MaxLimit \subseteq Nat
      BY EmptySeq, BoundsAssumption
    <3> QED BY <1>1, <3>1, FunctionsAssumption DEF Init, TypeOK
  <2>5. Len(paths) <= limit
    BY <2>2, <2>4 DEF TypeOK
  <2> QED BY <2>1, <2>2, <2>3, <2>4, <2>5
          DEF SearchInv, Sound, InOrder, NoneMissed, Results, Sorted
<1>2. ASSUME SearchInv, [Next]_vars PROVE SearchInv'
  <2>1. CASE Begin
    BY <1>2, <2>1, BeginKeeps
  <2>2. CASE Found
    BY <1>2, <2>2, FoundKeeps
  <2>3. CASE TooDeep
    BY <1>2, <2>3, TooDeepKeeps
  <2>4. CASE Expand
    BY <1>2, <2>4, ExpandKeeps
  <2>5. CASE Refuse \/ Return \/ UNCHANGED vars
    BY <1>2, <2>5, OthersKeep
  <2> QED BY <1>2, <2>1, <2>2, <2>3, <2>4, <2>5 DEF Next
<1> QED BY <1>1, <1>2, PTL DEF Spec

(* Whatever the graph, what callgraph.paths queues or returns is a simple  *)
(* path of calls from the source, within max_depth, that reaches the       *)
(* target only at its end.                                                 *)
THEOREM SearchSound == Spec => []Sound
<1>1. SearchInv => Sound
  BY DEF SearchInv
<1> QED BY <1>1, SearchInvariant, PTL

(* Whatever the graph, depth and limit, callgraph.paths finds the simple   *)
(* paths in order of length and entry points, without a gap, and returns   *)
(* all of them or the first `limit`.                                       *)
THEOREM ShortestPathsFirst == Spec => []FirstPaths
<1>1. ASSUME SearchInv PROVE FirstPaths
  <2>1. TypeOK /\ InOrder /\ NoneMissed /\ Results
    BY <1>1 DEF SearchInv
  <2>2. max_depth \in Nat /\ paths \in Seq(Paths) /\ queue \in Seq(Paths)
    BY <2>1 DEF TypeOK
  <2>3. DOMAIN paths = 1..Len(paths)
    BY <2>2, LenProperties
  <2>4. ASSUME NEW p \in Range(paths), NEW q \in AllPaths \ Range(paths)
        PROVE  Before(p, q)
    <3>1. pc \in {"search", "done"}
      <4>1. paths # <<>>
        BY DEF Range
      <4> QED BY <2>1, <4>1 DEF TypeOK
    <3>2. PICK r \in Range(queue) : Begins(r, q)
      BY <2>1, <3>1 DEF NoneMissed
    <3>3. Before(p, r)
      BY <2>1 DEF InOrder
    <3>4. Len(p) \in Nat /\ Len(r) \in Nat /\ Len(q) \in Nat
      BY <2>2, InAllPaths, RangeOf, PathProperties
    <3>5. CASE Len(p) < Len(q)
      BY <3>5 DEF Before
    <3>6. CASE ~(Len(p) < Len(q))
      <4>1. Len(p) <= Len(r) /\ Len(r) <= Len(q)
        BY <3>2, <3>3, <3>4, BeforeLength DEF Begins
      <4>2. Len(p) = Len(r) /\ Len(r) = Len(q)
        BY <3>4, <3>6, <4>1
      <4>3. PICK i \in 1..Len(r) : p[i] < r[i] /\ \A j \in 1..(i - 1) : p[j] = r[j]
        BY <3>3, <3>4, <4>2 DEF Before
      <4>4. \A j \in 1..(i - 1) : j \in 1..Len(r)
        BY <3>4
      <4>5. p[i] < q[i] /\ \A j \in 1..(i - 1) : p[j] = q[j]
        BY <3>2, <4>3, <4>4 DEF Begins
      <4> QED BY <4>2, <4>5 DEF Before
    <3> QED BY <3>5, <3>6
  <2>5. ASSUME pc = "done", Len(paths) # limit PROVE Range(paths) = AllPaths
    <3>1. queue = <<>>
      BY <2>1, <2>5 DEF Results
    <3>2. Range(queue) = {}
      BY <3>1 DEF Range
    <3> QED BY <2>1, <2>5, <3>2 DEF NoneMissed, Results
  <2> QED BY <2>1, <2>3, <2>4, <2>5 DEF FirstPaths, Results, Sorted
<1> QED BY <1>1, SearchInvariant, PTL
=============================================================================
