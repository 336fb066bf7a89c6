--------------------------- MODULE ExploreProofs ---------------------------
(***************************************************************************)
(* Proofs about Explore, for any table, any arguments and any number of    *)
(* changes by the abandoned script: what a batch reports, what a scan for  *)
(* references does not leave out, and what reading a listing page by page  *)
(* gives.                                                                  *)
(***************************************************************************)
EXTENDS Explore, DataLemmas, FiniteSetTheorems

-----------------------------------------------------------------------------
(* Filtered and Slice. *)

IsFilter(g, s, W, n) ==
    g = [i \in 0..n |-> IF i = 0 THEN <<>>
                        ELSE IF s[i] \in W THEN Append(g[i - 1], s[i]) ELSE g[i - 1]]

(* The filtered prefixes of a list exist, *)
LEMMA FilterExists ==
    ASSUME NEW s, NEW W
    PROVE  \A n \in Nat : \E g : IsFilter(g, s, W, n)
<1> DEFINE N == {n \in Nat : \E g : IsFilter(g, s, W, n)}
<1>1. 0 \in N
  <2> DEFINE g == [i \in 0..0 |-> <<>>]
  <2>1. IsFilter(g, s, W, 0)
    BY DEF IsFilter
  <2> QED BY <2>1
<1>2. ASSUME NEW n \in N PROVE n + 1 \in N
  <2>1. PICK g : IsFilter(g, s, W, n)
    OBVIOUS
  <2> DEFINE h == [i \in 0..(n + 1) |->
                      IF i = n + 1
                      THEN IF s[i] \in W THEN Append(g[n], s[i]) ELSE g[n]
                      ELSE g[i]]
  <2>2. \A i \in 0..n : g[i] = IF i = 0 THEN <<>>
                              ELSE IF s[i] \in W THEN Append(g[i - 1], s[i])
                                   ELSE g[i - 1]
    BY <2>1 DEF IsFilter
  <2>3. ASSUME NEW i \in 0..(n + 1)
        PROVE  h[i] = IF i = 0 THEN <<>>
                      ELSE IF s[i] \in W THEN Append(h[i - 1], s[i]) ELSE h[i - 1]
    <3>1. CASE i = n + 1
      <4>1. i # 0 /\ i - 1 = n /\ n \in 0..(n + 1) /\ n # n + 1
        BY <3>1
      <4> QED BY <3>1, <4>1
    <3>2. CASE i # n + 1
      <4>1. i \in 0..n /\ (i # 0 => i - 1 \in 0..(n + 1) /\ i - 1 # n + 1)
        BY <3>2
      <4> QED BY <3>2, <4>1, <2>2
    <3> QED BY <3>1, <3>2
  <2>4. IsFilter(h, s, W, n + 1)
    BY <2>3 DEF IsFilter
  <2> QED BY <2>4
<1> HIDE DEF N
<1>3. \A n \in Nat : n \in N
  BY <1>1, <1>2, Inductive DEF N
<1> QED BY <1>3 DEF N

(* and two lists that start alike have the same ones. *)
LEMMA FilterAgrees ==
    ASSUME NEW s, NEW t, NEW W, NEW n \in Nat, NEW m \in Nat, n <= m,
           NEW g, IsFilter(g, s, W, n), NEW h, IsFilter(h, t, W, m),
           \A i \in 1..n : s[i] = t[i]
    PROVE  \A i \in 0..n : g[i] = h[i]
<1> DEFINE N == {i \in Nat : i <= n => g[i] = h[i]}
<1>1. 0 \in N
  BY DEF IsFilter
<1>2. ASSUME NEW i \in N PROVE i + 1 \in N
  <2> SUFFICES ASSUME i + 1 <= n PROVE g[i + 1] = h[i + 1]
      OBVIOUS
  <2>1. /\ i + 1 \in 0..n /\ i + 1 \in 0..m /\ i + 1 # 0 /\ (i + 1) - 1 = i
        /\ s[i + 1] = t[i + 1] /\ g[i] = h[i]
    OBVIOUS
  <2>2. g[i + 1] = IF s[i + 1] \in W THEN Append(g[i], s[i + 1]) ELSE g[i]
    BY <2>1 DEF IsFilter
  <2>3. h[i + 1] = IF t[i + 1] \in W THEN Append(h[i], t[i + 1]) ELSE h[i]
    BY <2>1 DEF IsFilter
  <2> QED BY <2>1, <2>2, <2>3
<1> HIDE DEF N
<1>3. \A i \in Nat : i \in N
  BY <1>1, <1>2, Inductive DEF N
<1> QED BY <1>3 DEF N

(* What is filtered is the last of them. *)
LEMMA FilterLast ==
    ASSUME NEW X, NEW s \in Seq(X), NEW W
    PROVE  \E g : IsFilter(g, s, W, Len(s)) /\ Filtered(s, W) = g[Len(s)]
<1> DEFINE g == CHOOSE f : IsFilter(f, s, W, Len(s))
<1>1. Len(s) \in Nat
  OBVIOUS
<1>2. IsFilter(g, s, W, Len(s))
  BY <1>1, FilterExists
<1>3. Filtered(s, W) = g[Len(s)]
  BY DEF Filtered, IsFilter
<1> QED BY <1>2, <1>3

(* An empty list has no members of the set, *)
LEMMA FilteredEmpty ==
    ASSUME NEW W
    PROVE  Filtered(<<>>, W) = <<>>
<1>1. <<>> \in Seq({}) /\ Len(<<>>) = 0
  OBVIOUS
<1>2. PICK g : IsFilter(g, <<>>, W, 0) /\ Filtered(<<>>, W) = g[0]
  BY <1>1, FilterLast
<1> QED BY <1>2 DEF IsFilter

(* and one more row adds itself or nothing. *)
LEMMA FilteredAppend ==
    ASSUME NEW X, NEW s \in Seq(X), NEW x \in X, NEW W
    PROVE  Filtered(Append(s, x), W) = IF x \in W THEN Append(Filtered(s, W), x)
                                       ELSE Filtered(s, W)
<1> DEFINE t == Append(s, x)
           n == Len(s)
<1>1. /\ t \in Seq(X) /\ n \in Nat /\ Len(t) = n + 1
      /\ \A i \in 1..n : t[i] = s[i]
      /\ t[n + 1] = x
  OBVIOUS
<1>2. PICK g : IsFilter(g, s, W, n) /\ Filtered(s, W) = g[n]
  BY FilterLast
<1>3. PICK h : IsFilter(h, t, W, n + 1) /\ Filtered(t, W) = h[n + 1]
  BY <1>1, FilterLast
<1> HIDE DEF t, n
<1>4. h[n] = g[n]
  <2>1. \A i \in 1..n : s[i] = t[i]
    BY <1>1
  <2>2. n + 1 \in Nat /\ n <= n + 1 /\ n \in 0..n
    BY <1>1
  <2>3. \A i \in 0..n : g[i] = h[i]
    <3>1. PICK m \in Nat : m = n + 1
      BY <2>2
    <3>2. IsFilter(g, s, W, n) /\ IsFilter(h, t, W, m) /\ n \in Nat /\ n <= m
      BY <1>1, <1>2, <1>3, <2>2, <3>1
    <3> QED BY <2>1, <3>2, FilterAgrees
  <2> QED BY <2>2, <2>3
<1>5. n + 1 \in 0..(n + 1) /\ n + 1 # 0 /\ (n + 1) - 1 = n
  BY <1>1
<1>6. h[n + 1] = IF t[n + 1] \in W THEN Append(h[n], t[n + 1]) ELSE h[n]
  BY <1>3, <1>5 DEF IsFilter
<1> QED BY <1>1, <1>2, <1>3, <1>4, <1>6 DEF t

(* A slice has the members behind the offset, as many as the limit says. *)
LEMMA SliceMeaning ==
    ASSUME NEW X, NEW s \in Seq(X), NEW from \in Nat, NEW lim \in Nat
    PROVE  /\ Slice(s, from, lim) \in Seq(X)
           /\ Len(Slice(s, from, lim)) = IF Len(s) <= from THEN 0
                                         ELSE IF from + lim <= Len(s) THEN lim
                                              ELSE Len(s) - from
           /\ \A i \in 1..Len(Slice(s, from, lim)) :
                  from + i \in 1..Len(s) /\ Slice(s, from, lim)[i] = s[from + i]
<1>1. Len(s) \in Nat /\ from + lim \in Nat /\ lim \in Nat
  OBVIOUS
<1>2. Min({from + lim, Len(s)}) = IF from + lim <= Len(s) THEN from + lim ELSE Len(s)
  BY <1>1 DEF Min
<1> DEFINE e == IF from + lim <= Len(s) THEN from + lim ELSE Len(s)
<1>3. Slice(s, from, lim) = SubSeq(s, from + 1, e)
  BY <1>2 DEF Slice
<1>4. e \in Int /\ from + 1 \in Int /\ \A i \in (from + 1)..e : i \in 1..Len(s)
  BY <1>1
<1>5. \A i \in (from + 1)..e : s[i] \in X
  BY <1>4, ElementOfSeq
<1>6. /\ SubSeq(s, from + 1, e) \in Seq(X)
      /\ Len(SubSeq(s, from + 1, e)) = IF from + 1 <= e THEN e - (from + 1) + 1 ELSE 0
      /\ \A i \in 1..(e - (from + 1) + 1) :
             SubSeq(s, from + 1, e)[i] = s[(from + 1) + i - 1]
  BY <1>4, <1>5, SubSeqProperties
<1>7. Len(SubSeq(s, from + 1, e)) = IF Len(s) <= from THEN 0
                                    ELSE IF from + lim <= Len(s) THEN lim
                                         ELSE Len(s) - from
  BY <1>1, <1>6
<1>8. ASSUME NEW i \in 1..Len(SubSeq(s, from + 1, e))
      PROVE  from + i \in 1..Len(s) /\ SubSeq(s, from + 1, e)[i] = s[from + i]
  <2>1. i \in 1..(e - (from + 1) + 1) /\ (from + 1) + i - 1 = from + i
    <3>1. PICK k \in Int : k = e
      BY <1>4
    <3>2. i \in 1..(IF from + 1 <= k THEN k - (from + 1) + 1 ELSE 0)
      BY <1>6, <3>1
    <3>3. i \in 1..(k - (from + 1) + 1) /\ (from + 1) + i - 1 = from + i
      BY <3>2
    <3> QED BY <3>1, <3>3
  <2>2. from + i \in 1..Len(s)
    BY <1>1, <2>1
  <2> QED BY <1>6, <2>1, <2>2
<1> QED BY <1>3, <1>6, <1>7, <1>8

(* So the i-th of a slice is the one at the offset and i. *)
LEMMA SliceMember ==
    ASSUME NEW X, NEW s \in Seq(X), NEW from \in Nat, NEW lim \in Nat,
           NEW g, g = Slice(s, from, lim)
    PROVE  \A i \in 1..Len(g) : from + i \in 1..Len(s) /\ g[i] = s[from + i]
<1>1. \A i \in 1..Len(Slice(s, from, lim)) :
         from + i \in 1..Len(s) /\ Slice(s, from, lim)[i] = s[from + i]
  BY SliceMeaning
<1> QED BY <1>1

(* One more row is in the slice if it is behind the offset and there was   *)
(* room.                                                                   *)
LEMMA SliceAppend ==
    ASSUME NEW X, NEW s \in Seq(X), NEW x \in X, NEW from \in Nat, NEW lim \in Nat
    PROVE  Slice(Append(s, x), from, lim)
               = IF from <= Len(s) /\ Len(Slice(s, from, lim)) < lim
                 THEN Append(Slice(s, from, lim), x) ELSE Slice(s, from, lim)
<1> DEFINE t == Append(s, x)
           a == Slice(s, from, lim)
           b == Slice(t, from, lim)
<1>1. /\ t \in Seq(X) /\ Len(s) \in Nat /\ Len(t) = Len(s) + 1
      /\ \A i \in 1..Len(s) : t[i] = s[i]
      /\ t[Len(s) + 1] = x
  OBVIOUS
<1>0. t \in Seq(X)
  BY <1>1
<1> HIDE DEF t
<1>2. a \in Seq(X)
  BY SliceMeaning
<1>3. Len(a) = IF Len(s) <= from THEN 0
               ELSE IF from + lim <= Len(s) THEN lim ELSE Len(s) - from
  BY SliceMeaning
<1>4. \A i \in 1..Len(a) : from + i \in 1..Len(s) /\ a[i] = s[from + i]
  BY SliceMeaning
<1>5. b \in Seq(X)
  BY <1>0, SliceMeaning
<1>6. Len(b) = IF Len(t) <= from THEN 0
               ELSE IF from + lim <= Len(t) THEN lim ELSE Len(t) - from
  BY <1>0, SliceMeaning
<1>7. \A i \in 1..Len(b) : from + i \in 1..Len(t) /\ b[i] = t[from + i]
  BY <1>0, SliceMeaning
<1> HIDE DEF a, b
<1>8. CASE from <= Len(s) /\ Len(a) < lim
  <2>1. Len(b) = Len(a) + 1 /\ from + Len(b) = Len(s) + 1 /\ Len(a) \in Nat
    BY <1>1, <1>3, <1>6, <1>8
  <2>2. /\ Append(a, x) \in Seq(X) /\ Len(Append(a, x)) = Len(a) + 1
        /\ \A i \in 1..Len(a) : Append(a, x)[i] = a[i]
        /\ Append(a, x)[Len(a) + 1] = x
    BY <1>2, AppendProperties
  <2>3. ASSUME NEW i \in 1..Len(b) PROVE b[i] = Append(a, x)[i]
    <3>1. CASE i = Len(a) + 1
      BY <1>1, <1>7, <2>1, <2>2, <3>1
    <3>2. CASE i # Len(a) + 1
      <4>1. i \in 1..Len(a)
        BY <2>1, <3>2
      <4>2. a[i] = s[from + i] /\ from + i \in 1..Len(s) /\ b[i] = t[from + i]
        BY <1>4, <1>7, <4>1
      <4> QED BY <1>1, <2>2, <4>1, <4>2
    <3> QED BY <3>1, <3>2
  <2>4. b = Append(a, x)
    BY <1>5, <2>1, <2>2, <2>3, SeqEqual
  <2> QED BY <1>8, <2>4 DEF t, a, b
<1>9. CASE ~(from <= Len(s) /\ Len(a) < lim)
  <2>1. Len(b) = Len(a) /\ Len(a) \in Nat
    BY <1>1, <1>3, <1>6, <1>9
  <2>2. ASSUME NEW i \in 1..Len(b) PROVE b[i] = a[i]
    <3>1. a[i] = s[from + i] /\ from + i \in 1..Len(s) /\ b[i] = t[from + i]
      BY <1>4, <1>7, <2>1
    <3> QED BY <1>1, <3>1
  <2>3. b = a
    BY <1>2, <1>5, <2>1, <2>2, SeqEqual
  <2> QED BY <1>9, <2>3 DEF t, a, b
<1> QED BY <1>8, <1>9

(* A slice goes on where the first members of the list end. *)
LEMMA FirstsThenSlice ==
    ASSUME NEW X, NEW s \in Seq(X), NEW from \in Nat, NEW lim \in Nat,
           from <= Len(s)
    PROVE  /\ Len(Slice(s, from, lim)) \in Nat
           /\ from + Len(Slice(s, from, lim)) <= Len(s)
           /\ SubSeq(s, 1, from) \o Slice(s, from, lim)
                 = SubSeq(s, 1, from + Len(Slice(s, from, lim)))
<1>0. \A i \in 1..Len(Slice(s, from, lim)) :
         from + i \in 1..Len(s) /\ Slice(s, from, lim)[i] = s[from + i]
  BY SliceMeaning
<1> DEFINE n == Len(Slice(s, from, lim))
           a == SubSeq(s, 1, from)
           b == Slice(s, from, lim)
           t == SubSeq(s, 1, from + n)
<1>1. Len(s) \in Nat
  OBVIOUS
<1>2. b \in Seq(X) /\ Len(b) = n
  BY SliceMeaning
<1>3. n = IF Len(s) <= from THEN 0
          ELSE IF from + lim <= Len(s) THEN lim ELSE Len(s) - from
  BY SliceMeaning
<1>4. \A i \in 1..n : from + i \in 1..Len(s) /\ b[i] = s[from + i]
  BY <1>0
<1>5. n \in Nat /\ from + n <= Len(s)
  BY <1>1, <1>3
<1>6. \A i \in 1..(from + n) : s[i] \in X
  BY <1>1, <1>5, ElementOfSeq
<1>7. a \in Seq(X) /\ Len(a) = from /\ \A i \in 1..from : a[i] = s[i]
  <2>1. \A i \in 1..from : s[i] \in X
    BY <1>5, <1>6
  <2>2. /\ a \in Seq(X)
        /\ Len(a) = IF 1 <= from THEN from - 1 + 1 ELSE 0
        /\ \A i \in 1..(from - 1 + 1) : a[i] = s[1 + i - 1]
    BY <2>1, SubSeqProperties
  <2> QED BY <2>2
<1>8. t \in Seq(X) /\ Len(t) = from + n /\ \A i \in 1..(from + n) : t[i] = s[i]
  <2>1. from + n \in Int /\ from + n >= 0
    BY <1>5
  <2>2. /\ t \in Seq(X)
        /\ Len(t) = IF 1 <= from + n THEN (from + n) - 1 + 1 ELSE 0
        /\ \A i \in 1..((from + n) - 1 + 1) : t[i] = s[1 + i - 1]
    BY <1>6, <2>1, SubSeqProperties
  <2> QED BY <2>1, <2>2
<1> HIDE DEF a, b, t, n
<1>9. /\ a \o b \in Seq(X) /\ Len(a \o b) = from + n
      /\ \A i \in 1..(from + n) : (a \o b)[i] = IF i <= from THEN a[i] ELSE b[i - from]
  BY <1>2, <1>5, <1>7, ConcatProperties
<1>10. ASSUME NEW i \in 1..(from + n) PROVE (a \o b)[i] = t[i]
  <2>1. CASE i <= from
    BY <1>5, <1>7, <1>8, <1>9, <2>1
  <2>2. CASE ~(i <= from)
    <3>1. i - from \in 1..n /\ from + (i - from) = i
      BY <1>5, <2>2
    <3> QED BY <1>4, <1>8, <1>9, <2>2, <3>1
  <2> QED BY <2>1, <2>2
<1>11. a \o b = t
  BY <1>8, <1>9, <1>10, SeqEqual
<1> QED BY <1>5, <1>11 DEF a, b, t, n

-----------------------------------------------------------------------------
(* The table and its histories. *)

USE TableAssumption, BatchAssumption, XrefsAssumption, ListingAssumption
USE DEF Addresses

(* A row that was there all the time is there; if nothing changed, no      *)
(* other is.                                                               *)
TableInv ==
    /\ rows \subseteq Addresses
    /\ kept \subseteq rows
    /\ ~gained /\ ~lost => rows = kept

(* The listings do not write the table, *)
LEMMA SearchReads == SearchStep \/ EndWalk => UNCHANGED tableVars
BY DEF SearchStep, EndWalk, AskPage, RegexRow, BackendRow, RegexEnd, BackendEnd,
       ToolsPage, Answer

(* nor do the reference tools write it. *)
LEMMA XrefsRead == XrefsStep \/ EndXrefs => UNCHANGED tableVars
BY DEF XrefsStep, EndXrefs, Expand, ReadReference, AnswerXrefs

-----------------------------------------------------------------------------
(* decompile.batch. *)

(* What the loop has made of a target it is through with. *)
Reported(t) ==
    /\ t \in kept => results[t] \in {"code", "incomplete"}
    /\ t \notin rows /\ ~gained /\ ~lost => results[t] = "tool_error"

(* The loop is through with the targets before the current one, which has  *)
(* been resolved when it is looked up.                                     *)
BatchInv ==
    /\ batch \in {"none", "resolve", "lookup", "decompile", "answered", "failed"}
    /\ targets \in Seq(Addresses)
    /\ current \in Nat \ {0}
    /\ batch = "none" => current = 1
    /\ batch \in {"resolve", "lookup", "decompile"} => current \in 1..Len(targets)
    /\ batch \in {"lookup", "decompile"} /\ ~lost => Target \in rows
    /\ batch = "answered" => current = Len(targets) + 1
    /\ DOMAIN results = {targets[i] : i \in 1..(current - 1)}
    /\ \A t \in DOMAIN results : Reported(t)
    /\ \A t \in DOMAIN cached : cached[t] \in {"code", "incomplete"}

(* No batch is under way at the start. *)
LEMMA BatchInitially == Init => BatchInv
BY DEF Init, BatchInit, BatchInv, Empty

(* A step that begins an activity watches the table anew; the others leave *)
(* it as it is or change one row.                                          *)
LEMMA TableSteps ==
    ASSUME Next
    PROVE  \/ Resting /\ Watch
           \/ UNCHANGED tableVars
           \/ ~Resting /\ \E a \in Addresses : Define(a) \/ Undefine(a)
           \/ batch = "resolve" /\ targets[current] \notin rows
              /\ AnalysisDefines(targets[current])
<1>1. CASE Begin
  BY <1>1 DEF Begin, BeginWalk, AskRange, AskFrom, BatchBegin
<1>2. CASE ServerStep
  <2>1. CASE BatchStep \/ EndBatch
    BY <2>1 DEF BatchStep, EndBatch, ResolveTarget, LookupTarget, DecompileTarget,
                Report, Target, AnalysisDefines
  <2> QED BY <1>2, <2>1, SearchReads, XrefsRead DEF ServerStep
<1>3. CASE Script
  BY <1>3 DEF Script, ScriptGoesOn
<1> QED BY <1>1, <1>2, <1>3 DEF Next

(* Nothing has changed when the agent starts. *)
LEMMA TableInitially == Init => TableInv
BY DEF Init, TableInit, TableInv

(* The histories stay right whatever the step. *)
LEMMA TableStep == TableInv /\ BatchInv /\ [Next]_vars => TableInv'
<1> SUFFICES ASSUME TableInv, BatchInv, [Next]_vars PROVE TableInv'
    OBVIOUS
<1>1. CASE UNCHANGED tableVars
  BY <1>1 DEF TableInv, tableVars
<1>2. CASE Watch
  BY <1>2 DEF TableInv, Watch
<1>3. ASSUME NEW a \in Addresses, Define(a) \/ Undefine(a) PROVE TableInv'
  BY <1>3 DEF TableInv, Define, Undefine
<1>4. CASE batch = "resolve" /\ AnalysisDefines(targets[current])
  <2>1. targets[current] \in Addresses
    BY <1>4 DEF BatchInv
  <2> QED BY <1>4, <2>1 DEF TableInv, AnalysisDefines
<1> QED BY <1>1, <1>2, <1>3, <1>4, TableSteps DEF vars

(* Going on to the next target keeps it, if the entry is right. *)
LEMMA ReportKeeps ==
    ASSUME TableInv, BatchInv, NEW entry, Report(entry),
           batch \in {"resolve", "lookup", "decompile"},
           Target \in kept => entry \in {"code", "incomplete"},
           Target \notin rows /\ ~gained /\ ~lost => entry = "tool_error",
           \A t \in DOMAIN cached' : cached'[t] \in {"code", "incomplete"}
    PROVE  BatchInv'
<1>1. /\ targets' = targets /\ current' = current + 1
      /\ rows' = rows /\ kept' = kept /\ gained' = gained /\ lost' = lost
      /\ batch' = IF current = Len(targets) THEN "answered" ELSE "resolve"
  BY DEF Report, tableVars
<1>2. current \in 1..Len(targets) /\ Len(targets) \in Nat
  BY DEF BatchInv
<1>3. /\ DOMAIN results' = DOMAIN results \cup {Target}
      /\ \A t \in DOMAIN results' : results'[t] = IF t = Target THEN entry ELSE results[t]
  BY DEF Report
<1>4. DOMAIN results' = {targets'[i] : i \in 1..(current' - 1)}
  <2>1. 1..(current' - 1) = 1..(current - 1) \cup {current}
    BY <1>1, <1>2
  <2> QED BY <1>1, <1>3, <2>1 DEF BatchInv, Target
<1>5. \A t \in DOMAIN results' : Reported(t)'
  BY <1>1, <1>3 DEF BatchInv, Reported
<1>6. /\ targets' \in Seq(Addresses) /\ current' \in Nat \ {0}
      /\ batch' \in {"answered", "resolve"}
      /\ batch' = "resolve" => current' \in 1..Len(targets')
      /\ batch' = "answered" => current' = Len(targets') + 1
  BY <1>1, <1>2 DEF BatchInv
<1> QED BY <1>4, <1>5, <1>6 DEF BatchInv

(* A step of the loop keeps it, *)
LEMMA BatchLoop ==
    ASSUME TableInv, BatchInv, BatchStep
    PROVE  BatchInv'
<1>1. CASE ResolveTarget
  <2>1. batch = "resolve"
    BY <1>1 DEF ResolveTarget
  <2>2. CASE Target \notin rows /\ Report("tool_error") /\ UNCHANGED cached
    <3>1. Target \notin kept
      BY <2>2 DEF TableInv
    <3> QED BY <2>1, <2>2, <3>1, ReportKeeps DEF BatchInv
  <2>3. CASE /\ Target \in rows
             /\ batch' = "lookup"
             /\ UNCHANGED <<targets, current, results, cached, tableVars>>
    BY <2>1, <2>3 DEF BatchInv, Target, Reported, tableVars
  <2>4. CASE /\ AnalysisDefines(Target)
             /\ batch' = "lookup"
             /\ UNCHANGED <<targets, current, results, cached>>
    BY <2>1, <2>4 DEF BatchInv, Target, Reported, AnalysisDefines
  <2>5. CASE /\ batch' = "failed"
             /\ UNCHANGED <<targets, current, results, cached, tableVars>>
    BY <2>1, <2>5 DEF BatchInv, Target, Reported, tableVars
  <2> QED BY <1>1, <2>2, <2>3, <2>4, <2>5 DEF ResolveTarget
<1>2. CASE LookupTarget
  <2>1. batch = "lookup" /\ cached' = cached
    BY <1>2 DEF LookupTarget
  <2>2. CASE Target \in DOMAIN cached /\ Report(cached[Target])
    BY <2>1, <2>2, ReportKeeps DEF BatchInv
  <2>3. CASE /\ batch' = "decompile"
             /\ UNCHANGED <<targets, current, results, tableVars>>
    BY <2>1, <2>3 DEF BatchInv, Target, Reported, tableVars
  <2> QED BY <1>2, <2>2, <2>3 DEF LookupTarget
<1>3. CASE DecompileTarget
  <2>1. batch = "decompile"
    BY <1>3 DEF DecompileTarget
  <2>2. ASSUME NEW entry \in {"code", "incomplete"}, Target \in rows, Report(entry),
               cached' = [t \in DOMAIN cached \cup {Target} |->
                              IF t = Target THEN entry ELSE cached[t]]
        PROVE  BatchInv'
    <3>1. \A t \in DOMAIN cached' : cached'[t] \in {"code", "incomplete"}
      BY <2>2 DEF BatchInv
    <3> QED BY <2>1, <2>2, <3>1, ReportKeeps
  <2>3. CASE Target \notin rows /\ Report("backend_error") /\ UNCHANGED cached
    <3>1. Target \notin kept /\ lost
      BY <2>1, <2>3 DEF TableInv, BatchInv
    <3> QED BY <2>1, <2>3, <3>1, ReportKeeps DEF BatchInv
  <2>4. CASE /\ batch' = "failed"
             /\ UNCHANGED <<targets, current, results, cached, tableVars>>
    BY <2>1, <2>4 DEF BatchInv, Target, Reported, tableVars
  <2> QED BY <1>3, <2>2, <2>3, <2>4 DEF DecompileTarget
<1> QED BY <1>1, <1>2, <1>3 DEF BatchStep

(* and so does every other one, whatever it does to the table. *)
LEMMA BatchKept ==
    TableInv /\ BatchInv /\ [Next]_vars => BatchInv'
<1> SUFFICES ASSUME TableInv, BatchInv, [Next]_vars PROVE BatchInv'
    OBVIOUS
<1>1. CASE UNCHANGED batchVars /\ UNCHANGED tableVars
  BY <1>1 DEF BatchInv, Target, Reported, tableVars, batchVars
<1>2. CASE Resting /\ Watch /\ UNCHANGED batchVars
  <2>1. DOMAIN results = {}
    BY <1>2 DEF BatchInv, Resting
  <2> QED BY <1>2, <2>1 DEF BatchInv, Target, Resting, batchVars
<1>3. CASE Resting /\ BatchBegin
  <2>1. current = 1 /\ DOMAIN results = {}
    BY <1>3 DEF BatchInv, Resting
  <2>2. PICK n \in 1..MaxTargets : targets' \in [1..n -> Addresses]
    BY <1>3 DEF BatchBegin
  <2>3. PICK known \in SUBSET rows : cached' = [t \in known |-> "code"]
    BY <1>3 DEF BatchBegin
  <2>4. targets' \in Seq(Addresses) /\ Len(targets') = n /\ n >= 1
    BY <2>2
  <2>5. batch' = "resolve" /\ UNCHANGED <<current, results>>
    BY <1>3 DEF BatchBegin
  <2> QED BY <2>1, <2>3, <2>4, <2>5 DEF BatchInv
<1>4. CASE BatchStep
  BY <1>4, BatchLoop
<1>5. CASE EndBatch
  BY <1>5 DEF EndBatch, BatchInv, Empty
<1>6. ASSUME NEW a \in Addresses, Define(a), UNCHANGED batchVars PROVE BatchInv'
  BY <1>6 DEF Define, BatchInv, Target, Reported, batchVars
<1>7. ASSUME NEW a \in Addresses, Undefine(a), UNCHANGED batchVars PROVE BatchInv'
  BY <1>7 DEF Undefine, BatchInv, Target, Reported, batchVars
<1>8. CASE Begin
  BY <1>2, <1>3, <1>8 DEF Begin, BeginWalk, AskRange, AskFrom
<1>9. CASE ServerStep
  BY <1>1, <1>4, <1>5, <1>9, SearchReads, XrefsRead DEF ServerStep
<1>10. CASE Script
  BY <1>6, <1>7, <1>10 DEF Script, ScriptGoesOn
<1> QED BY <1>1, <1>8, <1>9, <1>10 DEF Next, vars

(* BatchReportsEveryTarget: whatever script and analysis do to the program *)
(* between its steps, decompile.batch has an entry for each target, no     *)
(* error for a function that was there all the time, and an error for one  *)
(* that never was; only an exception the loop does not catch ends it.      *)
THEOREM BatchesReportEveryTarget == Spec => []BatchReportsEveryTarget
<1>1. BatchInv => BatchReportsEveryTarget
  <2> SUFFICES ASSUME BatchInv, batch = "answered"
               PROVE  DOMAIN results = Range(targets)
      BY DEF BatchInv, Reported, BatchReportsEveryTarget
  <2>1. current - 1 = Len(targets) /\ DOMAIN targets = 1..Len(targets)
    BY DEF BatchInv
  <2> QED BY <2>1 DEF BatchInv, Range
<1> QED BY <1>1, TableInitially, TableStep, BatchInitially, BatchKept, PTL DEF Spec
-----------------------------------------------------------------------------
(* xrefs.to and xrefs.from. *)

(* The rows of the range that were there all the time. *)
There == kept \cap range[1]..range[2]

(* The scan has read the rows it has passed, and no others. *)
Scanned ==
    /\ cursor \in Nat /\ cursor + 1 >= range[1]
    /\ \A r \in There : r <= cursor => r \in found
    /\ found \subseteq range[1]..range[2]
    /\ \A r \in found : r <= cursor
    /\ ~gained /\ ~lost => found \subseteq There

(* The answer is what the scan has read, and without the marker that is    *)
(* all there was.                                                          *)
Replied ==
    /\ answer = [items |-> Shown, truncated |-> Truncated,
                 filteredOut |-> Cardinality(found \ Shown)]
    /\ ~Truncated => There \subseteq found
    /\ ~gained /\ ~lost => found \subseteq There

XrefsInv ==
    /\ xrefs \in {"none", "resolving", "scanning", "answered"}
    /\ range \in Addresses \X Addresses
    /\ found \in SUBSET Addresses
    /\ ask.limit \in Nat \ {0}
    /\ xrefs \in {"none", "resolving"} => found = {}
    /\ xrefs = "scanning" => Scanned
    /\ xrefs = "answered" => Replied

(* Nothing has been asked at the start. *)
LEMMA XrefsInitially == Init => XrefsInv
BY DEF Init, XrefsInit, XrefsInv, NoArguments

(* What has been found is finite. *)
LEMMA FoundFinite ==
    ASSUME NEW S \in SUBSET Addresses
    PROVE  IsFiniteSet(S) /\ Cardinality(S) \in Nat
<1>1. IsFiniteSet(1..LastAddress)
  BY FS_Interval
<1> QED BY <1>1, FS_Subset, FS_CardinalityType

(* The least row ahead is ahead, and there is none before it. *)
LEMMA NextRow ==
    ASSUME NEW S \in SUBSET Addresses, S # {}
    PROVE  Min(S) \in S /\ \A r \in S : Min(S) <= r
<1>1. S \subseteq Nat
  OBVIOUS
<1>2. \E x \in S : \A y \in S : x =< y
  BY <1>1, LeastNumber
<1> QED BY <1>2 DEF Min

(* The steps of a call keep it, *)
LEMMA XrefsCall ==
    ASSUME TableInv, XrefsInv, XrefsStep
    PROVE  XrefsInv'
<1> USE DEF XrefsInv
<1>1. CASE Expand
  <2>1. /\ xrefs = "resolving" /\ xrefs' = "scanning" /\ cursor' = range'[1] - 1
        /\ UNCHANGED <<ask, found, tableVars>>
        /\ range' \in Addresses \X Addresses
    BY <1>1 DEF Expand
  <2>2. found' = {} /\ \A r \in There' : r > cursor'
    BY <2>1 DEF There, TableInv, tableVars
  <2>3. Scanned'
    BY <2>1, <2>2 DEF Scanned, There
  <2> QED BY <2>1, <2>2, <2>3
<1>2. CASE ReadReference
  <2>1. /\ xrefs = "scanning" /\ InRange # {} /\ cursor' = Min(InRange)
        /\ found' = found \cup {cursor'}
        /\ UNCHANGED <<xrefs, ask, range, tableVars>>
    BY <1>2 DEF ReadReference
  <2>2. InRange \in SUBSET Addresses
    BY DEF InRange, Ahead, TableInv
  <2>3. cursor' \in InRange /\ \A r \in InRange : cursor' <= r
    BY <2>1, <2>2, NextRow
  <2>4. /\ cursor' \in rows /\ cursor' > cursor /\ cursor' \in range[1]..range[2]
        /\ cursor' \in Addresses
    BY <2>2, <2>3 DEF InRange, Ahead
  <2>5. There' = There
    BY <2>1 DEF There, tableVars
  <2>6. ASSUME NEW r \in There, r <= cursor' PROVE r \in found'
    <3>1. r \in rows /\ r \in Addresses /\ r \in range[1]..range[2]
      BY DEF There, TableInv
    <3>2. CASE r <= cursor
      BY <2>1, <3>2 DEF Scanned
    <3>3. CASE r > cursor
      <4>1. r \in InRange
        BY <3>1, <3>3 DEF InRange, Ahead
      <4> QED BY <2>1, <2>3, <2>4, <2>6, <3>1, <4>1
    <3> QED BY <2>1, <3>1, <3>2, <3>3 DEF Scanned
  <2>7. \A r \in found' : r <= cursor'
    BY <2>1, <2>4 DEF Scanned
  <2>8. ~gained' /\ ~lost' => found' \subseteq There'
    BY <2>1, <2>4, <2>5 DEF Scanned, There, TableInv, tableVars
  <2>9. cursor' \in Nat /\ cursor' + 1 >= range'[1]
    BY <2>1, <2>4 DEF Scanned
  <2>10. found' \subseteq range'[1]..range'[2]
    BY <2>1, <2>4 DEF Scanned
  <2>11. Scanned'
    BY <2>5, <2>6, <2>7, <2>8, <2>9, <2>10 DEF Scanned
  <2> QED BY <2>1, <2>4, <2>11
<1>3. CASE AnswerXrefs
  <2>1. /\ xrefs = "scanning" /\ xrefs' = "answered"
        /\ Cardinality(found) >= ask.limit \/ InRange = {}
        /\ answer' = [items |-> Shown, truncated |-> Truncated,
                      filteredOut |-> Cardinality(found \ Shown)]
        /\ UNCHANGED <<ask, range, cursor, found, tableVars>>
    BY <1>3 DEF AnswerXrefs
  <2>2. Shown' = Shown /\ Truncated' = Truncated /\ There' = There
    BY <2>1 DEF Shown, Truncated, There, tableVars
  <2>3. ~Truncated => There \subseteq found
    <3>1. SUFFICES ASSUME InRange = {}, NEW r \in There PROVE r \in found
      BY <2>1 DEF Truncated
    <3>2. r \in rows /\ r \in range[1]..range[2] /\ r \in Addresses
      BY DEF There, TableInv
    <3>3. ~(r > cursor)
      BY <3>1, <3>2 DEF InRange, Ahead
    <3> QED BY <2>1, <3>2, <3>3 DEF Scanned
  <2>4. Replied'
    BY <2>1, <2>2, <2>3 DEF Replied, Scanned, tableVars
  <2> QED BY <2>1, <2>4
<1> QED BY <1>1, <1>2, <1>3 DEF XrefsStep

(* and so does every other step, whatever it does to the table. *)
LEMMA XrefsKept ==
    TableInv /\ XrefsInv /\ [Next]_vars => XrefsInv'
<1> SUFFICES ASSUME TableInv, XrefsInv, [Next]_vars PROVE XrefsInv'
    OBVIOUS
<1>1. ASSUME UNCHANGED xrefsVars, kept' \subseteq kept,
             ~gained' /\ ~lost' => ~gained /\ ~lost /\ kept' = kept
      PROVE  XrefsInv'
  <2>1. Shown' = Shown /\ Truncated' = Truncated /\ There' \subseteq There
    BY <1>1 DEF Shown, Truncated, There, xrefsVars
  <2>2. ~gained' /\ ~lost' => There' = There
    BY <1>1 DEF There, xrefsVars
  <2>3. xrefs = "scanning" => Scanned'
    BY <1>1, <2>1, <2>2 DEF XrefsInv, Scanned, xrefsVars
  <2>4. xrefs = "answered" => Replied'
    BY <1>1, <2>1, <2>2 DEF XrefsInv, Replied, xrefsVars
  <2> QED BY <1>1, <2>3, <2>4 DEF XrefsInv, xrefsVars
<1>2. CASE Resting /\ UNCHANGED xrefsVars
  BY <1>2 DEF Resting, XrefsInv, xrefsVars
<1>3. CASE Resting /\ (AskRange \/ AskFrom)
  <2>1. /\ ask' \in Arguments /\ found' = found /\ found = {}
        /\ range' \in Addresses \X Addresses
    BY <1>3 DEF AskRange, AskFrom, Resting, XrefsInv
  <2>2. ask'.limit \in Nat \ {0}
    BY <2>1 DEF Arguments
  <2>3. CASE AskFrom
    BY <2>1, <2>2, <2>3 DEF AskFrom, XrefsInv
  <2>4. CASE AskRange
    <3>1. xrefs' = "scanning" /\ cursor' = range'[1] - 1
      BY <2>4 DEF AskRange
    <3>2. \A r \in There' : r > cursor'
      BY <2>1, <2>4, <3>1 DEF There, TableInv, AskRange, Watch
    <3>3. Scanned'
      BY <2>1, <3>1, <3>2 DEF Scanned, There
    <3> QED BY <2>1, <2>2, <3>1, <3>3 DEF XrefsInv
  <2> QED BY <1>3, <2>3, <2>4
<1>4. CASE XrefsStep
  BY <1>4, XrefsCall
<1>5. CASE EndXrefs
  BY <1>5 DEF EndXrefs, XrefsInv, NoArguments
<1>6. ASSUME NEW a, Define(a) \/ Undefine(a) \/ AnalysisDefines(a), UNCHANGED xrefsVars
      PROVE  XrefsInv'
  BY <1>1, <1>6 DEF Define, Undefine, AnalysisDefines
<1>7. CASE UNCHANGED tableVars /\ UNCHANGED xrefsVars
  BY <1>1, <1>7 DEF tableVars
<1>8. CASE Begin
  BY <1>2, <1>3, <1>8 DEF Begin
<1>9. CASE ServerStep
  <2>1. CASE (BatchStep \/ EndBatch) /\ UNCHANGED xrefsVars
    <3>1. batch # "none"
      BY <2>1 DEF BatchStep, EndBatch, ResolveTarget, LookupTarget, DecompileTarget
    <3>2. UNCHANGED tableVars \/ \E a : Define(a) \/ Undefine(a) \/ AnalysisDefines(a)
      BY <1>9, <3>1, TableSteps DEF Next, Resting
    <3> QED BY <1>6, <1>7, <2>1, <3>2
  <2> QED BY <1>4, <1>5, <1>7, <1>9, <2>1, SearchReads DEF ServerStep
<1>10. CASE Script
  BY <1>6, <1>10 DEF Script, ScriptGoesOn
<1> QED BY <1>7, <1>8, <1>9, <1>10 DEF Next, vars

(* XrefsExhaustive: an answer of xrefs.to or xrefs.from that is not marked *)
(* as truncated leaves nothing out that was there all the time, however    *)
(* the program changed during the scan and whatever was filtered.          *)
THEOREM XrefsLeaveNothingOut == Spec => []XrefsExhaustive
<1>1. XrefsInv => XrefsExhaustive
  <2> SUFFICES ASSUME XrefsInv, xrefs = "answered", ~answer.truncated
               PROVE  /\ (There \cap Code) \subseteq answer.items
                      /\ Cardinality((There \ Code) \ answer.items)
                            <= answer.filteredOut
                      /\ ~gained /\ ~lost =>
                            /\ answer.items \subseteq There
                            /\ Cardinality(There) = Cardinality(answer.items)
                                                      + answer.filteredOut
      BY DEF XrefsExhaustive, There
  <2>1. /\ answer.items = Shown
        /\ answer.filteredOut = Cardinality(found \ Shown)
        /\ There \subseteq found
        /\ ~gained /\ ~lost => found \subseteq There
    BY DEF XrefsInv, Replied
  <2>2. Shown \subseteq found /\ found \cap Code \subseteq Shown
    BY DEF Shown
  <2>3. IsFiniteSet(found) /\ IsFiniteSet(Shown) /\ IsFiniteSet(found \ Shown)
    BY <2>2, FoundFinite DEF XrefsInv
  <2>4. Cardinality((There \ Code) \ Shown) <= Cardinality(found \ Shown)
    BY <2>1, <2>3, FS_Subset
  <2>5. Cardinality(found) = Cardinality(Shown) + Cardinality(found \ Shown)
    <3>1. Shown \cup (found \ Shown) = found /\ Shown \cap (found \ Shown) = {}
      BY <2>2
    <3>2. Cardinality(found) = Cardinality(Shown) + Cardinality(found \ Shown)
                               - Cardinality(Shown \cap (found \ Shown))
      BY <2>3, <3>1, FS_Union
    <3>3. Cardinality(Shown \cap (found \ Shown)) = 0
      BY <3>1, FS_EmptySet
    <3>4. Cardinality(Shown) \in Nat /\ Cardinality(found \ Shown) \in Nat
      BY <2>3, FS_CardinalityType
    <3> QED BY <3>2, <3>3, <3>4
  <2>6. (There \cap Code) \subseteq answer.items
    BY <2>1, <2>2
  <2>7. Cardinality((There \ Code) \ answer.items) <= answer.filteredOut
    BY <2>1, <2>4
  <2>8. ASSUME ~gained, ~lost
        PROVE  /\ answer.items \subseteq There
               /\ Cardinality(There) = Cardinality(answer.items) + answer.filteredOut
    <3>1. There = found
      BY <2>1, <2>8
    <3> QED BY <2>1, <2>2, <2>5, <3>1
  <2> QED BY <2>6, <2>7, <2>8
<1> QED BY <1>1, TableInitially, TableStep, BatchInitially, BatchKept,
           XrefsInitially, XrefsKept, PTL DEF Spec
-----------------------------------------------------------------------------
(* The listings. *)

Increasing(f) == \A i, j \in 1..Len(f) : i < j => f[i] < f[j]

(* The wanted rows before r, and those of them the iterator has still to   *)
(* give.                                                                   *)
InFront(r) == {w \in rows \cap Wanted : w < r}
Coming(r) == {w \in rows \cap Wanted : at < w /\ w < r}

(* What the agent was given in this listing that it will not ask for       *)
(* again: a listing of functions starts over with each request.            *)
Given == IF listing = "functions" THEN {} ELSE Range(listed)

(* Between two pages: a row that is still to be given is not in front of   *)
(* the offset, and one that was given is.                                  *)
Asked ==
    /\ ~lost => \A r \in (kept \cap Wanted) \ Given : Cardinality(InFront(r)) >= offset
    /\ ~gained => \A r \in Given \cap rows : Cardinality(InFront(r)) < offset

(* The wanted rows that the scan has passed, in its order; *)
Passed(seen) ==
    /\ seen \in Seq(Wanted) /\ Increasing(seen)
    /\ at \in Nat
    /\ \A r \in Range(seen) : r <= at
    /\ \A r \in kept \cap Wanted : r <= at => r \in Range(seen)
    /\ ~lost => Range(seen) \subseteq rows
    /\ ~gained => \A r \in rows \cap Wanted : r <= at => r \in Range(seen)

(* those still to be given come behind the offset, those given before it;  *)
Placing(seen) ==
    /\ ~lost =>
          /\ \A r \in (kept \cap Wanted) \ Given :
                r > at => Len(seen) + Cardinality(Coming(r)) >= page.offset
          /\ \A i \in 1..Len(seen) :
                seen[i] \in kept \ Given => i > page.offset
    /\ ~gained =>
          /\ \A r \in Given \cap rows :
                r > at => Len(seen) + Cardinality(Coming(r)) < page.offset
          /\ \A i \in 1..Len(seen) :
                seen[i] \in Given => i <= page.offset

(* and how the two paths keep them.                                        *)
Collected(seen) ==
    /\ page.path = "regex" =>
          /\ skipped = IF Len(seen) < page.offset THEN Len(seen) ELSE page.offset
          /\ total = Len(seen) - skipped
          /\ items = Slice(seen, page.offset, page.limit)
    /\ page.path = "backend" => Filtered(strings, Wanted) = seen

Scanning ==
    /\ listing # "tools"
    /\ page.path \in Paths
    /\ page.offset = offset
    /\ page.limit \in Nat \ {0}
    /\ strings \in Seq(Addresses)
    /\ \E seen : Passed(seen) /\ Placing(seen) /\ Collected(seen)

(* tools/list gives the tools one after the other.                         *)
Tools == [a \in Addresses |-> a]

ToolsGiven ==
    /\ walk \in {"none", "asking", "ended"}
    /\ offset <= Len(Tools)
    /\ listed = SubSeq(Tools, 1, offset)
    /\ walk = "ended" => offset = Len(Tools)

SearchInv ==
    /\ walk \in {"none", "asking", "scanning", "ended", "failed"}
    /\ listing \in {"strings", "search", "functions", "tools"}
    /\ offset \in Nat
    /\ listed \in Seq(Wanted)
    /\ page.path \in Paths
    /\ walk = "none" => offset = 0 /\ listed = <<>>
    /\ listing = "functions" => offset = 0
    /\ listing = "tools" => ToolsGiven
    /\ listing # "tools" =>
          /\ ~gained \/ listing = "functions" => IsInjective(listed)
          /\ walk = "asking" => Asked
          /\ walk = "ended" /\ ~lost => (kept \cap Wanted) \subseteq Range(listed)
    /\ walk = "scanning" => Scanning

(* Facts about sets of addresses and increasing lists of them.             *)
LEMMA WantedType ==
    listing \in {"strings", "search", "functions", "tools"} /\ page.path \in Paths
        => Wanted \subseteq Addresses
<1> SUFFICES ASSUME page.path \in Paths, listing \in {"search", "functions"}
             PROVE  Matching[listing][page.path] \subseteq Addresses
    BY DEF Wanted
<1> QED BY ListingAssumption DEF Paths

LEMMA WantedRows == SearchInv => Wanted \subseteq Addresses
BY WantedType DEF SearchInv

(* a smaller set has no more members, *)
LEMMA CardMonotonic ==
    ASSUME NEW T \in SUBSET Addresses, NEW S \in SUBSET T
    PROVE  Cardinality(S) \in Nat /\ Cardinality(S) <= Cardinality(T)
<1>1. IsFiniteSet(T) /\ Cardinality(T) \in Nat
  BY FoundFinite
<1>2. IsFiniteSet(S) /\ Cardinality(S) <= Cardinality(T)
  BY <1>1, FS_Subset
<1> QED BY <1>2, FS_CardinalityType

(* one more member counts one more, *)
LEMMA CardAdd ==
    ASSUME NEW S \in SUBSET Addresses, NEW x, x \notin S
    PROVE  Cardinality(S \cup {x}) = Cardinality(S) + 1
<1>1. IsFiniteSet(S)
  BY FoundFinite
<1> QED BY <1>1, FS_AddElement

(* no member none, *)
LEMMA CardEmpty == Cardinality({}) = 0
BY FS_EmptySet

(* The first n members of a list. *)
Firsts(f, n) == {f[i] : i \in 1..n}

(* and the first n of an increasing list are n. *)
LEMMA CountFirsts ==
    ASSUME NEW f \in Seq(Addresses), Increasing(f), NEW n \in 0..Len(f)
    PROVE  /\ Firsts(f, n) \in SUBSET Addresses
           /\ Cardinality(Firsts(f, n)) = n
<1> DEFINE g == [i \in 1..n |-> f[i]]
           S == Firsts(f, n)
<1>1. \A i \in 1..Len(f) : f[i] \in Addresses
  BY ElementOfSeq
<1>2. Len(f) \in Nat /\ n \in Nat /\ \A i \in 1..n : i \in 1..Len(f)
  OBVIOUS
<1>3. g \in [1..n -> S]
  BY DEF Firsts
<1>4. ASSUME NEW i \in 1..n, NEW j \in 1..n, g[i] = g[j] PROVE i = j
  <2>1. f[i] = f[j] /\ f[i] \in Addresses /\ i \in 1..Len(f) /\ j \in 1..Len(f)
    BY <1>1, <1>2, <1>4
  <2>2. ~(i < j) /\ ~(j < i)
    BY <2>1 DEF Increasing
  <2> QED BY <2>2
<1>5. \A x \in S : \E i \in 1..n : g[i] = x
  BY DEF Firsts
<1> HIDE DEF g, S
<1>6. g \in Bijection(1..n, S)
  BY <1>3, <1>4, <1>5 DEF Bijection, Injection, Surjection, IsInjective
<1>7. IsFiniteSet(1..n) /\ Cardinality(1..n) = n
  BY <1>2, FS_Interval
<1>8. Cardinality(S) = n
  BY <1>6, <1>7, FS_Bijection DEF ExistsBijection
<1> QED BY <1>1, <1>2, <1>8 DEF S, Firsts

(* A larger address continues an increasing list. *)
LEMMA AppendIncreasing ==
    ASSUME NEW f \in Seq(Addresses), Increasing(f), NEW m \in Addresses,
           \A r \in Range(f) : r < m
    PROVE  /\ Append(f, m) \in Seq(Addresses) /\ Increasing(Append(f, m))
           /\ Len(Append(f, m)) = Len(f) + 1
           /\ Range(Append(f, m)) = Range(f) \cup {m}
<1> DEFINE g == Append(f, m)
<1>1. /\ g \in Seq(Addresses) /\ Len(g) = Len(f) + 1 /\ Len(f) \in Nat
      /\ \A i \in 1..Len(f) : g[i] = f[i]
      /\ g[Len(f) + 1] = m
  OBVIOUS
<1>2. DOMAIN f = 1..Len(f) /\ DOMAIN g = 1..(Len(f) + 1)
  BY <1>1
<1>3. \A i \in 1..Len(f) : f[i] \in Range(f)
  BY <1>2 DEF Range
<1> HIDE DEF g
<1>4. Increasing(g)
  <2> SUFFICES ASSUME NEW i \in 1..Len(g), NEW j \in 1..Len(g), i < j
               PROVE  g[i] < g[j]
      BY DEF Increasing
  <2>1. i \in 1..Len(f) /\ g[i] = f[i]
    BY <1>1
  <2>2. CASE j = Len(f) + 1
    BY <1>1, <1>3, <2>1, <2>2
  <2>3. CASE j # Len(f) + 1
    <3>1. j \in 1..Len(f)
      <4>1. Len(g) = Len(f) + 1 /\ Len(f) \in Nat /\ j \in 1..Len(g)
        BY <1>1
      <4> QED BY <2>3, <4>1
    <3>2. g[j] = f[j]
      BY <1>1, <3>1
    <3> QED BY <2>1, <3>1, <3>2 DEF Increasing
  <2> QED BY <2>2, <2>3
<1>5. Range(g) = Range(f) \cup {m}
  <2>1. 1..(Len(f) + 1) = 1..Len(f) \cup {Len(f) + 1}
    BY <1>1
  <2> QED BY <1>1, <1>2, <2>1 DEF Range
<1> QED BY <1>1, <1>4, <1>5 DEF g

(* A row that the iterator gives and the query does not want changes       *)
(* nothing; one that it wants is the next of the list.                     *)
LEMMA RowPassed ==
    ASSUME TableInv, SearchInv, listed \in Seq(Wanted),
           page.offset \in Nat,
           NEW seen, Passed(seen), Placing(seen),
           NEW m, Ahead(at) # {}, m = Min(Ahead(at)),
           at' = m, UNCHANGED <<listing, page, listed, tableVars>>,
           NEW next, next = IF m \in Wanted THEN Append(seen, m) ELSE seen
    PROVE  Passed(next)' /\ Placing(next)'
<1>1. Ahead(at) \in SUBSET Addresses
  BY DEF Ahead, TableInv
<1>2. m \in rows /\ m > at /\ \A w \in rows : w > at => m <= w
  BY <1>1, NextRow DEF Ahead
<1>3. m \in Addresses /\ m \in Nat /\ at \in Nat
  BY <1>2 DEF TableInv, Passed
<1>4. /\ Wanted' = Wanted /\ Given' = Given /\ rows' = rows /\ kept' = kept
      /\ gained' = gained /\ lost' = lost /\ page' = page
  BY DEF Wanted, Given, tableVars
<1>5. /\ Given \subseteq Wanted /\ kept \subseteq rows
      /\ \A r \in rows : r \in Addresses
      /\ \A r \in Wanted : r \in Addresses
  <2>1. Range(listed) \subseteq Wanted
    BY DEF Range
  <2> QED BY <2>1, WantedRows DEF Given, TableInv
<1>6. seen \in Seq(Addresses) /\ Increasing(seen) /\ Len(seen) \in Nat
  <2>1. seen \in Seq(Wanted) /\ Increasing(seen)
    BY DEF Passed
  <2>2. seen \in Seq(Addresses)
    BY <2>1, WantedRows, SeqMonotonic
  <2> QED BY <2>1, <2>2, LenProperties
<1>7. \A r \in Range(seen) : r <= at /\ r \in Addresses /\ r \in Wanted
  BY <1>5 DEF Passed, Range
<1>8. \A r \in Range(seen) : r < m
  BY <1>2, <1>3, <1>7
<1>9. ASSUME m \in Wanted
      PROVE  /\ next \in Seq(Wanted) /\ Increasing(next) /\ Len(next) = Len(seen) + 1
             /\ Range(next) = Range(seen) \cup {m}
             /\ \A i \in 1..Len(seen) : next[i] = seen[i]
             /\ next[Len(seen) + 1] = m
  <2>1. next = Append(seen, m)
    BY <1>9
  <2>2. /\ Increasing(next) /\ Len(next) = Len(seen) + 1
        /\ Range(next) = Range(seen) \cup {m}
    BY <1>3, <1>6, <1>8, <2>1, AppendIncreasing
  <2>3. seen \in Seq(Wanted)
    BY DEF Passed
  <2>4. next \in Seq(Wanted)
    BY <1>9, <2>1, <2>3
  <2>5. /\ \A i \in 1..Len(seen) : next[i] = seen[i]
        /\ next[Len(seen) + 1] = m
    BY <2>1, <2>3
  <2> QED BY <2>2, <2>4, <2>5
<1>10. m \notin Wanted => next = seen
  OBVIOUS
<1>11. \A r : r \in Range(next) <=> r \in Range(seen) \/ (r = m /\ m \in Wanted)
  BY <1>9, <1>10

(* Behind m there is one wanted row less to come, if m is one.             *)
<1>12. ASSUME NEW r \in rows \cap Wanted, r > at
       PROVE  \/ r = m /\ m \in Wanted /\ Len(next) = Len(seen) + 1
                 /\ Coming(r) = {}
              \/ r > m /\ Len(next) + Cardinality(Coming(r)')
                             = Len(seen) + Cardinality(Coming(r))
  <2>1. r \in Addresses /\ m <= r
    BY <1>2, <1>5, <1>12
  <2>2. CASE r = m
    <3>1. Coming(r) = {}
      BY <1>2, <1>5, <1>3, <2>2 DEF Coming
    <3> QED BY <1>9, <2>2, <3>1
  <2>3. CASE r # m
    <3>1. r > m
      BY <1>3, <2>1, <2>3
    <3>2. Coming(r)' = {w \in rows \cap Wanted : m < w /\ w < r}
      BY <1>4 DEF Coming
    <3>3. Coming(r)' \in SUBSET Addresses /\ m \notin Coming(r)'
      BY <1>3, <1>5, <3>2
    <3>4. CASE m \in Wanted
      <4>1. Coming(r) = Coming(r)' \cup {m}
        <5>1. ASSUME NEW w \in rows \cap Wanted
              PROVE  at < w /\ w < r <=> w = m \/ (m < w /\ w < r)
          <6>1. w \in Addresses /\ (w > at => m <= w)
            BY <1>2, <1>5
          <6> QED BY <1>2, <1>3, <2>1, <3>1, <6>1
        <5>2. m \in rows \cap Wanted
          BY <1>2, <3>4
        <5>3. \A w : w \in Coming(r) <=> w \in Coming(r)' \cup {m}
          BY <3>2, <5>1, <5>2 DEF Coming
        <5> QED BY <5>3
      <4>2. Cardinality(Coming(r)) = Cardinality(Coming(r)') + 1
        BY <3>3, <4>1, CardAdd
      <4>3. Len(next) = Len(seen) + 1
        BY <1>9, <3>4
      <4>4. Cardinality(Coming(r)') \in Nat
        BY <3>3, FoundFinite
      <4>5. Len(next) + Cardinality(Coming(r)') = Len(seen) + Cardinality(Coming(r))
        <5>1. Len(seen) \in Nat
          BY <1>6
        <5>2. PICK c : c = Cardinality(Coming(r)')
          OBVIOUS
        <5>3. c \in Nat /\ Cardinality(Coming(r)) = c + 1
          BY <4>2, <4>4, <5>2
        <5>4. Len(next) + c = Len(seen) + (c + 1)
          BY <4>3, <5>1, <5>3
        <5> QED BY <5>2, <5>3, <5>4
      <4> QED BY <3>1, <4>5
    <3>5. CASE m \notin Wanted
      <4>1. Coming(r) = Coming(r)'
        BY <1>2, <1>3, <1>5, <3>2, <3>5 DEF Coming
      <4> QED BY <1>10, <3>1, <3>5, <4>1
    <3> QED BY <3>4, <3>5
  <2> QED BY <2>2, <2>3
<1>13. Passed(next)'
  <2>1. next \in Seq(Wanted) /\ Increasing(next)
    BY <1>9, <1>10 DEF Passed
  <2>2. \A r \in Range(next) : r <= m
    BY <1>3, <1>7, <1>8, <1>11
  <2>3. ASSUME NEW r \in rows \cap Wanted, r <= m, r <= at => r \in Range(seen)
        PROVE  r \in Range(next)
    <3>1. r \in Addresses /\ (r > at => m <= r)
      BY <1>2, <1>5
    <3>2. r <= at \/ r = m
      BY <1>3, <2>3, <3>1
    <3> QED BY <1>11, <2>3, <3>2
  <2>4. \A r \in kept \cap Wanted : r <= m => r \in Range(next)
    BY <1>5, <2>3 DEF Passed
  <2>5. ~lost => Range(next) \subseteq rows
    BY <1>2, <1>11 DEF Passed
  <2>6. ~gained => \A r \in rows \cap Wanted : r <= m => r \in Range(next)
    BY <2>3 DEF Passed
  <2> QED BY <1>3, <1>4, <2>1, <2>2, <2>4, <2>5, <2>6 DEF Passed
<1>14. ASSUME ~lost PROVE
          /\ \A r \in (kept \cap Wanted) \ Given :
                r > m => Len(next) + Cardinality(Coming(r)') >= page.offset
          /\ \A i \in 1..Len(next) : next[i] \in kept \ Given => i > page.offset
  <2>1. ASSUME NEW r \in (kept \cap Wanted) \ Given, r > m
        PROVE  Len(next) + Cardinality(Coming(r)') >= page.offset
    <3>1. r \in rows \cap Wanted /\ r > at /\ r # m
      BY <1>2, <1>3, <1>5, <2>1
    <3>2. Len(seen) + Cardinality(Coming(r)) >= page.offset
      BY <1>14, <3>1 DEF Placing
    <3> QED BY <1>12, <3>1, <3>2
  <2>2. ASSUME NEW i \in 1..Len(next), next[i] \in kept \ Given
        PROVE  i > page.offset
    <3>1. CASE i \in 1..Len(seen)
      <4>1. next[i] = seen[i]
        BY <1>9, <1>10, <3>1
      <4> QED BY <1>14, <2>2, <3>1, <4>1 DEF Placing
    <3>2. CASE i \notin 1..Len(seen)
      <4>1. m \in Wanted /\ i = Len(seen) + 1 /\ next[i] = m
        BY <1>6, <1>9, <1>10, <3>2
      <4>2. m \in (kept \cap Wanted) \ Given /\ m \in rows \cap Wanted
        BY <1>2, <2>2, <4>1
      <4>3. Len(seen) + Cardinality(Coming(m)) >= page.offset
        BY <1>2, <1>14, <4>2 DEF Placing
      <4>4. Coming(m) = {}
        BY <1>2, <1>3, <1>12, <4>2
      <4> QED BY <1>6, <4>1, <4>3, <4>4, CardEmpty
    <3> QED BY <3>1, <3>2
  <2> QED BY <2>1, <2>2
<1>15. ASSUME ~gained PROVE
          /\ \A r \in Given \cap rows :
                r > m => Len(next) + Cardinality(Coming(r)') < page.offset
          /\ \A i \in 1..Len(next) : next[i] \in Given => i <= page.offset
  <2>1. ASSUME NEW r \in Given \cap rows, r > m
        PROVE  Len(next) + Cardinality(Coming(r)') < page.offset
    <3>1. r \in rows \cap Wanted /\ r > at /\ r # m
      BY <1>2, <1>3, <1>5, <2>1
    <3>2. Len(seen) + Cardinality(Coming(r)) < page.offset
      BY <1>15, <3>1 DEF Placing
    <3> QED BY <1>12, <3>1, <3>2
  <2>2. ASSUME NEW i \in 1..Len(next), next[i] \in Given
        PROVE  i <= page.offset
    <3>1. CASE i \in 1..Len(seen)
      <4>1. next[i] = seen[i]
        BY <1>9, <1>10, <3>1
      <4> QED BY <1>15, <2>2, <3>1, <4>1 DEF Placing
    <3>2. CASE i \notin 1..Len(seen)
      <4>1. m \in Wanted /\ i = Len(seen) + 1 /\ next[i] = m
        BY <1>6, <1>9, <1>10, <3>2
      <4>2. m \in Given \cap rows /\ m \in rows \cap Wanted
        BY <1>2, <2>2, <4>1
      <4>3. Len(seen) + Cardinality(Coming(m)) < page.offset
        BY <1>2, <1>15, <4>2 DEF Placing
      <4>4. Coming(m) = {}
        BY <1>2, <1>3, <1>12, <4>2
      <4> QED BY <1>6, <4>1, <4>3, <4>4, CardEmpty
    <3> QED BY <3>1, <3>2
  <2> QED BY <2>1, <2>2
<1>16. Placing(next)'
  BY <1>4, <1>14, <1>15 DEF Placing
<1> QED BY <1>13, <1>16

(* A page begins where the agent has got to.                               *)
LEMMA PageAsked ==
    ASSUME TableInv, SearchInv, NEW limit \in Limits, AskPage(limit)
    PROVE  SearchInv'
<1>1. /\ walk = "asking" /\ walk' = "scanning" /\ listing # "tools"
      /\ page' = [path |-> page.path, limit |-> limit,
                  offset |-> IF listing = "functions" THEN 0 ELSE offset]
      /\ at' = 0 /\ skipped' = 0 /\ total' = 0 /\ items' = <<>> /\ strings' = <<>>
      /\ UNCHANGED <<listing, offset, listed, tableVars>>
  BY DEF AskPage, StartScan
<1>2. /\ page'.offset = offset /\ page'.limit \in Nat \ {0}
      /\ page'.path = page.path /\ page'.path \in Paths'
  BY <1>1 DEF SearchInv, Paths
<1>3. /\ Wanted' = Wanted /\ Given' = Given /\ rows' = rows /\ kept' = kept
      /\ gained' = gained /\ lost' = lost
  BY <1>1, <1>2 DEF Wanted, Given, tableVars
<1>4. <<>> \in Seq(Wanted) /\ Len(<<>>) = 0 /\ Range(<<>>) = {}
  BY DEF Range
<1>5. Passed(<<>>)'
  <2>1. \A r \in rows \cap Wanted : r > 0
    BY DEF TableInv
  <2>2. \A r \in rows \cap Wanted : ~(r <= 0)
    BY <2>1 DEF TableInv
  <2>3. Increasing(<<>>)
    BY <1>4 DEF Increasing
  <2> QED BY <1>1, <1>3, <1>4, <2>2, <2>3 DEF Passed, TableInv
<1>6. ASSUME NEW r \in Addresses PROVE Coming(r)' = InFront(r)
  <2>1. \A w \in rows : 0 < w
    BY DEF TableInv
  <2> QED BY <1>1, <1>3, <2>1 DEF Coming, InFront
<1>7. Asked /\ offset \in Nat
  BY <1>1 DEF SearchInv
<1>8. \A r \in Addresses : Cardinality(InFront(r)) \in Nat
  <2>1. \A r : InFront(r) \in SUBSET Addresses
    BY WantedRows DEF InFront
  <2> QED BY <2>1, FoundFinite
<1>9. \A r \in Addresses : Len(<<>>) + Cardinality(Coming(r)') = Cardinality(InFront(r))
  BY <1>4, <1>6, <1>8
<1>10. kept \subseteq Addresses /\ rows \subseteq Addresses
  BY DEF TableInv
<1>11. Placing(<<>>)'
  <2>1. ~lost => \A r \in (kept \cap Wanted) \ Given :
                    Len(<<>>) + Cardinality(Coming(r)') >= page'.offset
    BY <1>2, <1>7, <1>9, <1>10 DEF Asked
  <2>2. ~gained => \A r \in Given \cap rows :
                      Len(<<>>) + Cardinality(Coming(r)') < page'.offset
    BY <1>2, <1>7, <1>9, <1>10 DEF Asked
  <2>3. 1..Len(<<>>) = {}
    BY <1>4
  <2> QED BY <1>3, <2>1, <2>2, <2>3 DEF Placing
<1>12. Collected(<<>>)'
  <2>1. Slice(<<>>, page'.offset, page'.limit) = <<>>
    <3>1. page'.offset \in Nat /\ page'.limit \in Nat /\ <<>> \in Seq({})
      BY <1>2, <1>7
    <3>2. Slice(<<>>, page'.offset, page'.limit) \in Seq({})
      BY <3>1, SliceMeaning
    <3> QED BY <3>2
  <2>2. Filtered(<<>>, Wanted') = <<>>
    BY FilteredEmpty
  <2> QED BY <1>1, <1>2, <1>4, <1>7, <2>1, <2>2 DEF Collected
<1>13. Scanning'
  <2>1. strings' \in Seq(Addresses)
    BY <1>1
  <2> QED BY <1>1, <1>2, <1>5, <1>11, <1>12, <2>1 DEF Scanning
<1>14. listed' \in Seq(Wanted')
  BY <1>1, <1>3 DEF SearchInv
<1> QED BY <1>1, <1>2, <1>3, <1>13, <1>14 DEF SearchInv

(* Two lists without a common member are injective together if each is.    *)
LEMMA ConcatInjective ==
    ASSUME NEW X, NEW s \in Seq(X), NEW u \in Seq(X), IsInjective(s), IsInjective(u),
           \A i \in 1..Len(u) : u[i] \notin Range(s)
    PROVE  IsInjective(s \o u)
<1> DEFINE c == s \o u
<1>1. /\ c \in Seq(X) /\ Len(c) = Len(s) + Len(u)
      /\ \A i \in 1..(Len(s) + Len(u)) :
             c[i] = IF i <= Len(s) THEN s[i] ELSE u[i - Len(s)]
      /\ Len(s) \in Nat /\ Len(u) \in Nat
  BY ConcatProperties
<1>2. DOMAIN c = 1..(Len(s) + Len(u)) /\ DOMAIN s = 1..Len(s) /\ DOMAIN u = 1..Len(u)
  BY <1>1
<1> HIDE DEF c
<1>3. SUFFICES ASSUME NEW i \in DOMAIN c, NEW j \in DOMAIN c, c[i] = c[j]
               PROVE  i = j
  BY DEF IsInjective, c
<1>4. \A k \in 1..Len(s) : s[k] \in Range(s)
  BY <1>2 DEF Range
<1>5. CASE i <= Len(s) /\ j <= Len(s)
  <2>1. i \in DOMAIN s /\ j \in DOMAIN s /\ s[i] = s[j]
    BY <1>1, <1>2, <1>3, <1>5
  <2> QED BY <2>1 DEF IsInjective
<1>6. CASE ~(i <= Len(s)) /\ ~(j <= Len(s))
  <2>1. /\ i - Len(s) \in DOMAIN u /\ j - Len(s) \in DOMAIN u
        /\ u[i - Len(s)] = u[j - Len(s)]
    BY <1>1, <1>2, <1>3, <1>6
  <2>2. i - Len(s) = j - Len(s)
    BY <2>1 DEF IsInjective
  <2> QED BY <1>1, <1>2, <2>2
<1>7. CASE i <= Len(s) /\ ~(j <= Len(s))
  <2>1. i \in 1..Len(s) /\ j - Len(s) \in 1..Len(u) /\ c[i] = s[i] /\ c[j] = u[j - Len(s)]
    BY <1>1, <1>2, <1>7
  <2> QED BY <1>3, <1>4, <2>1
<1>8. CASE ~(i <= Len(s)) /\ j <= Len(s)
  <2>1. j \in 1..Len(s) /\ i - Len(s) \in 1..Len(u) /\ c[j] = s[j] /\ c[i] = u[i - Len(s)]
    BY <1>1, <1>2, <1>8
  <2> QED BY <1>3, <1>4, <2>1
<1> QED BY <1>5, <1>6, <1>7, <1>8

(* A page ends: what it gave is put to what the agent has.                 *)
LEMMA PageGiven ==
    ASSUME TableInv, SearchInv, walk = "scanning", Ahead(at) = {},
           NEW seen, Passed(seen), Placing(seen),
           NEW got, got = Slice(seen, page.offset, page.limit),
           Answer(got, Len(seen))
    PROVE  SearchInv'
<1> DEFINE n == Len(got)
           o == page.offset
<1>1. /\ o = offset /\ o \in Nat /\ page.limit \in Nat \ {0} /\ listing # "tools"
      /\ listed \in Seq(Wanted)
      /\ listing = "functions" => offset = 0
      /\ ~gained \/ listing = "functions" => IsInjective(listed)
      /\ listing \in {"strings", "search", "functions", "tools"}
  BY DEF SearchInv, Scanning
<1>2. /\ listing = "functions" => listed' = got /\ offset' = offset
      /\ listing # "functions" => listed' = listed \o got /\ offset' = offset + n
      /\ walk' = IF Len(seen) = 0 \/ (Len(seen) > 0 /\ got = <<>> /\ o >= Len(seen))
                    \/ o + n = Len(seen)
                 THEN "ended" ELSE "asking"
      /\ UNCHANGED <<listing, page, scanVars, tableVars>>
  BY DEF Answer, OffsetOutOfRange
<1>3. /\ Wanted' = Wanted /\ rows' = rows /\ kept' = kept
      /\ gained' = gained /\ lost' = lost /\ listing' = listing
  BY <1>2 DEF Wanted, tableVars
<1>4. /\ seen \in Seq(Wanted) /\ seen \in Seq(Addresses) /\ Increasing(seen)
      /\ Len(seen) \in Nat /\ DOMAIN seen = 1..Len(seen)
  <2>1. seen \in Seq(Wanted) /\ Increasing(seen)
    BY DEF Passed
  <2>2. seen \in Seq(Addresses)
    BY <2>1, WantedRows, SeqMonotonic
  <2> QED BY <2>1, <2>2, LenProperties
<1>5. \A i \in 1..Len(seen) : seen[i] \in Addresses /\ seen[i] \in Wanted /\ seen[i] \in Range(seen)
  BY <1>4, ElementOfSeq DEF Range
<1>6. \A r \in Range(seen) : \E i \in 1..Len(seen) : seen[i] = r
  BY <1>4 DEF Range
<1>7. got \in Seq(Wanted) /\ n \in Nat /\ DOMAIN got = 1..n
  <2>1. got \in Seq(Wanted)
    BY <1>1, <1>4, SliceMeaning
  <2> QED BY <2>1, LenProperties
<1>8. \A j \in 1..n : o + j \in 1..Len(seen) /\ got[j] = seen[o + j]
  <2>1. page.limit \in Nat /\ page.offset \in Nat /\ seen \in Seq(Wanted)
    BY <1>1, <1>4
  <2> QED BY <2>1, SliceMember
<1>9. \A j \in 1..n : got[j] \in Range(got)
  BY <1>7 DEF Range
<1>10. \A i \in 1..Len(seen) : o < i /\ i <= o + n => seen[i] \in Range(got)
  <2> SUFFICES ASSUME NEW i \in 1..Len(seen), o < i, i <= o + n
               PROVE  seen[i] \in Range(got)
      OBVIOUS
  <2>1. i - o \in 1..n /\ o + (i - o) = i
    BY <1>1, <1>4, <1>7
  <2> QED BY <1>8, <1>9, <2>1
<1> HIDE DEF n, o
<1>11. \A r \in kept \cap Wanted : r \in Range(seen)
  <2> SUFFICES ASSUME NEW r \in kept \cap Wanted PROVE r \in Range(seen)
      OBVIOUS
  <2>1. r \in rows /\ r \in Addresses
    BY DEF TableInv
  <2>2. ~(r > at)
    BY <2>1 DEF Ahead
  <2>3. at \in Nat
    BY DEF Passed
  <2> QED BY <2>1, <2>2, <2>3 DEF Passed
<1>12. ~gained => \A r \in rows \cap Wanted : r \in Range(seen)
  <2> SUFFICES ASSUME ~gained, NEW r \in rows \cap Wanted PROVE r \in Range(seen)
      OBVIOUS
  <2>1. r \in Addresses
    BY DEF TableInv
  <2>2. ~(r > at)
    BY DEF Ahead
  <2>3. at \in Nat
    BY DEF Passed
  <2> QED BY <2>1, <2>2, <2>3 DEF Passed
<1>13. listing # "functions" =>
          /\ Given' = Given \cup Range(got)
          /\ Given = Range(listed)
  <2>1. Range(listed \o got) = Range(listed) \cup Range(got)
    BY <1>1, <1>7, ConcatRange
  <2> QED BY <1>2, <1>3, <2>1 DEF Given
<1>14. ~lost => \A i \in 1..Len(seen) :
                   seen[i] \in kept /\ seen[i] \notin Given /\ seen[i] \notin Range(got)
                       => i > o + n
  <2> SUFFICES ASSUME ~lost, NEW i \in 1..Len(seen), seen[i] \in kept \ Given,
                      seen[i] \notin Range(got)
               PROVE  i > o + n
      OBVIOUS
  <2>1. i > o
    BY DEF Placing, o
  <2>2. ~(i <= o + n)
    BY <1>10, <2>1
  <2> QED BY <1>1, <1>4, <1>7, <2>2 DEF o
<1>15. ASSUME listing # "functions" PROVE Asked'
  <2>1. ASSUME ~lost, NEW r \in (kept \cap Wanted) \ Given'
        PROVE  Cardinality(InFront(r)) >= o + n
    <3>1. PICK i \in 1..Len(seen) : seen[i] = r
      BY <1>6, <1>11
    <3>2. i > o + n /\ i - 1 \in 0..Len(seen) /\ i - 1 >= o + n
      <4>1. i > o + n
        BY <1>13, <1>14, <1>15, <2>1, <3>1
      <4> QED BY <1>1, <1>4, <1>7, <4>1 DEF o
    <3>3. Cardinality(Firsts(seen, i - 1)) = i - 1
      BY <1>4, <3>2, CountFirsts
    <3>4. Firsts(seen, i - 1) \subseteq InFront(r)
      <4> SUFFICES ASSUME NEW k \in 1..(i - 1) PROVE seen[k] \in InFront(r)
          BY DEF Firsts
      <4>1. k \in 1..Len(seen) /\ k < i
        BY <1>4, <3>2
      <4>2. seen[k] < r
        BY <1>4, <3>1, <4>1 DEF Increasing
      <4>3. seen[k] \in rows /\ seen[k] \in Wanted
        BY <1>5, <2>1, <4>1 DEF Passed
      <4> QED BY <4>2, <4>3 DEF InFront
    <3>5. InFront(r) \in SUBSET Addresses
      BY WantedRows DEF InFront
    <3>6. Cardinality(Firsts(seen, i - 1)) <= Cardinality(InFront(r))
      BY <3>4, <3>5, CardMonotonic
    <3>7. Cardinality(InFront(r)) \in Nat
      BY <3>5, FoundFinite
    <3> QED BY <1>1, <1>7, <3>2, <3>3, <3>6, <3>7 DEF o
  <2>2. ASSUME ~gained, NEW r \in Given' \cap rows
        PROVE  Cardinality(InFront(r)) < o + n
    <3>1. PICK i \in 1..Len(seen) : seen[i] = r /\ i <= o + n
      <4>1. CASE r \in Given
        <5>1. r \in Wanted
          BY <1>1, <1>13, <1>15, <4>1 DEF Range
        <5>2. PICK i \in 1..Len(seen) : seen[i] = r
          BY <1>6, <1>12, <2>2, <5>1
        <5>3. i <= o
          BY <2>2, <4>1, <5>2 DEF Placing, o
        <5> QED BY <1>1, <1>7, <5>2, <5>3 DEF o
      <4>2. CASE r \in Range(got)
        <5>1. PICK j \in 1..n : got[j] = r
          BY <1>7, <4>2 DEF Range
        <5>2. o + j \in 1..Len(seen) /\ seen[o + j] = r
          BY <1>8, <5>1
        <5>3. o + j <= o + n
          BY <1>1, <1>7, <5>1 DEF o
        <5> QED BY <5>2, <5>3
      <4> QED BY <1>13, <1>15, <2>2, <4>1, <4>2
    <3>2. i - 1 \in 0..Len(seen) /\ i - 1 < o + n
      BY <1>1, <1>4, <1>7, <3>1 DEF o
    <3>3. /\ Cardinality(Firsts(seen, i - 1)) = i - 1
          /\ Firsts(seen, i - 1) \in SUBSET Addresses
      BY <1>4, <3>2, CountFirsts
    <3>4. InFront(r) \subseteq Firsts(seen, i - 1)
      <4> SUFFICES ASSUME NEW w \in rows \cap Wanted, w < r
                   PROVE  w \in Firsts(seen, i - 1)
          BY DEF InFront
      <4>1. PICK k \in 1..Len(seen) : seen[k] = w
        BY <1>6, <1>12, <2>2
      <4>2. k < i
        <5>1. seen[k] \in Addresses /\ seen[i] \in Addresses /\ seen[k] < seen[i]
          BY <1>5, <3>1, <4>1
        <5>2. ~(i < k) /\ i # k
          BY <1>4, <3>1, <5>1 DEF Increasing
        <5> QED BY <5>2
      <4>3. k \in 1..(i - 1)
        BY <4>2
      <4> QED BY <4>1, <4>3 DEF Firsts
    <3>5. /\ Cardinality(InFront(r)) \in Nat
          /\ Cardinality(InFront(r)) <= Cardinality(Firsts(seen, i - 1))
      BY <3>3, <3>4, CardMonotonic
    <3> QED BY <1>1, <1>7, <3>2, <3>3, <3>5 DEF o
  <2>3. offset' = o + n
    BY <1>1, <1>2, <1>15 DEF n
  <2>4. \A r : InFront(r)' = InFront(r)
    BY <1>3 DEF InFront
  <2> QED BY <1>3, <2>1, <2>2, <2>3, <2>4 DEF Asked
<1>16. ASSUME listing = "functions" PROVE Asked'
  <2>1. Given' = {} /\ offset' = 0
    BY <1>1, <1>2, <1>16 DEF Given
  <2>2. \A r : Cardinality(InFront(r)') \in Nat
    <3>1. \A r : InFront(r) \in SUBSET Addresses
      BY WantedRows DEF InFront
    <3>2. \A r : InFront(r)' = InFront(r)
      BY <1>3 DEF InFront
    <3> QED BY <3>1, <3>2, FoundFinite
  <2> QED BY <2>1, <2>2 DEF Asked
<1>17. IsInjective(got)
  <2> SUFFICES ASSUME NEW i \in 1..n, NEW j \in 1..n, got[i] = got[j] PROVE i = j
      BY <1>7 DEF IsInjective
  <2>1. /\ o + i \in 1..Len(seen) /\ o + j \in 1..Len(seen)
        /\ seen[o + i] = seen[o + j] /\ seen[o + i] \in Addresses
    BY <1>5, <1>8
  <2>2. ~(o + i < o + j) /\ ~(o + j < o + i)
    BY <1>4, <2>1 DEF Increasing
  <2> QED BY <1>1, <1>7, <2>2 DEF o
<1>18. ~gained \/ listing = "functions" => IsInjective(listed')
  <2>1. CASE listing = "functions"
    BY <1>2, <1>17, <2>1
  <2>2. ASSUME ~gained, listing # "functions" PROVE IsInjective(listed')
    <3>1. \A j \in 1..n : got[j] \notin Range(listed)
      <4> SUFFICES ASSUME NEW j \in 1..n, got[j] \in Given PROVE FALSE
          BY <1>13, <2>2
      <4>1. o + j \in 1..Len(seen) /\ seen[o + j] \in Given
        BY <1>8
      <4>2. o + j <= o
        BY <2>2, <4>1 DEF Placing, o
      <4> QED BY <1>1, <1>7, <4>2 DEF o
    <3>2. IsInjective(listed)
      BY <1>1, <2>2
    <3>3. IsInjective(listed \o got)
      BY <1>1, <1>7, <1>17, <3>1, <3>2, ConcatInjective DEF n
    <3> QED BY <1>2, <2>2, <3>3
  <2> QED BY <2>1, <2>2
<1>19. ASSUME walk' = "ended", ~lost, NEW r \in kept \cap Wanted
       PROVE  r \in Range(listed')
  <2>1. PICK i \in 1..Len(seen) : seen[i] = r
    BY <1>6, <1>11
  <2>2. i <= o + n
    <3>1. CASE Len(seen) = 0
      BY <2>1, <3>1
    <3>2. CASE o >= Len(seen)
      BY <1>1, <1>4, <1>7, <3>2 DEF o
    <3>3. CASE o + n = Len(seen)
      BY <1>4, <3>3
    <3>4. Len(seen) = 0 \/ o >= Len(seen) \/ o + n = Len(seen)
      BY <1>2, <1>19 DEF n, o
    <3> QED BY <3>1, <3>2, <3>3, <3>4
  <2>3. r \in Given \cup Range(got)
    <3>1. ~(i > o + n)
      BY <1>1, <1>4, <1>7, <2>2 DEF o
    <3> QED BY <1>14, <1>19, <2>1, <3>1
  <2>4. CASE listing = "functions"
    BY <1>2, <2>3, <2>4 DEF Given
  <2>5. CASE listing # "functions"
    <3>1. Given' = Range(listed')
      BY <1>3, <2>5 DEF Given
    <3> QED BY <1>13, <2>3, <2>5, <3>1
  <2> QED BY <2>4, <2>5
<1>20. listed' \in Seq(Wanted)
  <2>1. listed \o got \in Seq(Wanted)
    BY <1>1, <1>7, ConcatProperties
  <2> QED BY <1>2, <1>7, <2>1
<1>21. offset' \in Nat /\ (listing = "functions" => offset' = 0)
  BY <1>1, <1>2, <1>7 DEF n
<1>22. walk' \in {"asking", "ended"}
  BY <1>2
<1>23. page'.path \in Paths'
  BY <1>2 DEF SearchInv, Paths
<1> QED BY <1>1, <1>3, <1>15, <1>16, <1>18, <1>19, <1>20, <1>21, <1>22, <1>23 DEF SearchInv

(* The tools are in order, and all there. *)
LEMMA ToolsInOrder ==
    /\ Tools \in Seq(Addresses) /\ Increasing(Tools) /\ Len(Tools) \in Nat
    /\ Range(Tools) = Addresses
<1>1. /\ Tools \in Seq(Addresses) /\ Len(Tools) = LastAddress /\ Len(Tools) \in Nat
      /\ \A a \in Addresses : Tools[a] = a
  BY DEF Tools
<1>2. DOMAIN Tools = Addresses
  BY DEF Tools
<1>3. Increasing(Tools)
  BY <1>1 DEF Increasing
<1>4. Range(Tools) = Addresses
  BY <1>1, <1>2 DEF Range
<1> QED BY <1>1, <1>3, <1>4

(* Each page of tools goes on where the last one ended. *)
LEMMA ToolsKept ==
    ASSUME SearchInv, ToolsPage
    PROVE  SearchInv'
<1>1. /\ walk = "asking" /\ listing = "tools" /\ offset \in Nat
      /\ offset <= Len(Tools) /\ listed = SubSeq(Tools, 1, offset)
      /\ listed \in Seq(Wanted)
  BY DEF ToolsPage, SearchInv, ToolsGiven
<1>2. PICK l \in Limits \cup {Len(Tools)} :
          /\ listed' = listed \o Slice(Tools, offset, l)
          /\ offset' = offset + Len(Slice(Tools, offset, l))
          /\ walk' = IF offset + Len(Slice(Tools, offset, l)) < Len(Tools)
                     THEN "asking" ELSE "ended"
  BY DEF ToolsPage, Tools
<1>3. UNCHANGED <<listing, page, scanVars, tableVars>>
  BY DEF ToolsPage
<1>4. Wanted' = Wanted /\ Tools' = Tools
  BY <1>3 DEF Wanted, Tools
<1>5. Tools \in Seq(Wanted)
  <2>1. /\ Tools \in Seq(Addresses) /\ DOMAIN Tools = 1..Len(Tools)
        /\ Range(Tools) = Wanted
    BY <1>1, ToolsInOrder, LenProperties DEF Wanted
  <2>2. \A i \in 1..Len(Tools) : Tools[i] \in Wanted
    BY <2>1 DEF Range
  <2>3. PICK s : s = Tools
    OBVIOUS
  <2>4. s \in Seq(Addresses) /\ \A i \in 1..Len(s) : s[i] \in Wanted
    BY <2>1, <2>2, <2>3
  <2>5. s \in Seq(Wanted)
    BY <2>4
  <2> QED BY <2>3, <2>5
<1>6. PICK n : n = Len(Slice(Tools, offset, l))
  OBVIOUS
<1>7. Len(Tools) \in Nat /\ l \in Nat
  BY ToolsInOrder
<1>8. n \in Nat /\ offset + n <= Len(Tools)
      /\ listed \o Slice(Tools, offset, l) = SubSeq(Tools, 1, offset + n)
  BY <1>1, <1>5, <1>6, <1>7, FirstsThenSlice
<1>9. offset' = offset + n /\ offset' \in Nat
  BY <1>1, <1>2, <1>6, <1>8
<1>10. listed' = SubSeq(Tools, 1, offset')
  BY <1>2, <1>8, <1>9
<1>11. listed' \in Seq(Wanted)
  <2>1. Slice(Tools, offset, l) \in Seq(Wanted)
    BY <1>1, <1>5, <1>7, SliceMeaning
  <2> QED BY <1>1, <1>2, <2>1, ConcatProperties
<1>12. walk' \in {"asking", "ended"} /\ (walk' = "ended" => offset' = Len(Tools))
  <2>1. walk' = IF offset + n < Len(Tools) THEN "asking" ELSE "ended"
    BY <1>2, <1>6
  <2> QED BY <1>1, <1>7, <1>8, <1>9, <2>1
<1>13. ToolsGiven'
  BY <1>4, <1>8, <1>9, <1>10, <1>12 DEF ToolsGiven
<1>14. page'.path \in Paths'
  BY <1>3 DEF SearchInv, Paths
<1> QED BY <1>1, <1>3, <1>4, <1>9, <1>11, <1>12, <1>13, <1>14 DEF SearchInv

(* A row that the iterator gives is counted or collected. *)
LEMMA RowKept ==
    ASSUME TableInv, SearchInv, RegexRow \/ BackendRow
    PROVE  SearchInv'
<1>1. /\ walk = "scanning" /\ Ahead(at) # {} /\ at' = Min(Ahead(at))
      /\ UNCHANGED <<walk, listing, page, offset, listed, tableVars>>
  BY DEF RegexRow, BackendRow
<1>2. Scanning
  BY <1>1 DEF SearchInv
<1>3. PICK seen : Passed(seen) /\ Placing(seen) /\ Collected(seen)
  BY <1>2 DEF Scanning
<1>4. PICK m : m = at'
  OBVIOUS
<1>5. m \in Addresses
  <2>1. Ahead(at) \in SUBSET Addresses
    BY DEF Ahead, TableInv
  <2> QED BY <1>1, <1>4, <2>1, NextRow
<1>6. PICK next : next = IF m \in Wanted THEN Append(seen, m) ELSE seen
  OBVIOUS
<1>7. listed \in Seq(Wanted) /\ page.offset \in Nat /\ page.limit \in Nat
  BY <1>2 DEF SearchInv, Scanning
<1>8. Passed(next)' /\ Placing(next)'
  BY <1>1, <1>3, <1>4, <1>6, <1>7, RowPassed
<1>9. Wanted' = Wanted /\ Paths' = Paths
  BY <1>1 DEF Wanted, Paths
<1>10. seen \in Seq(Wanted) /\ Len(seen) \in Nat
  <2>1. seen \in Seq(Wanted)
    BY <1>3 DEF Passed
  <2> QED BY <2>1, LenProperties
<1>11. CASE RegexRow
  <2>1. page.path = "regex" /\ strings' = strings /\ page' = page
    BY <1>11 DEF RegexRow
  <2>3. PICK o \in Nat, lim \in Nat : o = page.offset /\ lim = page.limit
    BY <1>7
  <2>4. PICK k \in Nat : k = Len(seen)
    BY <1>10
  <2>5. /\ skipped = IF k < o THEN k ELSE o
        /\ total = k - skipped
        /\ items = Slice(seen, o, lim)
    BY <1>3, <2>1, <2>3, <2>4 DEF Collected
  <2>6. /\ skipped' = IF Len(next) < o THEN Len(next) ELSE o
        /\ total' = Len(next) - skipped'
        /\ items' = Slice(next, o, lim)
    <3>1. CASE m \notin Wanted
      <4>1. UNCHANGED <<skipped, total, items>>
        BY <1>4, <1>11, <3>1 DEF RegexRow
      <4> QED BY <1>6, <2>4, <2>5, <3>1, <4>1
    <3>2. CASE m \in Wanted
      <4>1. Count(m) /\ next = Append(seen, m)
        BY <1>4, <1>6, <1>11, <3>2 DEF RegexRow
      <4>2. Len(next) = k + 1
        BY <1>10, <2>4, <3>2, <4>1
      <4>3. Slice(next, o, lim)
                = IF o <= k /\ Len(items) < lim THEN Append(items, m) ELSE items
        <5>1. Slice(Append(seen, m), o, lim)
                 = IF o <= Len(seen) /\ Len(Slice(seen, o, lim)) < lim
                   THEN Append(Slice(seen, o, lim), m) ELSE Slice(seen, o, lim)
          BY <1>10, <3>2, SliceAppend
        <5> QED BY <2>4, <2>5, <4>1, <5>1
      <4>4. CASE skipped < o
        <5>1. k < o /\ skipped = k /\ total = 0
          BY <2>5, <4>4
        <5>2. skipped' = k + 1 /\ total' = 0 /\ items' = items
          BY <2>3, <4>1, <4>4, <5>1 DEF Count
        <5>3. Slice(next, o, lim) = items
          BY <4>3, <5>1
        <5> QED BY <4>2, <5>1, <5>2, <5>3
      <4>5. CASE ~(skipped < o)
        <5>1. o <= k /\ skipped = o /\ total = k - o
          BY <2>5, <4>5
        <5>2. skipped' = o /\ total' = (k - o) + 1
          BY <2>3, <4>1, <4>5, <5>1 DEF Count
        <5>3. items' = IF Len(items) < lim THEN Append(items, m) ELSE items
          BY <2>3, <4>1, <4>5 DEF Count
        <5>4. items' = Slice(next, o, lim)
          BY <4>3, <5>1, <5>3
        <5>5. ~(k + 1 < o) /\ (k - o) + 1 = (k + 1) - o
          BY <5>1
        <5> QED BY <4>2, <5>2, <5>4, <5>5
      <4> QED BY <4>4, <4>5
    <3> QED BY <3>1, <3>2
  <2>7. Collected(next)'
    BY <2>1, <2>3, <2>6 DEF Collected
  <2>8. Scanning'
    BY <1>1, <1>2, <1>8, <1>9, <2>1, <2>7 DEF Scanning
  <2> QED BY <1>1, <1>2, <1>9, <2>8 DEF SearchInv, Scanning, tableVars
<1>12. CASE BackendRow
  <2>1. page.path = "backend" /\ strings' = Append(strings, m) /\ page' = page
    BY <1>4, <1>12 DEF BackendRow
  <2>2. strings \in Seq(Addresses) /\ Filtered(strings, Wanted) = seen
    BY <1>2, <1>3, <2>1 DEF Scanning, Collected
  <2>3. Filtered(strings', Wanted) = next
    <3>1. PICK W : W = Wanted
      OBVIOUS
    <3>2. Filtered(Append(strings, m), W)
              = IF m \in W THEN Append(Filtered(strings, W), m) ELSE Filtered(strings, W)
      <4>1. m \in Addresses /\ strings \in Seq(Addresses)
        BY <1>5, <2>2
      <4> HIDE DEF Addresses
      <4> QED BY <4>1, FilteredAppend
    <3> QED BY <1>6, <2>1, <2>2, <3>1, <3>2
  <2>4. strings' \in Seq(Addresses)
    BY <1>5, <2>1, <2>2
  <2>5. Collected(next)'
    BY <1>9, <2>1, <2>3 DEF Collected
  <2>6. Scanning'
    BY <1>1, <1>2, <1>8, <1>9, <2>1, <2>4, <2>5 DEF Scanning
  <2> QED BY <1>1, <1>2, <1>9, <2>6 DEF SearchInv, Scanning, tableVars
<1> QED BY <1>11, <1>12

(* The last row was given: the answer, or the string without a value. *)
LEMMA PageEnds ==
    ASSUME TableInv, SearchInv, RegexEnd \/ BackendEnd
    PROVE  SearchInv'
<1>1. walk = "scanning" /\ Ahead(at) = {} /\ Scanning
  BY DEF RegexEnd, BackendEnd, SearchInv
<1>2. PICK seen : Passed(seen) /\ Placing(seen) /\ Collected(seen)
  BY <1>1 DEF Scanning
<1>3. PICK got : got = Slice(seen, page.offset, page.limit)
  OBVIOUS
<1>4. Len(seen) \in Nat
  <2>1. seen \in Seq(Wanted)
    BY <1>2 DEF Passed
  <2> QED BY <2>1, LenProperties
<1>5. Answer(got, Len(seen)) => SearchInv'
  BY <1>1, <1>2, <1>3, PageGiven
<1>6. CASE RegexEnd
  <2>1. page.path = "regex" /\ Answer(items, RegexTotal)
    BY <1>6 DEF RegexEnd
  <2>2. page.offset \in Nat
    BY <1>1 DEF Scanning, SearchInv
  <2>3. RegexTotal = Len(seen) /\ items = got
    BY <1>2, <1>3, <1>4, <2>1, <2>2 DEF Collected, RegexTotal
  <2> QED BY <1>5, <2>1, <2>3
<1>7. CASE BackendEnd
  <2>1. page.path = "backend"
    BY <1>7 DEF BackendEnd
  <2>2. Filtered(strings, Wanted) = seen
    BY <1>2, <2>1 DEF Collected
  <2>3. CASE walk' = "failed" /\ UNCHANGED <<listing, page, scanVars, offset, listed, tableVars>>
    <3>1. Wanted' = Wanted /\ Paths' = Paths
      BY <2>3 DEF Wanted, Paths
    <3> QED BY <1>1, <2>3, <3>1 DEF SearchInv, Scanning, tableVars
  <2>4. CASE Answer(Slice(seen, page.offset, page.limit), Len(seen))
    BY <1>3, <1>5, <2>4
  <2> QED BY <1>7, <2>2, <2>3, <2>4 DEF BackendEnd
<1> QED BY <1>6, <1>7

(* Nothing has been given yet, or it is forgotten. *)
Fresh ==
    /\ walk \in {"none", "asking"}
    /\ listing \in {"strings", "search", "functions", "tools"}
    /\ page.path \in Paths
    /\ offset = 0 /\ listed = <<>>

(* A listing that has not begun is right, *)
LEMMA FreshListing == Fresh => SearchInv
<1> SUFFICES ASSUME Fresh PROVE SearchInv
    OBVIOUS
<1>1. /\ walk \in {"none", "asking"} /\ offset = 0 /\ listed = <<>>
      /\ listing \in {"strings", "search", "functions", "tools"}
      /\ page.path \in Paths
  BY DEF Fresh
<1>2. /\ <<>> \in Seq(Wanted) /\ Len(<<>>) = 0 /\ Range(<<>>) = {}
      /\ DOMAIN <<>> = {}
  BY DEF Range
<1>3. ToolsGiven
  <2>1. Len(Tools) \in Nat
    BY ToolsInOrder
  <2>2. SubSeq(Tools, 1, 0) = <<>>
    BY SubSeqEmpty
  <2> QED BY <1>1, <2>1, <2>2 DEF ToolsGiven
<1>4. IsInjective(<<>>)
  BY <1>2 DEF IsInjective
<1>5. Asked
  <2>1. Given = {}
    BY <1>1, <1>2 DEF Given
  <2>2. \A r : Cardinality(InFront(r)) \in Nat
    <3>1. \A r : InFront(r) \in SUBSET Addresses
      BY <1>1, WantedType DEF InFront
    <3> QED BY <3>1, FoundFinite
  <2> QED BY <1>1, <2>1, <2>2 DEF Asked
<1> QED BY <1>1, <1>2, <1>3, <1>4, <1>5 DEF SearchInv

(* and so it is after a step. *)
LEMMA FreshAfter == Fresh' => SearchInv'
BY FreshListing, PTL

(* A change of the table, in front of what is read or behind, keeps what   *)
(* the history of the activity leaves to be kept.                          *)
LEMMA ChangeKept ==
    ASSUME TableInv, SearchInv, UNCHANGED searchVars, NEW a \in Addresses,
           Define(a) \/ Undefine(a) \/ AnalysisDefines(a)
    PROVE  SearchInv'
<1>1. UNCHANGED <<walk, listing, page, at, skipped, total, items, strings, offset, listed>>
  BY DEF searchVars, scanVars
<1>2. /\ Wanted' = Wanted /\ Given' = Given /\ Paths' = Paths /\ Tools' = Tools
  BY <1>1 DEF Wanted, Given, Paths, Tools
<1>3. kept' \subseteq kept
  BY DEF Define, Undefine, AnalysisDefines
<1>4. \A r : /\ InFront(r) \in SUBSET Addresses /\ Coming(r) \in SUBSET Addresses
             /\ InFront(r)' \in SUBSET Addresses /\ Coming(r)' \in SUBSET Addresses
  BY <1>2, WantedRows DEF InFront, Coming
<1>5. \/ /\ gained' = TRUE /\ lost' = lost /\ rows \subseteq rows'
      \/ /\ lost' = TRUE /\ gained' = gained /\ rows' \subseteq rows
  BY DEF Define, Undefine, AnalysisDefines
<1>6. ~gained' => ~gained /\ rows' \subseteq rows
  BY <1>5
<1>7. ~lost' => ~lost /\ rows \subseteq rows'
  BY <1>5
<1>8. \A r : Cardinality(InFront(r)) \in Nat /\ Cardinality(InFront(r)') \in Nat
            /\ Cardinality(Coming(r)) \in Nat /\ Cardinality(Coming(r)') \in Nat
  BY <1>4, FoundFinite
<1>9. ASSUME ~gained', NEW r
      PROVE  /\ Cardinality(InFront(r)') <= Cardinality(InFront(r))
             /\ Cardinality(Coming(r)') <= Cardinality(Coming(r))
  <2>1. InFront(r)' \subseteq InFront(r) /\ Coming(r)' \subseteq Coming(r)
    BY <1>1, <1>2, <1>6, <1>9 DEF InFront, Coming
  <2> QED BY <1>4, <2>1, CardMonotonic
<1>10. ASSUME ~lost', NEW r
       PROVE  /\ Cardinality(InFront(r)) <= Cardinality(InFront(r)')
              /\ Cardinality(Coming(r)) <= Cardinality(Coming(r)')
  <2>1. InFront(r) \subseteq InFront(r)' /\ Coming(r) \subseteq Coming(r)'
    BY <1>1, <1>2, <1>7, <1>10 DEF InFront, Coming
  <2> QED BY <1>4, <2>1, CardMonotonic
<1>11. offset \in Nat
  BY DEF SearchInv
<1>12. ASSUME Asked PROVE Asked'
  <2>1. ASSUME ~lost', NEW r \in (kept' \cap Wanted) \ Given
        PROVE  Cardinality(InFront(r)') >= offset
    <3>1. Cardinality(InFront(r)) >= offset
      BY <1>3, <1>7, <1>12, <2>1 DEF Asked
    <3> QED BY <1>8, <1>10, <1>11, <2>1, <3>1
  <2>2. ASSUME ~gained', NEW r \in Given \cap rows'
        PROVE  Cardinality(InFront(r)') < offset
    <3>1. Cardinality(InFront(r)) < offset
      BY <1>6, <1>12, <2>2 DEF Asked
    <3> QED BY <1>8, <1>9, <1>11, <2>2, <3>1
  <2> QED BY <1>1, <1>2, <2>1, <2>2 DEF Asked
<1>13. ASSUME Scanning PROVE Scanning'
  <2>1. PICK seen : Passed(seen) /\ Placing(seen) /\ Collected(seen)
    BY <1>13 DEF Scanning
  <2>2. Passed(seen)'
    <3>1. ~lost' => Range(seen) \subseteq rows'
      BY <1>7, <2>1 DEF Passed
    <3>2. ~gained' => \A r \in rows' \cap Wanted : r <= at => r \in Range(seen)
      BY <1>6, <2>1 DEF Passed
    <3>3. \A r \in kept' \cap Wanted : r <= at => r \in Range(seen)
      BY <1>3, <2>1 DEF Passed
    <3> QED BY <1>1, <1>2, <2>1, <3>1, <3>2, <3>3 DEF Passed
  <2>3. page.offset \in Nat /\ Len(seen) \in Nat
    <3>1. seen \in Seq(Wanted)
      BY <2>1 DEF Passed
    <3> QED BY <1>11, <1>13, <3>1, LenProperties DEF Scanning
  <2>4. ASSUME ~lost', NEW r \in (kept' \cap Wanted) \ Given, r > at
        PROVE  Len(seen) + Cardinality(Coming(r)') >= page.offset
    <3>1. Len(seen) + Cardinality(Coming(r)) >= page.offset
      BY <1>3, <1>7, <2>1, <2>4 DEF Placing
    <3> QED BY <1>8, <1>10, <2>3, <2>4, <3>1
  <2>5. ~lost' => \A i \in 1..Len(seen) : seen[i] \in kept' \ Given => i > page.offset
    BY <1>3, <1>7, <2>1 DEF Placing
  <2>6. ASSUME ~gained', NEW r \in Given \cap rows', r > at
        PROVE  Len(seen) + Cardinality(Coming(r)') < page.offset
    <3>1. Len(seen) + Cardinality(Coming(r)) < page.offset
      BY <1>6, <2>1, <2>6 DEF Placing
    <3> QED BY <1>8, <1>9, <2>3, <2>6, <3>1
  <2>7. ~gained' => \A i \in 1..Len(seen) : seen[i] \in Given => i <= page.offset
    BY <1>6, <2>1 DEF Placing
  <2>8. Placing(seen)'
    BY <1>1, <1>2, <2>4, <2>5, <2>6, <2>7 DEF Placing
  <2>9. Collected(seen)'
    BY <1>1, <1>2, <2>1 DEF Collected
  <2> QED BY <1>1, <1>2, <1>13, <2>2, <2>8, <2>9 DEF Scanning
<1>14. ToolsGiven => ToolsGiven'
  BY <1>1, <1>2 DEF ToolsGiven
<1> QED BY <1>1, <1>2, <1>3, <1>6, <1>7, <1>12, <1>13, <1>14 DEF SearchInv

(* A step that touches neither table nor listing keeps it. *)
LEMMA StillKept ==
    ASSUME SearchInv, UNCHANGED <<searchVars, tableVars>>
    PROVE  SearchInv'
<1>1. /\ UNCHANGED <<walk, listing, page, at, skipped, total, items, strings, offset, listed>>
      /\ UNCHANGED <<rows, kept, gained, lost>>
  BY DEF searchVars, scanVars, tableVars
<1>2. /\ Wanted' = Wanted /\ Given' = Given /\ Paths' = Paths /\ Tools' = Tools
  BY <1>1 DEF Wanted, Given, Paths, Tools
<1>3. Asked => Asked'
  BY <1>1, <1>2 DEF Asked, InFront
<1>4. Scanning => Scanning'
  BY <1>1, <1>2 DEF Scanning, Passed, Placing, Collected, Coming
<1>5. ToolsGiven => ToolsGiven'
  BY <1>1, <1>2 DEF ToolsGiven
<1> QED BY <1>1, <1>2, <1>3, <1>4, <1>5 DEF SearchInv

(* No step of the agent, the server or the script breaks it. *)
LEMMA SearchKept ==
    TableInv /\ BatchInv /\ SearchInv /\ [Next]_vars => SearchInv'
<1> SUFFICES ASSUME TableInv, BatchInv, SearchInv, [Next]_vars PROVE SearchInv'
    OBVIOUS
<1>1. walk = "none" => offset = 0 /\ listed = <<>>
  BY DEF SearchInv
<1>2. listing \in {"strings", "search", "functions", "tools"}
  BY DEF SearchInv
<1>3. CASE Begin
  <2>1. walk = "none"
    BY <1>3 DEF Begin, Resting
  <2>2. CASE BeginWalk
    <3>1. Fresh'
      BY <1>1, <2>1, <2>2 DEF BeginWalk, Fresh
    <3> QED BY <3>1, FreshAfter
  <2>3. CASE UNCHANGED searchVars
    <3>1. Fresh'
      BY <1>1, <1>2, <2>1, <2>3 DEF searchVars, Fresh, SearchInv, Paths
    <3> QED BY <3>1, FreshAfter
  <2> QED BY <1>3, <2>2, <2>3 DEF Begin
<1>4. ASSUME NEW a \in Addresses, Define(a) \/ Undefine(a) \/ AnalysisDefines(a),
             UNCHANGED searchVars
      PROVE  SearchInv'
  BY <1>4, ChangeKept
<1>5. CASE ServerStep
  <2>1. CASE SearchStep
    <3>1. ASSUME NEW limit \in Limits, AskPage(limit) PROVE SearchInv'
      BY <3>1, PageAsked
    <3> QED BY <2>1, <3>1, RowKept, PageEnds, ToolsKept DEF SearchStep
  <2>2. CASE EndWalk
    <3>1. Fresh'
      BY <2>2 DEF EndWalk, Fresh, FirstPage, Paths
    <3> QED BY <3>1, FreshAfter
  <2>3. CASE (XrefsStep \/ EndXrefs) /\ UNCHANGED searchVars
    BY <2>3, XrefsRead, StillKept
  <2>4. CASE (BatchStep \/ EndBatch) /\ UNCHANGED searchVars
    <3>1. batch # "none"
      BY <2>4 DEF BatchStep, EndBatch, ResolveTarget, LookupTarget, DecompileTarget
    <3>2. \/ UNCHANGED tableVars
          \/ \E a \in Addresses : Define(a) \/ Undefine(a) \/ AnalysisDefines(a)
      <4>1. batch = "resolve" => targets[current] \in Addresses
        BY DEF BatchInv
      <4> QED BY <1>5, <3>1, <4>1, TableSteps DEF Next, Resting
    <3> QED BY <1>4, <2>4, <3>2, StillKept
  <2> QED BY <1>5, <2>1, <2>2, <2>3, <2>4 DEF ServerStep
<1>6. CASE Script
  BY <1>4, <1>6 DEF Script, ScriptGoesOn
<1>7. CASE UNCHANGED vars
  BY <1>7, StillKept DEF vars
<1> QED BY <1>3, <1>5, <1>6, <1>7 DEF Next

(* No listing has begun at the start. *)
LEMMA SearchInitially == Init => SearchInv
<1>1. Init => Fresh
  BY DEF Init, SearchInit, Fresh, FirstPage, Paths
<1> QED BY <1>1, FreshListing

(* PagesComplete: a listing that was read to its end, in pages of any size *)
(* and on either path, has every row that was there all the time unless a  *)
(* removal moved it in front of the offset, and none twice unless an       *)
(* addition moved it behind.                                               *)
THEOREM ListingsComplete == Spec => []PagesComplete
<1>1. SearchInv => PagesComplete
  <2> SUFFICES ASSUME SearchInv, walk = "ended"
               PROVE  /\ Range(listed) \subseteq Wanted
                      /\ listing = "tools" => Range(listed) = Wanted
                      /\ ~lost => (kept \cap Wanted) \subseteq Range(listed)
                      /\ ~gained \/ listing \in {"functions", "tools"}
                             => IsInjective(listed)
      BY DEF PagesComplete
  <2>1. /\ listed \in Seq(Wanted)
        /\ listing = "tools" => listed = SubSeq(Tools, 1, Len(Tools))
        /\ listing # "tools" =>
              /\ ~gained \/ listing = "functions" => IsInjective(listed)
              /\ ~lost => (kept \cap Wanted) \subseteq Range(listed)
    BY DEF SearchInv, ToolsGiven
  <2>2. Range(listed) \subseteq Wanted
    <3>1. DOMAIN listed = 1..Len(listed)
      BY <2>1, LenProperties
    <3> QED BY <2>1, <3>1, ElementOfSeq DEF Range
  <2>3. SubSeq(Tools, 1, Len(Tools)) = Tools
    <3>1. PICK s : s = Tools
      OBVIOUS
    <3>2. s \in Seq(Addresses)
      BY <3>1, ToolsInOrder
    <3>3. SubSeq(s, 1, Len(s)) = s
      BY <3>2
    <3> QED BY <3>1, <3>3
  <2>4. Range(Tools) = Addresses /\ IsInjective(Tools)
    <3>1. PICK s : s = Tools
      OBVIOUS
    <3>2. s \in Seq(Addresses) /\ Increasing(s) /\ Range(s) = Addresses
      BY <3>1, ToolsInOrder
    <3>3. IsInjective(s)
      <4>1. DOMAIN s = 1..Len(s) /\ \A i \in 1..Len(s) : s[i] \in Addresses
        BY <3>2, ElementOfSeq
      <4> SUFFICES ASSUME NEW i \in 1..Len(s), NEW j \in 1..Len(s), s[i] = s[j]
                   PROVE  i = j
          BY <4>1 DEF IsInjective
      <4>2. ~(i < j) /\ ~(j < i)
        BY <3>2, <4>1 DEF Increasing
      <4> QED BY <4>2
    <3> QED BY <3>1, <3>2, <3>3
  <2> QED BY <2>1, <2>2, <2>3, <2>4 DEF Wanted
<1> QED BY <1>1, TableInitially, TableStep, BatchInitially, BatchKept,
           SearchInitially, SearchKept, PTL DEF Spec
=============================================================================
