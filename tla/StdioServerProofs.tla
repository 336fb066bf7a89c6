-------------------------- MODULE StdioServerProofs --------------------------
(***************************************************************************)
(* Proofs about StdioServer, for streams of any length and any number of   *)
(* failed telemetry writes.                                                *)
(***************************************************************************)
EXTENDS StdioServer, DataLemmas

-----------------------------------------------------------------------------
(* The stream: where the lines and bodies of a message are. *)

ItemTypes == {"json", "length", "blank", "body", "bare", "header", "stray"}
Items == [type : ItemTypes, req : Requests]

Parts(s) == [i \in DOMAIN s |-> Lines(s[i])]

(* The last position of message i, and of the message before it. *)
Stop(s, i) == Len((CHOOSE F : RunningConcat(F, Items, Parts(s)))[i])
Before(s, i) == Stop(s, i - 1)

(* A message is one to three lines and bodies. *)
LEMMA LinesOf ==
    ASSUME NEW m \in Messages
    PROVE  /\ Lines(m) \in Seq(Items) /\ Len(Lines(m)) \in 1..3
           /\ m.form = "line" => Lines(m) = <<Item("json", m.req)>>
           /\ m.form = "frame" => Lines(m) = <<Sep("length"), Sep("blank"), Item("body", m.req)>>
           /\ m.form = "bare" => Lines(m) = <<Sep("length"), Sep("blank"), Item("bare", m.req)>>
           /\ m.form = "cut" => Lines(m) = <<Sep("length"), Sep("blank")>>
           /\ m.form = "no_length" => Lines(m) = <<Sep("header"), Sep("blank")>>
           /\ m.form = "blank" => Lines(m) = <<Sep("blank")>>
           /\ m.form = "stray" => Lines(m) = <<Sep("stray")>>
           /\ m.form = "colon" => Lines(m) = <<Sep("header")>>
<1>1. m.form \in Forms /\ m.req \in Requests /\ NoRequest \in Requests
  BY DEF Messages, NoRequest, Requests, Kinds
<1>2. \A t \in ItemTypes :
          Sep(t) \in Items /\ Item(t, m.req) \in Items
  BY <1>1 DEF Sep, Item, Items, ItemTypes
<1>3. /\ m.form = "line" => Lines(m) = <<Item("json", m.req)>>
      /\ m.form = "frame" => Lines(m) = <<Sep("length"), Sep("blank"), Item("body", m.req)>>
      /\ m.form = "bare" => Lines(m) = <<Sep("length"), Sep("blank"), Item("bare", m.req)>>
      /\ m.form = "cut" => Lines(m) = <<Sep("length"), Sep("blank")>>
      /\ m.form = "no_length" => Lines(m) = <<Sep("header"), Sep("blank")>>
      /\ m.form = "blank" => Lines(m) = <<Sep("blank")>>
      /\ m.form = "stray" => Lines(m) = <<Sep("stray")>>
      /\ m.form = "colon" => Lines(m) = <<Sep("header")>>
  BY DEF Lines
<1>4. Lines(m) \in Seq(Items) /\ Len(Lines(m)) \in 1..3
  <2>1. /\ Sep("length") \in Items /\ Sep("blank") \in Items /\ Sep("header") \in Items
        /\ Sep("stray") \in Items
        /\ Item("json", m.req) \in Items /\ Item("body", m.req) \in Items
        /\ Item("bare", m.req) \in Items
    BY <1>2 DEF ItemTypes
  <2> DEFINE L == Lines(m)
  <2> HIDE DEF L
  <2>2. ASSUME NEW a \in Items, L = <<a>> PROVE L \in Seq(Items) /\ Len(L) \in 1..3
    BY <2>2
  <2>3. ASSUME NEW a \in Items, NEW b \in Items, L = <<a, b>>
        PROVE  L \in Seq(Items) /\ Len(L) \in 1..3
    BY <2>3
  <2>4. ASSUME NEW a \in Items, NEW b \in Items, NEW c \in Items, L = <<a, b, c>>
        PROVE  L \in Seq(Items) /\ Len(L) \in 1..3
    BY <2>4
  <2>5. CASE m.form \in {"frame", "bare"}
    <3>1. \/ L = <<Sep("length"), Sep("blank"), Item("body", m.req)>>
          \/ L = <<Sep("length"), Sep("blank"), Item("bare", m.req)>>
      BY <1>3, <2>5 DEF L
    <3> QED BY <2>1, <2>4, <3>1 DEF L
  <2>6. CASE m.form \in {"cut", "no_length"}
    <3>1. L = <<Sep("length"), Sep("blank")>> \/ L = <<Sep("header"), Sep("blank")>>
      BY <1>3, <2>6 DEF L
    <3> QED BY <2>1, <2>3, <3>1 DEF L
  <2>7. CASE m.form \in {"line", "blank", "stray", "colon"}
    <3>1. \/ L = <<Item("json", m.req)>> \/ L = <<Sep("blank")>>
          \/ L = <<Sep("stray")>> \/ L = <<Sep("header")>>
      BY <1>3, <2>7 DEF L
    <3> QED BY <2>1, <2>2, <3>1 DEF L
  <2> QED BY <1>1, <2>5, <2>6, <2>7 DEF Forms
<1> QED BY <1>3, <1>4

(* The positions of the stream, message by message. *)
LEMMA StreamLayout ==
    ASSUME NEW s \in Streams
    PROVE  /\ Len(s) \in Nat /\ DOMAIN s = 1..Len(s)
           /\ \A i \in 1..Len(s) : s[i] \in Messages
           /\ Stop(s, 0) = 0 /\ Stop(s, Len(s)) = Len(Input(s))
           /\ \A i \in 0..Len(s) : Stop(s, i) \in Nat
           /\ \A i \in 1..Len(s) : Stop(s, i) = Before(s, i) + Len(Lines(s[i]))
           /\ \A j \in 0..Len(s) : \A i \in 0..j : Stop(s, i) <= Stop(s, j)
           /\ \A i \in 1..Len(s) : \A q \in 1..Len(Lines(s[i])) :
                 Input(s)[Before(s, i) + q] = Lines(s[i])[q]
           /\ \A p \in 1..Len(Input(s)) :
                 \E i \in 1..Len(s) : \E q \in 1..Len(Lines(s[i])) : p = Before(s, i) + q
           /\ Input(s) \in Seq(Items)
<1>1. s \in Seq(Messages)
  BY StreamsAssumption
<1>2. /\ Len(s) \in Nat /\ DOMAIN s = 1..Len(s)
      /\ \A i \in 1..Len(s) : s[i] \in Messages
  BY <1>1, LenProperties, ElementOfSeq
<1> DEFINE S == Parts(s)
           F == CHOOSE f : RunningConcat(f, Items, S)
<1>3. /\ S \in Seq(Seq(Items)) /\ Len(S) = Len(s)
      /\ \A i \in 1..Len(s) : S[i] = Lines(s[i])
  <2>1. S = [i \in 1..Len(s) |-> Lines(s[i])]
    BY <1>2 DEF Parts
  <2>2. \A i \in 1..Len(s) : Lines(s[i]) \in Seq(Items)
    BY <1>2, LinesOf
  <2> QED BY <1>2, <2>1, <2>2
<1>4. RunningConcat(F, Items, S)
  BY <1>3, Flattened
<1>5. \A i : Stop(s, i) = Len(F[i]) /\ Before(s, i) = Len(F[i - 1])
  BY DEF Stop, Before
<1>6. Input(s) = FlattenSeq(S)
  BY DEF Input, Parts
<1> HIDE DEF S, F
<1>7. /\ FlattenSeq(S) = F[Len(S)]
      /\ \A i \in 0..Len(S) : F[i] \in Seq(Items)
  BY <1>4 DEF RunningConcat
<1>8. LaidOut(F, S, Input(s))
  BY <1>3, <1>4, <1>6, Layout
<1>9. Input(s) \in Seq(Items)
  <2>1. Len(S) \in 0..Len(S)
    BY <1>2, <1>3
  <2> QED BY <1>6, <1>7, <2>1
<1>10. Stop(s, 0) = 0 /\ Stop(s, Len(s)) = Len(Input(s))
  BY <1>3, <1>5, <1>8 DEF LaidOut
<1>11. /\ \A i \in 0..Len(s) : Stop(s, i) \in Nat
       /\ \A i \in 1..Len(s) : Stop(s, i) = Before(s, i) + Len(Lines(s[i]))
       /\ \A j \in 0..Len(s) : \A i \in 0..j : Stop(s, i) <= Stop(s, j)
  <2>1. \A i \in 0..Len(s) : Stop(s, i) \in Nat
    BY <1>3, <1>5, <1>8 DEF LaidOut
  <2>2. ASSUME NEW i \in 1..Len(s) PROVE Stop(s, i) = Before(s, i) + Len(Lines(s[i]))
    <3>1. Len(F[i]) = Len(F[i - 1]) + Len(S[i])
      BY <1>3, <1>8 DEF LaidOut
    <3> QED BY <1>3, <1>5, <3>1
  <2>3. \A j \in 0..Len(s) : \A i \in 0..j : Stop(s, i) <= Stop(s, j)
    BY <1>3, <1>5, <1>8 DEF LaidOut
  <2> QED BY <2>1, <2>2, <2>3
<1>12. ASSUME NEW i \in 1..Len(s), NEW q \in 1..Len(Lines(s[i]))
       PROVE  Input(s)[Before(s, i) + q] = Lines(s[i])[q]
  <2>1. Input(s)[Len(F[i - 1]) + q] = S[i][q]
    BY <1>3, <1>8 DEF LaidOut
  <2> QED BY <1>3, <1>5, <2>1
<1>13. ASSUME NEW p \in 1..Len(Input(s))
       PROVE  \E i \in 1..Len(s) : \E q \in 1..Len(Lines(s[i])) : p = Before(s, i) + q
  <2>1. PICK i \in 1..Len(s) : \E q \in 1..Len(S[i]) : p = Len(F[i - 1]) + q
    BY <1>3, <1>8 DEF LaidOut
  <2> QED BY <1>3, <1>5, <2>1
<1> QED BY <1>2, <1>9, <1>10, <1>11, <1>12, <1>13

(* Message i, line by line. *)
Written(s, i) ==
    LET m == s[i]
        b == Before(s, i)
        e == Stop(s, i)
        item(p) == Input(s)[p]
    IN  /\ m \in Messages
        /\ b \in Nat /\ e \in 1..Len(Input(s)) /\ b < e
        /\ m.form = "line" => e = b + 1 /\ item(e) = Item("json", m.req)
        /\ m.form = "frame" => /\ e = b + 3 /\ item(b + 1) = Sep("length")
                               /\ item(b + 2) = Sep("blank")
                               /\ item(e) = Item("body", m.req)
        /\ m.form = "bare" => /\ e = b + 3 /\ item(b + 1) = Sep("length")
                              /\ item(b + 2) = Sep("blank")
                              /\ item(e) = Item("bare", m.req)
        /\ m.form = "cut" => /\ e = b + 2 /\ item(b + 1) = Sep("length")
                             /\ item(b + 2) = Sep("blank")
        /\ m.form = "no_length" => /\ e = b + 2 /\ item(b + 1) = Sep("header")
                                   /\ item(b + 2) = Sep("blank")
        /\ m.form = "blank" => e = b + 1 /\ item(e) = Sep("blank")
        /\ m.form = "stray" => e = b + 1 /\ item(e) = Sep("stray")
        /\ m.form = "colon" => e = b + 1 /\ item(e) = Sep("header")

(* Every message of a stream is written out line by line. *)
LEMMA MessageAt ==
    ASSUME NEW s \in Streams, NEW i \in 1..Len(s)
    PROVE  Written(s, i)
<1> DEFINE m == s[i]
           b == Before(s, i)
           e == Stop(s, i)
           inp == Input(s)
           L == Lines(m)
<1>1. m \in Messages /\ Len(s) \in Nat
  BY StreamLayout
<1>2. /\ e = b + Len(L) /\ b \in Nat /\ e \in Nat /\ e <= Len(inp)
      /\ \A q \in 1..Len(L) : inp[b + q] = L[q]
      /\ Len(inp) \in Nat
  <2>1. i - 1 \in 0..Len(s) /\ i \in 0..Len(s) /\ Len(s) \in 0..Len(s)
    BY <1>1
  <2>2. e = b + Len(L) /\ b \in Nat /\ e \in Nat
    BY <2>1, StreamLayout DEF Before
  <2>3. e <= Len(inp) /\ Len(inp) \in Nat
    BY <2>1, StreamLayout
  <2> QED BY <2>2, <2>3, StreamLayout
<1>3. Len(L) \in 1..3 /\ m.form \in Forms
  BY <1>1, LinesOf DEF Messages
<1>4. /\ m.form = "line" => L = <<Item("json", m.req)>>
      /\ m.form = "frame" => L = <<Sep("length"), Sep("blank"), Item("body", m.req)>>
      /\ m.form = "bare" => L = <<Sep("length"), Sep("blank"), Item("bare", m.req)>>
      /\ m.form = "cut" => L = <<Sep("length"), Sep("blank")>>
      /\ m.form = "no_length" => L = <<Sep("header"), Sep("blank")>>
      /\ m.form = "blank" => L = <<Sep("blank")>>
      /\ m.form = "stray" => L = <<Sep("stray")>>
      /\ m.form = "colon" => L = <<Sep("header")>>
  BY <1>1, LinesOf
<1> HIDE DEF m, b, e, inp, L
<1>5. b \in Nat /\ e \in 1..Len(inp) /\ b < e
  <2>1. Len(L) \in Nat /\ 1 <= Len(L)
    BY <1>3
  <2>2. e = b + Len(L) /\ b \in Nat /\ e \in Nat /\ e <= Len(inp) /\ Len(inp) \in Nat
    BY <1>2
  <2> QED BY <2>1, <2>2
<1>6. ASSUME NEW x, L = <<x>> PROVE e = b + 1 /\ inp[e] = x
  BY <1>2, <1>6
<1>7. ASSUME NEW x, NEW y, L = <<x, y>>
      PROVE  e = b + 2 /\ inp[b + 1] = x /\ inp[b + 2] = y
  BY <1>2, <1>7
<1>8. ASSUME NEW x, NEW y, NEW z, L = <<x, y, z>>
      PROVE  e = b + 3 /\ inp[b + 1] = x /\ inp[b + 2] = y /\ inp[e] = z
  BY <1>2, <1>8
<1>9. /\ m.form = "line" => e = b + 1 /\ inp[e] = Item("json", m.req)
      /\ m.form = "blank" => e = b + 1 /\ inp[e] = Sep("blank")
      /\ m.form = "stray" => e = b + 1 /\ inp[e] = Sep("stray")
      /\ m.form = "colon" => e = b + 1 /\ inp[e] = Sep("header")
  BY <1>4, <1>6
<1>10. /\ m.form = "cut" => /\ e = b + 2 /\ inp[b + 1] = Sep("length")
                            /\ inp[b + 2] = Sep("blank")
       /\ m.form = "no_length" => /\ e = b + 2 /\ inp[b + 1] = Sep("header")
                                  /\ inp[b + 2] = Sep("blank")
  BY <1>4, <1>7
<1>11. /\ m.form = "frame" => /\ e = b + 3 /\ inp[b + 1] = Sep("length")
                              /\ inp[b + 2] = Sep("blank")
                              /\ inp[e] = Item("body", m.req)
       /\ m.form = "bare" => /\ e = b + 3 /\ inp[b + 1] = Sep("length")
                             /\ inp[b + 2] = Sep("blank")
                             /\ inp[e] = Item("bare", m.req)
  BY <1>4, <1>8
<1> QED BY <1>1, <1>5, <1>9, <1>10, <1>11 DEF Written, m, b, e, inp

(* No two messages overlap. *)
LEMMA Separate ==
    ASSUME NEW s \in Streams, NEW i \in 1..Len(s), NEW j \in 1..Len(s), i < j
    PROVE  Stop(s, i) <= Before(s, j)
<1>1. Len(s) \in Nat
  BY StreamLayout
<1>2. j - 1 \in 0..Len(s) /\ i \in 0..(j - 1)
  BY <1>1
<1> QED BY <1>2, StreamLayout DEF Before

(* Every position belongs to a message. *)
LEMMA PositionOf ==
    ASSUME NEW s \in Streams, NEW p \in 1..Len(Input(s))
    PROVE  \E i \in 1..Len(s) : Before(s, i) < p /\ p <= Stop(s, i)
<1>1. PICK i \in 1..Len(s) : \E q \in 1..Len(Lines(s[i])) : p = Before(s, i) + q
  BY StreamLayout
<1>2. PICK q \in 1..Len(Lines(s[i])) : p = Before(s, i) + q
  BY <1>1
<1>3. Before(s, i) \in Nat /\ Stop(s, i) = Before(s, i) + Len(Lines(s[i]))
  BY MessageAt, StreamLayout DEF Written
<1>4. Len(Lines(s[i])) \in Nat
  BY LinesOf, StreamLayout
<1> QED BY <1>2, <1>3, <1>4

(* The fields of an item. *)
LEMMA TypesOfItems ==
    \A t, r : Item(t, r).type = t /\ Item(t, r).req = r /\ Sep(t).type = t
BY DEF Item, Sep

(* A JSON line or a body is the last line of its message; a body follows   *)
(* an empty line, a length comes before one.                               *)
ItemOf(s, i, p) ==
    LET inp == Input(s)
    IN  /\ Before(s, i) < p /\ p <= Stop(s, i)
        /\ inp[p].type \in ItemTypes
        /\ inp[p].type = "json" => s[i].form = "line"
        /\ inp[p].type = "body" => /\ s[i].form = "frame" /\ p > 1
                                   /\ inp[p - 1].type = "blank"
        /\ inp[p].type = "bare" => s[i].form = "bare"
        /\ inp[p].type \in {"json", "body", "bare"} =>
              p = Stop(s, i) /\ inp[p].req = s[i].req
        /\ inp[p].type = "length" => /\ s[i].form \in {"frame", "bare", "cut"}
                                     /\ p + 1 <= Stop(s, i)
                                     /\ inp[p + 1].type = "blank"

(* What is known of the item at a position. *)
LEMMA ItemAt ==
    ASSUME NEW s \in Streams, NEW p \in 1..Len(Input(s))
    PROVE  \E i \in 1..Len(s) : ItemOf(s, i, p)
<1>1. PICK i \in 1..Len(s) : Before(s, i) < p /\ p <= Stop(s, i)
  BY PositionOf
<1> DEFINE m == s[i]
           b == Before(s, i)
           e == Stop(s, i)
           item(x) == Input(s)[x]
<1>2. /\ m \in Messages
      /\ b \in Nat /\ e \in 1..Len(Input(s)) /\ b < e
      /\ m.form = "line" => e = b + 1 /\ item(e) = Item("json", m.req)
      /\ m.form = "frame" => /\ e = b + 3 /\ item(b + 1) = Sep("length")
                             /\ item(b + 2) = Sep("blank")
                             /\ item(e) = Item("body", m.req)
      /\ m.form = "bare" => /\ e = b + 3 /\ item(b + 1) = Sep("length")
                            /\ item(b + 2) = Sep("blank")
                            /\ item(e) = Item("bare", m.req)
      /\ m.form = "cut" => /\ e = b + 2 /\ item(b + 1) = Sep("length")
                           /\ item(b + 2) = Sep("blank")
      /\ m.form = "no_length" => /\ e = b + 2 /\ item(b + 1) = Sep("header")
                                 /\ item(b + 2) = Sep("blank")
      /\ m.form = "blank" => e = b + 1 /\ item(e) = Sep("blank")
      /\ m.form = "stray" => e = b + 1 /\ item(e) = Sep("stray")
      /\ m.form = "colon" => e = b + 1 /\ item(e) = Sep("header")
  BY MessageAt DEF Written
<1>3. Len(Input(s)) \in Nat /\ p \in Nat /\ b < p /\ p <= e /\ m.form \in Forms
  <2>1. Input(s) \in Seq(Items)
    BY StreamLayout
  <2>2. Len(Input(s)) \in Nat
    BY <2>1, LenProperties
  <2>3. m.form \in Forms
    BY <1>2 DEF Messages
  <2> QED BY <1>1, <2>2, <2>3
<1> HIDE DEF m, b, e
<1> SUFFICES /\ item(p).type \in ItemTypes
             /\ item(p).type = "json" => m.form = "line"
             /\ item(p).type = "body" => /\ m.form = "frame" /\ p > 1
                                         /\ item(p - 1).type = "blank"
             /\ item(p).type = "bare" => m.form = "bare"
             /\ item(p).type \in {"json", "body", "bare"} => p = e /\ item(p).req = m.req
             /\ item(p).type = "length" => /\ m.form \in {"frame", "bare", "cut"}
                                           /\ p + 1 <= e /\ item(p + 1).type = "blank"
    BY <1>3 DEF ItemOf, m, b, e
<1> HIDE DEF item
<1>4. CASE m.form = "line"
  <2>1. p = e
    BY <1>2, <1>3, <1>4
  <2> QED BY <1>2, <1>4, <2>1, TypesOfItems DEF ItemTypes
<1>5. CASE m.form \in {"frame", "bare"}
  <2>1. p = b + 1 \/ p = b + 2 \/ p = e
    BY <1>2, <1>3, <1>5
  <2>2. CASE p = b + 1
    BY <1>2, <1>5, <2>2, TypesOfItems DEF ItemTypes
  <2>3. CASE p = b + 2
    BY <1>2, <1>5, <2>3, TypesOfItems DEF ItemTypes
  <2>4. CASE p = e
    <3>1. p - 1 = b + 2 /\ p > 1
      BY <1>2, <1>5, <2>4
    <3> QED BY <1>2, <1>5, <2>4, <3>1, TypesOfItems DEF ItemTypes
  <2> QED BY <2>1, <2>2, <2>3, <2>4
<1>6. CASE m.form = "cut"
  <2>1. p = b + 1 \/ p = b + 2
    BY <1>2, <1>3, <1>6
  <2> QED BY <1>2, <1>6, <2>1, TypesOfItems DEF ItemTypes
<1>7. CASE m.form = "no_length"
  <2>1. p = b + 1 \/ p = b + 2
    BY <1>2, <1>3, <1>7
  <2> QED BY <1>2, <1>7, <2>1, TypesOfItems DEF ItemTypes
<1>8. CASE m.form \in {"blank", "stray", "colon"}
  <2>1. p = e
    BY <1>2, <1>3, <1>8
  <2> QED BY <1>2, <1>8, <2>1, TypesOfItems DEF ItemTypes
<1> QED BY <1>3, <1>4, <1>5, <1>6, <1>7, <1>8 DEF Forms

(* A position belongs to one message only. *)
LEMMA OneMessage ==
    ASSUME NEW s \in Streams, NEW i \in 1..Len(s), NEW j \in 1..Len(s), NEW p \in Nat,
           Before(s, i) < p, p <= Stop(s, i), Before(s, j) < p, p <= Stop(s, j)
    PROVE  i = j
<1>1. /\ Before(s, i) \in Nat /\ Stop(s, i) \in Nat
      /\ Before(s, j) \in Nat /\ Stop(s, j) \in Nat
  BY MessageAt, StreamLayout DEF Written
<1>2. Len(s) \in Nat
  BY StreamLayout
<1>3. ~(i < j)
  BY <1>1, Separate
<1>4. ~(j < i)
  BY <1>1, Separate
<1> QED BY <1>2, <1>3, <1>4

-----------------------------------------------------------------------------
(* What holds of the reader and the handlers in every state.               *)

(* The line behind a length is read next.                                  *)
InHeaders ==
    pc = "headers" /\ "length" \in headers => pos > 1 /\ input[pos - 1].type = "length"

InBody ==
    pc = "body" => /\ pos > 2 /\ input[pos - 1].type = "blank"
                   /\ input[pos - 2].type = "length"

InHandler ==
    /\ pc = "handle" => request.kind # "undecodable"
    /\ pc = "rescue" => request.kind = "call" /\ faults > 0
    /\ pc = "eof" => pos = Len(input) + 1

ServerInv ==
    /\ TypeOK
    /\ sent \in Streams /\ input = Input(sent)
    /\ InHeaders /\ InBody /\ InHandler
    /\ FaultsDoNotKill

(* Before the first line is read. *)
LEMMA ServerInit == Init => ServerInv
<1> SUFFICES ASSUME Init PROVE ServerInv
    OBVIOUS
<1>1. /\ sent \in Streams /\ input = Input(sent) /\ pos = 1 /\ pc = "start"
      /\ headers = {} /\ request = NoRequest /\ framing = "line" /\ out = <<>>
      /\ log = <<>> /\ buffer = <<>> /\ faults = 0
  BY DEF Init
<1>2. Len(input) \in Nat
  <2>1. Input(sent) \in Seq(Items)
    BY <1>1, StreamLayout
  <2> QED BY <1>1, <2>1, LenProperties
<1>3. request \in Requests
  BY <1>1 DEF NoRequest, Requests, Kinds
<1>4. out \in Seq(Responses) /\ log \in Seq(Records) /\ buffer \in Seq(Records)
  BY <1>1
<1>5. TypeOK
  BY <1>1, <1>2, <1>3, <1>4, MaxFaultsAssumption DEF TypeOK, Framings
<1> QED BY <1>1, <1>5 DEF ServerInv, InHeaders, InBody, InHandler, FaultsDoNotKill

(* The item at the reader's position. *)
LEMMA Current ==
    ASSUME ServerInv, More
    PROVE  /\ pos \in 1..Len(input) /\ Len(input) \in Nat
           /\ input[pos].req \in Requests
           /\ \E i \in 1..Len(sent) : ItemOf(sent, i, pos)
<1>1. sent \in Streams /\ input = Input(sent) /\ pos \in 1..(Len(input) + 1)
  BY DEF ServerInv, TypeOK
<1>2. Input(sent) \in Seq(Items)
  BY <1>1, StreamLayout
<1>3. Len(input) \in Nat
  BY <1>1, <1>2, LenProperties
<1>4. pos \in 1..Len(input)
  BY <1>1, <1>3 DEF More
<1>5. input[pos] \in Items
  BY <1>1, <1>2, <1>4, ElementOfSeq
<1>6. input[pos].req \in Requests
  BY <1>5 DEF Items
<1> QED BY <1>1, <1>3, <1>4, <1>6, ItemAt

(* Responses and records are of their types. *)
LEMMA ResponseType ==
    ASSUME ServerInv, NEW id \in Ids \cup {NoId},
           NEW kind \in {"result", "not_json", "tool_error", "rpc_error"},
           NEW frame \in Framings
    PROVE  Append(out, Response(id, kind, frame)) \in Seq(Responses)
<1>1. out \in Seq(Responses)
  BY DEF ServerInv, TypeOK
<1>2. Response(id, kind, frame) \in Responses
  BY DEF Response, Responses
<1> QED BY <1>1, <1>2, AppendProperties

(* A record lands in the file or in the buffer. *)
LEMMA RecordType ==
    ASSUME ServerInv, NEW status \in {"ok", "error", "pre_dispatch_error"}
    PROVE  /\ Recorded(status) => /\ log' \in Seq(Records) /\ buffer' = <<>>
                                  /\ buffer' \in Seq(Records) /\ faults' = faults
           /\ Unrecorded(status) => /\ log' = log /\ buffer' \in Seq(Records)
                                    /\ faults' = faults + 1 /\ faults' \in 0..MaxFaults
<1>1. /\ log \in Seq(Records) /\ buffer \in Seq(Records) /\ request \in Requests
      /\ faults \in 0..MaxFaults
  BY DEF ServerInv, TypeOK
<1>2. Record(status) \in Records
  BY <1>1 DEF Record, Records, Requests
<1>3. <<Record(status)>> \in Seq(Records)
  BY <1>2
<1>4. (log \o buffer) \o <<Record(status)>> \in Seq(Records)
  BY <1>1, <1>3, ConcatProperties
<1>5. Append(buffer, Record(status)) \in Seq(Records)
  BY <1>1, <1>2, AppendProperties
<1>6. <<>> \in Seq(Records)
  BY EmptySeq
<1>7. ASSUME Recorded(status)
      PROVE  log' \in Seq(Records) /\ buffer' = <<>> /\ buffer' \in Seq(Records) /\ faults' = faults
  BY <1>4, <1>6, <1>7 DEF Recorded
<1>8. ASSUME Unrecorded(status)
      PROVE  /\ log' = log /\ buffer' \in Seq(Records)
             /\ faults' = faults + 1 /\ faults' \in 0..MaxFaults
  BY <1>1, <1>5, <1>8, MaxFaultsAssumption DEF Unrecorded
<1> QED BY <1>7, <1>8

(* The reader hands a request over, or answers that it is none. *)
LEMMA AcceptStep ==
    ASSUME ServerInv, NEW req \in Requests, NEW frame \in Framings,
           Accept(req, frame), pos' \in 1..(Len(input) + 1)
    PROVE  ServerInv'
<1>1. sent' = sent /\ input' = input /\ headers' = headers
  BY DEF Accept
<1>2. CASE req.kind = "undecodable"
  <2>1. /\ out' = Append(out, Response(NoId, "rpc_error", "line")) /\ pc' = "start"
        /\ log' = log /\ buffer' = buffer /\ faults' = faults
        /\ request' = request /\ framing' = framing
    BY <1>2 DEF Accept, FramingError, diskVars
  <2>2. out' \in Seq(Responses)
    BY <2>1, ResponseType DEF Framings
  <2>3. TypeOK'
    BY <1>1, <2>1, <2>2 DEF ServerInv, TypeOK
  <2> QED BY <1>1, <2>1, <2>3 DEF ServerInv, InHeaders, InBody, InHandler, FaultsDoNotKill
<1>3. CASE req.kind # "undecodable"
  <2>1. /\ request' = req /\ framing' = frame /\ pc' = "handle" /\ out' = out
        /\ log' = log /\ buffer' = buffer /\ faults' = faults
    BY <1>3 DEF Accept, diskVars
  <2>2. TypeOK'
    BY <1>1, <2>1 DEF ServerInv, TypeOK
  <2> QED BY <1>1, <1>3, <2>1, <2>2 DEF ServerInv, InHeaders, InBody, InHandler, FaultsDoNotKill
<1> QED BY <1>2, <1>3

(* An error of the framing is answered and nothing is recorded. *)
LEMMA FramingErrorStep ==
    ASSUME ServerInv, FramingError, pos' \in 1..(Len(input) + 1),
           sent' = sent, input' = input, headers' = headers,
           request' = request, framing' = framing
    PROVE  ServerInv'
<1>1. /\ out' = Append(out, Response(NoId, "rpc_error", "line")) /\ pc' = "start"
      /\ log' = log /\ buffer' = buffer /\ faults' = faults
  BY DEF FramingError, diskVars
<1>2. out' \in Seq(Responses)
  BY <1>1, ResponseType DEF Framings
<1>3. TypeOK'
  BY <1>1, <1>2 DEF ServerInv, TypeOK
<1> QED BY <1>1, <1>3 DEF ServerInv, InHeaders, InBody, InHandler, FaultsDoNotKill

(* Out of step, the reader takes a body with the line behind it, if any. *)
LEMMA WhatIsTaken ==
    ASSUME ServerInv, More
    PROVE  /\ Taken \in {1, 2} /\ pos + Taken \in 1..(Len(input) + 1)
           /\ Joined \in {input[pos].req} \cup [id : {NoId}, kind : {"undecodable", "unparsable"}]
           /\ Joined \in Requests
<1>1. pos \in 1..Len(input) /\ Len(input) \in Nat /\ input[pos].req \in Requests
  BY Current
<1>2. Taken \in {1, 2} /\ pos + Taken \in 1..(Len(input) + 1)
  BY <1>1 DEF Taken
<1>3. Joined \in {input[pos].req} \cup [id : {NoId}, kind : {"undecodable", "unparsable"}]
  BY DEF Joined
<1>4. [id : {NoId}, kind : {"undecodable", "unparsable"}] \subseteq Requests
  BY DEF Requests, Kinds
<1> QED BY <1>1, <1>2, <1>3, <1>4

(* The reader keeps the invariant, one action at a time. *)
LEMMA ReaderStep == ASSUME ServerInv, Reader PROVE ServerInv'
<1>0. sent \in Streams /\ input = Input(sent) /\ pos \in 1..(Len(input) + 1)
  BY DEF ServerInv, TypeOK
<1>1. ASSUME More
      PROVE  /\ pos \in 1..Len(input) /\ Len(input) \in Nat /\ input[pos].req \in Requests
             /\ pos + 1 \in 1..(Len(input) + 1)
             /\ input[pos].type \in ItemTypes
             /\ input[pos].type = "length" => input[pos + 1].type = "blank"
  <2>1. pos \in 1..Len(input) /\ Len(input) \in Nat /\ input[pos].req \in Requests
    BY <1>1, Current
  <2>2. PICK i \in 1..Len(sent) : ItemOf(sent, i, pos)
    BY <1>1, Current
  <2> QED BY <1>0, <2>1, <2>2 DEF ItemOf
<1>2. CASE EndOfInput
  <2>1. /\ pc' = "eof" /\ ~More /\ faults' = faults /\ out' = out
        /\ sent' = sent /\ input' = input /\ pos' = pos /\ headers' = headers
        /\ request' = request /\ framing' = framing
        /\ \/ log' = log \o buffer /\ buffer' = <<>>
           \/ log' = log /\ buffer' = buffer
    BY <1>2 DEF EndOfInput, readerVars
  <2>2. pos = Len(input) + 1
    <3>1. Input(sent) \in Seq(Items)
      BY <1>0, StreamLayout
    <3>2. Len(input) \in Nat
      BY <1>0, <3>1, LenProperties
    <3> QED BY <1>0, <2>1, <3>2 DEF More
  <2>3. log' \in Seq(Records) /\ buffer' \in Seq(Records)
    <3>1. /\ log \in Seq(Records) /\ buffer \in Seq(Records)
          /\ log \o buffer \in Seq(Records) /\ <<>> \in Seq(Records)
      BY ConcatProperties, EmptySeq DEF ServerInv, TypeOK
    <3> QED BY <2>1, <3>1
  <2>4. TypeOK'
    BY <2>1, <2>3 DEF ServerInv, TypeOK
  <2> QED BY <2>1, <2>2, <2>4 DEF ServerInv, InHeaders, InBody, InHandler, FaultsDoNotKill
<1>3. CASE SkipBlank
  <2>1. /\ pc = "start" /\ pc' = "start" /\ More /\ pos' = pos + 1
        /\ UNCHANGED <<sent, input, headers, request, framing, out, log, buffer, faults>>
    BY <1>3 DEF SkipBlank, At, Skip, diskVars
  <2>2. TypeOK'
    BY <1>1, <2>1 DEF ServerInv, TypeOK
  <2> QED BY <2>1, <2>2 DEF ServerInv, InHeaders, InBody, InHandler, FaultsDoNotKill
<1>4. CASE JsonLine
  <2>1. More /\ pos' = pos + 1 /\ Accept(input[pos].req, "line") /\ "line" \in Framings
    BY <1>4 DEF JsonLine, At, Skip, Framings
  <2> QED BY <1>1, <2>1, AcceptStep
<1>5. CASE BodyAsLine
  <2>1. /\ More /\ pos' = pos + Taken /\ Accept(Joined, "line") /\ "line" \in Framings
    BY <1>5 DEF BodyAsLine, At, Skip, Framings
  <2>2. pos' \in 1..(Len(input) + 1)
    BY <1>1, <2>1, WhatIsTaken
  <2>3. Joined \in Requests
    BY <2>1, WhatIsTaken
  <2> QED BY <2>1, <2>2, <2>3, AcceptStep
<1>6. CASE BodyOpensHeaders
  <2>1. /\ More /\ input[pos].type = "bare" /\ pos' = pos + Taken /\ pc' = "headers"
        /\ UNCHANGED <<sent, input, request, framing, out, log, buffer, faults>>
    BY <1>6 DEF BodyOpensHeaders, At, Skip, diskVars
  <2>2. headers' \in SUBSET {"header", "stray"}
    BY <1>6 DEF BodyOpensHeaders, Headings
  <2>3. pos' \in 1..(Len(input) + 1)
    BY <1>1, <2>1, WhatIsTaken
  <2>4. TypeOK'
    BY <2>1, <2>2, <2>3 DEF ServerInv, TypeOK
  <2> QED BY <2>1, <2>2, <2>4 DEF ServerInv, InHeaders, InBody, InHandler, FaultsDoNotKill
<1>7. CASE OpenHeaders
  <2>1. /\ More /\ input[pos].type \in {"length", "header", "stray"}
        /\ pos' = pos + 1 /\ headers' = {input[pos].type} /\ pc' = "headers"
        /\ UNCHANGED <<sent, input, request, framing, out, log, buffer, faults>>
    BY <1>7 DEF OpenHeaders, Skip, diskVars
  <2>2. TypeOK'
    BY <1>1, <2>1 DEF ServerInv, TypeOK
  <2>3. pos' > 1 /\ pos' - 1 = pos /\ input' = input
    BY <1>1, <2>1
  <2>4. InHeaders'
    BY <2>1, <2>3 DEF InHeaders
  <2> QED BY <2>1, <2>2, <2>4 DEF ServerInv, InBody, InHandler, FaultsDoNotKill
<1>8. CASE HeaderLine
  <2>1. /\ More /\ pc = "headers" /\ input[pos].type # "blank"
        /\ pos' = pos + 1 /\ pc' = "headers"
        /\ UNCHANGED <<sent, input, request, framing, out, log, buffer, faults>>
    BY <1>8 DEF HeaderLine, Skip, diskVars, At
  <2>2. PICK h \in Headings(input[pos].type, input[pos].req.kind) :
            headers' = headers \cup {h}
    BY <1>8 DEF HeaderLine
  <2>3. h \in {"length", "header", "stray"} /\ (h = "length" => input[pos].type = "length")
    BY <2>2 DEF Headings
  <2>4. "length" \notin headers
    <3> SUFFICES ASSUME "length" \in headers PROVE FALSE
        OBVIOUS
    <3>1. pos > 1 /\ input[pos - 1].type = "length"
      BY <2>1 DEF ServerInv, InHeaders
    <3>2. pos - 1 \in 1..Len(input) /\ (pos - 1) + 1 = pos
      BY <1>1, <2>1, <3>1
    <3>3. PICK i \in 1..Len(sent) : ItemOf(sent, i, pos - 1)
      BY <1>0, <3>2, ItemAt
    <3>4. input[(pos - 1) + 1].type = "blank"
      BY <1>0, <3>1, <3>3 DEF ItemOf
    <3> QED BY <2>1, <3>2, <3>4
  <2>5. headers' \subseteq {"length", "header", "stray"}
    BY <2>2, <2>3 DEF ServerInv, TypeOK
  <2>6. TypeOK'
    BY <1>1, <2>1, <2>5 DEF ServerInv, TypeOK
  <2>7. "length" \in headers' => input[pos].type = "length"
    BY <2>2, <2>3, <2>4
  <2>8. pos' > 1 /\ pos' - 1 = pos /\ input' = input
    BY <1>1, <2>1
  <2>9. InHeaders'
    BY <2>7, <2>8 DEF InHeaders
  <2> QED BY <2>1, <2>6, <2>9 DEF ServerInv, InBody, InHandler, FaultsDoNotKill
<1>9. CASE EndHeaders
  <2>1. /\ More /\ pc = "headers" /\ input[pos].type = "blank" /\ pos' = pos + 1
        /\ UNCHANGED <<sent, input, headers, request, framing>>
    BY <1>9 DEF EndHeaders, Skip, At
  <2>2. CASE "stray" \notin headers /\ "length" \in headers
    <3>1. pc' = "body" /\ UNCHANGED <<out, log, buffer, faults>>
      BY <1>9, <2>2 DEF EndHeaders, diskVars
    <3>2. pos > 1 /\ input[pos - 1].type = "length"
      BY <2>1, <2>2 DEF ServerInv, InHeaders
    <3>3. pos' > 2 /\ pos' - 1 = pos /\ pos' - 2 = pos - 1 /\ input' = input
      BY <1>1, <2>1, <3>2
    <3>4. InBody'
      BY <2>1, <3>2, <3>3 DEF InBody
    <3>5. TypeOK'
      BY <1>1, <2>1, <3>1 DEF ServerInv, TypeOK
    <3> QED BY <2>1, <3>1, <3>4, <3>5 DEF ServerInv, InHeaders, InHandler, FaultsDoNotKill
  <2>3. CASE ~("stray" \notin headers /\ "length" \in headers)
    <3>1. FramingError
      BY <1>9, <2>3 DEF EndHeaders
    <3> QED BY <1>1, <2>1, <3>1, FramingErrorStep
  <2> QED BY <2>2, <2>3
<1>10. CASE ReadBody
  <2>1. /\ More /\ pos' = pos + 1 /\ Accept(input[pos].req, "content-length")
        /\ "content-length" \in Framings
    BY <1>10 DEF ReadBody, At, Skip, Framings
  <2> QED BY <1>1, <2>1, AcceptStep
<1>11. CASE CutShort
  <2>1. /\ FramingError /\ pos' = pos /\ sent' = sent /\ input' = input
        /\ headers' = headers /\ request' = request /\ framing' = framing
    BY <1>11 DEF CutShort, readerVars
  <2> QED BY <1>0, <2>1, FramingErrorStep
<1> QED BY <1>2, <1>3, <1>4, <1>5, <1>6, <1>7, <1>8, <1>9, <1>10, <1>11 DEF Reader

(* So do the handlers. *)
LEMMA HandlerStep == ASSUME ServerInv, Handler PROVE ServerInv'
<1>0. UNCHANGED readerVars /\ pc \in {"handle", "rescue"}
  BY DEF Handler, Handling, Unparsable, NoObject, Refuse, Initialized, Method, BadCall,
         Call, Rescue
<1>1. /\ sent' = sent /\ input' = input /\ pos' = pos /\ headers' = headers
      /\ request' = request /\ framing' = framing
  BY <1>0 DEF readerVars
<1>2. /\ request \in Requests /\ framing \in Framings /\ request.id \in Ids \cup {NoId}
      /\ NoId \in Ids \cup {NoId}
  BY DEF ServerInv, TypeOK, Requests
(* What a handler changes, whichever it is. *)
<1>3. ASSUME out' \in Seq(Responses), log' \in Seq(Records), buffer' \in Seq(Records),
             faults' \in 0..MaxFaults, faults' = 0 => buffer' = <<>>,
             \/ pc' = "start"
             \/ pc' = "rescue" /\ request.kind = "call" /\ faults' > 0
             \/ pc' = "dead" /\ request.kind = "unparsable"
      PROVE  ServerInv'
  <2>1. TypeOK'
    BY <1>1, <1>3 DEF ServerInv, TypeOK
  <2> QED BY <1>1, <1>3, <2>1 DEF ServerInv, InHeaders, InBody, InHandler, FaultsDoNotKill
<1>4. ASSUME NEW id \in {NoId, request.id},
             NEW kind \in {"result", "not_json", "tool_error", "rpc_error"}, Respond(id, kind)
      PROVE  out' \in Seq(Responses) /\ pc' = "start"
  <2>1. id \in Ids \cup {NoId}
    BY <1>2, <1>4
  <2> QED BY <1>2, <1>4, <2>1, ResponseType DEF Respond, Mirrored
<1>5. ASSUME UNCHANGED diskVars
      PROVE  /\ log' \in Seq(Records) /\ buffer' \in Seq(Records)
             /\ faults' \in 0..MaxFaults /\ (faults' = 0 => buffer' = <<>>)
  BY <1>5 DEF ServerInv, TypeOK, diskVars
<1>6. ASSUME NEW status \in {"ok", "error", "pre_dispatch_error"},
             Recorded(status) \/ Unrecorded(status)
      PROVE  /\ log' \in Seq(Records) /\ buffer' \in Seq(Records)
             /\ faults' \in 0..MaxFaults /\ (faults' = 0 => buffer' = <<>>)
             /\ Unrecorded(status) => faults' > 0
  <2>1. faults \in 0..MaxFaults /\ log \in Seq(Records)
    BY DEF ServerInv, TypeOK
  <2>2. CASE Recorded(status)
    <3>1. log' \in Seq(Records) /\ buffer' = <<>> /\ buffer' \in Seq(Records) /\ faults' = faults
      BY <2>2, RecordType
    <3>2. Unrecorded(status) => faults' > 0
      BY <2>1, MaxFaultsAssumption DEF Unrecorded
    <3> QED BY <2>1, <3>1, <3>2
  <2>3. CASE Unrecorded(status)
    <3>1. log' = log /\ buffer' \in Seq(Records) /\ faults' = faults + 1 /\ faults' \in 0..MaxFaults
      BY <2>3, RecordType
    <3> QED BY <2>1, <3>1, MaxFaultsAssumption
  <2> QED BY <1>6, <2>2, <2>3
<1>7. out \in Seq(Responses)
  BY DEF ServerInv, TypeOK
<1>8. CASE Unparsable
  <2>1. request.kind = "unparsable"
    BY <1>8 DEF Unparsable, Handling
  <2>2. CASE Recorded("pre_dispatch_error") /\ Respond(NoId, "rpc_error")
    BY <1>3, <1>4, <1>6, <2>2
  <2>3. CASE Unrecorded("pre_dispatch_error") /\ pc' = "dead" /\ UNCHANGED out
    BY <1>3, <1>6, <1>7, <2>1, <2>3
  <2> QED BY <1>8, <2>2, <2>3 DEF Unparsable
<1>9. CASE NoObject
  BY <1>3, <1>4, <1>5, <1>9 DEF NoObject
<1>10. CASE Refuse
  BY <1>3, <1>4, <1>5, <1>10 DEF Refuse
<1>11. CASE Initialized
  <2>1. pc' = "start" /\ out' = out /\ UNCHANGED diskVars
    BY <1>11 DEF Initialized, diskVars
  <2> QED BY <1>3, <1>5, <1>7, <2>1
<1>12. CASE Method
  BY <1>3, <1>4, <1>5, <1>12 DEF Method
<1>13. CASE BadCall
  BY <1>3, <1>4, <1>6, <1>13 DEF BadCall
<1>14. ASSUME NEW o \in Outcomes, Call(o) PROVE ServerInv'
  <2>1. /\ request.kind = "call"
        /\ Status(o) \in {"ok", "error", "pre_dispatch_error"}
        /\ Answer(o) \in {"result", "not_json", "tool_error", "rpc_error"}
    BY <1>14 DEF Call, Handling, Status, Answer, Outcomes
  <2>2. CASE Recorded(Status(o)) /\ Respond(request.id, Answer(o))
    BY <1>3, <1>4, <1>6, <2>1, <2>2
  <2>3. CASE Unrecorded(Status(o)) /\ pc' = "rescue" /\ UNCHANGED out
    BY <1>3, <1>6, <1>7, <2>1, <2>3
  <2>4. CASE Unrecorded(Status(o)) /\ Respond(request.id, "rpc_error")
    BY <1>3, <1>4, <1>6, <2>1, <2>4
  <2> QED BY <1>14, <2>2, <2>3, <2>4 DEF Call
<1>15. CASE Rescue
  <2>1. CASE Recorded("error") /\ Respond(request.id, "tool_error")
    BY <1>3, <1>4, <1>6, <2>1
  <2>2. CASE Unrecorded("error") /\ Respond(request.id, "rpc_error")
    BY <1>3, <1>4, <1>6, <2>2
  <2> QED BY <1>15, <2>1, <2>2 DEF Rescue
<1> QED BY <1>8, <1>9, <1>10, <1>11, <1>12, <1>13, <1>14, <1>15 DEF Handler

(* Every step keeps it. *)
LEMMA ServerStep == ServerInv /\ [Next]_vars => ServerInv'
<1> SUFFICES ASSUME ServerInv, [Next]_vars PROVE ServerInv'
    OBVIOUS
<1>1. CASE UNCHANGED vars
  BY <1>1 DEF vars, ServerInv, TypeOK, InHeaders, InBody, InHandler, FaultsDoNotKill
<1> QED BY <1>1, ReaderStep, HandlerStep DEF Next

(* The invariant of the server thread. *)
LEMMA ServerCorrect == Spec => []ServerInv
BY ServerInit, ServerStep, PTL DEF Spec

-----------------------------------------------------------------------------
(* Well-formed streams: the answers, message by message. *)

(* What an answer may be, by its id and its framing. *)
Allowed == SUBSET ((Ids \cup {NoId}) \X Framings)

AnswerParts(s) ==
    [i \in DOMAIN s |-> IF s[i].form = "blank" THEN <<>> ELSE AnswerTo(s[i])]

(* The answers to the first i messages, and to those before message i. *)
Upto(s, i) == (CHOOSE F : RunningConcat(F, Allowed, AnswerParts(s)))[i]
Sofar(s, i) == Upto(s, i - 1)

(* Responses that are what they may be. *)
Fits(responses, allowed) ==
    /\ Len(responses) = Len(allowed)
    /\ \A n \in DOMAIN responses :
           <<responses[n].id, responses[n].framing>> \in allowed[n]

(* The expected answers, message by message. *)
LEMMA AnswersLayout ==
    ASSUME NEW s \in Streams
    PROVE  /\ Upto(s, 0) = <<>>
           /\ \A i \in 1..Len(s) :
                 /\ Sofar(s, i) \in Seq(Allowed)
                 /\ Upto(s, i) = Sofar(s, i) \o (IF s[i].form = "blank" THEN <<>>
                                                  ELSE AnswerTo(s[i]))
           /\ Upto(s, Len(s)) = FlattenSeq(AnswerParts(s))
<1>1. Len(s) \in Nat /\ DOMAIN s = 1..Len(s) /\ \A i \in 1..Len(s) : s[i] \in Messages
  BY StreamLayout
<1> DEFINE S == AnswerParts(s)
           F == CHOOSE f : RunningConcat(f, Allowed, S)
           Part(i) == IF s[i].form = "blank" THEN <<>> ELSE AnswerTo(s[i])
<1>2. ASSUME NEW i \in 1..Len(s) PROVE Part(i) \in Seq(Allowed)
  <2>1. s[i].req.id \in Ids \cup {NoId} /\ Framed(s[i]) \in Framings
    BY <1>1 DEF Messages, Requests, Framed, Framings
  <2>2. /\ {NoId} \X Framings \in Allowed /\ {<<NoId, Framed(s[i])>>} \in Allowed
        /\ {<<s[i].req.id, Framed(s[i])>>} \in Allowed
    BY <2>1 DEF Allowed
  <2>3. \A x \in Allowed : <<x>> \in Seq(Allowed)
    OBVIOUS
  <2>4. <<>> \in Seq(Allowed)
    BY EmptySeq
  <2>5. AnswerTo(s[i]) \in {<<>>, <<{NoId} \X Framings>>, <<{<<NoId, Framed(s[i])>>}>>,
                            <<{<<s[i].req.id, Framed(s[i])>>}>>}
    BY DEF AnswerTo
  <2> QED BY <2>2, <2>3, <2>4, <2>5
<1>3. S = [i \in 1..Len(s) |-> Part(i)]
  BY <1>1 DEF AnswerParts
<1> HIDE DEF Part, S
<1>4. S \in Seq(Seq(Allowed)) /\ Len(S) = Len(s) /\ \A i \in 1..Len(s) : S[i] = Part(i)
  BY <1>1, <1>2, <1>3
<1>5. RunningConcat(F, Allowed, S)
  BY <1>4, Flattened
<1>6. \A i : Upto(s, i) = F[i] /\ Sofar(s, i) = F[i - 1]
  BY DEF Upto, Sofar, S
<1> HIDE DEF F
<1>7. /\ F[0] = <<>> /\ F[Len(s)] = FlattenSeq(S)
      /\ \A i \in 1..Len(s) : F[i] = F[i - 1] \o S[i]
      /\ \A i \in 0..Len(s) : F[i] \in Seq(Allowed)
  BY <1>4, <1>5 DEF RunningConcat
<1>8. ASSUME NEW i \in 1..Len(s)
      PROVE  Sofar(s, i) \in Seq(Allowed) /\ Upto(s, i) = Sofar(s, i) \o Part(i)
  <2>1. i - 1 \in 0..Len(s)
    BY <1>1
  <2>2. F[i - 1] \in Seq(Allowed) /\ F[i] = F[i - 1] \o Part(i)
    BY <1>4, <1>7, <2>1
  <2> QED BY <1>6, <2>2
<1> QED BY <1>6, <1>7, <1>8 DEF Part, S

(* One more response that is what it may be. *)
LEMMA SaidMore ==
    ASSUME out \in Seq(Responses), NEW U \in Seq(Allowed), NEW A, NEW r,
           out' = Append(out, r), Fits(out, U), <<r.id, r.framing>> \in A
    PROVE  Fits(out', U \o <<A>>)
<1>1. /\ Len(out) \in Nat /\ DOMAIN out = 1..Len(out)
      /\ Len(out') = Len(out) + 1 /\ DOMAIN out' = 1..(Len(out) + 1)
      /\ \A i \in 1..Len(out) : out'[i] = out[i]
      /\ out'[Len(out) + 1] = r
  BY LenProperties
<1>2. Len(U) = Len(out) /\ \A n \in 1..Len(out) : <<out[n].id, out[n].framing>> \in U[n]
  BY <1>1 DEF Fits
<1> DEFINE V == U \o <<A>>
<1>3. Len(V) = Len(U) + 1 /\ V[Len(U) + 1] = A /\ \A n \in 1..Len(U) : V[n] = U[n]
  OBVIOUS
<1> HIDE DEF V
<1>4. ASSUME NEW n \in 1..(Len(out) + 1) PROVE <<out'[n].id, out'[n].framing>> \in V[n]
  <2>1. CASE n = Len(out) + 1
    BY <1>1, <1>2, <1>3, <2>1
  <2>2. CASE n # Len(out) + 1
    <3>1. n \in 1..Len(out)
      BY <1>1, <2>2
    <3> QED BY <1>1, <1>2, <1>3, <3>1
  <2> QED BY <2>1, <2>2
<1>5. Fits(out', V)
  BY <1>1, <1>2, <1>3, <1>4 DEF Fits
<1> QED BY <1>5 DEF V

(* Where the reader is in message m, and what has been answered.           *)
Between(m) ==
    /\ m \in 0..Len(sent)
    /\ pos = Stop(sent, m) + 1
    /\ Fits(out, Upto(sent, m))

AtHeaders(m) ==
    /\ m \in 1..Len(sent)
    /\ \/ sent[m].form \in {"frame", "bare", "cut"} /\ headers = {"length"}
       \/ sent[m].form = "no_length" /\ headers = {"header"}
    /\ pos = Before(sent, m) + 2
    /\ Fits(out, Sofar(sent, m))

AtBody(m) ==
    /\ m \in 1..Len(sent)
    /\ sent[m].form \in {"frame", "bare", "cut"}
    /\ pos = Before(sent, m) + 3
    /\ Fits(out, Sofar(sent, m))

AtRequest(m) ==
    /\ m \in 1..Len(sent)
    /\ Carries(sent[m])
    /\ pos = Stop(sent, m) + 1
    /\ request = sent[m].req /\ framing = Framed(sent[m])
    /\ Fits(out, Sofar(sent, m))

Clean == \A i \in DOMAIN sent : sent[i].form \notin {"stray", "colon"}

InStep ==
    Clean =>
        /\ pc = "start" => \E m : Between(m)
        /\ pc = "headers" => \E m : AtHeaders(m)
        /\ pc = "body" => \E m : AtBody(m)
        /\ pc \in {"handle", "rescue"} => \E m : AtRequest(m)
        /\ pc = "eof" => Fits(out, Upto(sent, Len(sent)))

(* Before the first message. *)
LEMMA InStepInit == Init => InStep
<1> SUFFICES ASSUME Init PROVE InStep
    OBVIOUS
<1>1. sent \in Streams /\ pos = 1 /\ pc = "start" /\ out = <<>>
  BY DEF Init
<1>2. Stop(sent, 0) = 0 /\ Upto(sent, 0) = <<>> /\ Len(sent) \in Nat
  BY <1>1, StreamLayout, AnswersLayout
<1>3. Fits(out, <<>>)
  BY <1>1 DEF Fits
<1>4. Between(0)
  BY <1>1, <1>2, <1>3 DEF Between
<1> QED BY <1>1, <1>4 DEF InStep

(* The answer that was written is the answer to message m: the reader is   *)
(* through with it.                                                        *)
LEMMA Answered ==
    ASSUME ServerInv, NEW m \in 1..Len(sent), sent[m].form # "blank", NEW r,
           NEW A, AnswerTo(sent[m]) = <<A>>, <<r.id, r.framing>> \in A,
           Fits(out, Sofar(sent, m)), sent' = sent, out' = Append(out, r),
           pos' = Stop(sent, m) + 1
    PROVE  Between(m)'
<1>1. sent \in Streams /\ out \in Seq(Responses)
  BY DEF ServerInv, TypeOK
<1>2. Sofar(sent, m) \in Seq(Allowed) /\ Upto(sent, m) = Sofar(sent, m) \o <<A>>
  BY <1>1, AnswersLayout
<1>3. Fits(out', Upto(sent, m))
  <2> DEFINE U == Sofar(sent, m)
  <2>1. U \in Seq(Allowed) /\ Fits(out, U)
    BY <1>2
  <2> HIDE DEF U
  <2>2. Fits(out', U \o <<A>>)
    BY <1>1, <2>1, SaidMore
  <2> QED BY <1>2, <2>2 DEF U
<1>4. m \in 0..Len(sent)
  BY <1>1, StreamLayout
<1> QED BY <1>3, <1>4 DEF Between

(* A message that gets no answer. *)
LEMMA NotAnswered ==
    ASSUME ServerInv, NEW m \in 1..Len(sent), Fits(out, Sofar(sent, m)),
           sent' = sent, out' = out,
           sent[m].form = "blank" \/ AnswerTo(sent[m]) = <<>>,
           pos' = Stop(sent, m) + 1
    PROVE  Between(m)'
<1>1. sent \in Streams
  BY DEF ServerInv
<1>2. Upto(sent, m) = Sofar(sent, m) \o <<>> /\ Sofar(sent, m) \in Seq(Allowed)
  BY <1>1, AnswersLayout
<1>3. Fits(out', Upto(sent, m))
  BY <1>2, ConcatEmptySeq
<1>4. m \in 0..Len(sent)
  BY <1>1, StreamLayout
<1> QED BY <1>3, <1>4 DEF Between

(* Between two messages, the next line is the first of the next message.   *)
LEMMA NextMessage ==
    ASSUME ServerInv, NEW m, Between(m), More
    PROVE  /\ m + 1 \in 1..Len(sent) /\ Before(sent, m + 1) = Stop(sent, m)
           /\ Sofar(sent, m + 1) = Upto(sent, m) /\ Written(sent, m + 1)
<1>1. sent \in Streams /\ input = Input(sent) /\ m \in 0..Len(sent) /\ pos = Stop(sent, m) + 1
  BY DEF ServerInv, Between
<1>2. /\ Len(sent) \in Nat /\ Stop(sent, Len(sent)) = Len(input) /\ Stop(sent, m) \in Nat
      /\ Stop(sent, Len(sent)) \in Nat
  <2>1. Len(sent) \in Nat
    BY <1>1, StreamLayout
  <2>2. Len(sent) \in 0..Len(sent)
    BY <2>1
  <2> QED BY <1>1, <2>1, <2>2, StreamLayout
<1>3. m # Len(sent)
  BY <1>1, <1>2 DEF More
<1>4. m + 1 \in 1..Len(sent) /\ (m + 1) - 1 = m
  BY <1>1, <1>2, <1>3
<1> QED BY <1>1, <1>4, MessageAt DEF Before, Sofar

(* At the end of the stream every message has been handled. *)
LEMMA LastMessage ==
    ASSUME ServerInv, NEW m, Between(m), ~More
    PROVE  m = Len(sent)
<1>1. sent \in Streams /\ input = Input(sent) /\ m \in 0..Len(sent) /\ pos = Stop(sent, m) + 1
  BY DEF ServerInv, Between
<1>2. Len(sent) \in Nat
  BY <1>1, StreamLayout
<1> SUFFICES ASSUME m # Len(sent) PROVE FALSE
    OBVIOUS
<1>3. m + 1 \in 1..Len(sent) /\ (m + 1) - 1 = m
  BY <1>1, <1>2
<1>4. /\ Before(sent, m + 1) \in Nat /\ Stop(sent, m + 1) \in 1..Len(input)
      /\ Before(sent, m + 1) < Stop(sent, m + 1)
  BY <1>1, <1>3, MessageAt DEF Written
<1>5. Before(sent, m + 1) = Stop(sent, m)
  BY <1>3 DEF Before
<1>6. input \in Seq(Items)
  BY <1>1, StreamLayout
<1>7. Len(input) \in Nat
  BY <1>6, LenProperties
<1> QED BY <1>1, <1>4, <1>5, <1>7 DEF More

(* A request goes to its handler, or is no UTF-8 and answered at once.     *)
LEMMA AcceptInStep ==
    ASSUME ServerInv, Clean, NEW m \in 1..Len(sent), Carries(sent[m]),
           Accept(sent[m].req, Framed(sent[m])),
           Fits(out, Sofar(sent, m)), pos' = Stop(sent, m) + 1
    PROVE  InStep'
<1>1. sent' = sent
  BY DEF Accept
<1>2. CASE sent[m].req.kind = "undecodable"
  <2>1. /\ out' = Append(out, Response(NoId, "rpc_error", "line")) /\ pc' = "start"
    BY <1>2 DEF Accept, FramingError
  <2>2. AnswerTo(sent[m]) = <<{NoId} \X Framings>>
    BY <1>2 DEF AnswerTo
  <2>3. sent[m].form # "blank"
    BY DEF Carries
  <2>4. LET e == Response(NoId, "rpc_error", "line")
        IN  <<e.id, e.framing>> \in {NoId} \X Framings
    BY DEF Response, Framings
  <2>5. Between(m)'
    BY <1>1, <2>1, <2>2, <2>3, <2>4, Answered
  <2> QED BY <2>1, <2>5 DEF InStep
<1>3. CASE sent[m].req.kind # "undecodable"
  <2>1. /\ request' = sent[m].req /\ framing' = Framed(sent[m]) /\ pc' = "handle"
        /\ out' = out
    BY <1>3 DEF Accept
  <2>2. AtRequest(m)'
    BY <1>1, <2>1 DEF AtRequest
  <2> QED BY <2>1, <2>2 DEF InStep
<1> QED BY <1>2, <1>3

(* On a well-formed stream the reader stays in step. *)
LEMMA ReaderInStep ==
    ASSUME ServerInv, InStep, Clean, Reader
    PROVE  InStep'
<1>0. sent \in Streams /\ input = Input(sent)
  BY DEF ServerInv
<1>1. DOMAIN sent = 1..Len(sent) /\ Len(sent) \in Nat
  BY <1>0, StreamLayout
<1>2. \A i \in 1..Len(sent) : sent[i].form \notin {"stray", "colon"}
  BY <1>1 DEF Clean
<1>3. ASSUME NEW m, pc = "start", Between(m), More
      PROVE  LET n == m + 1
             IN  /\ n \in 1..Len(sent) /\ Fits(out, Sofar(sent, n))
                 /\ Before(sent, n) \in Nat
                 /\ pos = Before(sent, n) + 1
                 /\ \/ sent[n].form = "line" /\ input[pos] = Item("json", sent[n].req)
                       /\ Stop(sent, n) = pos
                    \/ sent[n].form \in {"frame", "bare", "cut"} /\ input[pos] = Sep("length")
                    \/ sent[n].form = "no_length" /\ input[pos] = Sep("header")
                    \/ sent[n].form = "blank" /\ input[pos] = Sep("blank")
                       /\ Stop(sent, n) = pos
  <2> DEFINE n == m + 1
  <2>1. /\ n \in 1..Len(sent) /\ Before(sent, n) = Stop(sent, m)
        /\ Sofar(sent, n) = Upto(sent, m) /\ Written(sent, n)
    BY <1>3, NextMessage
  <2>2. pos = Stop(sent, m) + 1 /\ Fits(out, Upto(sent, m))
    BY <1>3 DEF Between
  <2> HIDE DEF n
  <2>3. sent[n].form \in Forms
    BY <2>1 DEF Written, Messages
  <2>4. sent[n].form \notin {"stray", "colon"}
    BY <1>2, <2>1
  <2> QED BY <1>0, <2>1, <2>2, <2>3, <2>4 DEF Written, Forms, n
<1>4. CASE EndOfInput
  <2>1. pc = "start" /\ pc' = "eof" /\ ~More /\ out' = out /\ sent' = sent
    BY <1>4 DEF EndOfInput, readerVars
  <2>2. PICK m : Between(m)
    BY <2>1 DEF InStep
  <2>3. m = Len(sent)
    BY <2>1, <2>2, LastMessage
  <2>4. Fits(out', Upto(sent, Len(sent)))
    BY <2>1, <2>2, <2>3 DEF Between
  <2> QED BY <2>1, <2>4 DEF InStep
<1>5. CASE SkipBlank
  <2>1. /\ pc = "start" /\ pc' = "start" /\ More /\ input[pos].type = "blank"
        /\ pos' = pos + 1 /\ out' = out /\ sent' = sent
    BY <1>5 DEF SkipBlank, At, Skip
  <2>2. PICK m : Between(m)
    BY <2>1 DEF InStep
  <2> DEFINE n == m + 1
  <2>3. n \in 1..Len(sent) /\ Fits(out, Sofar(sent, n)) /\ sent[n].form = "blank"
        /\ Stop(sent, n) = pos
    BY <1>3, <2>1, <2>2, TypesOfItems
  <2>4. Between(n)'
    BY <2>1, <2>3, NotAnswered
  <2> QED BY <2>1, <2>4 DEF InStep
<1>6. CASE JsonLine
  <2>1. /\ pc = "start" /\ More /\ input[pos].type = "json" /\ pos' = pos + 1
        /\ Accept(input[pos].req, "line")
    BY <1>6 DEF JsonLine, At, Skip
  <2>2. PICK m : Between(m)
    BY <2>1 DEF InStep
  <2> DEFINE n == m + 1
  <2>3. n \in 1..Len(sent) /\ Fits(out, Sofar(sent, n)) /\ sent[n].form = "line"
        /\ Stop(sent, n) = pos /\ input[pos].req = sent[n].req
    BY <1>3, <2>1, <2>2, TypesOfItems
  <2>4. Carries(sent[n]) /\ Framed(sent[n]) = "line"
    BY <2>3 DEF Carries, Framed
  <2> HIDE DEF n
  <2> QED BY <2>1, <2>3, <2>4, AcceptInStep
<1>7. CASE BodyAsLine \/ BodyOpensHeaders
  <2>1. pc = "start" /\ More /\ input[pos].type \in {"body", "bare"}
    BY <1>7 DEF BodyAsLine, BodyOpensHeaders, At
  <2>2. PICK m : Between(m)
    BY <2>1 DEF InStep
  <2>3. FALSE
    BY <1>3, <2>1, <2>2, TypesOfItems
  <2> QED BY <2>3
<1>8. CASE OpenHeaders
  <2>1. /\ pc = "start" /\ More /\ input[pos].type \in {"length", "header", "stray"}
        /\ pos' = pos + 1 /\ headers' = {input[pos].type} /\ pc' = "headers"
        /\ out' = out /\ sent' = sent
    BY <1>8 DEF OpenHeaders, Skip
  <2>2. PICK m : Between(m)
    BY <2>1 DEF InStep
  <2> DEFINE n == m + 1
  <2>3. /\ n \in 1..Len(sent) /\ Fits(out, Sofar(sent, n)) /\ Before(sent, n) \in Nat
        /\ pos = Before(sent, n) + 1
        /\ \/ sent[n].form \in {"frame", "bare", "cut"} /\ input[pos].type = "length"
           \/ sent[n].form = "no_length" /\ input[pos].type = "header"
    BY <1>3, <2>1, <2>2, TypesOfItems
  <2> HIDE DEF n
  <2>4. pos' = Before(sent, n) + 2
    BY <2>1, <2>3
  <2>5. AtHeaders(n)'
    BY <2>1, <2>3, <2>4 DEF AtHeaders
  <2> QED BY <2>1, <2>5 DEF InStep
<1>9. ASSUME NEW m, AtHeaders(m)
      PROVE  /\ m \in 1..Len(sent) /\ More /\ input[pos].type = "blank"
             /\ Before(sent, m) \in Nat
             /\ sent[m].form \in {"cut", "no_length"} => Stop(sent, m) = pos
  <2>1. Written(sent, m) /\ m \in 1..Len(sent) /\ pos = Before(sent, m) + 2
        /\ sent[m].form \in {"frame", "bare", "cut", "no_length"}
    BY <1>0, <1>9, MessageAt DEF AtHeaders
  <2>2. Before(sent, m) \in Nat /\ Stop(sent, m) \in 1..Len(input)
    BY <1>0, <2>1 DEF Written
  <2>3. Len(input) \in Nat
    <3>1. input \in Seq(Items)
      BY <1>0, StreamLayout
    <3> QED BY <3>1, LenProperties
  <2>4. input[pos] = Sep("blank") /\ pos <= Stop(sent, m)
        /\ (sent[m].form \in {"cut", "no_length"} => Stop(sent, m) = pos)
    BY <1>0, <2>1, <2>2 DEF Written
  <2> QED BY <2>1, <2>2, <2>3, <2>4, TypesOfItems DEF More
<1>10. CASE HeaderLine
  <2>1. pc = "headers" /\ input[pos].type # "blank" /\ More
    BY <1>10 DEF HeaderLine, At
  <2>2. PICK m : AtHeaders(m)
    BY <2>1 DEF InStep
  <2> QED BY <1>9, <2>1, <2>2
<1>11. CASE EndHeaders
  <2>1. /\ pc = "headers" /\ pos' = pos + 1
        /\ UNCHANGED <<sent, input, headers, request, framing>>
    BY <1>11 DEF EndHeaders, Skip
  <2>2. PICK m : AtHeaders(m)
    BY <2>1 DEF InStep
  <2>3. /\ m \in 1..Len(sent) /\ Fits(out, Sofar(sent, m)) /\ Before(sent, m) \in Nat
        /\ pos = Before(sent, m) + 2
        /\ \/ sent[m].form \in {"frame", "bare", "cut"} /\ headers = {"length"}
           \/ sent[m].form = "no_length" /\ headers = {"header"} /\ Stop(sent, m) = pos
    BY <1>9, <2>2 DEF AtHeaders
  <2>4. CASE sent[m].form \in {"frame", "bare", "cut"} /\ headers = {"length"}
    <3>1. pc' = "body" /\ out' = out
      BY <1>11, <2>4 DEF EndHeaders
    <3>2. pos' = Before(sent, m) + 3
      BY <2>1, <2>3
    <3>3. AtBody(m)'
      BY <2>1, <2>3, <2>4, <3>1, <3>2 DEF AtBody
    <3> QED BY <3>1, <3>3 DEF InStep
  <2>5. CASE sent[m].form = "no_length" /\ headers = {"header"} /\ Stop(sent, m) = pos
    <3>1. out' = Append(out, Response(NoId, "rpc_error", "line")) /\ pc' = "start"
      BY <1>11, <2>5 DEF EndHeaders, FramingError
    <3>2. AnswerTo(sent[m]) = <<{NoId} \X Framings>>
      BY <2>5 DEF AnswerTo
    <3>3. LET e == Response(NoId, "rpc_error", "line")
          IN  <<e.id, e.framing>> \in {NoId} \X Framings
      BY DEF Response, Framings
    <3>4. Between(m)'
      BY <2>1, <2>3, <2>5, <3>1, <3>2, <3>3, Answered
    <3> QED BY <3>1, <3>4 DEF InStep
  <2> QED BY <2>3, <2>4, <2>5
<1>12. ASSUME NEW m, AtBody(m)
       PROVE  /\ m \in 1..Len(sent) /\ Fits(out, Sofar(sent, m))
              /\ sent[m].form \in {"frame", "bare"} =>
                     /\ More /\ Stop(sent, m) = pos /\ input[pos].req = sent[m].req
              /\ sent[m].form = "cut" => Stop(sent, m) + 1 = pos
  <2>1. Written(sent, m) /\ m \in 1..Len(sent) /\ pos = Before(sent, m) + 3
        /\ Fits(out, Sofar(sent, m))
    BY <1>0, <1>12, MessageAt DEF AtBody
  <2>2. Before(sent, m) \in Nat /\ Stop(sent, m) \in 1..Len(input)
    BY <1>0, <2>1 DEF Written
  <2>3. Len(input) \in Nat
    <3>1. input \in Seq(Items)
      BY <1>0, StreamLayout
    <3> QED BY <3>1, LenProperties
  <2>4. /\ sent[m].form \in {"frame", "bare"} =>
               /\ Stop(sent, m) = pos
               /\ \E t \in {"body", "bare"} : input[pos] = Item(t, sent[m].req)
        /\ sent[m].form = "cut" => Stop(sent, m) + 1 = pos
    BY <1>0, <2>1, <2>2 DEF Written
  <2> QED BY <2>1, <2>2, <2>3, <2>4, TypesOfItems DEF More
<1>13. CASE ReadBody
  <2>1. /\ pc = "body" /\ More /\ input[pos].type \in {"body", "bare"} /\ pos' = pos + 1
        /\ Accept(input[pos].req, "content-length")
    BY <1>13 DEF ReadBody, At, Skip
  <2>2. PICK m : AtBody(m)
    BY <2>1 DEF InStep
  <2>3. m \in 1..Len(sent) /\ Fits(out, Sofar(sent, m))
    BY <1>12, <2>2
  <2>4. CASE sent[m].form \in {"frame", "bare"}
    <3>1. Stop(sent, m) = pos /\ input[pos].req = sent[m].req
      BY <1>12, <2>2, <2>4
    <3>2. Carries(sent[m]) /\ Framed(sent[m]) = "content-length"
      BY <2>4 DEF Carries, Framed
    <3> QED BY <2>1, <2>3, <3>1, <3>2, AcceptInStep
  <2>5. CASE sent[m].form = "cut"
    <3>1. PICK i \in 1..Len(sent) : ItemOf(sent, i, pos)
      BY <2>1, Current
    <3>2. /\ sent[i].form \in {"frame", "bare"} /\ pos = Stop(sent, i) /\ Before(sent, i) < pos
      BY <1>0, <2>1, <3>1 DEF ItemOf
    <3>3. Written(sent, i) /\ Written(sent, m)
      BY <1>0, <2>3, MessageAt
    <3>4. Before(sent, i) + 3 = pos /\ Stop(sent, m) + 1 = pos /\ Before(sent, i) \in Nat
          /\ Before(sent, m) \in Nat /\ Stop(sent, m) = Before(sent, m) + 2
      BY <1>0, <1>12, <2>2, <2>5, <3>2, <3>3 DEF Written
    <3>5. i = m
      <4>1. pos - 1 \in Nat /\ Before(sent, i) < pos - 1 /\ pos - 1 <= Stop(sent, i)
            /\ Before(sent, m) < pos - 1 /\ pos - 1 <= Stop(sent, m)
        BY <3>2, <3>4
      <4> QED BY <1>0, <2>3, <4>1, OneMessage
    <3> QED BY <2>5, <3>2, <3>5
  <2> QED BY <2>2, <2>4, <2>5 DEF AtBody
<1>14. CASE CutShort
  <2>1. /\ pc \in {"headers", "body"} /\ ~More /\ FramingError
        /\ pos' = pos /\ sent' = sent
    BY <1>14 DEF CutShort, readerVars
  <2>2. CASE pc = "headers"
    <3>1. PICK m : AtHeaders(m)
      BY <2>2 DEF InStep
    <3> QED BY <1>9, <2>1, <3>1
  <2>3. CASE pc = "body"
    <3>1. PICK m : AtBody(m)
      BY <2>3 DEF InStep
    <3>2. m \in 1..Len(sent) /\ Fits(out, Sofar(sent, m)) /\ sent[m].form = "cut"
          /\ Stop(sent, m) + 1 = pos
      BY <1>12, <2>1, <3>1 DEF AtBody
    <3>3. out' = Append(out, Response(NoId, "rpc_error", "line")) /\ pc' = "start"
      BY <2>1 DEF FramingError
    <3>4. AnswerTo(sent[m]) = <<{NoId} \X Framings>> /\ sent[m].form # "blank"
      BY <3>2 DEF AnswerTo
    <3>5. LET e == Response(NoId, "rpc_error", "line")
          IN  <<e.id, e.framing>> \in {NoId} \X Framings
      BY DEF Response, Framings
    <3>6. Between(m)'
      BY <2>1, <3>2, <3>3, <3>4, <3>5, Answered
    <3> QED BY <3>3, <3>6 DEF InStep
  <2> QED BY <2>1, <2>2, <2>3
<1> QED BY <1>4, <1>5, <1>6, <1>7, <1>8, <1>10, <1>11, <1>13, <1>14 DEF Reader

(* A handler gives the expected answer. *)
LEMMA HandlerInStep ==
    ASSUME ServerInv, InStep, Clean, Handler
    PROVE  InStep'
<1>0. sent \in Streams /\ pc \in {"handle", "rescue"}
  BY DEF ServerInv, Handler, Handling, Unparsable, NoObject, Refuse, Initialized, Method,
         BadCall, Call, Rescue
<1>1. PICK m : AtRequest(m)
  BY <1>0 DEF InStep
<1>2. /\ m \in 1..Len(sent) /\ Carries(sent[m]) /\ pos = Stop(sent, m) + 1
      /\ request = sent[m].req /\ framing = Framed(sent[m]) /\ Fits(out, Sofar(sent, m))
  BY <1>1 DEF AtRequest
<1>3. UNCHANGED readerVars
  BY DEF Handler, Handling, Unparsable, NoObject, Refuse, Initialized, Method,
         BadCall, Call, Rescue
<1>4. sent' = sent /\ pos' = pos /\ request' = request /\ framing' = framing
  BY <1>3 DEF readerVars
<1>5. sent[m].form \notin {"cut", "no_length", "blank"}
  BY <1>2 DEF Carries
<1>6. ASSUME NEW id, NEW kind, Respond(id, kind), AnswerTo(sent[m]) = <<{<<id, Framed(sent[m])>>}>>
      PROVE  InStep'
  <2>1. out' = Append(out, Response(id, kind, framing)) /\ pc' = "start"
    BY <1>6 DEF Respond, Mirrored
  <2>2. LET e == Response(id, kind, framing)
        IN  <<e.id, e.framing>> \in {<<id, Framed(sent[m])>>}
    BY <1>2 DEF Response
  <2>3. Between(m)'
    BY <1>2, <1>4, <1>5, <1>6, <2>1, <2>2, Answered
  <2> QED BY <2>1, <2>3 DEF InStep
<1>7. ASSUME out' = out, pc' \in {"rescue", "dead"}
      PROVE  InStep'
  <2>1. AtRequest(m)'
    BY <1>2, <1>4, <1>7 DEF AtRequest
  <2> QED BY <1>7, <2>1 DEF InStep
<1>8. CASE Unparsable
  <2>1. AnswerTo(sent[m]) = <<{<<NoId, Framed(sent[m])>>}>>
    BY <1>2, <1>5, <1>8 DEF Unparsable, Handling, AnswerTo
  <2> QED BY <1>6, <1>7, <1>8, <2>1 DEF Unparsable
<1>9. CASE NoObject
  <2>1. AnswerTo(sent[m]) = <<{<<NoId, Framed(sent[m])>>}>>
    BY <1>2, <1>5, <1>9 DEF NoObject, Handling, AnswerTo
  <2> QED BY <1>6, <1>9, <2>1 DEF NoObject
<1>10. ASSUME request.kind \in {"refused", "method", "bad_call", "call"}
       PROVE  AnswerTo(sent[m]) = <<{<<request.id, Framed(sent[m])>>}>>
  BY <1>2, <1>5, <1>10 DEF AnswerTo
<1>11. CASE Refuse
  BY <1>6, <1>10, <1>11 DEF Refuse, Handling
<1>12. CASE Initialized
  <2>1. pc' = "start" /\ out' = out /\ AnswerTo(sent[m]) = <<>>
    BY <1>2, <1>5, <1>12 DEF Initialized, Handling, AnswerTo
  <2>2. Between(m)'
    BY <1>2, <1>4, <2>1, NotAnswered
  <2> QED BY <2>1, <2>2 DEF InStep
<1>13. CASE Method
  BY <1>6, <1>10, <1>13 DEF Method, Handling
<1>14. CASE BadCall
  BY <1>6, <1>10, <1>14 DEF BadCall, Handling
<1>15. ASSUME NEW o \in Outcomes, Call(o) PROVE InStep'
  BY <1>6, <1>7, <1>10, <1>15 DEF Call, Handling
<1>16. CASE Rescue
  <2>1. request.kind = "call"
    BY <1>16 DEF ServerInv, InHandler, Rescue
  <2> QED BY <1>6, <1>10, <1>16, <2>1 DEF Rescue
<1> QED BY <1>8, <1>9, <1>11, <1>12, <1>13, <1>14, <1>15, <1>16 DEF Handler

(* Every step stays in step. *)
LEMMA InStepStep == ServerInv /\ InStep /\ [Next]_vars => InStep'
<1> SUFFICES ASSUME ServerInv, InStep, [Next]_vars PROVE InStep'
    OBVIOUS
<1>1. CASE UNCHANGED vars
  BY <1>1 DEF vars, InStep, Clean, Between, AtHeaders, AtBody, AtRequest
<1>2. CASE Next /\ Clean
  BY <1>2, ReaderInStep, HandlerInStep DEF Next
<1>3. CASE Next /\ ~Clean
  <2>1. sent' = sent
    BY <1>3 DEF Next, Reader, Handler, Handling, Unparsable, NoObject, Refuse, Initialized,
         Method, BadCall, Call, Rescue, readerVars, EndOfInput, SkipBlank, JsonLine,
         BodyAsLine, BodyOpensHeaders, OpenHeaders, HeaderLine, EndHeaders, ReadBody, CutShort, Accept
  <2> QED BY <1>3, <2>1 DEF InStep, Clean
<1> QED BY <1>1, <1>2, <1>3

(* The reader is in step throughout. *)
LEMMA InStepCorrect == Spec => []InStep
BY ServerCorrect, InStepInit, InStepStep, PTL DEF Spec

-----------------------------------------------------------------------------
(* The reader's position stays within the stream, its variables keep their *)
(* sets, and the telemetry file's buffer holds nothing before the first    *)
(* failed flush, for every stream (serve_stdio, Telemetry.emit).           *)
THEOREM ServerTypes == Spec => []TypeOK
<1>1. ServerInv => TypeOK
  BY DEF ServerInv
<1> QED BY <1>1, ServerCorrect, PTL

(* However many telemetry writes fail, and wherever, the server dies of    *)
(* none but the one for a line that is no JSON: the try blocks of          *)
(* _dispatch_tool_call and handle_request take every other OSError.        *)
THEOREM FaultsAreCaught == Spec => []FaultsDoNotKill
<1>1. ServerInv => FaultsDoNotKill
  BY DEF ServerInv
<1> QED BY <1>1, ServerCorrect, PTL

(* At the end of a stream of well-formed messages of any length, what was  *)
(* written is the answers to them in order: to a request that was read,    *)
(* with its id and in its framing, to a message no request was made of,    *)
(* with the id null in either (serve_stdio, _read_stdio_request).          *)
THEOREM CleanStreamsAnswered == Spec => []CleanStreamAnswered
<1>1. ASSUME ServerInv, InStep PROVE CleanStreamAnswered
  <2>1. Expected = FlattenSeq(AnswerParts(sent))
    BY DEF Expected, AnswerParts
  <2>2. SUFFICES ASSUME pc = "eof", Clean
                 PROVE  Fits(out, FlattenSeq(AnswerParts(sent)))
    BY <2>1 DEF CleanStreamAnswered, Fits, Clean
  <2>3. Fits(out, Upto(sent, Len(sent)))
    BY <1>1, <2>2 DEF InStep
  <2> QED BY <1>1, <2>3, AnswersLayout DEF ServerInv
<1> QED BY <1>1, ServerCorrect, InStepCorrect, PTL

-----------------------------------------------------------------------------
(* One request among the others: what was said and recorded of it.         *)

(* One more entry, of this id or of another. *)
LEMMA OneMore ==
    ASSUME NEW S, NEW s \in Seq(S), NEW x, NEW id
    PROVE  LET t == Append(s, x)
           IN  /\ Len(s) + 1 \in DOMAIN t /\ t[Len(s) + 1] = x
               /\ x.id = id /\ Without(s, id) => Only(t, Len(s) + 1, id)
               /\ x.id # id /\ Without(s, id) => Without(t, id)
               /\ x.id # id => \A n \in DOMAIN s :
                     n \in DOMAIN t /\ t[n] = s[n] /\ (Only(s, n, id) => Only(t, n, id))
<1> DEFINE t == Append(s, x)
<1>1. /\ Len(s) \in Nat /\ DOMAIN s = 1..Len(s) /\ DOMAIN t = 1..(Len(s) + 1)
      /\ \A n \in 1..Len(s) : t[n] = s[n]
      /\ t[Len(s) + 1] = x
  BY LenProperties
<1> HIDE DEF t
<1>2. ASSUME x.id = id, Without(s, id) PROVE Only(t, Len(s) + 1, id)
  BY <1>1, <1>2 DEF Without, Only
<1>3. ASSUME x.id # id, Without(s, id) PROVE Without(t, id)
  BY <1>1, <1>3 DEF Without
<1>4. ASSUME x.id # id, NEW n \in DOMAIN s
      PROVE  n \in DOMAIN t /\ t[n] = s[n] /\ (Only(s, n, id) => Only(t, n, id))
  BY <1>1, <1>4 DEF Only
<1> QED BY <1>1, <1>2, <1>3, <1>4 DEF t

(* A step that says and, on a healthy disk, records nothing of this id. *)
Apart(id) ==
    /\ \/ out' = out
       \/ \E x : out' = Append(out, x) /\ x.id # id
    /\ faults' = 0 => /\ faults = 0
                      /\ \/ log' = log
                         \/ \E x : log' = Append(log, x) /\ x.id # id

Quiet(id) == Without(out, id) /\ (faults = 0 => Without(log, id))

(* What such a step leaves of the answers, *)
LEMMA AnswersKept ==
    ASSUME ServerInv, NEW id, Apart(id)
    PROVE  /\ Without(out, id) => Without(out, id)'
           /\ OneLine(id) => OneLine(id)'
           /\ \A kind : OneAnswer(id, kind) => OneAnswer(id, kind)'
<1>1. out \in Seq(Responses)
  BY DEF ServerInv, TypeOK
<1>2. CASE out' = out
  BY <1>2 DEF Without, OneLine, OneAnswer, Only
<1>3. ASSUME NEW x, out' = Append(out, x), x.id # id
      PROVE  /\ Without(out, id) => Without(out', id)
             /\ \A n \in DOMAIN out :
                  n \in DOMAIN out' /\ out'[n] = out[n] /\ (Only(out, n, id) => Only(out', n, id))
  <2>1. /\ Without(out, id) => Without(Append(out, x), id)
        /\ \A n \in DOMAIN out :
             /\ n \in DOMAIN Append(out, x) /\ Append(out, x)[n] = out[n]
             /\ Only(out, n, id) => Only(Append(out, x), n, id)
    BY <1>1, <1>3, OneMore
  <2> QED BY <1>3, <2>1
<1>4. CASE \E x : out' = Append(out, x) /\ x.id # id
  <2>1. PICK x : out' = Append(out, x) /\ x.id # id
    BY <1>4
  <2>2. /\ Without(out, id) => Without(out', id)
        /\ \A n \in DOMAIN out :
             n \in DOMAIN out' /\ out'[n] = out[n] /\ (Only(out, n, id) => Only(out', n, id))
    BY <1>3, <2>1
  <2>3. OneLine(id) => OneLine(id)'
    BY <2>2 DEF OneLine
  <2>4. ASSUME NEW kind, OneAnswer(id, kind) PROVE OneAnswer(id, kind)'
    BY <2>2, <2>4 DEF OneAnswer
  <2> QED BY <2>2, <2>3, <2>4
<1> QED BY <1>2, <1>4 DEF Apart

(* of the records, *)
LEMMA RecordsKept ==
    ASSUME ServerInv, NEW id, Apart(id), faults' = 0
    PROVE  /\ faults = 0
           /\ Without(log, id) => Without(log, id)'
           /\ \A status : OneRecord(id, status) => OneRecord(id, status)'
<1>1. log \in Seq(Records) /\ faults = 0
  BY DEF ServerInv, TypeOK, Apart
<1>2. CASE log' = log
  BY <1>1, <1>2 DEF Without, OneRecord, Only
<1>3. ASSUME NEW x, log' = Append(log, x), x.id # id
      PROVE  /\ Without(log, id) => Without(log', id)
             /\ \A n \in DOMAIN log :
                  n \in DOMAIN log' /\ log'[n] = log[n] /\ (Only(log, n, id) => Only(log', n, id))
  <2>1. /\ Without(log, id) => Without(Append(log, x), id)
        /\ \A n \in DOMAIN log :
             /\ n \in DOMAIN Append(log, x) /\ Append(log, x)[n] = log[n]
             /\ Only(log, n, id) => Only(Append(log, x), n, id)
    BY <1>1, <1>3, OneMore
  <2> QED BY <1>3, <2>1
<1>4. CASE \E x : log' = Append(log, x) /\ x.id # id
  <2>1. PICK x : log' = Append(log, x) /\ x.id # id
    BY <1>4
  <2>2. /\ Without(log, id) => Without(log', id)
        /\ \A n \in DOMAIN log :
             n \in DOMAIN log' /\ log'[n] = log[n] /\ (Only(log, n, id) => Only(log', n, id))
    BY <1>3, <2>1
  <2>3. ASSUME NEW status, OneRecord(id, status) PROVE OneRecord(id, status)'
    BY <2>2, <2>3 DEF OneRecord
  <2> QED BY <1>1, <2>2, <2>3
<1> QED BY <1>2, <1>4 DEF Apart

(* and of the two together. *)
LEMMA StoryKept ==
    ASSUME ServerInv, NEW req, Apart(req.id), faults' = 0, Untold(req.id) \/ Story(req)
    PROVE  Untold(req.id)' \/ Story(req)'
<1> DEFINE id == req.id
<1>1. /\ Without(out, id) => Without(out, id)'
      /\ \A kind : OneAnswer(id, kind) => OneAnswer(id, kind)'
  BY AnswersKept
<1>2. /\ Without(log, id) => Without(log, id)'
      /\ \A status : OneRecord(id, status) => OneRecord(id, status)'
  BY RecordsKept
<1> HIDE DEF id
<1>3. \A status, kind : Both(id, status, kind) => Both(id, status, kind)'
  BY <1>1, <1>2 DEF Both
<1>4. Untold(id) => Untold(id)'
  BY <1>1, <1>2 DEF Untold
<1>5. CASE Story(req)
  <2>1. CASE req.kind = "call"
    BY <1>3, <1>5, <2>1 DEF Story, id
  <2>2. CASE req.kind = "bad_call"
    BY <1>3, <1>5, <2>2 DEF Story, id
  <2>3. CASE req.kind = "unparsable"
    BY <1>1, <1>2, <1>5, <2>3 DEF Story, id
  <2>4. CASE req.kind \notin {"call", "bad_call", "unparsable"}
    BY <1>2, <1>5, <2>4 DEF Story, id
  <2> QED BY <2>1, <2>2, <2>3, <2>4
<1> QED BY <1>4, <1>5 DEF id

(* An id nothing is said of stays so. *)
LEMMA QuietKept ==
    ASSUME ServerInv, NEW id, Apart(id), Quiet(id)
    PROVE  Quiet(id)'
BY AnswersKept, RecordsKept DEF Quiet

(* On a healthy disk a record goes straight to the file. *)
LEMMA Healthy ==
    ASSUME ServerInv, NEW status
    PROVE  /\ Recorded(status) /\ faults' = 0 =>
                  faults = 0 /\ log' = Append(log, Record(status))
           /\ Unrecorded(status) => faults' # 0
<1>1. /\ log \in Seq(Records) /\ faults \in 0..MaxFaults /\ (faults = 0 => buffer = <<>>)
  BY DEF ServerInv, TypeOK
<1>2. log \o <<>> = log
  BY <1>1, ConcatEmptySeq
<1>3. log \o <<Record(status)>> = Append(log, Record(status))
  BY <1>1
<1>4. ASSUME Recorded(status), faults' = 0
      PROVE  faults = 0 /\ log' = Append(log, Record(status))
  BY <1>1, <1>2, <1>3, <1>4 DEF Recorded
<1>5. ASSUME Unrecorded(status) PROVE faults' # 0
  BY <1>1, <1>5, MaxFaultsAssumption DEF Unrecorded
<1> QED BY <1>4, <1>5

(* The reader answers no request of its own: its errors have the id null. *)
LEMMA ReaderApart ==
    ASSUME ServerInv, Reader, NEW id \in Ids
    PROVE  Apart(id) /\ pc \in {"start", "headers", "body"} /\ sent' = sent
<1>0. id # NoId
  BY StreamsAssumption
<1>1. ASSUME FramingError PROVE Apart(id)
  BY <1>0, <1>1 DEF FramingError, Apart, Response, diskVars
<1>2. ASSUME UNCHANGED <<out, log, faults>> PROVE Apart(id)
  BY <1>2 DEF Apart
<1>3. ASSUME NEW req, NEW frame, Accept(req, frame) PROVE Apart(id) /\ sent' = sent
  BY <1>1, <1>2, <1>3 DEF Accept, diskVars
<1>4. CASE EndOfInput
  <2>1. /\ pc = "start" /\ out' = out /\ faults' = faults /\ sent' = sent
        /\ log' = log \o buffer \/ log' = log
    BY <1>4 DEF EndOfInput, readerVars
  <2>2. log \o <<>> = log /\ (faults = 0 => buffer = <<>>)
    BY ConcatEmptySeq DEF ServerInv, TypeOK
  <2> QED BY <2>1, <2>2 DEF Apart
<1>5. CASE SkipBlank
  BY <1>2, <1>5 DEF SkipBlank, diskVars
<1>6. CASE JsonLine
  BY <1>3, <1>6 DEF JsonLine
<1>7. CASE BodyAsLine
  BY <1>3, <1>7 DEF BodyAsLine
<1>8. CASE BodyOpensHeaders
  BY <1>2, <1>8 DEF BodyOpensHeaders, diskVars
<1>9. CASE OpenHeaders
  BY <1>2, <1>9 DEF OpenHeaders, diskVars
<1>10. CASE HeaderLine
  BY <1>2, <1>10 DEF HeaderLine, diskVars
<1>11. CASE EndHeaders
  BY <1>1, <1>2, <1>11 DEF EndHeaders, diskVars
<1>12. CASE ReadBody
  BY <1>3, <1>12 DEF ReadBody
<1>13. CASE CutShort
  BY <1>1, <1>13 DEF CutShort, readerVars
<1> QED BY <1>4, <1>5, <1>6, <1>7, <1>8, <1>9, <1>10, <1>11, <1>12, <1>13 DEF Reader

(* The client has sent what it has sent. *)
LEMMA ReaderSent == Reader => sent' = sent
BY DEF Reader, readerVars, EndOfInput, SkipBlank, JsonLine, BodyAsLine, BodyOpensHeaders,
       OpenHeaders, HeaderLine, EndHeaders, ReadBody, CutShort, Accept

(* A handler moves nothing of the reader's. *)
LEMMA HandlerUnchanged ==
    ASSUME Handler
    PROVE  /\ pc \in {"handle", "rescue"} /\ sent' = sent /\ input' = input /\ pos' = pos
           /\ request' = request /\ framing' = framing
<1>1. UNCHANGED readerVars /\ pc \in {"handle", "rescue"}
  BY DEF Handler, Handling, Unparsable, NoObject, Refuse, Initialized, Method, BadCall,
         Call, Rescue
<1> QED BY <1>1 DEF readerVars

(* What a handler does, in three parts: the answer, the record, where the  *)
(* server thread goes.                                                     *)
Wrote(id, kind) == out' = Append(out, Response(id, kind, framing)) /\ pc' = "start"

(* Every handler writes at most one record and one answer. *)
LEMMA HandlerEffects ==
    ASSUME Handler
    PROVE  /\ \/ UNCHANGED diskVars
              \/ \E status : Recorded(status) \/ Unrecorded(status)
           /\ \/ out' = out
              \/ \E kind : Wrote(NoId, kind) \/ Wrote(request.id, kind)
BY DEF Handler, Handling, Unparsable, NoObject, Refuse, Initialized, Method, BadCall,
       Call, Rescue, Respond, Mirrored, Wrote

(* A handler says nothing of other requests. *)
LEMMA HandlerApart ==
    ASSUME ServerInv, Handler, NEW id \in Ids, request.id # id
    PROVE  Apart(id)
<1>0. id # NoId
  BY StreamsAssumption
<1>1. \/ out' = out
      \/ \E x : out' = Append(out, x) /\ x.id # id
  <2>1. ASSUME NEW i \in {NoId, request.id}, NEW kind, Wrote(i, kind)
        PROVE  out' = Append(out, Response(i, kind, framing))
               /\ Response(i, kind, framing).id # id
    BY <1>0, <2>1 DEF Wrote, Response
  <2> QED BY <2>1, HandlerEffects
<1>2. faults' = 0 => /\ faults = 0
                     /\ log' = log \/ \E x : log' = Append(log, x) /\ x.id # id
  <2>1. ASSUME NEW status, Recorded(status) \/ Unrecorded(status), faults' = 0
        PROVE  faults = 0 /\ log' = Append(log, Record(status)) /\ Record(status).id # id
    BY <2>1, Healthy DEF Record
  <2>2. CASE UNCHANGED diskVars
    BY <2>2 DEF diskVars
  <2> QED BY <2>1, <2>2, HandlerEffects
<1> QED BY <1>1, <1>2 DEF Apart

(* A request the reader hands over is that of the message whose last line  *)
(* it has just read, or none a client sent.                                *)
LEMMA HandedOver ==
    ASSUME ServerInv, Reader
    PROVE  /\ pos' >= pos
           /\ pc' \in {"handle", "rescue"} =>
                 \/ request'.id = NoId
                 \/ \E k \in 1..Len(sent) :
                       /\ Carries(sent[k]) /\ pos = Stop(sent, k) /\ pos' > pos
                       /\ request' = sent[k].req
<1>0. pos \in Nat /\ input = Input(sent)
  <2>1. pos \in 1..(Len(input) + 1)
    BY DEF ServerInv, TypeOK
  <2> QED BY <2>1 DEF ServerInv
<1>1. ASSUME More, input[pos].type \in {"json", "body", "bare"}
      PROVE  \E k \in 1..Len(sent) : /\ Carries(sent[k]) /\ pos = Stop(sent, k)
                                     /\ input[pos].req = sent[k].req
  <2>1. PICK k \in 1..Len(sent) : ItemOf(sent, k, pos)
    BY <1>1, Current
  <2>2. Carries(sent[k])
    BY <1>0, <1>1, <2>1 DEF ItemOf, Carries
  <2> QED BY <1>0, <1>1, <2>1, <2>2 DEF ItemOf
<1>2. ASSUME NEW req, NEW frame, Accept(req, frame), pc' \in {"handle", "rescue"}
      PROVE  request' = req
  BY <1>2 DEF Accept, FramingError
<1>3. ASSUME FramingError PROVE pc' = "start"
  BY <1>3 DEF FramingError
<1>4. CASE EndOfInput
  BY <1>0, <1>4 DEF EndOfInput, readerVars
<1>5. CASE SkipBlank
  <2>1. pos' = pos + 1 /\ pc' = "start"
    BY <1>5 DEF SkipBlank, Skip
  <2> QED BY <1>0, <2>1
<1>6. CASE JsonLine
  <2>1. /\ More /\ input[pos].type = "json" /\ pos' = pos + 1
        /\ Accept(input[pos].req, "line")
    BY <1>6 DEF JsonLine, At, Skip
  <2>2. pos' > pos /\ pos' >= pos
    BY <1>0, <2>1
  <2> QED BY <1>1, <1>2, <2>1, <2>2
<1>7. CASE BodyAsLine
  <2>1. More /\ input[pos].type = "body" /\ pos' = pos + Taken /\ Accept(Joined, "line")
    BY <1>7 DEF BodyAsLine, At, Skip
  <2>2. pos' > pos /\ pos' >= pos
    BY <1>0, <2>1, WhatIsTaken
  <2>3. Joined.id = NoId \/ Joined = input[pos].req
    BY <2>1, WhatIsTaken
  <2>4. pc' \in {"handle", "rescue"} => request'.id = NoId \/ request' = input[pos].req
    BY <1>2, <2>1, <2>3
  <2> QED BY <1>1, <2>1, <2>2, <2>4
<1>8. CASE BodyOpensHeaders
  <2>1. More /\ pos' = pos + Taken /\ pc' = "headers"
    BY <1>8 DEF BodyOpensHeaders, At, Skip
  <2> QED BY <1>0, <2>1, WhatIsTaken
<1>9. CASE OpenHeaders
  <2>1. pos' = pos + 1 /\ pc' = "headers"
    BY <1>9 DEF OpenHeaders, Skip
  <2> QED BY <1>0, <2>1
<1>10. CASE HeaderLine
  <2>1. pos' = pos + 1 /\ pc' = "headers"
    BY <1>10 DEF HeaderLine, Skip
  <2> QED BY <1>0, <2>1
<1>11. CASE EndHeaders
  <2>1. pos' = pos + 1 /\ pc' \in {"start", "body"}
    BY <1>3, <1>11 DEF EndHeaders, Skip
  <2> QED BY <1>0, <2>1
<1>12. CASE ReadBody
  <2>1. /\ More /\ input[pos].type \in {"body", "bare"} /\ pos' = pos + 1
        /\ Accept(input[pos].req, "content-length")
    BY <1>12 DEF ReadBody, At, Skip
  <2>2. pos' > pos /\ pos' >= pos
    BY <1>0, <2>1
  <2> QED BY <1>1, <1>2, <2>1, <2>2
<1>13. CASE CutShort
  <2>1. pos' = pos /\ pc' = "start"
    BY <1>3, <1>13 DEF CutShort, readerVars
  <2> QED BY <1>0, <2>1
<1> QED BY <1>4, <1>5, <1>6, <1>7, <1>8, <1>9, <1>10, <1>11, <1>12, <1>13 DEF Reader

-----------------------------------------------------------------------------
(* What becomes of the request of message i: nothing is said of it before  *)
(* it is handled, and what a healthy disk holds afterwards fits the answer.*)
Handled(req) == pc \in {"handle", "rescue"} /\ request.id = req.id

Fate(i) ==
    LET req == sent[i].req
    IN  /\ pos <= Stop(sent, i) => Quiet(req.id) /\ ~Handled(req)
        /\ Handled(req) => request = req /\ Quiet(req.id)
        /\ ~Handled(req) /\ faults = 0 => Untold(req.id) \/ Story(req)

Fates == \A i \in 1..Len(sent) : Carries(sent[i]) => Fate(i)

(* Nothing is said before the first message. *)
LEMMA FatesInit == Init => Fates
<1> SUFFICES ASSUME Init, NEW i \in 1..Len(sent), Carries(sent[i]) PROVE Fate(i)
    BY DEF Fates
<1>1. pc = "start" /\ out = <<>> /\ log = <<>>
  BY DEF Init
<1>2. Untold(sent[i].req.id) /\ Quiet(sent[i].req.id)
  BY <1>1 DEF Untold, Quiet, Without
<1> QED BY <1>1, <1>2 DEF Fate, Handled

(* The ids of a stream. *)
LEMMA IdsOfStream ==
    ASSUME ServerInv, NEW i \in 1..Len(sent), Carries(sent[i])
    PROVE  /\ sent[i].req.id \in Ids /\ sent[i].req.id # NoId
           /\ Stop(sent, i) \in Nat /\ pos \in Nat
           /\ \A k \in 1..Len(sent) : Carries(sent[k]) /\ sent[k].req.id = sent[i].req.id => k = i
<1>1. sent \in Streams /\ DOMAIN sent = 1..Len(sent) /\ Len(sent) \in Nat
  BY StreamLayout DEF ServerInv
<1>2. Stop(sent, i) \in Nat
  <2>1. i \in 0..Len(sent)
    BY <1>1
  <2> QED BY <1>1, <2>1, StreamLayout
<1>3. pos \in Nat
  <2>1. pos \in 1..(Len(input) + 1)
    BY DEF ServerInv, TypeOK
  <2> QED BY <2>1
<1>4. sent[i].req.id \in Ids /\ sent[i].req.id # NoId
  BY <1>1, StreamsAssumption
<1>5. ASSUME NEW k \in 1..Len(sent), Carries(sent[k]), sent[k].req.id = sent[i].req.id
      PROVE  k = i
  BY <1>1, <1>5, StreamsAssumption
<1> QED BY <1>2, <1>3, <1>4, <1>5

(* A request while the reader moves. *)
LEMMA FateRead ==
    ASSUME ServerInv, NEW i \in 1..Len(sent), Carries(sent[i]), Fate(i), Reader
    PROVE  Fate(i)'
<1>0. PICK req, id : req = sent[i].req /\ id = req.id
  OBVIOUS
<1>1. /\ id \in Ids /\ id # NoId /\ Stop(sent, i) \in Nat /\ pos \in Nat
      /\ \A k \in 1..Len(sent) : Carries(sent[k]) /\ sent[k].req.id = id => k = i
  BY <1>0, IdsOfStream
<1>2. Apart(id) /\ sent' = sent /\ pc \in {"start", "headers", "body"}
  BY <1>0, <1>1, ReaderApart
<1>3. /\ pos' >= pos
      /\ pc' \in {"handle", "rescue"} =>
            \/ request'.id = NoId
            \/ \E k \in 1..Len(sent) :
                  /\ Carries(sent[k]) /\ pos = Stop(sent, k) /\ pos' > pos
                  /\ request' = sent[k].req
  BY HandedOver
<1>4. Handled(req)' => request' = req /\ pos = Stop(sent, i) /\ pos' > pos
  BY <1>0, <1>1, <1>2, <1>3 DEF Handled
<1>5. pos <= Stop(sent, i) => Quiet(id)'
  BY <1>0, <1>2, QuietKept DEF Fate
<1>6. faults' = 0 => Untold(id)' \/ Story(req)'
  <2> SUFFICES ASSUME faults' = 0 PROVE Untold(id)' \/ Story(req)'
      OBVIOUS
  <2>1. faults = 0 /\ ~Handled(req)
    BY <1>0, <1>2, RecordsKept DEF Handled
  <2>2. Untold(req.id) \/ Story(req)
    BY <1>0, <2>1 DEF Fate
  <2>3. Untold(req.id)' \/ Story(req)'
    BY <1>0, <1>2, <2>2, StoryKept
  <2> QED BY <1>0, <2>3
<1>7. pos' <= Stop(sent, i) => Quiet(id)' /\ ~Handled(req)'
  <2> SUFFICES ASSUME pos' <= Stop(sent, i) PROVE Quiet(id)' /\ ~Handled(req)'
      OBVIOUS
  <2>2. pos' \in Nat
    <3>1. ServerInv'
      BY ReaderStep
    <3>2. pos' \in 1..(Len(input') + 1)
      BY <3>1 DEF ServerInv, TypeOK
    <3> QED BY <3>2
  <2>3. pos <= Stop(sent, i)
    BY <1>1, <1>3, <2>2
  <2>4. ~(pos = Stop(sent, i) /\ pos' > pos)
    BY <1>1, <2>2
  <2> QED BY <1>4, <1>5, <2>3, <2>4
<1>8. Handled(req)' => request' = req /\ Quiet(id)'
  BY <1>1, <1>4, <1>5
<1> QED BY <1>0, <1>2, <1>6, <1>7, <1>8 DEF Fate

(* The handler of the request of message i. *)
LEMMA FateOwn ==
    ASSUME ServerInv, NEW i \in 1..Len(sent), Carries(sent[i]), Fate(i), Handler,
           request.id = sent[i].req.id
    PROVE  Fate(i)'
<1>0. PICK req, id : req = sent[i].req /\ id = req.id
  OBVIOUS
<1>1. id \in Ids /\ id # NoId /\ Stop(sent, i) \in Nat /\ pos \in Nat
  BY <1>0, IdsOfStream
<1>2. /\ pc \in {"handle", "rescue"} /\ sent' = sent /\ pos' = pos
      /\ request' = request /\ framing' = framing
  BY HandlerUnchanged
<1>3. request = req /\ Quiet(id) /\ ~(pos <= Stop(sent, i))
  BY <1>0, <1>2 DEF Fate, Handled
<1>4. /\ out \in Seq(Responses) /\ log \in Seq(Records)
      /\ pc = "rescue" => req.kind = "call" /\ faults > 0
      /\ faults \in Nat
  BY <1>3 DEF ServerInv, TypeOK, InHandler
(* The request goes on, on a disk that has failed. *)
<1>5. ASSUME out' = out, faults' # 0 PROVE Fate(i)'
  <2>1. Without(out', id) /\ Without(out, id)'
    BY <1>3, <1>5 DEF Quiet, Without
  <2>2. Quiet(id)'
    BY <1>5, <2>1 DEF Quiet
  <2> QED BY <1>0, <1>2, <1>3, <1>5, <2>2 DEF Fate
(* It is over. *)
<1>6. ASSUME pc' = "start", faults' = 0 => Untold(id)' \/ Story(req)' PROVE Fate(i)'
  BY <1>0, <1>2, <1>3, <1>6 DEF Fate, Handled
<1>7. ASSUME NEW kind, Respond(id, kind)
      PROVE  pc' = "start" /\ OneAnswer(id, kind)'
  <2>1. out' = Append(out, Response(id, kind, framing)) /\ pc' = "start"
    BY <1>7 DEF Respond, Mirrored
  <2>2. Response(id, kind, framing).id = id /\ Response(id, kind, framing).kind = kind
    BY DEF Response
  <2> DEFINE r == Response(id, kind, framing)
             t == Append(out, r)
  <2>3. Len(out) + 1 \in DOMAIN t /\ t[Len(out) + 1] = r /\ Only(t, Len(out) + 1, id)
    BY <1>3, <1>4, <2>2, OneMore DEF Quiet
  <2> QED BY <2>1, <2>2, <2>3 DEF OneAnswer
<1>8. ASSUME NEW status, Recorded(status), faults' = 0
      PROVE  OneRecord(id, status)'
  <2>1. faults = 0 /\ log' = Append(log, Record(status))
    BY <1>8, Healthy
  <2>2. Record(status).id = id /\ Record(status).status = status
    BY <1>0, <1>3 DEF Record
  <2> DEFINE r == Record(status)
             t == Append(log, r)
  <2>3. Len(log) + 1 \in DOMAIN t /\ t[Len(log) + 1] = r /\ Only(t, Len(log) + 1, id)
    BY <1>3, <1>4, <2>1, <2>2, OneMore DEF Quiet
  <2> QED BY <2>1, <2>2, <2>3 DEF OneRecord
<1>9. ASSUME Respond(NoId, "rpc_error") PROVE pc' = "start" /\ Without(out, id)'
  <2>1. out' = Append(out, Response(NoId, "rpc_error", framing)) /\ pc' = "start"
    BY <1>9 DEF Respond, Mirrored
  <2>2. Response(NoId, "rpc_error", framing).id # id
    BY <1>1 DEF Response
  <2>3. Without(Append(out, Response(NoId, "rpc_error", framing)), id)
    BY <1>3, <1>4, <2>2, OneMore DEF Quiet
  <2> QED BY <2>1, <2>3 DEF Without
<1>10. ASSUME UNCHANGED diskVars, faults' = 0 PROVE Without(log, id)'
  BY <1>3, <1>10 DEF Quiet, Without, diskVars
<1>11. \A status : Unrecorded(status) => faults' # 0
  BY Healthy
<1>12. CASE Unparsable
  <2>1. req.kind = "unparsable"
    BY <1>0, <1>3, <1>12 DEF Unparsable, Handling
  <2>2. CASE Recorded("pre_dispatch_error") /\ Respond(NoId, "rpc_error")
    <3>1. pc' = "start" /\ Without(out, id)'
      BY <1>9, <2>2
    <3>2. faults' = 0 => OneRecord(id, "pre_dispatch_error")'
      BY <1>8, <2>2
    <3>3. faults' = 0 => Story(req)'
      BY <1>0, <2>1, <3>1, <3>2 DEF Story
    <3> QED BY <1>6, <3>1, <3>3
  <2>3. CASE Unrecorded("pre_dispatch_error") /\ pc' = "dead" /\ UNCHANGED out
    BY <1>5, <1>11, <2>3
  <2> QED BY <1>12, <2>2, <2>3 DEF Unparsable
<1>13. CASE NoObject
  <2>1. pc' = "start" /\ Without(out, id)' /\ (faults' = 0 => Without(log, id)')
    BY <1>9, <1>10, <1>13 DEF NoObject
  <2>2. faults' = 0 => Untold(id)'
    BY <2>1 DEF Untold
  <2> QED BY <1>6, <2>1, <2>2
<1>14. ASSUME UNCHANGED diskVars, req.kind \notin {"call", "bad_call", "unparsable"}, pc' = "start"
       PROVE  Fate(i)'
  <2>1. faults' = 0 => Without(log, id)'
    BY <1>10, <1>14
  <2>2. faults' = 0 => Story(req)'
    BY <1>0, <1>14, <2>1 DEF Story
  <2> QED BY <1>6, <1>14, <2>2
<1>15. CASE Refuse
  BY <1>0, <1>3, <1>14, <1>15 DEF Refuse, Handling, Respond
<1>16. CASE Initialized
  BY <1>0, <1>3, <1>14, <1>16 DEF Initialized, Handling, diskVars
<1>17. CASE Method
  BY <1>0, <1>3, <1>14, <1>17 DEF Method, Handling, Respond
<1>18. CASE BadCall
  <2>1. /\ req.kind = "bad_call" /\ Respond(id, "rpc_error")
        /\ Recorded("pre_dispatch_error") \/ Unrecorded("pre_dispatch_error")
    BY <1>0, <1>3, <1>18 DEF BadCall, Handling
  <2>2. pc' = "start" /\ OneAnswer(id, "rpc_error")'
    BY <1>7, <2>1
  <2>3. faults' = 0 => OneRecord(id, "pre_dispatch_error")'
    BY <1>8, <1>11, <2>1
  <2>4. faults' = 0 => Story(req)'
    BY <1>0, <2>1, <2>2, <2>3 DEF Story, Both
  <2> QED BY <1>6, <2>2, <2>4
<1>19. ASSUME NEW o \in Outcomes, Call(o) PROVE Fate(i)'
  <2>1. req.kind = "call"
    BY <1>0, <1>3, <1>19 DEF Call, Handling
  <2>2. CASE Recorded(Status(o)) /\ Respond(request.id, Answer(o))
    <3>1. pc' = "start" /\ OneAnswer(id, Answer(o))'
      BY <1>0, <1>3, <1>7, <2>2
    <3>2. faults' = 0 => OneRecord(id, Status(o))'
      BY <1>8, <2>2
    <3>3. \/ Status(o) = "ok" /\ Answer(o) = "result"
          \/ Status(o) = "ok" /\ Answer(o) = "not_json"
          \/ Status(o) = "error" /\ Answer(o) = "tool_error"
      BY DEF Outcomes, Status, Answer, Succeeded
    <3>4. faults' = 0 => Both(id, Status(o), Answer(o))'
      BY <3>1, <3>2 DEF Both
    <3>5. faults' = 0 => Story(req)'
      BY <1>0, <2>1, <3>3, <3>4 DEF Story
    <3> QED BY <1>6, <3>1, <3>5
  <2>3. CASE Unrecorded(Status(o)) /\ pc' = "rescue" /\ UNCHANGED out
    BY <1>5, <1>11, <2>3
  <2>4. CASE Unrecorded(Status(o)) /\ Respond(request.id, "rpc_error")
    BY <1>6, <1>11, <2>4 DEF Respond
  <2> QED BY <1>19, <2>2, <2>3, <2>4 DEF Call
<1>20. CASE Rescue
  <2>1. faults' # 0
    <3>1. faults # 0
      BY <1>4, <1>20 DEF Rescue
    <3>2. CASE Recorded("error")
      BY <3>1, <3>2 DEF Recorded
    <3>3. CASE Unrecorded("error")
      BY <1>11, <3>3
    <3> QED BY <1>20, <3>2, <3>3 DEF Rescue
  <2>2. pc' = "start"
    BY <1>20 DEF Rescue, Respond
  <2> QED BY <1>6, <2>1, <2>2
<1> QED BY <1>12, <1>13, <1>15, <1>16, <1>17, <1>18, <1>19, <1>20 DEF Handler

(* A request at any step. *)
LEMMA FateStep ==
    ASSUME ServerInv, NEW i \in 1..Len(sent), Carries(sent[i]), Fate(i), Next
    PROVE  Fate(i)'
<1>1. CASE Reader
  BY <1>1, FateRead
<1>2. CASE Handler /\ request.id = sent[i].req.id
  BY <1>2, FateOwn
<1>3. CASE Handler /\ request.id # sent[i].req.id
  <2>0. PICK req : req = sent[i].req
    OBVIOUS
  <2>1. /\ pc \in {"handle", "rescue"} /\ sent' = sent /\ pos' = pos /\ request' = request
    BY <1>3, HandlerUnchanged
  <2>2. Apart(req.id)
    BY <2>0, <1>3, IdsOfStream, HandlerApart
  <2>3. ~Handled(req) /\ ~Handled(req)'
    BY <2>0, <1>3, <2>1 DEF Handled
  <2>4. pos' <= Stop(sent, i) => Quiet(req.id)'
    BY <2>0, <2>1, <2>2, QuietKept DEF Fate
  <2>5. faults' = 0 => Untold(req.id)' \/ Story(req)'
    <3> SUFFICES ASSUME faults' = 0 PROVE Untold(req.id)' \/ Story(req)'
        OBVIOUS
    <3>1. faults = 0
      BY <2>2, RecordsKept
    <3>2. Untold(req.id) \/ Story(req)
      BY <2>0, <2>3, <3>1 DEF Fate
    <3> QED BY <2>0, <2>2, <3>2, StoryKept
  <2> QED BY <2>0, <2>1, <2>3, <2>4, <2>5 DEF Fate
<1> QED BY <1>1, <1>2, <1>3 DEF Next

(* Every request at any step. *)
LEMMA FatesStep == ServerInv /\ Fates /\ [Next]_vars => Fates'
<1> SUFFICES ASSUME ServerInv, Fates, [Next]_vars PROVE Fates'
    OBVIOUS
<1>1. CASE UNCHANGED vars
  <2>1. /\ sent' = sent /\ pos' = pos /\ pc' = pc /\ request' = request
        /\ out' = out /\ log' = log /\ faults' = faults
    BY <1>1 DEF vars
  <2> QED BY <2>1 DEF Fates, Fate, Handled, Quiet, Untold, Story, Both, OneRecord, OneAnswer,
                      Only, Without
<1>2. CASE Next
  <2>1. sent' = sent
    BY <1>2, ReaderSent, HandlerUnchanged DEF Next
  <2>2. ASSUME NEW i \in 1..Len(sent), Carries(sent[i]) PROVE Fate(i)'
    BY <1>2, <2>2, FateStep DEF Fates
  <2> QED BY <2>1, <2>2 DEF Fates
<1> QED BY <1>1, <1>2

(* The fate of every request. *)
LEMMA FatesCorrect == Spec => []Fates
BY ServerCorrect, FatesInit, FatesStep, PTL DEF Spec

(* On a disk that takes every record, file and answers agree on every      *)
(* request whatever the stream looks like: one record and one answer of a  *)
(* tools/call, of one outcome, and nothing recorded of any other method    *)
(* (_dispatch_tool_call, _emit_call_telemetry, Telemetry.emit).            *)
THEOREM TelemetryAgrees == Spec => []TelemetryMatches
<1>1. ASSUME ServerInv, Fates PROVE TelemetryMatches
  <2> SUFFICES ASSUME faults = 0, pc \in {"start", "eof"},
                      NEW i \in DOMAIN sent, Carries(sent[i])
               PROVE  Untold(sent[i].req.id) \/ Story(sent[i].req)
      BY DEF TelemetryMatches
  <2>1. i \in 1..Len(sent)
    BY <1>1, StreamLayout DEF ServerInv
  <2> QED BY <1>1, <2>1 DEF Fates, Fate, Handled
<1> QED BY <1>1, ServerCorrect, FatesCorrect, PTL

-----------------------------------------------------------------------------
(* Behind an empty line the reader is in step.                             *)

(* A line in the clear is one line. *)
LEMMA ClearLine ==
    ASSUME ServerInv, NEW i \in 1..Len(sent), InTheClear(i)
    PROVE  /\ Carries(sent[i]) /\ sent[i].form = "line"
           /\ Stop(sent, i) = Before(sent, i) + 1 /\ Before(sent, i) \in Nat
           /\ Stop(sent, i) \in 1..Len(input) /\ Len(input) \in Nat
           /\ input[Stop(sent, i)] = Item("json", sent[i].req)
<1>1. PICK j \in 0..(i - 1) : /\ j = 0 \/ EmptyLine(j)
                              /\ \A k \in (j + 1)..i : sent[k].form = "line"
  BY DEF InTheClear
<1>2. sent[i].form = "line"
  <2>1. i \in (j + 1)..i
    BY <1>1
  <2> QED BY <1>1, <2>1
<1>3. Written(sent, i) /\ input = Input(sent) /\ input \in Seq(Items)
  BY MessageAt, StreamLayout DEF ServerInv
<1>4. Len(input) \in Nat
  BY <1>3, LenProperties
<1> QED BY <1>2, <1>3, <1>4 DEF Written, Carries

(* The line before one in the clear is empty or in the clear itself. *)
LEMMA BeforeClear ==
    ASSUME ServerInv, NEW i \in 1..Len(sent), InTheClear(i), pos = Before(sent, i), More
    PROVE  \/ /\ input[pos].type = "blank"
              /\ ~(pos > 1 /\ input[pos - 1].type = "length")
           \/ /\ input[pos].type = "json"
              /\ \E k \in 1..Len(sent) : InTheClear(k) /\ pos = Stop(sent, k)
<1>1. PICK j \in 0..(i - 1) : /\ j = 0 \/ EmptyLine(j)
                              /\ \A k \in (j + 1)..i : sent[k].form = "line"
  BY DEF InTheClear
<1>2. /\ sent \in Streams /\ input = Input(sent) /\ Len(sent) \in Nat
      /\ pos \in 1..Len(input) /\ Len(input) \in Nat
  BY Current, StreamLayout DEF ServerInv
<1>3. i # 1
  <2>1. Stop(sent, 0) = 0
    BY <1>2, StreamLayout
  <2>2. i = 1 => Before(sent, i) = 0
    BY <2>1 DEF Before
  <2> QED BY <1>2, <2>2
<1>4. PICK k \in 1..Len(sent) : k = i - 1
  BY <1>2, <1>3
<1>5. pos = Stop(sent, k) /\ Written(sent, k)
  BY <1>2, <1>4, MessageAt DEF Before
<1>6. CASE j = k
  <2>1. sent[k].form = "blank"
    BY <1>1, <1>6 DEF EmptyLine
  <2>2. input[pos] = Sep("blank") /\ pos = Before(sent, k) + 1
    BY <1>2, <1>5, <2>1 DEF Written
  <2>3. ASSUME pos > 1, input[pos - 1].type = "length" PROVE FALSE
    <3>1. pos - 1 \in 1..Len(Input(sent)) /\ (pos - 1) + 1 = pos
      BY <1>2, <2>3
    <3>2. PICK m \in 1..Len(sent) : ItemOf(sent, m, pos - 1)
      BY <1>2, <3>1, ItemAt
    <3>3. /\ sent[m].form \in {"frame", "bare", "cut"} /\ pos <= Stop(sent, m)
          /\ Before(sent, m) < pos - 1
      BY <1>2, <2>3, <3>1, <3>2 DEF ItemOf
    <3>4. Before(sent, m) \in Nat /\ Before(sent, k) \in Nat
      BY <1>2, MessageAt DEF Written
    <3>5. Before(sent, m) < pos /\ Before(sent, k) < pos /\ pos <= Stop(sent, k) /\ pos \in Nat
      BY <1>2, <1>5, <2>2, <3>3, <3>4
    <3>6. m = k
      BY <1>2, <3>3, <3>5, OneMessage
    <3> QED BY <2>1, <3>3, <3>6
  <2> QED BY <2>2, <2>3, TypesOfItems
<1>7. CASE j # k
  <2>1. /\ k \in (j + 1)..i /\ j \in 0..(k - 1)
        /\ \A n \in (j + 1)..k : n \in (j + 1)..i
    BY <1>4, <1>7
  <2>2. InTheClear(k)
    BY <1>1, <2>1 DEF InTheClear
  <2>3. input[pos].type = "json"
    BY <1>5, <2>2, ClearLine, TypesOfItems
  <2> QED BY <1>5, <2>2, <2>3
<1> QED BY <1>6, <1>7

(* No bare body stands where the reader could take it together with the    *)
(* line before one in the clear.                                           *)
LEMMA NoBareBefore ==
    ASSUME ServerInv, NEW i \in 1..Len(sent), InTheClear(i), pos + 1 = Before(sent, i), More
    PROVE  input[pos].type # "bare"
<1>1. PICK j \in 0..(i - 1) : /\ j = 0 \/ EmptyLine(j)
                              /\ \A k \in (j + 1)..i : sent[k].form = "line"
  BY DEF InTheClear
<1>2. /\ sent \in Streams /\ input = Input(sent) /\ Len(sent) \in Nat
      /\ pos \in 1..Len(input) /\ Len(input) \in Nat /\ Stop(sent, 0) = 0
  BY Current, StreamLayout DEF ServerInv
<1>3. i # 1
  <2>1. i = 1 => Before(sent, i) = 0
    BY <1>2 DEF Before
  <2> QED BY <1>2, <2>1
<1>4. PICK k \in 1..Len(sent) : k = i - 1
  BY <1>2, <1>3
<1>5. sent[k].form \in {"blank", "line"}
  <2>1. CASE j = k
    BY <1>1, <1>4, <2>1 DEF EmptyLine
  <2>2. CASE j # k
    <3>1. k \in (j + 1)..i
      BY <1>4, <2>2
    <3> QED BY <1>1, <3>1
  <2> QED BY <2>1, <2>2
<1>6. pos = Before(sent, k)
  <2>1. Written(sent, k) /\ pos + 1 = Stop(sent, k)
    BY <1>2, <1>4, MessageAt DEF Before
  <2>2. Stop(sent, k) = Before(sent, k) + 1 /\ Before(sent, k) \in Nat
    BY <1>5, <2>1 DEF Written
  <2> QED BY <1>2, <2>1, <2>2
<1>7. k # 1
  <2>1. k = 1 => Before(sent, k) = 0
    BY <1>2 DEF Before
  <2> QED BY <1>2, <1>6, <2>1
<1>8. PICK n \in 1..Len(sent) : n = k - 1
  BY <1>2, <1>7
<1>9. sent[n].form # "bare"
  <2>1. CASE j = k
    BY <1>1, <1>4, <1>7, <1>8, <2>1 DEF EmptyLine
  <2>2. CASE j = n
    BY <1>1, <1>8, <2>2 DEF EmptyLine
  <2>3. CASE j # k /\ j # n
    <3>1. n \in (j + 1)..i
      BY <1>4, <1>8, <2>3
    <3> QED BY <1>1, <3>1
  <2> QED BY <2>1, <2>2, <2>3
<1>10. pos = Stop(sent, n) /\ Before(sent, n) < pos /\ pos \in Nat
  <2>1. Written(sent, n) /\ Stop(sent, n) = pos
    BY <1>2, <1>6, <1>8, MessageAt DEF Before
  <2> QED BY <1>2, <2>1 DEF Written
<1>11. PICK m \in 1..Len(sent) : ItemOf(sent, m, pos)
  BY <1>2, ItemAt
<1>12. Before(sent, m) < pos /\ pos <= Stop(sent, m)
  BY <1>11 DEF ItemOf
<1>13. m = n
  <2>1. pos <= Stop(sent, n)
    BY <1>2, <1>10
  <2> QED BY <1>2, <1>10, <1>12, <2>1, OneMessage
<1> QED BY <1>2, <1>9, <1>11, <1>13 DEF ItemOf

(* At the end of a line in the clear the reader waits for a message or     *)
(* has handed one over: it is in no header block and before no body.       *)
Synchronised ==
    \A i \in 1..Len(sent) :
        InTheClear(i) /\ pos = Stop(sent, i) => pc \in {"start", "handle", "rescue", "dead"}

(* At the start the reader waits for a message. *)
LEMMA SynchronisedInit == Init => Synchronised
BY DEF Init, Synchronised

(* No step ends a line in the clear inside a header block. *)
LEMMA SynchronisedStep == ServerInv /\ Synchronised /\ [Next]_vars => Synchronised'
<1> SUFFICES ASSUME ServerInv, Synchronised, [Next]_vars PROVE Synchronised'
    OBVIOUS
<1>1. CASE UNCHANGED vars
  BY <1>1 DEF vars, Synchronised, InTheClear, EmptyLine
<1>2. CASE Handler
  <2>1. pos' = pos /\ sent' = sent /\ pc' \in {"start", "rescue", "dead"}
    BY <1>2, HandlerUnchanged
       DEF Handler, Handling, Unparsable, NoObject, Refuse, Initialized, Method, BadCall,
           Call, Rescue, Respond
  <2> QED BY <2>1 DEF Synchronised, InTheClear, EmptyLine
<1>3. CASE Reader
  <2>1. sent' = sent
    BY <1>3, ReaderSent
  <2> SUFFICES ASSUME NEW i \in 1..Len(sent), InTheClear(i), pos' = Stop(sent, i)
               PROVE  pc' \in {"start", "handle"}
      BY <2>1 DEF Synchronised, InTheClear, EmptyLine
  <2>2. /\ Stop(sent, i) = Before(sent, i) + 1 /\ Stop(sent, i) \in 1..Len(input)
        /\ Before(sent, i) \in Nat /\ Len(input) \in Nat
    BY ClearLine
  <2>3. pos \in Nat
    <3>1. pos \in 1..(Len(input) + 1)
      BY DEF ServerInv, TypeOK
    <3> QED BY <3>1
  <2>4. ASSUME NEW req, NEW frame, Accept(req, frame) PROVE pc' \in {"start", "handle"}
    BY <2>4 DEF Accept, FramingError
  <2>5. ASSUME pos' = pos + 1, More
        PROVE  \/ /\ input[pos].type = "blank"
                  /\ ~(pos > 1 /\ input[pos - 1].type = "length")
               \/ /\ input[pos].type = "json"
                  /\ pc \in {"start", "handle", "rescue", "dead"}
    <3>1. pos = Before(sent, i)
      BY <2>2, <2>3, <2>5
    <3> QED BY <2>5, <3>1, BeforeClear DEF Synchronised
  <2>6. CASE EndOfInput
    BY <2>2, <2>6 DEF EndOfInput, readerVars, More
  <2>7. CASE SkipBlank
    BY <2>7 DEF SkipBlank
  <2>8. CASE JsonLine
    BY <2>4, <2>8 DEF JsonLine
  <2>9. CASE BodyAsLine
    BY <2>4, <2>9 DEF BodyAsLine
  <2>10. CASE OpenHeaders
    BY <2>5, <2>10 DEF OpenHeaders, Skip
  <2>11. CASE BodyOpensHeaders
    <3>1. More /\ input[pos].type = "bare" /\ pos' = pos + Taken /\ Taken \in {1, 2}
      BY <2>11, WhatIsTaken DEF BodyOpensHeaders, At, Skip
    <3>2. Taken # 1
      BY <2>5, <3>1
    <3>3. pos + 1 = Before(sent, i)
      BY <2>2, <2>3, <3>1, <3>2
    <3> QED BY <3>1, <3>3, NoBareBefore
  <2>12. CASE HeaderLine
    BY <2>5, <2>12 DEF HeaderLine, Skip, At
  <2>13. CASE EndHeaders
    <3>1. /\ pc = "headers" /\ More /\ input[pos].type = "blank" /\ pos' = pos + 1
          /\ "length" \in headers \/ pc' = "start"
      BY <2>13 DEF EndHeaders, Skip, At, FramingError
    <3>2. "length" \notin headers
      BY <2>5, <3>1 DEF ServerInv, InHeaders
    <3> QED BY <3>1, <3>2
  <2>14. CASE ReadBody
    BY <2>4, <2>14 DEF ReadBody
  <2>15. CASE CutShort
    BY <2>15 DEF CutShort, FramingError
  <2> QED BY <1>3, <2>6, <2>7, <2>8, <2>9, <2>10, <2>11, <2>12, <2>13, <2>14,
             <2>15
             DEF Reader
<1> QED BY <1>1, <1>2, <1>3 DEF Next

(* The reader is in step behind an empty line. *)
LEMMA SynchronisedCorrect == Spec => []Synchronised
BY ServerCorrect, SynchronisedInit, SynchronisedStep, PTL DEF Spec

(* A line in the clear that is behind the reader is handled as a line, or  *)
(* has its one answer.                                                     *)
Answerable(req) == req.kind \in {"refused", "method", "bad_call", "call"}

ServedLine(i) ==
    InTheClear(i) /\ Answerable(sent[i].req) /\ pos > Stop(sent, i) =>
        \/ Handled(sent[i].req) /\ framing = "line"
        \/ ~Handled(sent[i].req) /\ OneLine(sent[i].req.id)

Served == \A i \in 1..Len(sent) : ServedLine(i)

(* No line is behind the reader yet. *)
LEMMA ServedInit == Init => Served
<1> SUFFICES ASSUME Init, NEW i \in 1..Len(sent), InTheClear(i), pos > Stop(sent, i)
             PROVE  FALSE
    BY DEF Served, ServedLine
<1>1. ServerInv /\ pos = 1
  BY ServerInit DEF Init
<1>2. Stop(sent, i) = Before(sent, i) + 1 /\ Before(sent, i) \in Nat
  BY <1>1, ClearLine
<1> QED BY <1>1, <1>2

(* A line in the clear is read and handed over. *)
LEMMA ServedRead ==
    ASSUME ServerInv, Synchronised, NEW i \in 1..Len(sent), ServedLine(i), Reader
    PROVE  ServedLine(i)'
<1>0. PICK req, id : req = sent[i].req /\ id = req.id
  OBVIOUS
<1>1. sent' = sent
  BY ReaderSent
<1> SUFFICES ASSUME InTheClear(i), Answerable(req), pos' > Stop(sent, i)
             PROVE  \/ Handled(req)' /\ framing' = "line"
                    \/ ~Handled(req)' /\ OneLine(id)'
    BY <1>0, <1>1 DEF ServedLine, InTheClear, EmptyLine
<1>2. /\ Carries(sent[i]) /\ Stop(sent, i) = Before(sent, i) + 1 /\ Before(sent, i) \in Nat
      /\ Stop(sent, i) \in 1..Len(input) /\ Len(input) \in Nat
      /\ input[Stop(sent, i)] = Item("json", req)
  BY <1>0, ClearLine
<1>3. /\ id \in Ids /\ id # NoId /\ Stop(sent, i) \in Nat /\ pos \in Nat
      /\ \A k \in 1..Len(sent) : Carries(sent[k]) /\ sent[k].req.id = id => k = i
  BY <1>0, <1>2, IdsOfStream
<1>4. Apart(id) /\ pc \in {"start", "headers", "body"}
  BY <1>3, ReaderApart
<1>5. CASE pos > Stop(sent, i)
  <2>1. OneLine(id)
    BY <1>0, <1>4, <1>5 DEF ServedLine, Handled
  <2>2. OneLine(id)'
    BY <1>4, <2>1, AnswersKept
  <2>3. pc' \in {"handle", "rescue"} =>
            \/ request'.id = NoId
            \/ \E k \in 1..Len(sent) :
                  /\ Carries(sent[k]) /\ pos = Stop(sent, k)
                  /\ request' = sent[k].req
    BY HandedOver
  <2>4. pos # Stop(sent, i)
    BY <1>3, <1>5
  <2>5. ~Handled(req)'
    BY <1>0, <1>3, <2>3, <2>4 DEF Handled
  <2> QED BY <2>2, <2>5
<1>6. CASE pos = Stop(sent, i)
  <2>1. pc = "start" /\ More /\ input[pos].type = "json" /\ input[pos].req = req
    BY <1>2, <1>4, <1>6, TypesOfItems DEF Synchronised, More
  <2>2. Accept(req, "line")
    BY <2>1 DEF Reader, EndOfInput, SkipBlank, JsonLine, BodyAsLine, BodyOpensHeaders,
                OpenHeaders, HeaderLine, EndHeaders, ReadBody, CutShort, At
  <2>3. request' = req /\ framing' = "line" /\ pc' = "handle"
    BY <2>2 DEF Accept, Answerable
  <2> QED BY <2>3 DEF Handled
<1>7. CASE pos < Stop(sent, i)
  <2>1. BodyAsLine \/ BodyOpensHeaders
    <3>1. pos' # pos /\ pos' # pos + 1
      BY <1>2, <1>3, <1>7
    <3> QED BY <3>1 DEF Reader, EndOfInput, SkipBlank, JsonLine, OpenHeaders, HeaderLine,
                        EndHeaders, ReadBody, CutShort, Skip, readerVars
  <2>2. More /\ input[pos].type \in {"body", "bare"} /\ pos' = pos + Taken /\ Taken \in {1, 2}
    BY <2>1, WhatIsTaken DEF BodyAsLine, BodyOpensHeaders, At, Skip
  <2>3. pos = Before(sent, i)
    BY <1>2, <1>3, <1>7, <2>2
  <2> QED BY <2>2, <2>3, BeforeClear
<1> QED BY <1>3, <1>5, <1>6, <1>7

(* It is answered once. *)
LEMMA ServedHandle ==
    ASSUME ServerInv, NEW i \in 1..Len(sent), Carries(sent[i]) => Fate(i), ServedLine(i), Handler
    PROVE  ServedLine(i)'
<1>0. PICK req, id : req = sent[i].req /\ id = req.id
  OBVIOUS
<1>1. /\ pc \in {"handle", "rescue"} /\ sent' = sent /\ pos' = pos
      /\ request' = request /\ framing' = framing
  BY HandlerUnchanged
<1> SUFFICES ASSUME InTheClear(i), Answerable(req), pos > Stop(sent, i)
             PROVE  \/ Handled(req)' /\ framing' = "line"
                    \/ ~Handled(req)' /\ OneLine(id)'
    BY <1>0, <1>1 DEF ServedLine, InTheClear, EmptyLine
<1>2. Carries(sent[i]) /\ id \in Ids
  BY <1>0, ClearLine, IdsOfStream
<1>3. CASE request.id = id
  <2>1. /\ request = req /\ Quiet(id) /\ framing = "line"
    BY <1>0, <1>1, <1>2, <1>3 DEF Fate, Handled, ServedLine
  <2>2. \/ pc' = "rescue"
        \/ \E kind : Respond(id, kind)
    BY <1>0, <2>1 DEF Handler, Handling, Unparsable, NoObject, Refuse, Initialized, Method,
                      BadCall, Call, Rescue, Answerable
  <2>3. CASE pc' = "rescue"
    BY <1>0, <1>1, <1>3, <2>1, <2>3 DEF Handled
  <2>4. ASSUME NEW kind, Respond(id, kind) PROVE ~Handled(req)' /\ OneLine(id)'
    <3> DEFINE r == Response(id, kind, framing)
               t == Append(out, r)
    <3>1. out' = t /\ pc' = "start"
      BY <2>4 DEF Respond, Mirrored
    <3>2. r.id = id /\ r.framing = "line"
      BY <2>1 DEF Response
    <3>3. out \in Seq(Responses) /\ Without(out, id)
      BY <2>1 DEF ServerInv, TypeOK, Quiet
    <3>4. Len(out) + 1 \in DOMAIN t /\ t[Len(out) + 1] = r /\ Only(t, Len(out) + 1, id)
      BY <3>2, <3>3, OneMore
    <3> QED BY <3>1, <3>2, <3>4 DEF OneLine, Handled
  <2> QED BY <2>2, <2>3, <2>4
<1>4. CASE request.id # id
  <2>1. OneLine(id) /\ Apart(id)
    BY <1>0, <1>2, <1>4, HandlerApart DEF ServedLine, Handled
  <2>2. OneLine(id)'
    BY <2>1, AnswersKept
  <2> QED BY <1>0, <1>1, <1>4, <2>2 DEF Handled
<1> QED BY <1>3, <1>4

(* Every step keeps what was served. *)
LEMMA ServedStep == ServerInv /\ Fates /\ Synchronised /\ Served /\ [Next]_vars => Served'
<1> SUFFICES ASSUME ServerInv, Fates, Synchronised, Served, [Next]_vars PROVE Served'
    OBVIOUS
<1>1. CASE UNCHANGED vars
  BY <1>1 DEF vars, Served, ServedLine, InTheClear, EmptyLine, Handled, OneLine, Only
<1>2. CASE Next
  <2>1. sent' = sent
    BY <1>2, ReaderSent, HandlerUnchanged DEF Next
  <2>2. ASSUME NEW i \in 1..Len(sent) PROVE ServedLine(i)'
    BY <1>2, ServedRead, ServedHandle DEF Next, Served, Fates
  <2> QED BY <2>1, <2>2 DEF Served
<1> QED BY <1>1, <1>2

(* Lines in the clear are served. *)
LEMMA ServedCorrect == Spec => []Served
BY ServerCorrect, FatesCorrect, SynchronisedCorrect, ServedInit, ServedStep, PTL DEF Spec

(* In a stream of any length, a request on a line behind an empty line,    *)
(* with only such lines between the two, is answered exactly once, as a    *)
(* line, whatever stands before that empty line but a bare body directly   *)
(* (_read_stdio_request).                                                  *)
THEOREM ReaderResynchronises == Spec => []JunkIsContained
<1>1. ASSUME ServerInv, Served PROVE JunkIsContained
  <2> SUFFICES ASSUME pc = "eof", NEW i \in DOMAIN sent, InTheClear(i), Answerable(sent[i].req)
               PROVE  OneLine(sent[i].req.id)
      BY DEF JunkIsContained, Answerable
  <2>1. i \in 1..Len(sent)
    BY <1>1, StreamLayout DEF ServerInv
  <2>2. Stop(sent, i) \in 1..Len(input) /\ Len(input) \in Nat
    BY <1>1, <2>1, ClearLine
  <2>3. pos > Stop(sent, i)
    BY <1>1, <2>2 DEF ServerInv, InHandler
  <2> QED BY <1>1, <2>1, <2>3 DEF Served, ServedLine, Handled
<1> QED BY <1>1, ServerCorrect, ServedCorrect, PTL
=============================================================================
