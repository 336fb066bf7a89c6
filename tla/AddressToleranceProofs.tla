----------------------- MODULE AddressToleranceProofs -----------------------
(***************************************************************************)
(* Proofs about AddressTolerance, for every binary whose tables agree and  *)
(* every request.                                                          *)
(***************************************************************************)
EXTENDS AddressTolerance, DataLemmas

USE AddressesAssumption, CapAssumption

-----------------------------------------------------------------------------
(* Min returns an element of the set: the nearest function is one. *)
LEMMA MinIsElement ==
    ASSUME NEW S, S \subseteq Nat, S # {}
    PROVE  Min(S) \in S
BY LeastNumber DEF Min

-----------------------------------------------------------------------------
(* The scripts' results. *)

Results == [kind : Kinds, address : Addresses \cup {NoAddress}, reason : Reasons]

(* What a lookup returns is a hit on an entry or a miss with its reason,   *)
(* and code without a function only outside of functions.                  *)
LEMMA LookupResult ==
    ASSUME NEW p \in Binaries, Consistent(p), NEW a \in Addresses,
           NEW res \in Lookup(p, a)
    PROVE  /\ res \in Results
           /\ res.kind # "miss" => res.address \in Entries(p)
           /\ p.owner[a] # NoAddress =>
                /\ res.kind # "miss" /\ res.reason = "none"
                /\ res.address = p.owner[a]
           /\ p.owner[a] = a => res.kind = "exact"
<1> USE DEF Results, Kinds, Reasons, Binaries, Consistent, Entries
<1>1. CASE p.owner[a] = a
  BY <1>1 DEF Lookup, Hit
<1>2. CASE p.owner[a] # a /\ p.owner[a] # NoAddress
  BY <1>2 DEF Lookup, Hit
<1>3. CASE p.owner[a] = NoAddress
  <2>1. Nearest(p, a) \in Addresses \cup {NoAddress}
    <3>1. Entries(p) \subseteq Addresses /\ Entries(p) \subseteq Nat
      OBVIOUS
    <3> HIDE DEF Entries
    <3>2. Entries(p) # {} => Min(Entries(p)) \in Addresses
      BY <3>1, MinIsElement
    <3> QED BY <3>2 DEF Nearest
  <2>2. CASE p.block[a] = "plt"
    BY <1>3, <2>2 DEF Lookup, Hit, Miss
  <2>3. CASE p.block[a] \in {"text", "data"}
    BY <1>3, <2>3 DEF Lookup, Miss
  <2>4. CASE p.block[a] = "none"
    BY <1>3, <2>1, <2>4 DEF Lookup, Miss
  <2> QED BY <2>2, <2>3, <2>4 DEF BlockKinds
<1> QED BY <1>1, <1>2, <1>3

(* Where a name may lead is an address of the program. *)
LEMMA MeantType ==
    ASSUME NEW p \in Binaries, NEW r \in Requests, r.form # "huge"
    PROVE  Meant(p, r) \subseteq Addresses
<1>1. \A t \in Ranked(p) : t.at \in Addresses
  <2>1. Candidates(p) \subseteq p.symbols /\ Fallbacks(p) \subseteq p.named
    BY DEF Candidates, Fallbacks
  <2>2. /\ \A s \in p.symbols : s.at \in Addresses
        /\ p.named \subseteq Addresses
    BY DEF Binaries, Symbols
  <2> QED BY <2>1, <2>2 DEF Ranked
<1>2. CASE r.form = "name"
  BY <1>1, <1>2 DEF Meant, AddressLike, Best
<1>3. CASE r.form # "name"
  <2>1. r.form \notin {"name", "huge"}
    BY <1>3
  <2>2. Value(r) \in Addresses
    BY <2>1, RequestsAssumption
  <2> QED BY <1>3, <2>2 DEF Meant, AddressLike
<1> QED BY <1>2, <1>3

(* A name that a function of the program has leads to such a function. *)
LEMMA NameMeansFunction ==
    ASSUME NEW p \in Binaries, Consistent(p),
           NEW r \in Requests, r.form = "name",
           \/ \E s \in p.symbols : s.global /\ s.function /\ ~s.external
           \/ p.named # {} /\ \A s \in p.symbols : s.external
    PROVE  Meant(p, r) # {} /\ Meant(p, r) \subseteq p.named
<1> USE DEF Binaries, Symbols, Consistent
<1>1. Meant(p, r) = {t.at : t \in Best(p)}
  BY DEF Meant, AddressLike
<1>2. CASE p.named # {} /\ \A s \in p.symbols : s.external
  <2>1. Fallbacks(p) = p.named /\ \A s \in Candidates(p) : s.external
    BY <1>2 DEF Fallbacks, Candidates
  <2>2. \A s \in Candidates(p) : Rank(s) \in {2, 4}
    BY <2>1 DEF Rank
  <2>3. \A t \in Ranked(p) : t.rank \in Nat /\ (t.rank = 0 => t.at \in p.named)
    BY <2>1, <2>2 DEF Ranked
  <2>4. PICK e \in p.named : TRUE
    BY <1>2
  <2>5. [rank |-> 0, at |-> e, external |-> FALSE] \in Ranked(p)
    BY <2>1, <2>4 DEF Ranked
  <2>6. \E t \in Ranked(p) : t.rank = 0
    BY <2>5
  <2>7. Best(p) # {} /\ \A t \in Best(p) : t.at \in p.named
    BY <2>3, <2>6 DEF Best
  <2> QED BY <1>1, <2>7
<1>3. CASE \E s \in p.symbols : s.global /\ s.function /\ ~s.external
  <2>1. PICK s \in p.symbols : s.global /\ s.function /\ ~s.external
    BY <1>3
  <2>2. s \in Candidates(p) /\ Candidates(p) \subseteq p.symbols
    BY <2>1 DEF Candidates
  <2>3. Fallbacks(p) = {}
    BY <2>1, <2>2 DEF Fallbacks
  <2>4. Rank(s) = 1
    BY <2>1 DEF Rank
  <2>5. \A u \in Candidates(p) :
            /\ Rank(u) \in 1..4
            /\ Rank(u) = 1 => u.at \in p.named
    BY <2>2 DEF Rank
  <2>6. \A t \in Ranked(p) : t.rank \in 1..4 /\ (t.rank = 1 => t.at \in p.named)
    BY <2>3, <2>5 DEF Ranked
  <2>7. \E t \in Ranked(p) : t.rank = 1
    <3>1. [rank |-> Rank(s), at |-> s.at, external |-> s.external] \in Ranked(p)
      BY <2>2 DEF Ranked
    <3> QED BY <2>4, <3>1
  <2>8. Best(p) # {} /\ \A t \in Best(p) : t.at \in p.named
    BY <2>6, <2>7 DEF Best
  <2> QED BY <1>1, <2>8
<1> QED BY <1>2, <1>3

(* The same of what the first script returns. *)
LEMMA ResolvedResult ==
    ASSUME NEW p \in Binaries, Consistent(p), NEW r \in Requests,
           NEW res \in Resolved(p, r)
    PROVE  /\ res \in Results
           /\ res.kind # "miss" => res.address \in Entries(p)
           /\ res.reason = "unanalyzed_code" => r.form # "huge"
           /\ r.form \notin {"huge", "name"} /\ p.owner[Value(r)] # NoAddress =>
                /\ res.kind # "miss" /\ res.reason = "none"
                /\ res.address = p.owner[Value(r)]
           /\ (/\ r.form = "name"
               /\ \/ \E s \in p.symbols : s.global /\ s.function /\ ~s.external
                  \/ p.named # {} /\ \A s \in p.symbols : s.external) =>
                /\ res.kind = "exact" /\ res.reason = "none"
                /\ res.address \in p.named
<1>1. CASE r.form = "huge"
  <2>1. res = Miss("address_overflow", NoAddress)
    BY <1>1 DEF Resolved
  <2> QED BY <1>1, <2>1 DEF Miss, Results, Kinds, Reasons
<1>2. CASE r.form # "huge" /\ Meant(p, r) = {}
  <2>1. res = Miss("name_not_found", NoAddress)
    BY <1>2 DEF Resolved
  <2>2. r.form = "name"
    BY <1>2 DEF Meant, AddressLike
  <2> QED BY <1>2, <2>1, <2>2, NameMeansFunction DEF Miss, Results, Kinds, Reasons
<1>3. CASE r.form # "huge" /\ Meant(p, r) # {}
  <2>1. PICK a \in Meant(p, r) : res \in Lookup(p, a)
    BY <1>3 DEF Resolved
  <2>2. a \in Addresses
    BY <1>3, <2>1, MeantType
  <2>3. r.form # "name" => a = Value(r)
    BY <2>1 DEF Meant, AddressLike
  <2>4. \A e \in p.named : e \in Addresses /\ p.owner[e] = e
    BY DEF Binaries, Consistent
  <2>5. a \in p.named => res.kind = "exact" /\ res.reason = "none" /\ res.address = a
    <3> SUFFICES ASSUME a \in p.named
                 PROVE  res.kind = "exact" /\ res.reason = "none" /\ res.address = a
        OBVIOUS
    <3>1. p.owner[a] = a /\ p.owner[a] # NoAddress
      BY <2>2, <2>4
    <3> QED BY <2>1, <2>2, <3>1, LookupResult
  <2> QED BY <1>3, <2>1, <2>2, <2>3, <2>5, LookupResult, NameMeansFunction
<1> QED BY <1>1, <1>2, <1>3

-----------------------------------------------------------------------------
(* What Ghidra does to the program under resolve(). *)

(* A new function takes addresses that no function had, and gives none     *)
(* back.                                                                   *)
LEMMA CreatedKeeps ==
    ASSUME NEW p \in Binaries, Consistent(p), NEW a \in Addresses,
           NEW q \in Created(p, a)
    PROVE  /\ q \in Binaries /\ Consistent(q)
           /\ q.owner[a] = a
           /\ \A b \in Addresses : p.owner[b] # NoAddress => q.owner[b] = p.owner[b]
           /\ q.symbols = p.symbols /\ q.named = p.named
<1>1. PICK body \in SUBSET Addresses :
            /\ \A b \in body : p.owner[b] = NoAddress
            /\ a \in body
            /\ q = [p EXCEPT !.owner = [b \in Addresses |-> IF b \in body THEN a
                                                           ELSE p.owner[b]]]
  BY DEF Created
<1>2. /\ q.owner = [b \in Addresses |-> IF b \in body THEN a ELSE p.owner[b]]
      /\ q.symbols = p.symbols /\ q.named = p.named
      /\ q.block = p.block /\ q.refs = p.refs
      /\ q \in Binaries
  BY <1>1 DEF Binaries
<1>3. p.owner \in [Addresses -> Addresses \cup {NoAddress}]
      /\ p.named \subseteq Addresses
  BY DEF Binaries
<1>4. \A b \in Addresses : p.owner[b] # NoAddress => q.owner[b] = p.owner[b]
  BY <1>1, <1>2
<1>5. ASSUME NEW b \in Addresses, q.owner[b] # NoAddress
      PROVE  q.owner[q.owner[b]] = q.owner[b]
  BY <1>1, <1>2, <1>3, <1>5 DEF Consistent
<1>6. \A e \in q.named : q.owner[e] = e
  BY <1>2, <1>3, <1>4 DEF Consistent
<1>7. Consistent(q)
  BY <1>2, <1>5, <1>6 DEF Consistent
<1> QED BY <1>1, <1>2, <1>4, <1>7

-----------------------------------------------------------------------------
(* The inductive invariant. *)

(* The request is an address, not a name and not too large a number. *)
Located == request.form \notin {"huge", "name"}

(* A function was there, and the code reads the address as documented. *)
FunctionThere == before # NoAddress /\ ~Misread(request)

(* Then it is still there, and makes the request one that the first script *)
(* answers.                                                                *)
BeforeKept ==
    FunctionThere => /\ Located
                     /\ prog.owner[Value(request)] = before
                     /\ pc \in {"start", "answered"}

(* A name that a function has makes it such a request, too. *)
HasFunction ==
    /\ request.form = "name"
    /\ \/ \E s \in prog.symbols : s.global /\ s.function /\ ~s.external
       \/ prog.named # {} /\ \A s \in prog.symbols : s.external

NameKept == HasFunction => pc \in {"start", "answered"}

(* The analysis runs while resolve() waits for it, and what it found is    *)
(* there.                                                                  *)
AnalysisKept ==
    /\ pc = "start" => job = "none"
    /\ pc \in {"waiting", "leaving"} => request.form # "huge"
    /\ pc = "answered" => job # "running"
    /\ job = "found" => Located /\ prog.owner[Value(request)] # NoAddress
    /\ pc # "answered" => answer = "none"

ResolveInv ==
    /\ TypeOK
    /\ BeforeKept
    /\ NameKept
    /\ AnalysisKept
    /\ HitIsEntry
    /\ ExistingFunctionFound
    /\ NameFindsFunction

(* It holds when a request comes, and every step keeps it. *)
LEMMA ResolveInit == Init => ResolveInv
<1> SUFFICES ASSUME Init PROVE ResolveInv
    OBVIOUS
<1>1. request \in Requests /\ prog \in Binaries /\ Consistent(prog)
  BY ProgramsAssumption DEF Init
<1>2. Located => Value(request) \in Addresses /\ Documented(request) \in Addresses
  BY <1>1, RequestsAssumption DEF Located
<1>3. before \in Addresses \cup {NoAddress} /\ BeforeKept
  <2>1. before \in Addresses \cup {NoAddress}
    BY <1>1, <1>2 DEF Init, Located, Binaries
  <2>2. ~Misread(request) => Value(request) = Documented(request)
    BY DEF Misread, Value, Documented
  <2>3. FunctionThere => Located /\ prog.owner[Value(request)] = before
    BY <1>1, <1>2, <2>2 DEF Init, FunctionThere, Located
  <2> QED BY <2>1, <2>3 DEF Init, BeforeKept
<1>4. TypeOK
  BY <1>1, <1>3 DEF Init, TypeOK, Miss, Kinds, Reasons, Codes
<1> QED BY <1>3, <1>4 DEF Init, ResolveInv, NameKept, AnalysisKept, HitIsEntry,
                         ExistingFunctionFound, FunctionThere, NameFindsFunction, Answered

(* One way to conclude, with a result that fits the request. *)
Fits(res) ==
    /\ res \in Results
    /\ res.kind # "miss" => res.address \in Entries(prog)
    /\ FunctionThere => res.kind # "miss" /\ res.address = before
    /\ HasFunction => res.kind = "exact" /\ res.address \in prog.named

(* resolve() returns, or raises the ToolError of a miss. *)
LEMMA ConcludeStep ==
    ASSUME ResolveInv, NEW res, Fits(res), Conclude(res),
           job' # "running", job' \in {"none", "found", "nothing"},
           job' = "found" => job = "found",
           UNCHANGED <<request, prog, ticks, before>>
    PROVE  ResolveInv'
<1> USE DEF ResolveInv
<1>1. /\ pc' = "answered" /\ result' = res
      /\ answer' = IF res.kind = "miss" THEN ErrorCode(res) ELSE "hit"
  BY DEF Conclude
<1>2. ErrorCode(res) \in Codes \ {"none", "hit"}
  BY DEF ErrorCode, Codes
<1>3. answer' \in Codes /\ (answer' = "hit" <=> res.kind # "miss")
  BY <1>1, <1>2 DEF Codes
<1>4. TypeOK'
  BY <1>1, <1>3 DEF TypeOK, Fits, Results
<1>5. BeforeKept' /\ NameKept' /\ AnalysisKept'
  BY <1>1 DEF BeforeKept, FunctionThere, NameKept, HasFunction, AnalysisKept, Located
<1>6. HitIsEntry'
  BY <1>1, <1>3 DEF HitIsEntry, Fits, Entries
<1>7. ExistingFunctionFound'
  BY <1>1, <1>3 DEF ExistingFunctionFound, FunctionThere, Fits, Answered
<1>8. NameFindsFunction'
  BY <1>1, <1>3 DEF NameFindsFunction, Fits, Answered, HasFunction
<1> QED BY <1>4, <1>5, <1>6, <1>7, <1>8

(* Beside resolve(): time passes, functions are made, the analysis ends.   *)
Background ==
    /\ \/ prog' = prog
       \/ pc # "answered" /\ \E a \in Addresses : prog' \in Created(prog, a)
    /\ \/ job' = job
       \/ job = "running" /\ job' \in {"nothing", "raised"}
       \/ job' = "found" /\ Located /\ prog'.owner[Value(request)] # NoAddress
    /\ ticks' \in 0..MaxTicks
    /\ UNCHANGED <<request, pc, result, answer, before>>

(* What happens beside resolve() takes nothing away from its answer. *)
LEMMA BackgroundStep ==
    ASSUME ResolveInv, Background, pc = "start" => job' = job
    PROVE  ResolveInv'
<1> USE DEF ResolveInv, Background
<1>1. /\ prog' \in Binaries /\ Consistent(prog')
      /\ \A b \in Addresses : prog.owner[b] # NoAddress => prog'.owner[b] = prog.owner[b]
      /\ prog'.symbols = prog.symbols /\ prog'.named = prog.named
  BY CreatedKeeps DEF TypeOK
<1>2. TypeOK'
  BY <1>1 DEF TypeOK
<1>3. Located => Value(request) \in Addresses
  <2>1. request \in Requests
    BY DEF TypeOK
  <2> QED BY <2>1, RequestsAssumption DEF Located
<1>4. BeforeKept' /\ NameKept'
  BY <1>1, <1>3 DEF BeforeKept, FunctionThere, NameKept, HasFunction, Located
<1>5. AnalysisKept'
  BY <1>1, <1>3 DEF AnalysisKept, Located
<1>6. HitIsEntry'
  <2>1. answer = "hit" => prog' = prog
    BY DEF AnalysisKept
  <2> QED BY <2>1 DEF HitIsEntry, Entries
<1>7. ExistingFunctionFound' /\ NameFindsFunction'
  BY <1>1 DEF ExistingFunctionFound, FunctionThere, NameFindsFunction, Answered
<1> QED BY <1>2, <1>4, <1>5, <1>6, <1>7

(* resolve() gives up without a result of a script. *)
LEMMA GiveUpStep ==
    ASSUME ResolveInv, pc \in {"waiting", "leaving"}, job # "running",
           pc' = "answered", answer' \in {"internal", "state"},
           UNCHANGED <<request, prog, result, job, ticks, before>>
    PROVE  ResolveInv'
<1> USE DEF ResolveInv
<1>1. TypeOK'
  BY DEF TypeOK, Codes
<1>2. ~FunctionThere /\ ~HasFunction
  BY DEF BeforeKept, NameKept
<1> QED BY <1>1, <1>2 DEF BeforeKept, FunctionThere, NameKept, HasFunction, AnalysisKept, HitIsEntry,
            ExistingFunctionFound, FunctionThere, NameFindsFunction, Answered,
            Located

(* One step of the resolver, of its analysis or of another thread. *)
LEMMA ResolveStep == ResolveInv /\ [Next]_vars => ResolveInv'
<1> SUFFICES ASSUME ResolveInv, [Next]_vars PROVE ResolveInv'
    OBVIOUS
<1> USE DEF ResolveInv
<1> request \in Requests /\ prog \in Binaries /\ Consistent(prog)
    BY DEF TypeOK
<1>1. CASE FirstPass
  <2>1. PICK res \in Resolved(prog, request) :
            \/ res.reason # "unanalyzed_code" /\ Conclude(res) /\ UNCHANGED job
            \/ /\ res.reason = "unanalyzed_code"
               /\ result' = res /\ pc' = "waiting" /\ job' = "running"
               /\ UNCHANGED answer
    BY <1>1 DEF FirstPass
  <2>2. pc = "start" /\ UNCHANGED <<request, prog, ticks, before>>
    BY <1>1 DEF FirstPass
  <2>3. Fits(res)
    BY ResolvedResult DEF Fits, BeforeKept, FunctionThere, Located, HasFunction
  <2>4. CASE res.reason # "unanalyzed_code"
    BY <2>1, <2>2, <2>3, <2>4, ConcludeStep DEF AnalysisKept
  <2>5. CASE res.reason = "unanalyzed_code"
    <3>1. ~FunctionThere /\ ~HasFunction /\ request.form # "huge"
      BY <2>5, ResolvedResult DEF BeforeKept, FunctionThere, Located, HasFunction
    <3>2. TypeOK'
      BY <2>1, <2>2, <2>3, <2>5 DEF TypeOK, Fits, Results
    <3> QED BY <2>1, <2>2, <2>5, <3>1, <3>2
            DEF BeforeKept, FunctionThere, NameKept, HasFunction, AnalysisKept, HitIsEntry,
                ExistingFunctionFound, FunctionThere, NameFindsFunction, Answered,
            Located
  <2> QED BY <2>4, <2>5
<1>2. CASE JobEnds
  <2>1. CASE ~AddressLike(request)
    <3>1. Background
      BY <1>2, <2>1 DEF JobEnds, Background, TypeOK
    <3> QED BY <1>2, <3>1, BackgroundStep DEF JobEnds, AnalysisKept
  <2>2. CASE AddressLike(request)
    <3>1. Located
      BY <1>2, <2>2 DEF JobEnds, AddressLike, Located, AnalysisKept, TypeOK
    <3>2. Value(request) \in Addresses
      BY <3>1, RequestsAssumption DEF Located
    <3>3. pc # "answered"
      BY <1>2 DEF JobEnds, AnalysisKept
    <3>4. Background
      BY <1>2, <2>2, <3>1, <3>2, <3>3 DEF JobEnds, Background, TypeOK
    <3> QED BY <1>2, <3>4, BackgroundStep DEF JobEnds, AnalysisKept
  <2> QED BY <2>1, <2>2
<1>3. CASE Collect
  <2>1. ~FunctionThere /\ ~HasFunction
    BY <1>3 DEF Collect, BeforeKept, NameKept
  <2>2. CASE job = "found"
    <3>1. Value(request) \in Addresses /\ prog.owner[Value(request)] # NoAddress
      BY <2>2, RequestsAssumption DEF AnalysisKept, Located
    <3>2. Fits(Hit("exact", prog.owner[Value(request)]))
      BY <2>1, <3>1 DEF Fits, Hit, Results, Kinds, Reasons, Entries, Binaries,
                        Consistent
    <3>3. Conclude(Hit("exact", prog.owner[Value(request)]))
      BY <1>3, <2>2 DEF Collect
    <3> QED BY <1>3, <2>2, <3>2, <3>3, ConcludeStep DEF Collect
  <2>3. CASE job = "nothing"
    <3>1. Fits(Miss("unanalyzed_code", NoAddress))
      BY <2>1 DEF Fits, Miss, Results, Kinds, Reasons
    <3>2. Conclude(Miss("unanalyzed_code", NoAddress))
      BY <1>3, <2>3 DEF Collect
    <3> QED BY <1>3, <2>3, <3>1, <3>2, ConcludeStep DEF Collect
  <2> QED BY <1>3, <2>2, <2>3 DEF Collect
<1>4. CASE CollectRaised
  BY <1>4, GiveUpStep DEF CollectRaised
<1>5. CASE CapHit
  BY <1>5 DEF CapHit, TypeOK, BeforeKept, FunctionThere, NameKept, HasFunction, AnalysisKept,
              HitIsEntry, ExistingFunctionFound, FunctionThere, NameFindsFunction, Answered,
            Located
<1>6. CASE Leave
  BY <1>6, GiveUpStep DEF Leave
<1>7. CASE Tick
  <2>1. Background
    BY <1>7 DEF Tick, TypeOK, Background
  <2> QED BY <1>7, <2>1, BackgroundStep DEF Tick
<1>8. ASSUME NEW a \in Addresses, OtherCreates(a) PROVE ResolveInv'
  <2>1. Background
    BY <1>8 DEF OtherCreates, TypeOK, Background
  <2> QED BY <1>8, <2>1, BackgroundStep DEF OtherCreates
<1>9. CASE UNCHANGED vars
  <2>1. Background
    BY <1>9 DEF vars, TypeOK, Background
  <2> QED BY <1>9, <2>1, BackgroundStep DEF vars
<1> QED BY <1>1, <1>2, <1>3, <1>4, <1>5, <1>6, <1>7, <1>8, <1>9 DEF Next

-----------------------------------------------------------------------------
(* The invariant of resolution. *)
LEMMA ResolveCorrect == Spec => []ResolveInv
BY ResolveInit, ResolveStep, PTL DEF Spec

(* TypeOK: every variable of resolve() keeps its type; in particular the   *)
(* tables stay in agreement and every ToolError has a code of the taxonomy. *)
THEOREM ResolveTypes == Spec => []TypeOK
<1>1. ResolveInv => TypeOK
  BY DEF ResolveInv
<1> QED BY <1>1, ResolveCorrect, PTL

(* HitIsEntry: what a hit returns, from the tables, through a PLT slot or  *)
(* after auto-analysis, is the entry of a function.                        *)
THEOREM HitsAreEntries == Spec => []HitIsEntry
<1>1. ResolveInv => HitIsEntry
  BY DEF ResolveInv
<1> QED BY <1>1, ResolveCorrect, PTL

(* ExistingFunctionFound: a function that held the documented address when *)
(* the request came is the answer, whatever other threads create meanwhile *)
(* and for every text whose digits the code reads in the documented base.  *)
THEOREM ExistingFunctionsFound == Spec => []ExistingFunctionFound
<1>1. ResolveInv => ExistingFunctionFound
  BY DEF ResolveInv
<1> QED BY <1>1, ResolveCorrect, PTL

(* NameFindsFunction: the ranking of symbols never lets an external symbol *)
(* or a label shadow a function of the name.                               *)
THEOREM NamesFindFunctions == Spec => []NameFindsFunction
<1>1. ResolveInv => NameFindsFunction
  BY DEF ResolveInv
<1> QED BY <1>1, ResolveCorrect, PTL
=============================================================================
