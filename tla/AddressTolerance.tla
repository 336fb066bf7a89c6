-------------------------- MODULE AddressTolerance --------------------------
(***************************************************************************)
(* src/tinyghidramcp/address_tolerance.py: from what the agent typed to    *)
(* the entry of a function, or to a structured error.  A first script      *)
(* looks the request up in Ghidra's tables; for code that was never        *)
(* analysed a second script creates a function, in a thread of its own and *)
(* with a wall cap.                                                        *)
(*                                                                         *)
(* Each script is one step.  A text the agent typed is known by what       *)
(* _parse_addr makes of it: its value in base 16 and in base 10.           *)
(***************************************************************************)
EXTENDS Naturals, FiniteSetsExt

CONSTANTS
    Addresses,    \* addresses of the default space, natural numbers
    Programs,     \* what Ghidra knows of the binary
    Requests,     \* what the agent may type
    Cap,          \* AUTO_ANALYZE_WALL_SEC, in ticks
    MaxTicks,     \* bound: how long an analysis is watched
    NoAddress

ASSUME AddressesAssumption == Addresses \subseteq Nat /\ NoAddress \notin Addresses
ASSUME CapAssumption == Cap \in Nat /\ MaxTicks \in Nat /\ Cap < MaxTicks

VARIABLES
    request,
    prog,      \* block, owner, refs; the symbols and functions of one name
    pc,        \* where resolve() is
    result,    \* the dict the last script returned
    answer,    \* "hit" or the error_code of the ToolError
    job,       \* the auto-analysis in its thread
    ticks,     \* time spent in _run_auto_analyze
    before     \* history: function owning the documented address when the
               \* request came

vars == <<request, prog, pc, result, answer, job, ticks, before>>

Kinds == {"exact", "containing", "plt_thunk", "miss"}
Reasons == {"none", "name_not_found", "address_overflow", "plt_thunk_unresolved",
            "unanalyzed_code", "data", "out_of_image"}
Codes == {"none", "hit", "bad_args", "not_found_name", "not_found_address",
          "state", "internal"}

Hit(kind, a) == [kind |-> kind, address |-> a, reason |-> "none"]
Miss(reason, near) == [kind |-> "miss", address |-> near, reason |-> reason]

Forms == {"hex", "letters", "bare", "name", "huge"}
BlockKinds == {"text", "plt", "data", "none"}
Symbols == [at : Addresses, function : BOOLEAN, external : BOOLEAN,
            global : BOOLEAN]
Binaries == [block : [Addresses -> BlockKinds],
             owner : [Addresses -> Addresses \cup {NoAddress}],
             refs : [Addresses -> SUBSET Addresses],
             symbols : SUBSET Symbols,
             named : SUBSET Addresses]

(* Ghidra's tables agree: a function owns its entry, the functions of the  *)
(* name are functions, and a function's symbol leads to one of them unless *)
(* it is external.                                                         *)
Consistent(p) ==
    /\ \A a \in Addresses : LET e == p.owner[a]
                            IN  e # NoAddress => p.owner[e] = e
    /\ \A e \in p.named : p.owner[e] = e
    /\ \A s \in p.symbols : s.function /\ ~s.external => s.at \in p.named

ASSUME ProgramsAssumption == \A p \in Programs : p \in Binaries /\ Consistent(p)

TypeOK ==
    /\ request \in Requests
    /\ prog \in Binaries
    /\ Consistent(prog)
    /\ pc \in {"start", "waiting", "leaving", "answered"}
    /\ result \in [kind : Kinds, address : Addresses \cup {NoAddress},
                   reason : Reasons]
    /\ answer \in Codes
    /\ job \in {"none", "running", "found", "nothing", "raised"}
    /\ ticks \in 0..MaxTicks
    /\ before \in Addresses \cup {NoAddress}

-----------------------------------------------------------------------------
(* _is_addresslike and _parse_addr. *)

AddressLike(r) == r.form # "name"

(* 0x-prefixed digits and digits with a letter a-f are read in base 16,    *)
(* other digits in base 10.                                                *)
Value(r) == IF r.form = "bare" THEN r.dec ELSE r.hex

(* The documentation has one reading: "a hex address (`0x401234` or        *)
(* `401234`)" (meta.py:109-110).                                           *)
Documented(r) == r.hex

(* Digits without a letter are the case where the two differ. *)
Misread(r) == r.form = "bare" /\ r.dec # r.hex

(* A number beyond the largest address is "huge".                          *)
ASSUME RequestsAssumption ==
    \A r \in Requests :
        /\ r.form \in Forms
        /\ r.form \notin {"name", "huge"} => {Value(r), Documented(r)} \subseteq Addresses

-----------------------------------------------------------------------------
(* Symbol names. *)

(* The global symbols of the name, or else those of any namespace. *)
Candidates(p) ==
    LET global == {s \in p.symbols : s.global}
    IN  IF global # {} THEN global ELSE p.symbols

(* Functions of the name, looked at when every symbol is external. *)
Fallbacks(p) ==
    IF \A s \in Candidates(p) : s.external THEN p.named ELSE {}

(* Mutant: a symbol's rank does not tell functions from labels. *)
Rank_NoType(s) == IF s.external THEN 2 ELSE 1

Rank(s) == IF s.function THEN (IF s.external THEN 2 ELSE 1)
                         ELSE (IF s.external THEN 4 ELSE 3)

Ranked(p) ==
    {[rank |-> 0, at |-> e, external |-> FALSE] : e \in Fallbacks(p)}
    \cup {[rank |-> Rank(s), at |-> s.at, external |-> s.external] :
              s \in Candidates(p)}

(* What sorting by rank alone can put first. *)
Best(p) == {t \in Ranked(p) : \A u \in Ranked(p) : t.rank <= u.rank}

-----------------------------------------------------------------------------
(* The lookup of an address. *)

Entries(p) == {a \in Addresses : p.owner[a] = a}

(* getFunctionsNoStubs(False) starts at the highest entry.  The loop stops *)
(* at an entry above the address and takes the one it saw before; without  *)
(* such a stop it takes the last one it saw.                               *)
Nearest(p, a) ==
    IF Entries(p) = {} \/ Max(Entries(p)) > a THEN NoAddress ELSE Min(Entries(p))

(* Mutant: the function containing the address is not looked for. *)
Lookup_NoContaining(p, a) ==
    IF p.owner[a] = a THEN {Hit("exact", a)}
    ELSE IF p.block[a] = "text" THEN {Miss("unanalyzed_code", NoAddress)}
    ELSE IF p.block[a] = "none" THEN {Miss("out_of_image", Nearest(p, a))}
    ELSE {Miss("data", NoAddress)}

(* Mutant: a PLT reference is followed to any address. *)
Lookup_AnyTarget(p, a) ==
    IF p.owner[a] = a THEN {Hit("exact", a)}
    ELSE IF p.owner[a] # NoAddress THEN {Hit("containing", p.owner[a])}
    ELSE IF p.block[a] = "plt" THEN {Hit("plt_thunk", t) : t \in p.refs[a]}
                                    \cup {Miss("plt_thunk_unresolved", NoAddress)}
    ELSE IF p.block[a] = "none" THEN {Miss("out_of_image", Nearest(p, a))}
    ELSE {Miss("unanalyzed_code", NoAddress)}

(* Exact, containing, PLT thunk, or a miss.  Of several references out of  *)
(* a PLT slot the first that reaches a function counts, in an order that   *)
(* is Ghidra's.                                                            *)
Lookup(p, a) ==
    LET thunks == {t \in p.refs[a] : t \in Entries(p)}
    IN  IF p.owner[a] = a THEN {Hit("exact", a)}
        ELSE IF p.owner[a] # NoAddress THEN {Hit("containing", p.owner[a])}
        ELSE CASE p.block[a] = "plt" ->
                    IF thunks # {} THEN {Hit("plt_thunk", t) : t \in thunks}
                    ELSE {Miss("plt_thunk_unresolved", NoAddress)}
               [] p.block[a] = "text" -> {Miss("unanalyzed_code", NoAddress)}
               [] p.block[a] = "data" -> {Miss("data", NoAddress)}
               [] p.block[a] = "none" -> {Miss("out_of_image", Nearest(p, a))}

(* The addresses _RESOLVE_SCRIPT may look up for the request. *)
Meant(p, r) == IF AddressLike(r) THEN {Value(r)} ELSE {t.at : t \in Best(p)}

(* The results _RESOLVE_SCRIPT can return. *)
Resolved(p, r) ==
    IF r.form = "huge" THEN {Miss("address_overflow", NoAddress)}
    ELSE IF Meant(p, r) = {} THEN {Miss("name_not_found", NoAddress)}
    ELSE UNION {Lookup(p, a) : a \in Meant(p, r)}

-----------------------------------------------------------------------------
(* resolve() *)

Init ==
    /\ request \in Requests
    /\ prog \in Programs
    /\ pc = "start"
    /\ result = Miss("none", NoAddress)
    /\ answer = "none"
    /\ job = "none"
    /\ ticks = 0
    /\ before = IF request.form \in {"huge", "name"} THEN NoAddress
                ELSE prog.owner[Documented(request)]

(* Mutant: an overflow is given its reason for an error code. *)
ErrorCode_Reason(res) ==
    CASE res.reason = "address_overflow" -> res.reason
      [] res.reason = "name_not_found" -> "not_found_name"
      [] OTHER -> "not_found_address"

(* The ToolError a miss turns into. *)
ErrorCode(res) ==
    CASE res.reason = "address_overflow" -> "bad_args"
      [] res.reason = "name_not_found" -> "not_found_name"
      [] OTHER -> "not_found_address"

Conclude(res) ==
    /\ result' = res
    /\ pc' = "answered"
    /\ answer' = IF res.kind = "miss" THEN ErrorCode(res) ELSE "hit"

(* The first script; unanalysed code goes on to step 4. *)
FirstPass ==
    /\ pc = "start"
    /\ \E res \in Resolved(prog, request) :
        \/ /\ res.reason # "unanalyzed_code"
           /\ Conclude(res)
           /\ UNCHANGED job
        \/ /\ res.reason = "unanalyzed_code"
           /\ result' = res
           /\ pc' = "waiting"
           /\ job' = "running"
           /\ UNCHANGED answer
    /\ UNCHANGED <<request, prog, ticks, before>>

(* The program once Ghidra made a function at a, with any free body. *)
Created(p, a) ==
    LET free == {b \in Addresses : p.owner[b] = NoAddress}
        With(body) == [b \in Addresses |-> IF b \in body THEN a ELSE p.owner[b]]
    IN  {[p EXCEPT !.owner = With(body)] : body \in {S \in SUBSET free : a \in S}}

(* The analysis ends.  It made a function at the address, or found the one *)
(* that was made meanwhile, or neither; a name it cannot parse, and raises. *)
JobEnds ==
    /\ job = "running"
    /\ \/ /\ ~AddressLike(request)
          /\ job' = "raised"
          /\ UNCHANGED prog
       \/ /\ AddressLike(request)
          /\ prog' \in {prog} \cup Created(prog, Value(request))
          /\ job' = IF prog'.owner[Value(request)] # NoAddress THEN "found" ELSE "nothing"
    /\ UNCHANGED <<request, pc, result, answer, ticks, before>>

(* fut.result returned in time. *)
Collect ==
    /\ pc = "waiting"
    /\ \/ job = "found" /\ Conclude(Hit("exact", prog.owner[Value(request)]))
       \/ job = "nothing" /\ Conclude(Miss("unanalyzed_code", NoAddress))
    /\ UNCHANGED <<request, prog, job, ticks, before>>

CollectRaised ==
    /\ pc = "waiting"
    /\ job = "raised"
    /\ pc' = "answered"
    /\ answer' = "internal"
    /\ UNCHANGED <<request, prog, result, job, ticks, before>>

(* The cap: the ToolError leaves the `with` block of the executor ... *)
CapHit ==
    /\ pc = "waiting"
    /\ job = "running"
    /\ ticks = Cap
    /\ pc' = "leaving"
    /\ UNCHANGED <<request, prog, result, answer, job, ticks, before>>

(* ... which joins its thread first: the call blocks past the cap, where   *)
(* address_tolerance.py:263-266 has the analysis go on in the background.  *)
Leave ==
    /\ pc = "leaving"
    /\ job # "running"
    /\ pc' = "answered"
    /\ answer' = "state"
    /\ UNCHANGED <<request, prog, result, job, ticks, before>>

(* Time passes; the timer of fut.result is not late. *)
Tick ==
    /\ \/ pc = "waiting" /\ ticks < Cap
       \/ pc = "leaving" /\ ticks < MaxTicks
    /\ job = "running"
    /\ ticks' = ticks + 1
    /\ UNCHANGED <<request, prog, pc, result, answer, job, before>>

(* A script in another thread (the warm-up, an abandoned pyghidra.exec)    *)
(* creates a function in between.                                          *)
OtherCreates(a) ==
    /\ pc # "answered"
    /\ prog' \in Created(prog, a)
    /\ UNCHANGED <<request, pc, result, answer, job, ticks, before>>

Next == FirstPass \/ JobEnds \/ Collect \/ CollectRaised \/ CapHit \/ Leave \/ Tick
        \/ \E a \in Addresses : OtherCreates(a)

Spec == Init /\ [][Next]_vars

-----------------------------------------------------------------------------
(* Properties. *)

Answered == pc = "answered"

(* What a hit returns is the entry of a function: decompile uses it as the *)
(* cache key, so any two requests for one function must agree on it.       *)
HitIsEntry == answer = "hit" => result.address \in Entries(prog)

(* A function that held the address the agent wrote, as the documentation  *)
(* reads it, when the request came is found: no base, PLT block, analysis  *)
(* or change by another thread turns it into a miss or another function.   *)
(* Not claimed for digits without a letter: the documentation has them in  *)
(* base 16 and the code reads them in base 10, so they can lead to another *)
(* function without a word.                                                *)
ExistingFunctionFound ==
    Answered /\ before # NoAddress /\ ~Misread(request)
        => answer = "hit" /\ result.address = before

(* A name that a global function of the program has, or that only external *)
(* symbols have besides the program's functions, resolves to a function of *)
(* that name, not to an external or a label that shares it.                *)
NameFindsFunction ==
    (/\ Answered /\ request.form = "name"
     /\ \/ \E s \in prog.symbols : s.global /\ s.function /\ ~s.external
        \/ prog.named # {} /\ \A s \in prog.symbols : s.external)
            => answer = "hit" /\ result.kind = "exact" /\ result.address \in prog.named
=============================================================================
