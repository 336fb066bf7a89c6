----------------------------- MODULE XrefsTools -----------------------------
(***************************************************************************)
(* xrefs.to and xrefs.from: one address, or a range; for xrefs.from the    *)
(* address of a function is expanded to the function's body.  A row of the *)
(* table is a reference, known by the address it goes from (or, for        *)
(* xrefs.to, to); Code are the rows with a type of control flow.  Refused  *)
(* arguments read nothing and are left out.                                *)
(***************************************************************************)
EXTENDS ProgramTable

CONSTANTS
    Code,          \* the addresses of references of a code type
    XrefLimits,    \* the limits the agent asks for
    BodyFirst, BodyLast    \* the body of the one function

ASSUME XrefsAssumption ==
    /\ Code \subseteq Addresses
    /\ XrefLimits \subseteq Nat \ {0}
    /\ BodyFirst \in Addresses /\ BodyLast \in BodyFirst..LastAddress

VARIABLES
    xrefs,      \* "none", "resolving", "scanning" or "answered"
    ask,        \* the arguments: limit, includeData
    range,      \* the addresses asked for: first and last
    cursor,     \* the address whose reference was read last
    found,      \* the references read
    answer      \* what the agent gets: items, truncated, filteredOut

xrefsVars == <<xrefs, ask, range, cursor, found, answer>>

NoArguments == [limit |-> 1, includeData |-> FALSE]
NoAnswer == [items |-> {}, truncated |-> FALSE, filteredOut |-> 0]

XrefsInit ==
    /\ xrefs = "none"
    /\ ask = NoArguments
    /\ range = <<1, 1>>
    /\ cursor = 0
    /\ found = {}
    /\ answer = NoAnswer

Arguments == [limit : XrefLimits, includeData : BOOLEAN]

(* A range, or an address of xrefs.to, goes to the backend as it is. *)
AskRange ==
    /\ Watch
    /\ xrefs' = "scanning"
    /\ ask' \in Arguments
    /\ \E first \in Addresses : \E last \in first..LastAddress :
          range' = <<first, last>> /\ cursor' = first - 1
    /\ UNCHANGED <<found, answer>>

(* xrefs.from with an address: it may be a function's. *)
AskFrom ==
    /\ Watch
    /\ xrefs' = "resolving"
    /\ ask' \in Arguments
    /\ \E a \in Addresses : range' = <<a, a>>
    /\ UNCHANGED <<cursor, found, answer>>

(* Resolution, and the body of the function it finds, in two scripts.  An  *)
(* exception in either, a function that is gone by the second, or a body   *)
(* of one address: the address stays as it is.                             *)
Expand ==
    /\ xrefs = "resolving"
    /\ xrefs' = "scanning"
    /\ \/ /\ range[1] \in BodyFirst..BodyLast
          /\ BodyFirst # BodyLast
          /\ range' = <<BodyFirst, BodyLast>>
       \/ UNCHANGED range
    /\ cursor' = range'[1] - 1
    /\ UNCHANGED <<ask, found, answer, tableVars>>

InRange == Ahead(cursor) \cap range[1]..range[2]

(* The backend reads up to the limit. *)
ReadReference ==
    /\ xrefs = "scanning"
    /\ Cardinality(found) < ask.limit
    /\ InRange # {}
    /\ cursor' = Min(InRange)
    /\ found' = found \cup {cursor'}
    /\ UNCHANGED <<xrefs, ask, range, answer, tableVars>>

Shown == IF ask.includeData THEN found ELSE found \cap Code

(* Mutant: the marker is computed from the filtered answer. *)
Truncated_Filtered == Cardinality(Shown) >= ask.limit

(* The marker is about what the backend returned, before data references   *)
(* are dropped from it.                                                    *)
Truncated == Cardinality(found) >= ask.limit

AnswerXrefs ==
    /\ xrefs = "scanning"
    /\ Cardinality(found) >= ask.limit \/ InRange = {}
    /\ xrefs' = "answered"
    /\ answer' = [items |-> Shown, truncated |-> Truncated,
                  filteredOut |-> Cardinality(found \ Shown)]
    /\ UNCHANGED <<ask, range, cursor, found, tableVars>>

EndXrefs ==
    /\ xrefs = "answered"
    /\ xrefs' = "none"
    /\ ask' = NoArguments /\ range' = <<1, 1>> /\ cursor' = 0
    /\ found' = {} /\ answer' = NoAnswer
    /\ UNCHANGED tableVars

XrefsStep == Expand \/ ReadReference \/ AnswerXrefs

-----------------------------------------------------------------------------
(* Properties. *)

(* An answer without the marker is exhaustive: of the range it says it is  *)
(* about, every code reference that was there all the time is among the    *)
(* items, every data reference among them or counted as filtered out; and  *)
(* if nothing changed, nothing else is.                                    *)
XrefsExhaustive ==
    xrefs = "answered" /\ ~answer.truncated =>
        LET there == kept \cap range[1]..range[2]
            data == there \ Code
        IN  /\ (there \cap Code) \subseteq answer.items
            /\ Cardinality(data \ answer.items) <= answer.filteredOut
            /\ ~gained /\ ~lost =>
                  /\ answer.items \subseteq there
                  /\ Cardinality(there)
                        = Cardinality(answer.items) + answer.filteredOut
=============================================================================
