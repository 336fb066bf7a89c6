--------------------------- MODULE SearchListings ---------------------------
(***************************************************************************)
(* The listings: search.strings (all of them, by regular expression, by    *)
(* substring), search.functions and tools/list, and an agent that reads a  *)
(* listing to its end, page by page.  A page is read row by row, in the    *)
(* script of the regex paths or by the backend (`exact`).  The same query  *)
(* finds other rows on the two paths: a pattern minds the case, a substring *)
(* of a string does not, and an exact function name is the whole name.  So *)
(* `exact` is part of the question, which the agent repeats for each page  *)
(* of a listing.  Invalid patterns and refused arguments read nothing and  *)
(* are left out.                                                           *)
(***************************************************************************)
EXTENDS ProgramTable, Sequences, Functions

CONSTANTS
    Matching,      \* the addresses a query finds, in each listing on each path
    Undecodable,   \* the strings Ghidra has no value for
    Limits         \* the limits the agent asks for

ASSUME ListingAssumption ==
    /\ Matching \in [{"search", "functions"} ->
                        [{"regex", "backend"} -> SUBSET Addresses]]
    /\ Undecodable \subseteq Addresses
    /\ Limits \subseteq Nat \ {0}

VARIABLES
    walk,      \* "none", or the agent is "asking", "scanning", "ended", "failed"
    listing,   \* "strings" (all), "search" (the query), "functions", "tools"
    page,      \* the request: path, offset and limit
    at,        \* the row the iterator gave last
    skipped, total, items,    \* the counters and the list of the regex loop
    strings,   \* the rows the backend has collected
    offset,    \* where the agent goes on
    listed     \* what the agent has been given

scanVars == <<at, skipped, total, items, strings>>
searchVars == <<walk, listing, page, scanVars, offset, listed>>

FirstPage == [path |-> "regex", offset |-> 0, limit |-> 1]

SearchInit ==
    /\ walk = "none"
    /\ listing = "tools"
    /\ page = FirstPage
    /\ at = 0 /\ skipped = 0 /\ total = 0 /\ items = <<>> /\ strings = <<>>
    /\ offset = 0
    /\ listed = <<>>

StartScan ==
    at' = 0 /\ skipped' = 0 /\ total' = 0 /\ items' = <<>> /\ strings' = <<>>

(* The agent is through and forgets. *)
EndWalk ==
    /\ walk \in {"ended", "failed"}
    /\ walk' = "none"
    /\ listing' = "tools"
    /\ page' = FirstPage
    /\ StartScan
    /\ offset' = 0
    /\ listed' = <<>>
    /\ UNCHANGED tableVars

(* An absent query is the backend's; a query is a pattern unless `exact`. *)
Paths == IF listing = "strings" THEN {"backend"} ELSE {"regex", "backend"}

(* The rows the agent asks for. *)
Wanted == IF listing \in {"strings", "tools"} THEN Addresses
          ELSE Matching[listing][page.path]

BeginWalk ==
    /\ Watch
    /\ walk' = "asking"
    /\ listing' \in {"strings", "search", "functions", "tools"}
    /\ \E path \in Paths' : page' = [FirstPage EXCEPT !.path = path]
    /\ UNCHANGED <<scanVars, offset, listed>>

-----------------------------------------------------------------------------
(* The server: one page. *)

(* search.functions has a limit and no offset. *)
AskPage(limit) ==
    /\ walk = "asking"
    /\ listing # "tools"
    /\ walk' = "scanning"
    /\ page' = [path |-> page.path, limit |-> limit,
                offset |-> IF listing = "functions" THEN 0 ELSE offset]
    /\ StartScan
    /\ UNCHANGED <<listing, offset, listed, tableVars>>

(* The loop of the regex scripts, for one row that matches. *)
Count(r) ==
    IF skipped < page.offset
    THEN skipped' = skipped + 1 /\ UNCHANGED <<total, items>>
    ELSE /\ total' = total + 1
         /\ items' = IF Len(items) < page.limit THEN Append(items, r) ELSE items
         /\ UNCHANGED skipped

RegexRow ==
    /\ walk = "scanning" /\ page.path = "regex"
    /\ Ahead(at) # {}
    /\ at' = Min(Ahead(at))
    /\ IF at' \in Wanted THEN Count(at')
       ELSE UNCHANGED <<skipped, total, items>>
    /\ UNCHANGED <<walk, listing, page, strings, offset, listed, tableVars>>

(* The backend makes a list of all rows first. *)
BackendRow ==
    /\ walk = "scanning" /\ page.path = "backend"
    /\ Ahead(at) # {}
    /\ at' = Min(Ahead(at))
    /\ strings' = Append(strings, at')
    /\ UNCHANGED <<walk, listing, page, skipped, total, items, offset, listed,
                   tableVars>>

(* The members of a set in the order of a list (SelectSeq, written as a    *)
(* recursive function because proofs expand it).                           *)
Filtered(seq, set) ==
    LET upto[n \in 0..Len(seq)] ==
            IF n = 0 THEN <<>>
            ELSE IF seq[n] \in set THEN Append(upto[n - 1], seq[n]) ELSE upto[n - 1]
    IN  upto[Len(seq)]

Slice(seq, from, limit) == SubSeq(seq, from + 1, Min({from + limit, Len(seq)}))

OffsetOutOfRange(got, all) == all > 0 /\ got = <<>> /\ page.offset >= all

(* The agent reads on behind what it was given, to the total or until the  *)
(* answer says it went too far; for functions it asks again for more.      *)
Answer(got, all) ==
    /\ IF listing = "functions"
       THEN listed' = got /\ UNCHANGED offset
       ELSE listed' = listed \o got /\ offset' = offset + Len(got)
    /\ walk' = IF all = 0 \/ OffsetOutOfRange(got, all)
                  \/ page.offset + Len(got) = all
               THEN "ended" ELSE "asking"
    /\ UNCHANGED <<listing, page, scanVars, tableVars>>

(* Mutant: the rows skipped for the offset are not part of the total. *)
RegexTotal_Rest == total

RegexTotal == total + skipped

RegexEnd ==
    /\ walk = "scanning" /\ page.path = "regex"
    /\ Ahead(at) = {}
    /\ Answer(items, RegexTotal)

(* `item['value'].lower()` fails on a string without a value. *)
BackendEnd ==
    LET found == Filtered(strings, Wanted)
    IN  /\ walk = "scanning" /\ page.path = "backend"
        /\ Ahead(at) = {}
        /\ IF listing = "search" /\ Range(strings) \cap Undecodable # {}
           THEN /\ walk' = "failed"
                /\ UNCHANGED <<listing, page, scanVars, offset, listed, tableVars>>
           ELSE Answer(Slice(found, page.offset, page.limit), Len(found))

(* tools/list: the tools are those of the build; the answer says where the *)
(* next page starts, if there is one.  Without offset and limit it has all. *)
ToolsPage ==
    LET tools == [a \in Addresses |-> a]
        rest == Slice(tools, offset, Len(tools))
    IN  /\ walk = "asking" /\ listing = "tools"
        /\ \E got \in {rest} \cup {Slice(tools, offset, l) : l \in Limits} :
              /\ listed' = listed \o got
              /\ offset' = offset + Len(got)
              /\ walk' = IF offset + Len(got) < Len(tools) THEN "asking"
                         ELSE "ended"
        /\ UNCHANGED <<listing, page, scanVars, tableVars>>

SearchStep ==
    \/ \E limit \in Limits : AskPage(limit)
    \/ RegexRow \/ BackendRow \/ RegexEnd \/ BackendEnd \/ ToolsPage

-----------------------------------------------------------------------------
(* Properties. *)

(* A listing that was read to its end has every row that was there all the *)
(* time, unless a removal moved it in front of the offset, and none twice, *)
(* unless an addition moved it behind.  Whatever the path, the size of each *)
(* page and the step of a scan at which the script changes the program, if *)
(* the agent repeats its question from page to page.                       *)
PagesComplete ==
    walk = "ended" =>
        /\ Range(listed) \subseteq Wanted
        /\ listing = "tools" => Range(listed) = Wanted
        /\ ~lost => (kept \cap Wanted) \subseteq Range(listed)
        /\ ~gained \/ listing \in {"functions", "tools"} => IsInjective(listed)
=============================================================================
