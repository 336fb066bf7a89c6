---------------------------- MODULE ProgramTable ----------------------------
(***************************************************************************)
(* One table of the Ghidra program (its strings, functions or references)  *)
(* as a tool call reads it: rows known by their addresses, which Ghidra's  *)
(* iterators give in order, while a script that pyghidra.exec has abandoned *)
(* goes on defining and removing rows.                                     *)
(***************************************************************************)
EXTENDS Naturals, FiniteSetsExt

CONSTANTS
    LastAddress,   \* bound: addresses a row can be at
    MaxChanges     \* bound: rows the script defines or removes in an activity

ASSUME TableAssumption ==
    LastAddress \in Nat \ {0} /\ MaxChanges \in Nat

Addresses == 1..LastAddress

VARIABLES
    rows,      \* the addresses with a row
    kept,      \* history: rows that were there all through the activity
    gained,    \* history: a row was defined during the activity
    lost,      \* history: a row was removed during the activity
    changes

tableVars == <<rows, kept, gained, lost, changes>>

TableInit ==
    /\ rows \in SUBSET Addresses
    /\ kept = rows
    /\ gained = FALSE
    /\ lost = FALSE
    /\ changes = 0

(* An activity of the agent begins: the histories are about it. *)
Watch ==
    /\ kept' = rows
    /\ gained' = FALSE
    /\ lost' = FALSE
    /\ changes' = 0
    /\ UNCHANGED rows

(* The abandoned script defines or removes a row. *)
Define(a) ==
    /\ changes < MaxChanges
    /\ a \notin rows
    /\ rows' = rows \cup {a}
    /\ gained' = TRUE
    /\ changes' = changes + 1
    /\ UNCHANGED <<kept, lost>>

Undefine(a) ==
    /\ changes < MaxChanges
    /\ a \in rows
    /\ rows' = rows \ {a}
    /\ kept' = kept \ {a}
    /\ lost' = TRUE
    /\ changes' = changes + 1
    /\ UNCHANGED gained

(* A resolution that finds code and no function defines it. *)
AnalysisDefines(a) ==
    /\ a \notin rows
    /\ rows' = rows \cup {a}
    /\ gained' = TRUE
    /\ UNCHANGED <<kept, lost, changes>>

ScriptGoesOn == \E a \in Addresses : Define(a) \/ Undefine(a)

(* What an iterator that stands at address a has before it. *)
Ahead(a) == {r \in rows : r > a}
=============================================================================
