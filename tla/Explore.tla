------------------------------ MODULE Explore ------------------------------
(***************************************************************************)
(* An agent explores a program: it reads listings to their end, asks for   *)
(* references and decompiles in batches, one activity after the other, in  *)
(* the one server thread, while an abandoned script changes the table that *)
(* the activity reads.                                                     *)
(***************************************************************************)
EXTENDS SearchListings, XrefsTools, DecompileBatch

vars == <<tableVars, searchVars, xrefsVars, batchVars>>

Init == TableInit /\ SearchInit /\ XrefsInit /\ BatchInit

Resting == walk = "none" /\ xrefs = "none" /\ batch = "none"

Begin ==
    /\ Resting
    /\ \/ BeginWalk /\ UNCHANGED <<xrefsVars, batchVars>>
       \/ (AskRange \/ AskFrom) /\ UNCHANGED <<searchVars, batchVars>>
       \/ BatchBegin /\ UNCHANGED <<searchVars, xrefsVars>>

ServerStep ==
    \/ (SearchStep \/ EndWalk) /\ UNCHANGED <<xrefsVars, batchVars>>
    \/ (XrefsStep \/ EndXrefs) /\ UNCHANGED <<searchVars, batchVars>>
    \/ (BatchStep \/ EndBatch) /\ UNCHANGED <<searchVars, xrefsVars>>

Script == ScriptGoesOn /\ ~Resting /\ UNCHANGED <<searchVars, xrefsVars, batchVars>>

Next == Begin \/ ServerStep \/ Script

Spec == Init /\ [][Next]_vars
=============================================================================
