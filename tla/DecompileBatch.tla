--------------------------- MODULE DecompileBatch ---------------------------
(***************************************************************************)
(* decompile.batch: a list of targets, each resolved, looked up in the     *)
(* decompile cache, decompiled and cached by _decompile_one, with the      *)
(* errors of a target caught per target.  A row of the table is a          *)
(* function, and a target is known by the address of the function it       *)
(* means; AddressTolerance has how a text finds it, DecompileCache what    *)
(* the cache keeps.                                                        *)
(***************************************************************************)
EXTENDS ProgramTable, Sequences, Functions

CONSTANT MaxTargets    \* bound: targets in a batch

ASSUME BatchAssumption == MaxTargets \in Nat \ {0}

VARIABLES
    batch,      \* "none", or at "resolve", "lookup", "decompile"; "answered", "failed"
    targets,    \* the argument
    current,    \* the target the loop is at
    results,    \* the dict of the answer: a target's entry
    cached      \* the decompile cache: "code" or "incomplete" per function

batchVars == <<batch, targets, current, results, cached>>

Empty == [t \in {} |-> "code"]

BatchInit ==
    /\ batch = "none"
    /\ targets = <<>>
    /\ current = 1
    /\ results = Empty
    /\ cached = Empty

BatchBegin ==
    /\ Watch
    /\ batch' = "resolve"
    /\ \E n \in 1..MaxTargets : targets' \in [1..n -> Addresses]
    /\ \E known \in SUBSET rows : cached' = [t \in known |-> "code"]
    /\ UNCHANGED <<current, results>>

Target == targets[current]

(* Mutant: the first target that fails ends the loop. *)
Report_StopsAtError(entry) ==
    /\ results' = [t \in DOMAIN results \cup {Target} |->
                       IF t = Target THEN entry ELSE results[t]]
    /\ current' = current + 1
    /\ batch' = IF \/ current = Len(targets)
                   \/ entry \in {"tool_error", "backend_error"}
                THEN "answered" ELSE "resolve"
    /\ UNCHANGED <<targets, tableVars>>

(* results[target_str] = ..., and on to the next target.  A target given   *)
(* twice has one entry, the last.                                          *)
Report(entry) ==
    /\ results' = [t \in DOMAIN results \cup {Target} |->
                       IF t = Target THEN entry ELSE results[t]]
    /\ current' = current + 1
    /\ batch' = IF current = Len(targets) THEN "answered" ELSE "resolve"
    /\ UNCHANGED <<targets, tableVars>>

(* No function: the analysis makes one, or a ToolError, or an exception of *)
(* the analysis, which fails the call with all its results.                *)
ResolveTarget ==
    /\ batch = "resolve"
    /\ \/ /\ Target \in rows
          /\ batch' = "lookup"
          /\ UNCHANGED <<targets, current, results, cached, tableVars>>
       \/ /\ AnalysisDefines(Target)
          /\ batch' = "lookup"
          /\ UNCHANGED <<targets, current, results, cached>>
       \/ /\ Target \notin rows
          /\ Report("tool_error")
          /\ UNCHANGED cached
       \/ /\ Target \notin rows
          /\ batch' = "failed"
          /\ UNCHANGED <<targets, current, results, cached, tableVars>>

LookupTarget ==
    /\ batch = "lookup"
    /\ \/ Target \in DOMAIN cached /\ Report(cached[Target])
       \/ /\ Target \notin DOMAIN cached
          /\ batch' = "decompile"
          /\ UNCHANGED <<targets, current, results, tableVars>>
    /\ UNCHANGED cached

(* The decompiler completes or not (it ran out of time, say), and either   *)
(* result is cached.  Or the script has removed the function: before       *)
(* _resolve_function, which raises GhidraBackendError, or behind it, where *)
(* what its record is made of raises an exception the loop does not catch. *)
DecompileTarget ==
    /\ batch = "decompile"
    /\ \/ \E entry \in {"code", "incomplete"} :
             /\ Target \in rows
             /\ Report(entry)
             /\ cached' = [t \in DOMAIN cached \cup {Target} |->
                               IF t = Target THEN entry ELSE cached[t]]
       \/ /\ Target \notin rows
          /\ Report("backend_error")
          /\ UNCHANGED cached
       \/ /\ Target \notin rows
          /\ batch' = "failed"
          /\ UNCHANGED <<targets, current, results, cached, tableVars>>

EndBatch ==
    /\ batch \in {"answered", "failed"}
    /\ batch' = "none" /\ targets' = <<>> /\ current' = 1
    /\ results' = Empty /\ cached' = Empty
    /\ UNCHANGED tableVars

BatchStep == ResolveTarget \/ LookupTarget \/ DecompileTarget

-----------------------------------------------------------------------------
(* Properties. *)

(* A batch that is answered loses no target (an exception that is neither  *)
(* a ToolError nor a GhidraBackendError fails it): it has an entry for     *)
(* each; a function that was there all the time is never reported as an    *)
(* error whatever happened to the others, and one that never was is        *)
(* reported as one.                                                        *)
BatchReportsEveryTarget ==
    batch = "answered" =>
        /\ DOMAIN results = Range(targets)
        /\ \A t \in DOMAIN results :
              /\ t \in kept => results[t] \in {"code", "incomplete"}
              /\ t \notin rows /\ ~gained /\ ~lost => results[t] = "tool_error"
=============================================================================
