--------------------------- MODULE MCPyghidraExec ---------------------------
(* Instances of PyghidraExec for TLC. *)
EXTENDS PyghidraExecContract

CONSTANTS x, result

(* One saved name and the output slot of a call. *)
OneName == {x, result}
Slots == {result}

=============================================================================
