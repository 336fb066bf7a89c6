--------------------------- MODULE MCAgentSession ---------------------------
(* Instances of AgentSession for TLC.  No names: the globals a script      *)
(* leaves behind play no part in what the cache holds.                     *)
EXTENDS AgentSession

CONSTANTS main, entry

NoNames == {}
TwoFunctions == {main, entry}
=============================================================================
