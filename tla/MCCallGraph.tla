---------------------------- MODULE MCCallGraph ----------------------------
(* Instances of CallGraph for TLC. *)
EXTENDS CallGraph

FourFunctions == 1..4

(* The source is in every path, so its place among the callees of another  *)
(* function never matters: one stands for all.                             *)
OneSource == {1}
=============================================================================
