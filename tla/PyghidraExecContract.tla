------------------------ MODULE PyghidraExecContract ------------------------
(***************************************************************************)
(* PyghidraExec implements ExecContract.  restore() is several statements  *)
(* that the worker's persist() can run between; the mapping shows that the *)
(* two together still look like one step at the clear().                   *)
(***************************************************************************)
EXTENDS PyghidraExecInv

(* Between clear() and update() the session holds what update() will make  *)
(* of it: the snapshot over whatever the worker has saved meanwhile.       *)
Settled == IF pc = "update" THEN Overlay(State, snap.state) ELSE State

(* A call that took the server with it stays open. *)
Phase == CASE pc = "idle"                          -> "closed"
           [] pc \in {"waiting", "clear", "ended"} -> "open"
           [] pc \in {"update", "flag"}            -> "rolled_back"

Live == {c \in Calls : Busy(c)}

ScriptState == IF wpc \in {"script", "persist"} THEN "running" ELSE "none"

Contract == INSTANCE ExecContract WITH
    globals <- Settled,
    base    <- snap.state,
    taken   <- current,
    phase   <- Phase,
    live    <- Live,
    script  <- ScriptState,
    space   <- ns,
    told    <- answer

(* Every step of server thread and worker is a step of the contract, or    *)
(* none: however the worker's saves fall between the statements of a       *)
(* rollback, the outcome is one of an atomic rollback, and an answered     *)
(* call's bindings are neither undone nor half undone later.               *)
ContractKept == Contract!Spec
=============================================================================
