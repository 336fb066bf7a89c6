---------------------------- MODULE ExecContract ----------------------------
(***************************************************************************)
(* What `pyghidra.exec` promises about the globals of a session, without   *)
(* threads, futures or the statements of restore(): calls are taken one at *)
(* a time; an open call may be rolled back, in one step, to what the       *)
(* session held when it was opened.  A script begins with a copy of the    *)
(* globals, changes the copy, and saves names of it one by one until it    *)
(* ends.  It may outlive its call: what it saves then stays, for nobody    *)
(* rolls it back any more.                                                 *)
(*                                                                         *)
(* errors.py:26-28 promises more (a call that timed out never happened);   *)
(* the run exec_ghost shows that it is not kept.  This is what is.         *)
(***************************************************************************)
EXTENDS Naturals

CONSTANTS
    Names,      \* the names agent scripts bind
    Unsaved,    \* those that do not outlive their call
    MaxCalls    \* bound: calls the agent makes

VARIABLES
    globals,   \* which call's value each name of the session has, 0 for none
    base,      \* the same when the call taken last was opened
    taken,     \* number of calls taken so far
    phase,     \* the call taken last: "closed", "open" or "rolled_back"
    live,      \* calls whose script has not ended
    script,    \* "none", or "running" for the oldest of them
    space,     \* its copy of the globals
    told       \* the agent's answer per call, "none" before

contractVars == <<globals, base, taken, phase, live, script, space,
                  told>>
scriptVars == <<live, script, space>>

Calls == 1..MaxCalls

(* Answers by what the agent may conclude from them. *)
Refusals == {"bad_args", "state"}           \* nothing ran
Kept == {"ok", "internal"}                  \* what was saved stays
Undone == {"timeout", "transient", "unsupported"}

Empty == [n \in Names |-> 0]

Init ==
    /\ globals = Empty
    /\ base = globals
    /\ taken = 0
    /\ phase = "closed"
    /\ live = {}
    /\ script = "none"
    /\ space = Empty
    /\ told = [c \in Calls |-> "none"]

(* The agent's side: one call at a time. *)

Refuse ==
    /\ phase = "closed"
    /\ taken < MaxCalls
    /\ taken' = taken + 1
    /\ \E a \in Refusals : told' = [told EXCEPT ![taken + 1] = a]
    /\ UNCHANGED <<globals, base, phase, scriptVars>>

Open ==
    /\ phase = "closed"
    /\ taken < MaxCalls
    /\ taken' = taken + 1
    /\ base' = globals
    /\ live' = live \cup {taken + 1}
    /\ phase' = "open"
    /\ UNCHANGED <<globals, script, space, told>>

(* The script of the open call has ended, and what it saved is kept. *)
Keep ==
    /\ phase = "open"
    /\ taken \notin live
    /\ \E a \in Kept : told' = [told EXCEPT ![taken] = a]
    /\ phase' = "closed"
    /\ UNCHANGED <<globals, base, taken, scriptVars>>

(* All names at once, whatever the script of the call is doing. *)
RollBack ==
    /\ phase = "open"
    /\ globals' = base
    /\ phase' = "rolled_back"
    /\ UNCHANGED <<base, taken, scriptVars, told>>

(* "unsupported" (sys.exit) is only said of a script that has ended. *)
Undo ==
    /\ phase = "rolled_back"
    /\ \E a \in Undone :
        /\ a = "unsupported" => taken \notin live
        /\ told' = [told EXCEPT ![taken] = a]
    /\ phase' = "closed"
    /\ UNCHANGED <<globals, base, taken, scriptVars>>

-----------------------------------------------------------------------------
(* The scripts' side: one runs at a time, in the order of the calls. *)

Running(c) == c \in live /\ \A d \in live : c <= d

(* A script begins with what the session holds.  The one exception: while  *)
(* a call is being rolled back, names may be missing from what it finds,   *)
(* or hold what another script has just saved and the roll-back undoes.    *)
Begin ==
    /\ script = "none" /\ live # {}
    /\ script' = "running"
    /\ \/ space' = globals
       \/ phase = "rolled_back" /\ space' \in [Names -> 0..taken]
    /\ UNCHANGED <<globals, base, taken, phase, live, told>>

Change(n) ==
    /\ script = "running"
    /\ \E c \in live :
        /\ Running(c)
        /\ \E v \in {c, 0} : space' = [space EXCEPT ![n] = v]
    /\ UNCHANGED <<globals, base, taken, phase, live, script, told>>

(* What is saved may be the script's own or what it began with. *)
Save(n) ==
    /\ script = "running"
    /\ n \notin Unsaved /\ space[n] # 0
    /\ globals' = [globals EXCEPT ![n] = space[n]]
    /\ UNCHANGED <<base, taken, phase, scriptVars, told>>

End(c) ==
    /\ Running(c)
    /\ live' = live \ {c}
    /\ script' = "none"
    /\ space' = Empty
    /\ UNCHANGED <<globals, base, taken, phase, told>>

-----------------------------------------------------------------------------

Next ==
    \/ Refuse \/ Open \/ Keep \/ RollBack \/ Undo
    \/ Begin \/ \E n \in Names : Change(n) \/ Save(n)
    \/ \E c \in Calls : End(c)

Spec == Init /\ [][Next]_contractVars
=============================================================================
