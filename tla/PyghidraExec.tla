---------------------------- MODULE PyghidraExec ----------------------------
(***************************************************************************)
(* The `pyghidra.exec` tool: SimpleMcpServer._tool_pyghidra_exec in the    *)
(* server thread, GhidraBackend.eval_code in the one worker thread of      *)
(* `_pyghidra_executor`, and the session globals the two share.            *)
(*                                                                         *)
(* The server thread takes one request at a time.  It snapshots the        *)
(* globals, submits the script, and waits at most timeout_sec.  When the   *)
(* wait ends first, the worker is abandoned and keeps running: from then   *)
(* on the two threads interleave.  An abandoned worker is remembered in    *)
(* _pending_pyghidra_future and a later call is turned away while it runs. *)
(***************************************************************************)
EXTENDS PyghidraSession

CONSTANT MaxInterrupts   \* bound: SIGINTs delivered while the server waits

ASSUME MaxInterruptsAssumption == MaxInterrupts \in Nat

VARIABLES
    pc,            \* where the server thread is
    current,       \* number of the call the server handles, or handled last
    verdict,       \* the answer `current` gets once its restore is complete
    snap,          \* the snapshot of `current`
    pending,       \* _pending_pyghidra_future: a call, or 0 for None
    fut,           \* state of each call's future
    answer,        \* what the agent was told about each call
    wpc,           \* where the worker thread is
    work,          \* the call the worker runs, or 0
    ns,            \* the globals() dict of the running script
    toSave,        \* the items persist() has still to copy
    readOnly,      \* record.read_only of the bootstrap session
    transitioned,  \* mode_transitioned in each call's result
    requested,     \* history: the calls whose script called cache.invalidate()
    lastFlush,     \* history: the last call that flushed the decompile cache
    interrupts,    \* SIGINTs so far
    committed      \* history: State at the last successful answer

serverVars == <<pc, current, verdict, snap, pending, answer, lastFlush,
                interrupts, committed>>
workerVars == <<wpc, work, ns, toSave, transitioned, requested>>
vars == <<sessionVars, serverVars, workerVars, fut, readOnly>>

(* How eval_code can end: with a payload, or with an exception the server  *)
(* tells apart.  "error" is an Exception without a clause of its own,      *)
(* "fatal" a BaseException without one (GeneratorExit, a script's own).    *)
Raised == {"error", "backend_error", "timeout_error", "exit", "interrupt",
           "fatal"}
Outcome == {"returned"} \cup Raised
Unfinished == {"queued", "running"}

Answers == {"none", "ok", "bad_args", "state", "timeout", "internal",
            "unsupported", "transient"}

Done(c) == fut[c] \in Outcome
Busy(c) == fut[c] \in Unfinished

TypeOK ==
    /\ SessionTypeOK
    /\ pc \in {"idle", "waiting", "clear", "update", "flag", "ended"}
    /\ current \in 0..MaxCalls
    /\ pc # "idle" => current \in Calls
    /\ verdict \in {"timeout", "unsupported", "transient"}
    /\ snap \in Snapshots
    /\ pending \in 0..MaxCalls
    /\ fut \in [Calls -> {"none"} \cup Unfinished \cup Outcome]
    /\ answer \in [Calls -> Answers]
    /\ wpc \in {"idle", "prelude", "script", "persist"}
    /\ work \in 0..MaxCalls
    /\ wpc # "idle" => work \in Calls
    /\ ns \in Namespace
    /\ toSave \subseteq Names \ Unsaved
    /\ readOnly \in BOOLEAN
    /\ transitioned \in [Calls -> BOOLEAN]
    /\ requested \subseteq Calls
    /\ lastFlush \in 0..MaxCalls
    /\ interrupts \in Nat
    /\ committed \in Namespace

Init ==
    /\ SessionInit
    /\ pc = "idle"
    /\ current = 0
    /\ verdict = "timeout"
    /\ snap = [state |-> Empty, invalidate |-> FALSE]
    /\ pending = 0
    /\ fut = [c \in Calls |-> "none"]
    /\ answer = [c \in Calls |-> "none"]
    /\ wpc = "idle"
    /\ work = 0
    /\ ns = Empty
    /\ toSave = {}
    /\ readOnly = TRUE
    /\ transitioned = [c \in Calls |-> FALSE]
    /\ requested = {}
    /\ lastFlush = 0
    /\ interrupts = 0
    /\ committed = Empty

-----------------------------------------------------------------------------
(* The server thread. *)

(* The next tools/call request for pyghidra.exec reaches the handler. *)
Receive ==
    /\ pc = "idle"
    /\ current < MaxCalls
    /\ current' = current + 1

(* Mutant: no check of the pending future. *)
Gate_Open == TRUE

(* No pending future, or one that is done. *)
Gate == ~ \E c \in Calls : pending = c /\ ~Done(c)

(* An empty `code` or a bad `timeout_sec` is refused before anything else. *)
RejectBadArgs ==
    /\ Receive
    /\ answer' = [answer EXCEPT ![current + 1] = "bad_args"]
    /\ UNCHANGED <<sessionVars, pc, verdict, snap, pending, lastFlush,
                   interrupts, committed, workerVars, fut, readOnly>>

(* Mutant: the script is submitted before the pending future is looked at. *)
FastFail_AfterSubmit ==
    /\ Receive
    /\ ~Gate
    /\ answer' = [answer EXCEPT ![current + 1] = "state"]
    /\ fut' = [fut EXCEPT ![current + 1] = "queued"]
    /\ UNCHANGED <<sessionVars, pc, verdict, snap, pending, lastFlush,
                   interrupts, committed, workerVars, readOnly>>

(* The worker of an abandoned call is still busy: fast-fail. *)
FastFail ==
    /\ Receive
    /\ ~Gate
    /\ answer' = [answer EXCEPT ![current + 1] = "state"]
    /\ UNCHANGED <<sessionVars, pc, verdict, snap, pending, lastFlush,
                   interrupts, committed, workerVars, fut, readOnly>>

(* Snapshot the session, submit the wrapped script, remember its future. *)
Submit ==
    /\ Receive
    /\ Gate
    /\ snap' = Snapshot
    /\ fut' = [fut EXCEPT ![current + 1] = "queued"]
    /\ pending' = current + 1
    /\ pc' = "waiting"
    /\ UNCHANGED <<sessionVars, verdict, answer, lastFlush, interrupts,
                   committed, workerVars, readOnly>>

(* The restoring exits of the wait: each goes through restore(snap). *)
RollBack(v) ==
    /\ verdict' = v
    /\ pc' = "clear"
    /\ UNCHANGED <<sessionVars, current, snap, answer, lastFlush, committed,
                   workerVars, fut, readOnly>>

(* Mutants: pending is cleared like in the other exits; no budget. *)
Timeout_ForgetsWorker ==
    /\ pc = "waiting"
    /\ Busy(current) \/ fut[current] = "timeout_error"
    /\ RollBack("timeout")
    /\ pending' = 0
    /\ UNCHANGED interrupts

Timeout_NoBudget ==
    /\ pc = "waiting"
    /\ fut[current] = "timeout_error"
    /\ RollBack("timeout")
    /\ UNCHANGED <<pending, interrupts>>

(* fut.result(timeout) raises TimeoutError: the budget ran out with the    *)
(* future unfinished, or the script raised a TimeoutError of its own,      *)
(* which is the same class.  `pending` is left as it is.                   *)
Timeout ==
    /\ pc = "waiting"
    /\ Busy(current) \/ fut[current] = "timeout_error"
    /\ RollBack("timeout")
    /\ UNCHANGED <<pending, interrupts>>

(* The script called sys.exit(). *)
CollectExit ==
    /\ pc = "waiting"
    /\ fut[current] = "exit"
    /\ RollBack("unsupported")
    /\ pending' = 0
    /\ UNCHANGED interrupts

(* KeyboardInterrupt out of fut.result: raised by the script, ... *)
CollectInterrupt ==
    /\ pc = "waiting"
    /\ fut[current] = "interrupt"
    /\ RollBack("transient")
    /\ pending' = 0
    /\ UNCHANGED interrupts

(* ... or by a SIGINT that reaches the server thread while it waits, the   *)
(* worker being wherever it is.                                            *)
Sigint ==
    /\ pc = "waiting"
    /\ interrupts < MaxInterrupts
    /\ interrupts' = interrupts + 1
    /\ RollBack("transient")
    /\ pending' = 0

(* GhidraBackendError clears `pending`; any other Exception leaves the     *)
(* handler with `pending` set to the finished future.  Neither restores.   *)
CollectError ==
    /\ pc = "waiting"
    /\ fut[current] \in {"backend_error", "error"}
    /\ pending' = IF fut[current] = "backend_error" THEN 0 ELSE pending
    /\ answer' = [answer EXCEPT ![current] = "internal"]
    /\ pc' = "idle"
    /\ UNCHANGED <<sessionVars, current, verdict, snap, lastFlush, interrupts,
                   committed, workerVars, fut, readOnly>>

(* What is neither an Exception nor SystemExit nor KeyboardInterrupt passes *)
(* every handler above (server.py:887, 701) and ends serve_stdio: the call  *)
(* is not answered, and no other is taken.                                  *)
CollectFatal ==
    /\ pc = "waiting"
    /\ fut[current] = "fatal"
    /\ pc' = "ended"
    /\ UNCHANGED <<sessionVars, current, verdict, snap, pending, answer,
                   lastFlush, interrupts, committed, workerVars, fut, readOnly>>

(* The script returned: pop the invalidate flag, flush the decompile cache *)
(* when it was set or the program became writable, and answer.             *)
CollectReturned ==
    /\ pc = "waiting"
    /\ fut[current] = "returned"
    /\ pending' = 0
    /\ invalidateRequested' = FALSE
    /\ lastFlush' = IF invalidateRequested \/ transitioned[current]
                    THEN current ELSE lastFlush
    /\ answer' = [answer EXCEPT ![current] = "ok"]
    /\ committed' = State
    /\ pc' = "idle"
    /\ UNCHANGED <<State, current, verdict, snap, interrupts, workerVars, fut,
                   readOnly>>

ClearStep ==
    /\ pc = "clear"
    /\ RestoreClear
    /\ pc' = "update"
    /\ UNCHANGED <<invalidateRequested, current, verdict, snap, pending, answer,
                   lastFlush, interrupts, committed, workerVars, fut, readOnly>>

UpdateStep ==
    /\ pc = "update"
    /\ RestoreUpdate(snap)
    /\ pc' = "flag"
    /\ UNCHANGED <<invalidateRequested, current, verdict, snap, pending, answer,
                   lastFlush, interrupts, committed, workerVars, fut, readOnly>>

FlagStep ==
    /\ pc = "flag"
    /\ RestoreFlag(snap)
    /\ answer' = [answer EXCEPT ![current] = verdict]
    /\ pc' = "idle"
    /\ UNCHANGED <<State, current, verdict, snap, pending, lastFlush,
                   interrupts, committed, workerVars, fut, readOnly>>

(* Another tool, or the warm-up thread, runs a script of its own through   *)
(* eval_code: it never touches State but it makes the session writable.    *)
OtherEval ==
    /\ readOnly
    /\ readOnly' = FALSE
    /\ UNCHANGED <<sessionVars, serverVars, workerVars, fut>>

-----------------------------------------------------------------------------
(* The worker thread. *)

Complete(o) ==
    /\ fut' = [fut EXCEPT ![work] = o]
    /\ wpc' = "idle"
    /\ work' = 0
    /\ ns' = Empty
    /\ toSave' = {}

(* Mutant: last in, first out. *)
Start_Newest ==
    /\ wpc = "idle"
    /\ \E c \in Calls :
        /\ fut[c] = "queued"
        /\ \A d \in Calls : fut[d] = "queued" => c >= d
        /\ fut' = [fut EXCEPT ![c] = "running"]
        /\ work' = c
        /\ transitioned' = [transitioned EXCEPT ![c] = readOnly]
    /\ readOnly' = FALSE
    /\ wpc' = "prelude"
    /\ UNCHANGED <<sessionVars, serverVars, ns, toSave, requested>>

(* Take the oldest submitted call; the session becomes writable before the *)
(* script runs, and the call that finds it read-only reports it.           *)
Start ==
    /\ wpc = "idle"
    /\ \E c \in Calls :
        /\ fut[c] = "queued"
        /\ \A d \in Calls : fut[d] = "queued" => c <= d
        /\ fut' = [fut EXCEPT ![c] = "running"]
        /\ work' = c
        /\ transitioned' = [transitioned EXCEPT ![c] = readOnly]
    /\ readOnly' = FALSE
    /\ wpc' = "prelude"
    /\ UNCHANGED <<sessionVars, serverVars, ns, toSave, requested>>

(* _eval_context raises: no such session, or no decompiler for it. *)
ContextFails ==
    /\ wpc = "prelude"
    /\ Complete("backend_error")
    /\ UNCHANGED <<sessionVars, serverVars, transitioned, requested, readOnly>>

Inject ==
    /\ wpc = "prelude"
    /\ ns' = Injected
    /\ wpc' = "script"
    /\ UNCHANGED <<sessionVars, serverVars, work, toSave, transitioned,
                   requested, fut, readOnly>>

(* The script binds, or deletes, one of its globals. *)
Bind(n) ==
    /\ wpc = "script"
    /\ ns' = [ns EXCEPT ![n] = work]
    /\ UNCHANGED <<sessionVars, serverVars, wpc, work, toSave, transitioned,
                   requested, fut, readOnly>>

Unbind(n) ==
    /\ wpc = "script"
    /\ ns[n] # Unbound
    /\ ns' = [ns EXCEPT ![n] = Unbound]
    /\ UNCHANGED <<sessionVars, serverVars, wpc, work, toSave, transitioned,
                   requested, fut, readOnly>>

(* The script calls cache.invalidate(). *)
Invalidate ==
    /\ wpc = "script"
    /\ invalidateRequested' = TRUE
    /\ requested' = requested \cup {work}
    /\ UNCHANGED <<State, serverVars, wpc, work, ns, toSave, transitioned, fut,
                   readOnly>>

(* The script raises: the postlude does not run. *)
Raise(o) ==
    /\ wpc = "script"
    /\ Complete(o)
    /\ UNCHANGED <<sessionVars, serverVars, transitioned, requested, readOnly>>

(* The script ends; the postlude takes list(ns.items()) ... *)
EndScript ==
    /\ wpc = "script"
    /\ toSave' = Saved(ns)
    /\ wpc' = "persist"
    /\ UNCHANGED <<sessionVars, serverVars, work, ns, transitioned, requested,
                   fut, readOnly>>

(* ... and copies one item at a time into State. *)
PersistName(n) ==
    /\ wpc = "persist"
    /\ n \in toSave
    /\ PersistOne(ns, n)
    /\ toSave' = toSave \ {n}
    /\ UNCHANGED <<invalidateRequested, serverVars, wpc, work, ns, transitioned,
                   requested, fut, readOnly>>

(* eval_code returns, or fails after the globals are saved: sizing a State *)
(* that restore() changes meanwhile, or converting the result.             *)
Finish ==
    /\ wpc = "persist"
    /\ toSave = {}
    /\ Complete("returned") \/ Complete("error")
    /\ UNCHANGED <<sessionVars, serverVars, transitioned, requested, readOnly>>

-----------------------------------------------------------------------------

Arrival == RejectBadArgs \/ FastFail \/ Submit

Waited == Timeout \/ CollectExit \/ CollectInterrupt \/ CollectError
          \/ CollectFatal \/ CollectReturned

Restoring == ClearStep \/ UpdateStep \/ FlagStep

Worker ==
    \/ Start \/ ContextFails \/ Inject \/ Invalidate \/ EndScript \/ Finish
    \/ \E n \in Names : Bind(n) \/ Unbind(n) \/ PersistName(n)
    \/ \E o \in Raised : Raise(o)

Next == Arrival \/ Waited \/ Sigint \/ Restoring \/ OtherEval \/ Worker

Spec == Init /\ [][Next]_vars

(* The wait ends when the future does or when its timeout expires, and the *)
(* server thread does not block in restore().  Nothing makes a script end. *)
FairSpec == Spec /\ WF_vars(Waited \/ Restoring)

-----------------------------------------------------------------------------
(* Properties. *)

(* At most one script is queued or running: the gate in front of the       *)
(* executor never lets a call queue up behind another (server.py:410-416). *)
SingleFlight == \A c, d \in Calls : Busy(c) /\ Busy(d) => c = d

(* It does so until a SIGINT makes the server forget a busy worker. *)
SingleFlightUntilSigint == interrupts = 0 => SingleFlight

(* A script that still runs when the server is back at its input is known: *)
(* it is the pending future and its call was answered with a timeout (here *)
(* too, until a SIGINT).                                                   *)
BusyIsKnown ==
    interrupts = 0 /\ pc = "idle" =>
        \A c \in Calls : Busy(c) => pending = c /\ answer[c] = "timeout"

(* What a successful call left in the globals is there for every later     *)
(* call: it can be rebound by a later call, but no rollback, no abandoned  *)
(* worker and no overlap of the two loses it or brings an older value      *)
(* back.  (Between the two statements of restore() the dict is empty.)     *)
CommittedKept ==
    pc # "update" =>
        \A n \in Names : committed[n] # Unbound => State[n] >= committed[n]

(* A call's output slots never hold what another call left in them         *)
(* (_pyghidra_session.py:31-35).                                           *)
NoStaleSlot ==
    wpc \in {"script", "persist"} =>
        \A n \in Unsaved : ns[n] \in {Unbound, work}

(* A script whose call is still waited for starts from the very globals    *)
(* the rollback of that call would bring back: between the snapshot and    *)
(* inject() no leftover worker changes the session.                        *)
StartsFromSnapshot ==
    [][(/\ wpc = "prelude" /\ wpc' = "script"
        /\ pc = "waiting" /\ interrupts = 0) => ns' = snap.state]_vars

(* A call the agent was told had no effect because it was refused or       *)
(* called sys.exit() has bound nothing in the session.                     *)
RefusedLeaveNoTrace ==
    \A n \in Names : State[n] # Unbound =>
        answer[State[n]] \notin {"bad_args", "state", "unsupported"}

(* The same for a call answered with "timeout": errors.py:26-28 says "the  *)
(* agent should treat the call as having never happened".                  *)
TimedOutLeaveNoTrace ==
    \A n \in Names : State[n] # Unbound => answer[State[n]] # "timeout"

(* A cache.invalidate() of a call that succeeded or failed is not lost: it *)
(* is still recorded, through rollbacks of later calls, until a call that  *)
(* is not older flushes the decompile cache.                               *)
InvalidationNotLost ==
    \A c \in requested : answer[c] \in {"ok", "internal"} =>
        invalidateRequested \/ lastFlush >= c

(* Every call is answered, however long its script runs and whatever it    *)
(* raises, with one exception: a BaseException that has no clause of its   *)
(* own takes the server thread with it.                                    *)
EveryCallAnswered ==
    \A c \in Calls :
        pc # "idle" /\ current = c
            ~> answer[c] # "none" \/ (pc = "ended" /\ fut[c] = "fatal")
=============================================================================
