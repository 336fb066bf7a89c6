--------------------------- MODULE ServerProcess ---------------------------
(***************************************************************************)
(* The life of the server process: cli.main, bootstrap_program, the        *)
(* warm-up thread it starts, serve_stdio, the shutdown request, and the    *)
(* exit of the interpreter; and what three threads that run eval_code at   *)
(* the same time share: sys.stdout, which each of them redirects for the   *)
(* whole process, and the one decompiler of the session record.            *)
(*                                                                         *)
(* An evaluation is known by its number, and so are the buffer its output  *)
(* is redirected to and the decompiler it opens.  A request is what it     *)
(* makes the server thread do: evaluate a script of its own (resolution),  *)
(* hand one to the worker (pyghidra.exec), shut down.  Requests that touch *)
(* none of this state are left out, and so are stderr, which is redirected *)
(* the same way, and SIGINT.                                               *)
(***************************************************************************)
EXTENDS Naturals

CONSTANT MaxEvals    \* bound: evaluations in the life of the process

ASSUME MaxEvalsAssumption == MaxEvals \in Nat \ {0}

Threads == {"main", "warmup", "worker"}
Evals == 1..MaxEvals
None == 0
Protocol == 0        \* the stdout the process was started with

VARIABLES
    main,        \* where the server thread is
    booted,      \* bootstrap_program returned
    session,     \* the bootstrap session: "none", "open" or "closed"
    evals,       \* evaluations begun so far
    running,     \* the evaluation each thread is in
    step,        \* where in eval_code
    stdout,      \* sys.stdout
    old,         \* per thread: the stdout its redirect puts back
    decompiler,  \* record.decompiler: the evaluation that opened it
    opened,      \* decompilers opened and not disposed
    output,      \* history: <<evaluation, where its script printed>>
    met,         \* history: evaluations whose redirects overlapped
    raced,       \* history: have two threads opened decompilers at once
    underway     \* history: evaluations in progress when the session closed

evalVars == <<evals, running, step>>
redirectVars == <<stdout, old, output, met>>
decompilerVars == <<decompiler, opened, raced>>
vars == <<main, booted, session, evalVars, redirectVars, decompilerVars,
          underway>>

TypeOK ==
    /\ main \in {"boot", "announce", "serve", "ready", "eval", "waiting",
                 "closing", "joining", "exited"}
    /\ booted \in BOOLEAN
    /\ session \in {"none", "open", "closed"}
    /\ evals \in 0..MaxEvals
    /\ running \in [Threads -> 0..MaxEvals]
    /\ step \in [Threads -> {"idle", "lookup", "check", "open", "save", "set",
                             "script", "leave"}]
    /\ \A t \in Threads : step[t] = "idle" <=> running[t] = None
    /\ main = "eval" <=> step["main"] # "idle"
    /\ stdout \in 0..MaxEvals
    /\ old \in [Threads -> 0..MaxEvals]
    /\ decompiler \in 0..MaxEvals
    /\ opened \subseteq Evals
    /\ output \subseteq Evals \X (0..MaxEvals)
    /\ met \subseteq Evals
    /\ raced \in BOOLEAN
    /\ underway \subseteq Evals

Init ==
    /\ main = "boot"
    /\ booted = FALSE
    /\ session = "none"
    /\ evals = 0
    /\ running = [t \in Threads |-> None]
    /\ step = [t \in Threads |-> "idle"]
    /\ stdout = Protocol
    /\ old = [t \in Threads |-> Protocol]
    /\ decompiler = None
    /\ opened = {}
    /\ output = {}
    /\ met = {}
    /\ raced = FALSE
    /\ underway = {}

-----------------------------------------------------------------------------
(* eval_code, in any of the three threads. *)

GoTo(t, s) == step' = [step EXCEPT ![t] = s]

BeginEval(t) ==
    /\ evals < MaxEvals
    /\ evals' = evals + 1
    /\ running' = [running EXCEPT ![t] = evals + 1]
    /\ GoTo(t, "lookup")

(* Mutant: an evaluation that fails is not answered. *)
EndEval_NoAnswer(t) ==
    /\ running' = [running EXCEPT ![t] = None]
    /\ GoTo(t, "idle")
    /\ UNCHANGED <<main, evals>>

(* The evaluation is over; the server thread, if it is its own, answers. *)
EndEval(t) ==
    /\ running' = [running EXCEPT ![t] = None]
    /\ GoTo(t, "idle")
    /\ main' = IF t = "main" THEN "ready" ELSE main
    /\ UNCHANGED evals

(* Mutant: the record is held on to, as a second reference to it would. *)
Known_Held == session # "none"

(* _get_record: anything but the open session is a GhidraBackendError. *)
Known == session = "open"

(* The context of the script is made for a session that must be known, ... *)
Lookup(t) ==
    /\ step[t] = "lookup"
    /\ IF Known
       THEN GoTo(t, "check") /\ UNCHANGED <<main, evals, running>>
       ELSE EndEval(t)
    /\ UNCHANGED <<booted, session, redirectVars, decompilerVars, underway>>

(* ... _get_decompiler looks it up once more and tests its field, ... *)
Check(t) ==
    /\ step[t] = "check"
    /\ IF Known
       THEN /\ GoTo(t, IF decompiler = None THEN "open" ELSE "save")
            /\ raced' = (raced \/ (/\ decompiler = None
                                   /\ \E u \in Threads : step[u] = "open"))
            /\ UNCHANGED <<main, evals, running>>
       ELSE EndEval(t) /\ UNCHANGED raced
    /\ UNCHANGED <<booted, session, redirectVars, decompiler, opened, underway>>

(* Mutant: the new decompiler is returned but not kept in the record. *)
OpenDecompiler_NotKept(t) ==
    /\ step[t] = "open"
    /\ GoTo(t, "save")
    /\ opened' = opened \cup {running[t]}
    /\ UNCHANGED <<main, evals, running, decompiler, raced, booted, session,
                   redirectVars, underway>>

(* ... opens one, and stores it; or fails to and disposes of it. *)
OpenDecompiler(t) ==
    /\ step[t] = "open"
    /\ \/ /\ GoTo(t, "save")
          /\ decompiler' = running[t]
          /\ opened' = opened \cup {running[t]}
          /\ UNCHANGED <<main, evals, running>>
       \/ EndEval(t) /\ UNCHANGED <<decompiler, opened>>
    /\ UNCHANGED <<booted, session, redirectVars, raced, underway>>

(* The threads whose redirect is between its two ends. *)
Redirecting == {t \in Threads : step[t] \in {"set", "script", "leave"}}

(* redirect_stdout.__enter__ remembers sys.stdout ... *)
SaveStdout(t) ==
    /\ step[t] = "save"
    /\ old' = [old EXCEPT ![t] = stdout]
    /\ met' = IF Redirecting = {} THEN met
              ELSE met \cup {running[u] : u \in Redirecting \cup {t}}
    /\ GoTo(t, "set")
    /\ UNCHANGED <<main, booted, session, evals, running, stdout, output,
                   decompilerVars, underway>>

(* ... and replaces it. *)
SetStdout(t) ==
    /\ step[t] = "set"
    /\ stdout' = running[t]
    /\ GoTo(t, "script")
    /\ UNCHANGED <<main, booted, session, evals, running, old, output, met,
                   decompilerVars, underway>>

(* An agent's script prints; the resolver's do not. *)
Prints ==
    /\ step["worker"] = "script"
    /\ output' = output \cup {<<running["worker"], stdout>>}
    /\ UNCHANGED <<main, booted, session, evalVars, stdout, old, met,
                   decompilerVars, underway>>

(* Mutant: no `with`: a script that raises skips the restore. *)
EndScript_NoWith(t) ==
    /\ step[t] = "script"
    /\ \/ GoTo(t, "leave") /\ UNCHANGED <<main, evals, running>>
       \/ EndEval(t)
    /\ UNCHANGED <<booted, session, redirectVars, decompilerVars, underway>>

(* The script returns or raises: both leave the `with` block. *)
EndScript(t) ==
    /\ step[t] = "script"
    /\ GoTo(t, "leave")
    /\ UNCHANGED <<main, booted, session, evals, running, redirectVars,
                   decompilerVars, underway>>

(* redirect_stdout.__exit__ *)
RestoreStdout(t) ==
    /\ step[t] = "leave"
    /\ stdout' = old[t]
    /\ EndEval(t)
    /\ UNCHANGED <<booted, session, old, output, met, decompilerVars, underway>>

Eval(t) ==
    \/ Lookup(t) \/ Check(t) \/ OpenDecompiler(t) \/ SaveStdout(t)
    \/ SetStdout(t) \/ EndScript(t) \/ RestoreStdout(t)

-----------------------------------------------------------------------------
(* The server thread. *)

(* bootstrap_program: the warmed project is opened and the warm-up thread  *)
(* is started; main() catches what it raises.                              *)
Bootstrap ==
    /\ main = "boot"
    /\ main' = "announce"
    /\ session' = "open"
    /\ booted' = TRUE
    /\ BeginEval("warmup")
    /\ UNCHANGED <<redirectVars, decompilerVars, underway>>

BootstrapFails ==
    /\ main = "boot"
    /\ main' = "announce"
    /\ UNCHANGED <<booted, session, evalVars, redirectVars, decompilerVars,
                   underway>>

(* One session_start record, then serve or exit with code 2. *)
Announce ==
    /\ main = "announce"
    /\ main' = IF booted THEN "serve" ELSE "closing"
    /\ UNCHANGED <<booted, session, evalVars, redirectVars, decompilerVars,
                   underway>>

(* `sys.stdout.buffer`, which the StringIO of a redirect does not have: an *)
(* AttributeError ends the process.                                        *)
Serve ==
    /\ main = "serve"
    /\ main' = IF stdout = Protocol THEN "ready" ELSE "closing"
    /\ UNCHANGED <<booted, session, evalVars, redirectVars, decompilerVars,
                   underway>>

(* A tool that resolves an address, in this thread. *)
ResolveRequest ==
    /\ main = "ready"
    /\ main' = "eval"
    /\ BeginEval("main")
    /\ UNCHANGED <<booted, session, redirectVars, decompilerVars, underway>>

(* pyghidra.exec: refused while the worker of an earlier call is busy. *)
ExecRequest ==
    /\ main = "ready"
    /\ running["worker"] = None
    /\ main' = "waiting"
    /\ BeginEval("worker")
    /\ UNCHANGED <<booted, session, redirectVars, decompilerVars, underway>>

(* The worker is done, or the time is up; the worker goes on. *)
Collect ==
    /\ main = "waiting"
    /\ main' = "ready"
    /\ UNCHANGED <<booted, session, evalVars, redirectVars, decompilerVars,
                   underway>>

(* The shutdown method: session_close pops the record, disposes of its     *)
(* decompiler and closes the program.  The server goes on serving.         *)
Shutdown ==
    /\ main = "ready"
    /\ session = "open"
    /\ session' = "closed"
    /\ opened' = opened \ {decompiler}
    /\ underway' = {running[t] : t \in Threads} \ {None}
    /\ UNCHANGED <<main, booted, evalVars, redirectVars, decompiler, raced>>

EndOfInput ==
    /\ main = "ready"
    /\ main' = "closing"
    /\ UNCHANGED <<booted, session, evalVars, redirectVars, decompilerVars,
                   underway>>

(* telemetry.close(), then main() returns. *)
Close ==
    /\ main = "closing"
    /\ main' = "joining"
    /\ UNCHANGED <<booted, session, evalVars, redirectVars, decompilerVars,
                   underway>>

(* Mutant: the warm-up thread is not a daemon. *)
Joined_Warmup == running["worker"] = None /\ running["warmup"] = None

(* The interpreter joins the executor's thread, and not a daemon thread. *)
Joined == running["worker"] = None

Exit ==
    /\ main = "joining"
    /\ Joined
    /\ main' = "exited"
    /\ UNCHANGED <<booted, session, evalVars, redirectVars, decompilerVars,
                   underway>>

Startup == Bootstrap \/ BootstrapFails \/ Announce \/ Serve
Request == ResolveRequest \/ ExecRequest \/ Shutdown \/ EndOfInput

Next ==
    \/ Startup \/ Request \/ Collect \/ Close \/ Exit
    \/ /\ main # "exited"
       /\ Prints \/ \E t \in Threads : Eval(t)

Spec == Init /\ [][Next]_vars

(* The server thread's own steps, its resolver scripts among them, do not  *)
(* block.  The other two threads may run for ever.                         *)
FairSpec ==
    Spec /\ WF_vars(Startup \/ Collect \/ Close \/ Exit \/ Eval("main"))

-----------------------------------------------------------------------------
(* Properties. *)

(* A redirect is private to its evaluation as long as it overlaps no       *)
(* other: then the script's output is in its own result, and sys.stdout is *)
(* the protocol stream again afterwards.  Across overlaps neither holds.   *)
RedirectIsPrivate ==
    /\ \A p \in output : p[1] \in met \/ p[2] = p[1]
    /\ met = {} /\ Redirecting = {} => stdout = Protocol

(* No decompiler is lost: unless two threads opened one at once, the       *)
(* session's record knows the open one, and after shutdown only an         *)
(* evaluation that was in progress can have left one open.                 *)
DecompilerDisposed ==
    ~raced =>
        /\ session = "open" => opened \subseteq {decompiler}
        /\ session = "closed" => opened \subseteq underway

(* After shutdown no script begins to run on the closed program, except    *)
(* one of an evaluation that was in progress.                              *)
NoNewScriptAfterShutdown ==
    session = "closed" =>
        \A t \in Threads : step[t] \in {"set", "script"}
                               => running[t] \in underway

(* Once the input ends (or serving fails), the process exits unless a      *)
(* script runs for ever in the worker: a script that hangs keeps the       *)
(* process, a hung warm-up does not.                                       *)
ProcessEnds ==
    <>[](running["worker"] = None) => (main = "closing" ~> main = "exited")

(* "Fire-and-forget [...] Any failure is silently ignored"                 *)
(* (server.py:482-484): after a successful bootstrap the server serves,    *)
(* whatever the warm-up does.                                              *)
WarmupIsHarmless == [][main = "serve" => main' \in {"serve", "ready"}]_vars
=============================================================================
