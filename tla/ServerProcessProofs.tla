------------------------ MODULE ServerProcessProofs ------------------------
(***************************************************************************)
(* Theorems about ServerProcess, for any number of evaluations: what the   *)
(* threads that share sys.stdout, the session and the decompiler keep of   *)
(* one another's.                                                          *)
(***************************************************************************)
EXTENDS ServerProcess, TLAPS

(* An evaluation has a number exactly while it is in eval_code. *)
LEMMA RunningIsEval ==
    ASSUME TypeOK, NEW t \in Threads, step[t] # "idle"
    PROVE  running[t] \in Evals
BY MaxEvalsAssumption DEF TypeOK, Evals, None

(* The initial values have their types. *)
LEMMA TypeInit == Init => TypeOK
<1> SUFFICES ASSUME Init PROVE TypeOK
    OBVIOUS
<1>1. booted \in BOOLEAN /\ raced \in BOOLEAN
    BY Zenon DEF Init
<1> QED BY <1>1, MaxEvalsAssumption DEF Init, TypeOK, Threads, Evals, None, Protocol

(* Every step keeps the types. *)
LEMMA TypeStep == TypeOK /\ [Next]_vars => TypeOK'
<1> SUFFICES ASSUME TypeOK, [Next]_vars PROVE TypeOK'
    OBVIOUS
<1> USE MaxEvalsAssumption
    DEF evalVars, redirectVars, decompilerVars, GoTo, None, Evals
<1>1. ASSUME NEW t \in Threads, Lookup(t) PROVE TypeOK'
  BY <1>1 DEF Lookup, EndEval, TypeOK, Threads
<1>2. ASSUME NEW t \in Threads, Check(t) PROVE TypeOK'
  <2>1. raced' \in BOOLEAN
    BY <1>2, Zenon DEF Check, TypeOK
  <2> QED BY <1>2, <2>1 DEF Check, EndEval, TypeOK, Threads
<1>3. ASSUME NEW t \in Threads, OpenDecompiler(t) PROVE TypeOK'
  <2>1. running[t] \in Evals
    BY <1>3, RunningIsEval DEF OpenDecompiler
  <2>2. opened' \subseteq Evals
    <3>1. opened' = opened \cup {running[t]} \/ opened' = opened
      BY <1>3 DEF OpenDecompiler
    <3> QED BY <2>1, <3>1 DEF TypeOK
  <2>3. decompiler' \in 0..MaxEvals
    BY <1>3, <2>1 DEF OpenDecompiler, TypeOK
  <2> QED BY <1>3, <2>2, <2>3 DEF OpenDecompiler, EndEval, TypeOK, Threads
<1>4. ASSUME NEW t \in Threads, SaveStdout(t) PROVE TypeOK'
  <2>1. met' \subseteq Evals
    BY <1>4, RunningIsEval DEF SaveStdout, Redirecting, TypeOK
  <2> QED BY <1>4, <2>1 DEF SaveStdout, TypeOK, Threads
<1>5. ASSUME NEW t \in Threads, SetStdout(t) PROVE TypeOK'
  BY <1>5 DEF SetStdout, TypeOK, Threads
<1>6. ASSUME NEW t \in Threads, EndScript(t) PROVE TypeOK'
  BY <1>6 DEF EndScript, TypeOK, Threads
<1>7. ASSUME NEW t \in Threads, RestoreStdout(t) PROVE TypeOK'
  BY <1>7 DEF RestoreStdout, EndEval, TypeOK, Threads
<1>8. CASE Prints
  BY <1>8, RunningIsEval DEF Prints, TypeOK, Threads
<1>9. CASE Startup
  <2>1. booted' \in BOOLEAN
    BY <1>9, Zenon DEF Startup, Bootstrap, BootstrapFails, Announce, Serve, TypeOK
  <2>2. CASE Bootstrap
    BY <2>1, <2>2 DEF Bootstrap, BeginEval, TypeOK, Threads
  <2>3. CASE BootstrapFails
    BY <2>1, <2>3 DEF BootstrapFails, TypeOK, Threads
  <2>4. CASE Announce
    BY <2>1, <2>4 DEF Announce, TypeOK, Threads
  <2>5. CASE Serve
    BY <2>1, <2>5 DEF Serve, TypeOK, Threads
  <2> QED BY <1>9, <2>2, <2>3, <2>4, <2>5 DEF Startup
<1>10. CASE Request
  <2>1. CASE ResolveRequest
    BY <2>1 DEF ResolveRequest, BeginEval, TypeOK, Threads
  <2>2. CASE ExecRequest
    BY <2>2 DEF ExecRequest, BeginEval, TypeOK, Threads
  <2>3. CASE Shutdown
    BY <2>3 DEF Shutdown, TypeOK, Threads
  <2>4. CASE EndOfInput
    BY <2>4 DEF EndOfInput, TypeOK, Threads
  <2> QED BY <1>10, <2>1, <2>2, <2>3, <2>4 DEF Request
<1>11. CASE Collect \/ Close \/ Exit
  BY <1>11 DEF Collect, Close, Exit, TypeOK, Threads
<1>12. CASE UNCHANGED vars
  BY <1>12 DEF vars, TypeOK
<1> QED BY <1>1, <1>2, <1>3, <1>4, <1>5, <1>6, <1>7, <1>8, <1>9, <1>10,
           <1>11, <1>12 DEF Next, Eval

(* Every variable keeps its type (ServerProcess as a whole). *)
THEOREM TypeCorrect == Spec => []TypeOK
BY TypeInit, TypeStep, PTL DEF Spec
-----------------------------------------------------------------------------
(* Before the bootstrap no thread evaluates anything. *)
Fresh ==
    main = "boot" =>
        /\ \A t \in Threads : step[t] = "idle"
        /\ decompiler = None /\ opened = {}

(* Fresh is inductive: the warm-up begins when the bootstrap ends. *)
LEMMA FreshStep == TypeOK /\ Fresh /\ [Next]_vars => Fresh'
<1> SUFFICES ASSUME TypeOK, Fresh, [Next]_vars, main' = "boot"
             PROVE  main = "boot" /\ UNCHANGED <<step, decompiler, opened>>
    BY DEF Fresh
<1> USE DEF evalVars, decompilerVars
<1>1. ASSUME NEW t \in Threads, Eval(t) PROVE FALSE
  BY <1>1 DEF Eval, Lookup, Check, OpenDecompiler, SaveStdout, SetStdout,
              EndScript, RestoreStdout, EndEval, Fresh, Threads
<1>2. ~Prints
  BY DEF Prints, Fresh, Threads
<1>3. ~Startup /\ ~Request /\ ~Collect /\ ~Close /\ ~Exit
  BY DEF Startup, Bootstrap, BootstrapFails, Announce, Serve, Request,
         ResolveRequest, ExecRequest, Shutdown, EndOfInput, Collect, Close, Exit
<1>4. CASE UNCHANGED vars
  BY <1>4 DEF vars
<1> QED BY <1>1, <1>2, <1>3, <1>4 DEF Next

-----------------------------------------------------------------------------
(* sys.stdout. *)

(* Two threads in a redirect have met; the buffer of one that met no other *)
(* is sys.stdout while its script runs; and as long as none met, the       *)
(* protocol stream is what every redirect will put back.                   *)
Private ==
    /\ \A t, u \in Redirecting :
          t # u => running[t] \in met /\ running[u] \in met
    /\ \A t \in Threads :
          step[t] \in {"script", "leave"} /\ running[t] \notin met
              => stdout = running[t]
    /\ met = {} =>
          /\ Redirecting = {} => stdout = Protocol
          /\ \A t \in Redirecting : old[t] = Protocol
          /\ \A t \in Threads : step[t] = "set" => stdout = Protocol

OutputPrivate == \A p \in output : p[1] \in met \/ p[2] = p[1]

(* A step that takes no thread into, through or out of a redirect. *)
Aside ==
    /\ UNCHANGED <<stdout, old, met>>
    /\ Redirecting' = Redirecting
    /\ \A t \in Redirecting : running'[t] = running[t] /\ step'[t] = step[t]

(* Private speaks only of the threads in a redirect. *)
LEMMA AsideKeepsPrivate == TypeOK /\ Private /\ Aside => Private'
BY DEF Private, Aside, Redirecting

(* An evaluation that begins is not in a redirect yet. *)
LEMMA BeginIsAside ==
    ASSUME TypeOK, NEW t \in Threads, step[t] = "idle", BeginEval(t),
           UNCHANGED redirectVars
    PROVE  Aside
BY DEF BeginEval, GoTo, redirectVars, Aside, Redirecting, TypeOK

(* Private is inductive. *)
LEMMA PrivateStep == TypeOK /\ Fresh /\ Private /\ [Next]_vars => Private'
<1> SUFFICES ASSUME TypeOK, Fresh, Private, [Next]_vars PROVE Private'
    OBVIOUS
<1> USE DEF evalVars, redirectVars, GoTo
<1>1. ASSUME NEW t \in Threads, Lookup(t) \/ Check(t) \/ OpenDecompiler(t)
      PROVE  Private'
  <2>1. Aside
    BY <1>1 DEF Lookup, Check, OpenDecompiler, EndEval, Aside, Redirecting, TypeOK
  <2> QED BY <2>1, AsideKeepsPrivate
<1>2. ASSUME NEW t \in Threads, SaveStdout(t) PROVE Private'
  <2>1. Redirecting' = Redirecting \cup {t} /\ t \notin Redirecting
    BY <1>2 DEF SaveStdout, Redirecting, TypeOK
  <2>2. CASE Redirecting = {}
    BY <1>2, <2>1, <2>2 DEF SaveStdout, Private, Redirecting, TypeOK
  <2>3. CASE Redirecting # {}
    <3>1. running[t] \in met' /\ \A u \in Redirecting' : running[u] \in met'
      BY <1>2, <2>1, <2>3 DEF SaveStdout
    <3>2. met' # {} /\ met \subseteq met'
      BY <1>2, <3>1, <2>3 DEF SaveStdout
    <3> QED BY <1>2, <2>1, <3>1, <3>2 DEF SaveStdout, Private, Redirecting, TypeOK
  <2> QED BY <2>2, <2>3
<1>3. ASSUME NEW t \in Threads, SetStdout(t) PROVE Private'
  <2>1. Redirecting' = Redirecting /\ t \in Redirecting
    BY <1>3 DEF SetStdout, Redirecting, TypeOK
  <2>2. \A u \in Redirecting : u # t => running[u] \in met
    BY <2>1 DEF Private
  <2>3. met = {} => Redirecting = {t}
    BY <2>1, <2>2
  <2> QED BY <1>3, <2>1, <2>2, <2>3 DEF SetStdout, Private, Redirecting, TypeOK
<1>4. ASSUME NEW t \in Threads, EndScript(t) PROVE Private'
  <2>1. Redirecting' = Redirecting
    BY <1>4 DEF EndScript, Redirecting, TypeOK
  <2> QED BY <1>4, <2>1 DEF EndScript, Private, Redirecting, TypeOK
<1>5. ASSUME NEW t \in Threads, RestoreStdout(t) PROVE Private'
  <2>1. Redirecting' = Redirecting \ {t} /\ t \in Redirecting
    BY <1>5 DEF RestoreStdout, EndEval, Redirecting, TypeOK
  <2>2. \A u \in Redirecting : u # t => running[u] \in met
    BY <2>1 DEF Private
  <2>3. met = {} => Redirecting = {t} /\ old[t] = Protocol
    BY <2>1, <2>2 DEF Private
  <2>4. \A u \in Threads : u # t => step'[u] = step[u] /\ running'[u] = running[u]
    BY <1>5 DEF RestoreStdout, EndEval, TypeOK
  <2>5. stdout' = old[t] /\ old' = old /\ met' = met /\ step'[t] = "idle"
    BY <1>5 DEF RestoreStdout, EndEval, TypeOK
  <2> QED BY <2>1, <2>2, <2>3, <2>4, <2>5 DEF Private, Redirecting
<1>6. CASE Prints
  BY <1>6 DEF Prints, Private, Redirecting
<1>7. CASE Startup
  <2>1. CASE Bootstrap
    <3>1. step["warmup"] = "idle"
      BY <2>1 DEF Bootstrap, Fresh, Threads
    <3> QED BY <2>1, <3>1, BeginIsAside, AsideKeepsPrivate DEF Bootstrap, Threads
  <2>2. CASE BootstrapFails \/ Announce \/ Serve
    BY <2>2 DEF BootstrapFails, Announce, Serve, Private, Redirecting
  <2> QED BY <1>7, <2>1, <2>2 DEF Startup
<1>8. CASE Request
  <2>1. CASE ResolveRequest
    <3>1. step["main"] = "idle"
      BY <2>1 DEF ResolveRequest, TypeOK
    <3> QED BY <2>1, <3>1, BeginIsAside, AsideKeepsPrivate DEF ResolveRequest, Threads
  <2>2. CASE ExecRequest
    <3>1. step["worker"] = "idle"
      BY <2>2 DEF ExecRequest, TypeOK, Threads
    <3> QED BY <2>2, <3>1, BeginIsAside, AsideKeepsPrivate DEF ExecRequest, Threads
  <2>3. CASE Shutdown \/ EndOfInput
    BY <2>3 DEF Shutdown, EndOfInput, Private, Redirecting
  <2> QED BY <1>8, <2>1, <2>2, <2>3 DEF Request
<1>9. CASE Collect \/ Close \/ Exit
  BY <1>9 DEF Collect, Close, Exit, Private, Redirecting
<1>10. CASE UNCHANGED vars
  BY <1>10 DEF vars, Private, Redirecting
<1> QED BY <1>1, <1>2, <1>3, <1>4, <1>5, <1>6, <1>7, <1>8, <1>9, <1>10
        DEF Next, Eval

(* A script prints into sys.stdout, which is its own buffer then. *)
LEMMA OutputStep ==
    TypeOK /\ Private /\ OutputPrivate /\ [Next]_vars => OutputPrivate'
<1> SUFFICES ASSUME TypeOK, Private, OutputPrivate, [Next]_vars
             PROVE  OutputPrivate'
    OBVIOUS
<1>1. CASE Prints
  BY <1>1 DEF Prints, Private, OutputPrivate, Threads
<1>2. CASE output' = output /\ met \subseteq met'
  BY <1>2 DEF OutputPrivate
<1>3. Prints \/ (output' = output /\ met \subseteq met')
  BY DEF Next, Eval, Lookup, Check, OpenDecompiler, SaveStdout, SetStdout,
         EndScript, RestoreStdout, Startup, Bootstrap, BootstrapFails, Announce,
         Serve, Request, ResolveRequest, ExecRequest, Shutdown, EndOfInput,
         Collect, Close, Exit, redirectVars, vars
<1> QED BY <1>1, <1>2, <1>3

(* RedirectIsPrivate of ServerProcess: an evaluation whose redirect never  *)
(* met another's has all its output in its own result, and the protocol    *)
(* stream is back when none has met.                                       *)
THEOREM RedirectsPrivate == Spec => []RedirectIsPrivate
<1>1. Init => Fresh /\ Private /\ OutputPrivate
  BY DEF Init, Fresh, Private, OutputPrivate, Redirecting
<1>2. Private /\ OutputPrivate => RedirectIsPrivate
  BY DEF Private, OutputPrivate, RedirectIsPrivate
<1> QED BY <1>1, <1>2, TypeCorrect, FreshStep, PrivateStep, OutputStep, PTL DEF Spec

-----------------------------------------------------------------------------
(* The session and the decompiler. *)

(* In a closed session only evaluations that were under way at the close   *)
(* get beyond the look-ups.                                                *)
Late ==
    session = "closed" =>
        \A t \in Threads : step[t] \notin {"idle", "lookup", "check"}
                               => running[t] \in underway

(* Late is inductive: the look-ups fail in a closed session. *)
LEMMA LateStep == TypeOK /\ Late /\ [Next]_vars => Late'
<1> SUFFICES ASSUME TypeOK, Late, [Next]_vars PROVE Late'
    OBVIOUS
<1> USE DEF evalVars, GoTo, Late
<1>1. ASSUME NEW t \in Threads, Eval(t) PROVE Late'
  BY <1>1 DEF Eval, Lookup, Check, OpenDecompiler, SaveStdout, SetStdout,
              EndScript, RestoreStdout, EndEval, Known, TypeOK
<1>2. CASE Startup
  BY <1>2 DEF Startup, Bootstrap, BootstrapFails, Announce, Serve, BeginEval, TypeOK
<1>3. CASE ResolveRequest \/ ExecRequest
  BY <1>3 DEF ResolveRequest, ExecRequest, BeginEval, TypeOK
<1>4. CASE Shutdown
  BY <1>4 DEF Shutdown, TypeOK, Threads
<1>5. CASE Prints \/ EndOfInput \/ Collect \/ Close \/ Exit \/ UNCHANGED vars
  BY <1>5 DEF Prints, EndOfInput, Collect, Close, Exit, vars
<1> QED BY <1>1, <1>2, <1>3, <1>4, <1>5 DEF Next, Request

(* NoNewScriptAfterShutdown of ServerProcess: once the session is closed,  *)
(* no script begins except in an evaluation that was in progress.          *)
THEOREM NothingNewAfterShutdown == Spec => []NoNewScriptAfterShutdown
<1>1. Init => Late
  BY DEF Init, Late
<1>2. Late => NoNewScriptAfterShutdown
  BY DEF Late, NoNewScriptAfterShutdown
<1> QED BY <1>1, <1>2, TypeCorrect, LateStep, PTL DEF Spec

-----------------------------------------------------------------------------
(* Until two threads open decompilers at once, at most one opens one, and  *)
(* in the open session it finds none; so the record knows the only one     *)
(* there is.  What is left open in a closed session is from an evaluation  *)
(* that was in progress.                                                   *)
Disposal ==
    ~raced =>
        /\ \A t, u \in Threads : step[t] = "open" /\ step[u] = "open" => t = u
        /\ session = "open" =>
              /\ \A t \in Threads : step[t] = "open" => decompiler = None
              /\ opened \subseteq {decompiler}
        /\ session = "closed" => opened \subseteq underway

(* Every step but the look-up, the opening, the bootstrap and the shutdown *)
(* leaves the decompiler and the threads that open one as they are.        *)
LEMMA DisposalKept ==
    ASSUME TypeOK, Disposal, UNCHANGED <<session, decompilerVars, underway>>,
           \A t \in Threads : step'[t] = "open" => step[t] = "open"
    PROVE  Disposal'
<1>1. raced' = raced
  BY DEF decompilerVars
<1> QED BY <1>1 DEF Disposal, decompilerVars

(* Disposal is inductive. *)
LEMMA DisposalStep ==
    TypeOK /\ Fresh /\ Late /\ Disposal /\ [Next]_vars => Disposal'
<1> SUFFICES ASSUME TypeOK, Fresh, Late, Disposal, [Next]_vars PROVE Disposal'
    OBVIOUS
<1> USE DEF evalVars, redirectVars, GoTo
<1>1. ASSUME NEW t \in Threads, Check(t) PROVE Disposal'
  <2>1. CASE session = "open" /\ decompiler = None
    <3>1. ~raced' => ~raced /\ \A u \in Threads : step[u] # "open"
      BY <1>1, <2>1, Zenon DEF Check, Known
    <3>2. UNCHANGED <<session, decompiler, opened>>
          /\ step' = [step EXCEPT ![t] = "open"]
      BY <1>1, <2>1 DEF Check, Known
    <3> QED BY <2>1, <3>1, <3>2 DEF Disposal, TypeOK
  <2>2. CASE ~(session = "open" /\ decompiler = None)
    <3>1. ~raced' => ~raced
      BY <1>1, Zenon DEF Check, Known
    <3>2. /\ UNCHANGED <<session, decompiler, opened, underway>>
          /\ \A u \in Threads : step'[u] = "open" => step[u] = "open"
      BY <1>1, <2>2 DEF Check, Known, EndEval, TypeOK
    <3> QED BY <3>1, <3>2 DEF Disposal
  <2> QED BY <2>1, <2>2
<1>2. ASSUME NEW t \in Threads, OpenDecompiler(t) PROVE Disposal'
  <2>1. /\ UNCHANGED <<session, raced, underway>>
        /\ step[t] = "open"
        /\ step'[t] # "open"
        /\ \A u \in Threads : u # t => step'[u] = step[u]
    BY <1>2 DEF OpenDecompiler, EndEval, TypeOK
  <2>2. CASE opened' = opened /\ decompiler' = decompiler
    BY <2>1, <2>2 DEF Disposal
  <2>3. CASE opened' = opened \cup {running[t]} /\ decompiler' = running[t]
    <3> SUFFICES ASSUME ~raced PROVE Disposal'
      BY <2>1 DEF Disposal
    <3>1. \A u \in Threads : step'[u] # "open"
      BY <2>1 DEF Disposal
    <3>2. session = "open" => opened = {}
      BY <2>1 DEF Disposal, TypeOK, Evals, None
    <3>3. session = "closed" => running[t] \in underway
      BY <2>1 DEF Late
    <3> QED BY <2>1, <2>3, <3>1, <3>2, <3>3 DEF Disposal
  <2> QED BY <1>2, <2>2, <2>3 DEF OpenDecompiler
<1>3. CASE Bootstrap
  <2>1. \A t \in Threads : step'[t] # "open"
    BY <1>3 DEF Bootstrap, BeginEval, Fresh, TypeOK
  <2> QED BY <1>3, <2>1 DEF Bootstrap, Fresh, Disposal, decompilerVars
<1>4. CASE Shutdown
  <2>1. raced' = raced
    BY <1>4 DEF Shutdown
  <2> QED BY <1>4, <2>1 DEF Shutdown, Disposal
<1>5. ASSUME NEW t \in Threads,
             \/ Lookup(t) \/ SaveStdout(t) \/ SetStdout(t)
             \/ EndScript(t) \/ RestoreStdout(t)
      PROVE  Disposal'
  BY <1>5, DisposalKept DEF Lookup, SaveStdout, SetStdout, EndScript,
     RestoreStdout, EndEval, TypeOK
<1>6. CASE ResolveRequest \/ ExecRequest
  BY <1>6, DisposalKept DEF ResolveRequest, ExecRequest, BeginEval, TypeOK
<1>7. CASE BootstrapFails \/ Announce \/ Serve \/ EndOfInput
  BY <1>7, DisposalKept DEF BootstrapFails, Announce, Serve, EndOfInput
<1>8. CASE Prints \/ Collect \/ Close \/ Exit \/ UNCHANGED vars
  BY <1>8, DisposalKept DEF Prints, Collect, Close, Exit, vars
<1> QED BY <1>1, <1>2, <1>3, <1>4, <1>5, <1>6, <1>7, <1>8
        DEF Next, Eval, Startup, Request

(* DecompilerDisposed of ServerProcess: without a race, no open decompiler *)
(* is forgotten, and after shutdown only an evaluation in progress can     *)
(* have left one.                                                          *)
THEOREM NoDecompilerLost == Spec => []DecompilerDisposed
<1>1. Init => Fresh /\ Late /\ Disposal
  BY DEF Init, Fresh, Late, Disposal
<1>2. Disposal => DecompilerDisposed
  BY DEF Disposal, DecompilerDisposed
<1> QED BY <1>1, <1>2, TypeCorrect, FreshStep, LateStep, DisposalStep, PTL DEF Spec
=============================================================================
