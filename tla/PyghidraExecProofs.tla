------------------------- MODULE PyghidraExecProofs -------------------------
(***************************************************************************)
(* Proofs about PyghidraExec for any set of names and any bounds: its      *)
(* invariants, and that it implements ExecContract; and about AgentSession *)
(* for any functions, calls and writes: its steps are steps of             *)
(* PyghidraExec or leave it alone, and what a flush followed is not hidden *)
(* by the decompile cache.                                                 *)
(***************************************************************************)
EXTENDS PyghidraExecContract, AgentSession, TLAPS

USE DEF Calls, Unbound

-----------------------------------------------------------------------------
(* Types. *)

(* Laying one namespace over another, copying one binding and emptying all *)
(* give a namespace again.                                                 *)
LEMMA EmptyType == Empty \in Namespace
BY MaxCallsAssumption DEF Empty, Namespace

LEMMA OverlayType ==
    ASSUME NEW b \in Namespace, NEW t \in Namespace
    PROVE  /\ Overlay(b, t) \in Namespace
           /\ \A n \in Names : Overlay(b, t)[n] = IF t[n] # Unbound THEN t[n]
                                                  ELSE b[n]
BY DEF Overlay, Namespace

(* A snapshot record, and the map of booleans the worker updates: facts    *)
(* without arithmetic, left to first-order reasoning.                      *)
LEMMA SnapshotType ==
    ASSUME NEW s \in Namespace, NEW b \in BOOLEAN
    PROVE  [state |-> s, invalidate |-> b] \in Snapshots
BY DEF Snapshots

LEMMA TransitionedType ==
    ASSUME NEW t \in [Calls -> BOOLEAN], NEW c \in Calls, NEW b \in BOOLEAN
    PROVE  [t EXCEPT ![c] = b] \in [Calls -> BOOLEAN]
BY Zenon

LEMMA TypeInit == Init => TypeOK
<1> SUFFICES ASSUME Init PROVE TypeOK
    OBVIOUS
<1> USE DEF Init, SessionInit
<1>1. SessionTypeOK /\ committed \in Namespace /\ ns \in Namespace
    BY EmptyType DEF SessionTypeOK
<1>2. snap \in Snapshots
    BY EmptyType, SnapshotType
<1>3. transitioned \in [Calls -> BOOLEAN] /\ readOnly \in BOOLEAN
    BY Zenon
<1> QED BY <1>1, <1>2, <1>3, MaxCallsAssumption DEF TypeOK, Answers

LEMMA TypeStep == TypeOK /\ [Next]_vars => TypeOK'
<1> SUFFICES ASSUME TypeOK, [Next]_vars PROVE TypeOK'
    OBVIOUS
<1> USE MaxCallsAssumption, UnsavedAssumption DEF TypeOK, SessionTypeOK
<1>1. CASE Arrival
  <2> USE DEF Receive, sessionVars, workerVars
  <2>1. CASE RejectBadArgs
    BY <2>1 DEF RejectBadArgs, Answers
  <2>2. CASE FastFail
    BY <2>2 DEF FastFail, Answers
  <2>3. CASE Submit
    <3>1. snap' \in Snapshots
      BY <2>3, SnapshotType DEF Submit, Snapshot
    <3> QED BY <2>3, <3>1 DEF Submit, Unfinished
  <2> QED BY <1>1, <2>1, <2>2, <2>3 DEF Arrival
<1>2. CASE Waited
  <2> USE DEF RollBack, sessionVars, workerVars
  <2>1. CASE Timeout
    BY <2>1 DEF Timeout
  <2>2. CASE CollectExit
    BY <2>2 DEF CollectExit
  <2>3. CASE CollectInterrupt
    BY <2>3 DEF CollectInterrupt
  <2>4. CASE CollectError
    BY <2>4 DEF CollectError, Answers
  <2>6. CASE CollectFatal
    BY <2>6 DEF CollectFatal
  <2>5. CASE CollectReturned
    <3>1. /\ lastFlush' \in {current, lastFlush}
          /\ answer' = [answer EXCEPT ![current] = "ok"]
          /\ pending' = 0 /\ pc' = "idle" /\ committed' = State
      BY <2>5, Zenon DEF CollectReturned
    <3>2. /\ fut' = fut /\ current' = current /\ snap' = snap
          /\ verdict' = verdict /\ interrupts' = interrupts
          /\ wpc' = wpc /\ work' = work /\ ns' = ns /\ toSave' = toSave
          /\ requested' = requested /\ State' = State
      BY <2>5, Zenon DEF CollectReturned
    <3>3. /\ invalidateRequested' \in BOOLEAN
          /\ readOnly' \in BOOLEAN
          /\ transitioned' \in [Calls -> BOOLEAN]
      BY <2>5, Zenon DEF CollectReturned
    <3>4. answer' \in [Calls -> Answers]
      BY <3>1 DEF Answers
    <3>5. lastFlush' \in 0..MaxCalls
      BY <3>1
    <3> QED BY <3>1, <3>2, <3>3, <3>4, <3>5
  <2> QED BY <1>2, <2>1, <2>2, <2>3, <2>4, <2>5, <2>6 DEF Waited
<1>3. CASE Sigint
    BY <1>3 DEF Sigint, RollBack, sessionVars, workerVars
<1>4. CASE Restoring
  <2>1. CASE ClearStep
    BY <2>1, EmptyType DEF ClearStep, RestoreClear, workerVars
  <2>2. CASE UpdateStep
    BY <2>2, OverlayType DEF UpdateStep, RestoreUpdate, Snapshots, workerVars
  <2>3. CASE FlagStep
    BY <2>3 DEF FlagStep, RestoreFlag, Snapshots, workerVars, Answers
  <2> QED BY <1>4, <2>1, <2>2, <2>3 DEF Restoring
<1>5. CASE OtherEval
    BY <1>5 DEF OtherEval, sessionVars, serverVars, workerVars
<1>6. CASE Worker
  <2> USE DEF sessionVars, serverVars
  <2>1. CASE Start
    <3>1. PICK c \in Calls : /\ fut' = [fut EXCEPT ![c] = "running"]
                             /\ work' = c
                             /\ transitioned' = [transitioned EXCEPT
                                                      ![c] = readOnly]
      BY <2>1 DEF Start
    <3>2. transitioned' \in [Calls -> BOOLEAN]
      BY <3>1, TransitionedType
    <3>3. fut' \in [Calls -> {"none"} \cup Unfinished \cup Outcome]
      BY <3>1 DEF Unfinished
    <3>4. wpc' = "prelude" /\ work' \in Calls
      BY <2>1, <3>1 DEF Start
    <3>5. readOnly' \in BOOLEAN /\ invalidateRequested' \in BOOLEAN
      BY <2>1, Zenon DEF Start
    <3>6. UNCHANGED <<State, serverVars, ns, toSave, requested>>
      BY <2>1, Zenon DEF Start
    <3> QED BY <3>2, <3>3, <3>4, <3>5, <3>6
  <2>2. CASE ContextFails
    BY <2>2, EmptyType DEF ContextFails, Complete, Outcome, Raised
  <2>3. CASE Inject
    BY <2>3, EmptyType, OverlayType DEF Inject, Injected
  <2>4. CASE Invalidate
    BY <2>4 DEF Invalidate
  <2>5. CASE EndScript
    BY <2>5 DEF EndScript, Saved
  <2>6. CASE Finish
    BY <2>6, EmptyType DEF Finish, Complete, Outcome, Raised
  <2>7. ASSUME NEW n \in Names, Bind(n) PROVE TypeOK'
    BY <2>7 DEF Bind, Namespace
  <2>8. ASSUME NEW n \in Names, Unbind(n) PROVE TypeOK'
    BY <2>8 DEF Unbind, Namespace
  <2>9. ASSUME NEW n \in Names, PersistName(n) PROVE TypeOK'
    BY <2>9 DEF PersistName, PersistOne, Namespace
  <2>10. ASSUME NEW o \in Raised, Raise(o) PROVE TypeOK'
    BY <2>10, EmptyType DEF Raise, Complete, Outcome
  <2> QED
    BY <1>6, <2>1, <2>2, <2>3, <2>4, <2>5, <2>6, <2>7, <2>8, <2>9, <2>10
       DEF Worker
<1>7. CASE UNCHANGED vars
    BY <1>7 DEF vars, sessionVars, serverVars, workerVars
<1> QED BY <1>1, <1>2, <1>3, <1>4, <1>5, <1>6, <1>7 DEF Next

(* Every variable keeps its type, whatever the bounds: the number of a     *)
(* future, an answer or a binding never leaves the calls of the session.   *)
THEOREM TypeCorrect == Spec => []TypeOK
BY TypeInit, TypeStep, PTL DEF Spec

-----------------------------------------------------------------------------
(* The executor: one thread, first in, first out. *)

LEMMA ExecutorInit == Init => Executor
BY DEF Init, Executor, NothingAhead, OneRunning, FirstInFirstOut, Started,
       Outcome, Raised

(* The server thread leaves the worker alone and only ever appends a call. *)
LEMMA ExecutorStep ==
    ASSUME TypeOK, Executor, [Next]_vars
    PROVE  Executor'
<1> USE DEF Executor, NothingAhead, OneRunning, FirstInFirstOut, Started, Busy,
            Unfinished, Outcome, Raised
<1> fut \in [Calls -> {"none"} \cup Unfinished \cup Outcome]
    BY DEF TypeOK
<1> current \in 0..MaxCalls /\ (pc # "idle" => current \in Calls)
    BY DEF TypeOK
<1> work \in 0..MaxCalls /\ MaxCalls \in Nat
    BY MaxCallsAssumption DEF TypeOK
<1>1. CASE Arrival
  <2>1. CASE RejectBadArgs \/ FastFail
    BY <2>1 DEF RejectBadArgs, FastFail, Receive, workerVars
  <2>2. CASE Submit
    BY <2>2 DEF Submit, Receive, workerVars
  <2> QED BY <1>1, <2>1, <2>2 DEF Arrival
<1>2. CASE Waited \/ Sigint \/ Restoring \/ OtherEval \/ UNCHANGED vars
  <2>1. UNCHANGED <<current, wpc, work, fut>>
    BY <1>2 DEF Waited, Timeout, CollectExit, CollectInterrupt, CollectError,
            CollectFatal, CollectReturned, RollBack, Sigint, Restoring,
            ClearStep, UpdateStep, FlagStep, OtherEval, vars, serverVars,
            workerVars
  <2> QED BY <2>1
<1>3. CASE Worker
  <2> USE DEF serverVars
  <2>1. CASE Start
    BY <2>1 DEF Start
  <2>2. CASE ContextFails \/ Finish \/ \E o \in Raised : Raise(o)
    <3>1. PICK o \in Outcome : Complete(o) /\ wpc # "idle"
      BY <2>2 DEF ContextFails, Finish, Raise
    <3>2. current' = current
      BY <2>2 DEF ContextFails, Finish, Raise
    <3> QED BY <3>1, <3>2 DEF Complete
  <2>3. CASE Inject \/ Invalidate \/ EndScript
    BY <2>3 DEF Inject, Invalidate, EndScript
  <2>4. ASSUME NEW n \in Names, Bind(n) \/ Unbind(n) \/ PersistName(n)
        PROVE  Executor'
    BY <2>4 DEF Bind, Unbind, PersistName
  <2> QED BY <1>3, <2>1, <2>2, <2>3, <2>4 DEF Worker
<1> QED BY <1>1, <1>2, <1>3 DEF Next

-----------------------------------------------------------------------------
(* One script at a time. *)

LEMMA GatedInit == Init => Gated
BY DEF Init, Gated, BusyIsKnown, Busy, Unfinished

(* The server never forgets that there was a SIGINT. *)
LEMMA InterruptsGrow ==
    ASSUME interrupts \in Nat, [Next]_vars, interrupts' = 0
    PROVE  interrupts = 0
<1>1. CASE Sigint
  BY <1>1 DEF Sigint
<1>2. CASE ~Sigint
  BY <1>2 DEF Next, Arrival, RejectBadArgs, FastFail, Submit, Waited, Timeout,
          CollectExit, CollectInterrupt, CollectError,
          CollectFatal, CollectReturned, RollBack,
          Restoring, ClearStep, UpdateStep, FlagStep, OtherEval, Worker, Start,
          ContextFails, Inject, Invalidate, EndScript, Finish, Bind, Unbind,
          PersistName, Raise, vars, serverVars
<1> QED BY <1>1, <1>2

LEMMA GatedStep ==
    ASSUME TypeOK, NothingAhead, interrupts = 0 => Gated, [Next]_vars
    PROVE  (interrupts = 0 => Gated)'
<1> interrupts \in Nat
    BY DEF TypeOK
<1> SUFFICES ASSUME interrupts' = 0
             PROVE  Gated'
    OBVIOUS
<1>0. Gated
  BY InterruptsGrow
<1> USE <1>0
<1> USE DEF Gated, Busy, Unfinished, NothingAhead
<1> fut \in [Calls -> {"none"} \cup Unfinished \cup Outcome]
    BY DEF TypeOK
<1> current \in 0..MaxCalls /\ (pc # "idle" => current \in Calls)
    BY DEF TypeOK
<1> answer \in [Calls -> Answers]
    BY DEF TypeOK
<1>1. CASE Arrival
  <2> USE DEF Receive, BusyIsKnown, Gate, Done, Outcome, Raised
  <2>1. CASE RejectBadArgs
    BY <2>1 DEF RejectBadArgs
  <2>2. CASE FastFail
    BY <2>2 DEF FastFail
  <2>3. CASE Submit
    BY <2>3 DEF Submit
  <2> QED BY <1>1, <2>1, <2>2, <2>3 DEF Arrival
<1>2. CASE Waited
  <2> USE DEF BusyIsKnown, Outcome, Raised
  <2>1. CASE Timeout
    BY <2>1 DEF Timeout, RollBack
  <2>2. CASE CollectExit
    BY <2>2 DEF CollectExit, RollBack
  <2>3. CASE CollectInterrupt
    BY <2>3 DEF CollectInterrupt, RollBack
  <2>4. CASE CollectError \/ CollectFatal
    BY <2>4 DEF CollectError, CollectFatal
  <2>5. CASE CollectReturned
    BY <2>5 DEF CollectReturned
  <2> QED BY <1>2, <2>1, <2>2, <2>3, <2>4, <2>5 DEF Waited
<1>3. CASE Sigint
    BY <1>3 DEF Sigint
<1>4. CASE Restoring
  <2> USE DEF BusyIsKnown
  <2>1. CASE ClearStep
    BY <2>1 DEF ClearStep
  <2>2. CASE UpdateStep
    BY <2>2 DEF UpdateStep
  <2>3. CASE FlagStep
    BY <2>3 DEF FlagStep
  <2> QED BY <1>4, <2>1, <2>2, <2>3 DEF Restoring
<1>5. CASE OtherEval
    BY <1>5 DEF OtherEval, serverVars, BusyIsKnown
<1>6. CASE Worker
  (* The worker starts what is queued and finishes what runs, no more. *)
  <2>1. /\ UNCHANGED <<pc, current, verdict, pending, answer, interrupts>>
        /\ \A c \in Calls : Busy(c)' => Busy(c)
    <3> USE DEF serverVars
    <3>1. CASE Start
      BY <3>1 DEF Start
    <3>2. CASE ContextFails \/ Finish
      BY <3>2 DEF ContextFails, Finish, Complete
    <3>3. CASE Inject \/ Invalidate \/ EndScript
      BY <3>3 DEF Inject, Invalidate, EndScript
    <3>4. ASSUME NEW n \in Names, Bind(n) \/ Unbind(n) \/ PersistName(n)
          PROVE  <2>1!:
      BY <3>4 DEF Bind, Unbind, PersistName
    <3>5. ASSUME NEW o \in Raised, Raise(o)
          PROVE  <2>1!:
      BY <3>5 DEF Raise, Complete, Raised
    <3> QED BY <1>6, <3>1, <3>2, <3>3, <3>4, <3>5 DEF Worker
  <2> QED BY <2>1 DEF BusyIsKnown
<1>7. CASE UNCHANGED vars
    BY <1>7 DEF vars, serverVars, BusyIsKnown
<1> QED BY <1>1, <1>2, <1>3, <1>4, <1>5, <1>6, <1>7 DEF Next

(* Until a SIGINT reaches the waiting server, at most one script is queued *)
(* or running, and one that outlives its call is the remembered future of  *)
(* a call answered with "timeout": the gate at server.py:1589 is enough.   *)
THEOREM OneScriptAtATime == Spec => [](SingleFlightUntilSigint /\ BusyIsKnown)
<1>1. (interrupts = 0 => Gated) => SingleFlightUntilSigint /\ BusyIsKnown
    BY DEF Gated, SingleFlightUntilSigint, SingleFlight, BusyIsKnown
<1>2. Executor => NothingAhead
    BY DEF Executor
<1> QED BY <1>1, <1>2, TypeCorrect, ExecutorInit, ExecutorStep, GatedInit,
           GatedStep, PTL DEF Spec

-----------------------------------------------------------------------------
(* Committed globals are kept. *)

(* A future only moves forward. *)
LEMMA Forward ==
    ASSUME TypeOK, Executor, [Next]_vars
    PROVE  \A c \in Calls : /\ Started(c) => Started(c)'
                            /\ Done(c) => Done(c)'
<1> DEFINE Ahead == \A c \in Calls : /\ Started(c) => Started(c)'
                                     /\ Done(c) => Done(c)'
<1> USE DEF Started, Done, Outcome, Raised
<1> fut \in [Calls -> {"none"} \cup Unfinished \cup Outcome]
    BY DEF TypeOK
<1> current \in 0..MaxCalls /\ MaxCalls \in Nat
    BY MaxCallsAssumption DEF TypeOK
<1>1. CASE UNCHANGED fut
    BY <1>1
<1>2. CASE Submit
    BY <1>2 DEF Submit, Receive, Executor, NothingAhead
<1>3. CASE Start
    BY <1>3 DEF Start
<1>4. CASE wpc # "idle" /\ \E o \in Outcome : Complete(o)
    BY <1>4 DEF Complete, Executor, OneRunning
<1> HIDE DEF Started, Done, Outcome, Raised, Ahead
<1>5. CASE Arrival \/ Waited \/ Sigint \/ Restoring \/ OtherEval \/ UNCHANGED vars
  <2>1. UNCHANGED fut \/ Submit
    BY <1>5 DEF Arrival, RejectBadArgs, FastFail, Waited, Timeout, CollectExit,
            CollectInterrupt, CollectError,
            CollectFatal, CollectReturned, RollBack, Sigint,
            Restoring, ClearStep, UpdateStep, FlagStep, OtherEval, vars
  <2> QED BY <2>1, <1>1, <1>2
<1>6. CASE Worker
  <2>1. \/ UNCHANGED fut
        \/ Start
        \/ wpc # "idle" /\ \E o \in Outcome : Complete(o)
    BY <1>6 DEF Worker, ContextFails, Inject, Invalidate, EndScript, Finish,
            Bind, Unbind, PersistName, Raise, Outcome, Raised
  <2> QED BY <2>1, <1>1, <1>3, <1>4
<1> QED BY <1>5, <1>6 DEF Next, Ahead

(* Once the call the server waits for is finished, the worker is idle. *)
LEMMA NothingBehind ==
    ASSUME TypeOK, Executor, pc = "waiting", Done(current)
    PROVE  wpc = "idle" /\ \A c \in Calls : ~Busy(c)
<1> current \in Calls /\ work \in 0..MaxCalls /\ MaxCalls \in Nat
    BY MaxCallsAssumption DEF TypeOK
<1>1. ASSUME NEW c \in Calls PROVE ~Busy(c)
    BY <1>1 DEF Executor, NothingAhead, FirstInFirstOut, Started, Busy, Done,
            Unfinished, Outcome, Raised
<1>2. wpc = "idle"
    BY <1>1 DEF Executor, OneRunning, Busy, Unfinished
<1> QED BY <1>1, <1>2

LEMMA KeptInit == Init => Kept
BY DEF Init, SessionInit, Empty, Kept, BindingsStarted, CommittedDone, StateNewer,
       NamespaceNewer, SnapshotKeeps, SavesBindings, CommittedBefore,
       CommittedKept

LEMMA KeptStep ==
    ASSUME TypeOK, Executor, Kept, [Next]_vars
    PROVE  Kept'
<1> USE DEF Kept, BindingsStarted, CommittedDone, StateNewer, NamespaceNewer,
            SnapshotKeeps, SavesBindings, CommittedBefore, CommittedKept
<1> MaxCalls \in Nat
    BY MaxCallsAssumption
<1> /\ State \in [Names -> 0..MaxCalls]
    /\ ns \in [Names -> 0..MaxCalls]
    /\ committed \in [Names -> 0..MaxCalls]
    /\ snap.state \in [Names -> 0..MaxCalls]
    BY DEF TypeOK, SessionTypeOK, Snapshots, Namespace
<1> work \in 0..MaxCalls /\ (wpc # "idle" => work \in Calls)
    BY DEF TypeOK
<1> DEFINE Ahead == \A c \in Calls : /\ Started(c) => Started(c)'
                                     /\ Done(c) => Done(c)'
<1>1. Ahead
    BY Forward
<1> HIDE DEF Ahead

(* Steps that touch no binding. *)
<1>2. CASE /\ UNCHANGED <<State, snap, committed, wpc, work, ns, toSave>>
           /\ pc' # "idle" => pc # "idle"
           /\ pc = "update" <=> pc' = "update"
    BY <1>1, <1>2 DEF Ahead
<1>3. CASE Arrival
  <2>1. CASE RejectBadArgs \/ FastFail
    BY <2>1, <1>2 DEF RejectBadArgs, FastFail, Receive, sessionVars, workerVars
  <2>2. CASE Submit
    <3>1. /\ snap'.state = State /\ pc' = "waiting" /\ pc = "idle"
          /\ UNCHANGED <<State, committed, wpc, work, ns, toSave>>
      BY <2>2 DEF Submit, Receive, Snapshot, sessionVars, workerVars
    <3> QED BY <3>1, <1>1 DEF Ahead
  <2> QED BY <1>3, <2>1, <2>2 DEF Arrival
<1>4. CASE Waited
  <2>1. CASE \/ Timeout \/ CollectExit \/ CollectInterrupt \/ CollectError
            \/ CollectFatal
    BY <2>1, <1>2 DEF Timeout, CollectExit, CollectInterrupt, CollectError,
            CollectFatal, RollBack, sessionVars, workerVars
  <2>2. CASE CollectReturned
    <3>1. wpc = "idle" /\ \A c \in Calls : ~Busy(c)
      BY <2>2, NothingBehind DEF CollectReturned, Done, Outcome
    <3>2. \A n \in Names : State[n] # Unbound => Done(State[n])
      BY <3>1 DEF Started, Done, Busy, Unfinished
    <3>3. /\ committed' = State /\ pc' = "idle"
          /\ UNCHANGED <<State, snap, wpc, work, ns, toSave>>
      BY <2>2 DEF CollectReturned, workerVars
    <3> QED BY <3>1, <3>2, <3>3, <1>1 DEF Ahead
  <2> QED BY <1>4, <2>1, <2>2 DEF Waited
<1>5. CASE Sigint \/ FlagStep \/ OtherEval \/ UNCHANGED vars
    BY <1>5, <1>2 DEF Sigint, RollBack, FlagStep, OtherEval, vars, serverVars,
            sessionVars, workerVars
<1>6. CASE ClearStep
    BY <1>6, <1>1 DEF ClearStep, RestoreClear, Empty, workerVars, Ahead
(* What was committed comes back from the snapshot. *)
<1>7. CASE UpdateStep
  <2>1. \A n \in Names : State'[n] = IF snap.state[n] # Unbound
                                      THEN snap.state[n] ELSE State[n]
    BY <1>7 DEF UpdateStep, RestoreUpdate, Overlay
  <2>2. /\ UNCHANGED <<snap, committed, wpc, work, ns, toSave>>
        /\ pc = "update" /\ pc' = "flag"
    BY <1>7 DEF UpdateStep, workerVars
  <2>3. /\ \A n \in Names : State'[n] # Unbound => Started(State[n])'
        /\ \A n \in Names : State'[n] # Unbound => State'[n] >= committed[n]
        /\ \A n \in Names : committed[n] # Unbound => State'[n] >= committed[n]
    BY <2>1, <2>2, <1>1 DEF Ahead
  <2> QED BY <2>2, <2>3, <1>1 DEF Ahead
<1>8. CASE Worker
  <2>1. UNCHANGED <<pc, snap, committed>>
    BY <1>8 DEF Worker, Start, ContextFails, Inject, Invalidate, EndScript,
            Finish, Bind, Unbind, PersistName, Raise, serverVars
  <2>2. CASE Start
    <3>1. PICK c \in Calls : work' = c /\ fut[c] = "queued"
      BY <2>2 DEF Start
    <3>2. UNCHANGED <<State, ns>> /\ wpc' = "prelude"
      BY <2>2 DEF Start, sessionVars
    (* Whatever was committed comes from a call that was taken before c. *)
    <3>3. \A n \in Names : committed[n] <= c
      BY <3>1 DEF Executor, FirstInFirstOut, Started, Done, Busy, Unfinished
    <3> QED BY <2>1, <3>1, <3>2, <3>3, <1>1 DEF Ahead
  <2>3. CASE wpc # "idle" /\ \E o \in Outcome : Complete(o) /\ UNCHANGED State
    BY <2>1, <2>3, <1>1 DEF Complete, Ahead
  <2>4. CASE ContextFails \/ Finish \/ \E o \in Raised : Raise(o)
    BY <2>3, <2>4 DEF ContextFails, Finish, Raise, sessionVars, Outcome, Raised
  <2>5. CASE Inject
    <3>1. \A n \in Names : ns'[n] = State[n]
      BY <2>5 DEF Inject, Injected, Overlay, Empty
    <3>2. UNCHANGED <<State, work>> /\ wpc' = "script" /\ wpc = "prelude"
      BY <2>5 DEF Inject, sessionVars
    <3> QED BY <2>1, <3>1, <3>2, <1>1 DEF Ahead
  <2>6. CASE Invalidate \/ EndScript
    <3>1. /\ UNCHANGED <<State, work, ns>>
          /\ wpc = "script" /\ wpc' \in {"script", "persist"}
          /\ wpc' = "persist" => \A n \in toSave' : ns[n] # Unbound
      BY <2>6 DEF Invalidate, EndScript, Saved, sessionVars
    <3> QED BY <2>1, <3>1, <1>1 DEF Ahead
  <2>7. ASSUME NEW n \in Names, Bind(n) \/ Unbind(n) PROVE Kept'
    <3>1. /\ UNCHANGED <<State, work, wpc>>
          /\ wpc = "script"
          /\ ns' \in {[ns EXCEPT ![n] = work], [ns EXCEPT ![n] = Unbound]}
      BY <2>7 DEF Bind, Unbind, sessionVars
    <3>2. Started(work)
      BY <3>1 DEF Executor, OneRunning, Started
    <3> QED BY <2>1, <3>1, <3>2, <1>1 DEF Ahead
  <2>8. ASSUME NEW n \in Names, PersistName(n) PROVE Kept'
    <3>1. /\ UNCHANGED <<work, wpc, ns>>
          /\ wpc = "persist" /\ n \in toSave
          /\ toSave' = toSave \ {n}
          /\ State' = [State EXCEPT ![n] = ns[n]]
      BY <2>8 DEF PersistName, PersistOne
    <3>2. ns[n] # Unbound
      BY <3>1
    <3> QED BY <2>1, <3>1, <3>2, <1>1 DEF Ahead
  <2> QED BY <1>8, <2>2, <2>4, <2>5, <2>6, <2>7, <2>8 DEF Worker
<1> QED BY <1>3, <1>4, <1>5, <1>6, <1>7, <1>8 DEF Next, Restoring

(* Nothing a successful call left in the globals is lost or replaced by an *)
(* older value: not by rollbacks, not by abandoned workers persisting in   *)
(* the middle of them, with any number of SIGINTs.                         *)
THEOREM GlobalsKept == Spec => []CommittedKept
<1>1. Kept => CommittedKept
    BY DEF Kept
<1> QED BY <1>1, TypeCorrect, ExecutorInit, ExecutorStep, KeptInit, KeptStep,
           PTL DEF Spec

-----------------------------------------------------------------------------
(* Refused calls leave no trace. *)

LEMMA RefusalInit == Init => BindingsPersisted /\ AnswersMatch
BY DEF Init, SessionInit, Empty, BindingsPersisted, AnswersMatch

LEMMA AnswersMatchStep ==
    ASSUME TypeOK, Executor, AnswersMatch, [Next]_vars
    PROVE  AnswersMatch'
<1> USE DEF AnswersMatch, Done, Outcome, Raised
<1> fut \in [Calls -> {"none"} \cup Unfinished \cup Outcome]
    BY DEF TypeOK
<1> current \in 0..MaxCalls /\ (pc # "idle" => current \in Calls)
    BY DEF TypeOK
<1> /\ MaxCalls \in Nat /\ answer \in [Calls -> Answers]
    /\ verdict \in {"timeout", "unsupported", "transient"}
    BY MaxCallsAssumption DEF TypeOK
<1>1. CASE Arrival
  <2> USE DEF Receive, Executor, NothingAhead
  <2>1. CASE RejectBadArgs
    BY <2>1 DEF RejectBadArgs
  <2>2. CASE FastFail
    BY <2>2 DEF FastFail
  <2>3. CASE Submit
    BY <2>3 DEF Submit
  <2> QED BY <1>1, <2>1, <2>2, <2>3 DEF Arrival
<1>2. CASE Waited
  <2>1. CASE Timeout \/ CollectInterrupt
    BY <2>1 DEF Timeout, CollectInterrupt, RollBack
  <2>2. CASE CollectExit
    BY <2>2 DEF CollectExit, RollBack
  <2>3. CASE CollectError \/ CollectFatal
    BY <2>3 DEF CollectError, CollectFatal
  <2>4. CASE CollectReturned
    BY <2>4 DEF CollectReturned
  <2> QED BY <1>2, <2>1, <2>2, <2>3, <2>4 DEF Waited
<1>3. CASE Sigint
    BY <1>3 DEF Sigint, RollBack
<1>4. CASE ClearStep \/ UpdateStep
    BY <1>4 DEF ClearStep, UpdateStep
<1>5. CASE FlagStep
    BY <1>5 DEF FlagStep
<1>6. CASE OtherEval \/ UNCHANGED vars
    BY <1>6 DEF OtherEval, vars, serverVars
<1>7. CASE Worker
  <2>1. UNCHANGED <<pc, current, verdict, answer>>
    BY <1>7 DEF Worker, Start, ContextFails, Inject, Invalidate, EndScript,
            Finish, Bind, Unbind, PersistName, Raise, serverVars
  (* A refused call has no future, and sys.exit() is final. *)
  <2>2. \A c \in Calls : fut[c] \in {"none"} \cup Outcome => fut'[c] = fut[c]
    <3> USE DEF Outcome, Raised
    <3>1. CASE UNCHANGED fut
      BY <3>1
    <3>2. CASE Start
      BY <3>2 DEF Start
    <3>3. CASE wpc # "idle" /\ \E o \in Outcome : Complete(o)
      BY <3>3 DEF Complete, Executor, OneRunning
    <3>4. \/ UNCHANGED fut
          \/ Start
          \/ wpc # "idle" /\ \E o \in Outcome : Complete(o)
      BY <1>7 DEF Worker, ContextFails, Inject, Invalidate, EndScript, Finish,
              Bind, Unbind, PersistName, Raise
    <3> QED BY <3>1, <3>2, <3>3, <3>4
  <2>3. \A c \in Calls : fut[c] # "none" => fut'[c] # "none"
    BY <1>7 DEF Worker, Start, ContextFails, Inject, Invalidate, EndScript,
            Finish, Bind, Unbind, PersistName, Raise, Complete, Raised
  <2> QED BY <2>1, <2>2, <2>3 DEF Outcome, Raised
<1> QED BY <1>1, <1>2, <1>3, <1>4, <1>5, <1>6, <1>7 DEF Next, Restoring

LEMMA BindingsPersistedStep ==
    ASSUME TypeOK, Executor, Kept, BindingsPersisted, [Next]_vars
    PROVE  BindingsPersisted'
<1> USE DEF BindingsPersisted
<1> /\ State \in [Names -> 0..MaxCalls]
    /\ ns \in [Names -> 0..MaxCalls]
    /\ snap.state \in [Names -> 0..MaxCalls]
    BY DEF TypeOK, SessionTypeOK, Snapshots, Namespace
<1> work \in 0..MaxCalls /\ (wpc # "idle" => work \in Calls)
    BY DEF TypeOK
<1> MaxCalls \in Nat /\ current \in 0..MaxCalls
    BY MaxCallsAssumption DEF TypeOK
<1> fut \in [Calls -> {"none"} \cup Unfinished \cup Outcome]
    BY DEF TypeOK
<1> DEFINE Onward == \A c \in Calls : Persisted(c) => Persisted(c)'
<1>1. Onward
  <2> USE DEF Persisted
  <2>1. CASE UNCHANGED fut /\ (wpc = "persist" => UNCHANGED <<wpc, work>>)
    BY <2>1
  <2>2. CASE Submit
    BY <2>2 DEF Submit, Receive, workerVars, Executor, NothingAhead, OneRunning
  <2>3. CASE Start
    BY <2>3 DEF Start
  <2>4. CASE Finish
    BY <2>4 DEF Finish, Complete, Executor, OneRunning
  <2>5. CASE wpc \notin {"idle", "persist"} /\ \E o \in Outcome : Complete(o)
    BY <2>5 DEF Complete, Executor, OneRunning
  <2>6. CASE Worker
    BY <2>1, <2>3, <2>4, <2>5, <2>6
       DEF Worker, ContextFails, Inject, Invalidate, EndScript, Bind, Unbind,
           PersistName, Raise, Outcome, Raised
  <2>7. CASE ~Worker
    <3>1. Submit \/ UNCHANGED <<fut, wpc, work>>
      BY <2>7 DEF Next, Arrival, RejectBadArgs, FastFail, Waited, Timeout,
              CollectExit, CollectInterrupt, CollectError,
              CollectFatal, CollectReturned,
              RollBack, Sigint, Restoring, ClearStep, UpdateStep, FlagStep,
              OtherEval, vars, workerVars
    <3> QED BY <3>1, <2>1, <2>2
  <2> QED BY <2>6, <2>7
<1> HIDE DEF Onward
<1>2. CASE UNCHANGED <<State, snap, ns, wpc, work>>
    BY <1>1, <1>2 DEF Onward
<1>3. CASE Arrival
  <2>1. CASE Submit
    <3>1. snap'.state = State /\ UNCHANGED <<State, ns, wpc, work>>
      BY <2>1 DEF Submit, Snapshot, sessionVars, workerVars
    <3> QED BY <3>1, <1>1 DEF Onward
  <2> QED BY <1>2, <1>3, <2>1 DEF Arrival, RejectBadArgs, FastFail, sessionVars,
             workerVars
<1>4. CASE Waited \/ Sigint \/ FlagStep \/ OtherEval \/ UNCHANGED vars
    BY <1>2, <1>4 DEF Waited, Timeout, CollectExit, CollectInterrupt,
            CollectError,
            CollectFatal, CollectReturned, RollBack, Sigint, FlagStep,
            OtherEval, vars, sessionVars, serverVars, workerVars
<1>5. CASE ClearStep
    BY <1>5, <1>1 DEF ClearStep, RestoreClear, Empty, workerVars, Onward
<1>6. CASE UpdateStep
  <2>1. \A n \in Names : State'[n] = IF snap.state[n] # Unbound
                                      THEN snap.state[n] ELSE State[n]
    BY <1>6 DEF UpdateStep, RestoreUpdate, Overlay
  <2>2. UNCHANGED <<snap, ns, wpc, work>>
    BY <1>6 DEF UpdateStep, workerVars
  <2>3. \A n \in Names : snap'.state[n] # Unbound => Persisted(snap.state[n])'
    BY <2>2, <1>1 DEF Onward
  <2>4. \A n \in Names : State'[n] # Unbound => Persisted(State[n])'
    <3> SUFFICES ASSUME NEW n \in Names, State'[n] # Unbound
                 PROVE  Persisted(State[n])'
        OBVIOUS
    <3>1. CASE snap.state[n] # Unbound
      BY <3>1, <2>1, <2>2, <2>3
    <3>2. CASE snap.state[n] = Unbound
      BY <3>2, <2>1, <1>1 DEF Onward
    <3> QED BY <3>1, <3>2
  <2> QED BY <2>2, <2>3, <2>4, <1>1 DEF Onward
<1>7. CASE Worker
  <2>1. snap' = snap
    BY <1>7 DEF Worker, Start, ContextFails, Inject, Invalidate, EndScript,
            Finish, Bind, Unbind, PersistName, Raise, serverVars
  <2>2. CASE Start \/ ContextFails \/ Finish \/ \E o \in Raised : Raise(o)
    <3>1. State' = State /\ wpc' \notin {"script", "persist"}
      BY <2>2 DEF Start, ContextFails, Finish, Raise, Complete, sessionVars
    <3> QED BY <2>1, <3>1, <1>1 DEF Onward
  <2>3. CASE Inject
    <3>1. \A n \in Names : ns'[n] = State[n]
      BY <2>3 DEF Inject, Injected, Overlay, Empty
    <3>2. UNCHANGED <<State, work>>
      BY <2>3 DEF Inject, sessionVars
    <3> QED BY <2>1, <3>1, <3>2, <1>1 DEF Onward
  <2>4. CASE Invalidate \/ EndScript
    <3>1. UNCHANGED <<State, work, ns>> /\ wpc = "script"
      BY <2>4 DEF Invalidate, EndScript, sessionVars
    <3> QED BY <2>1, <3>1, <1>1 DEF Onward
  <2>5. ASSUME NEW n \in Names, Bind(n) \/ Unbind(n) PROVE BindingsPersisted'
    <3>1. /\ UNCHANGED <<State, work, wpc>>
          /\ wpc = "script"
          /\ ns' \in {[ns EXCEPT ![n] = work], [ns EXCEPT ![n] = Unbound]}
      BY <2>5 DEF Bind, Unbind, sessionVars
    <3>2. \A m \in Names : ns'[m] # Unbound => ns'[m] \in {work, ns[m]}
      BY <3>1
    <3> QED BY <2>1, <3>1, <3>2, <1>1 DEF Onward
  <2>6. ASSUME NEW n \in Names, PersistName(n) PROVE BindingsPersisted'
    <3>1. /\ UNCHANGED <<work, wpc, ns>>
          /\ wpc = "persist" /\ n \in toSave
          /\ State' = [State EXCEPT ![n] = ns[n]]
      BY <2>6 DEF PersistName, PersistOne
    <3>2. Persisted(work)' /\ ns[n] # Unbound
      BY <3>1 DEF Persisted, Kept, SavesBindings
    <3>3. Persisted(ns[n])'
      BY <3>1, <3>2, <1>1 DEF Onward
    <3>4. \A m \in Names : State'[m] # Unbound => Persisted(State[m])'
      BY <3>1, <3>3, <1>1 DEF Onward
    <3> QED BY <2>1, <3>1, <3>4, <1>1 DEF Onward
  <2> QED BY <1>7, <2>2, <2>3, <2>4, <2>5, <2>6 DEF Worker
<1> QED BY <1>3, <1>4, <1>5, <1>6, <1>7 DEF Next, Restoring

(* A call that was refused, or whose script called sys.exit(), has bound   *)
(* nothing in the session, in any interleaving with abandoned workers.     *)
THEOREM RefusalsLeaveNoTrace == Spec => []RefusedLeaveNoTrace
<1>1. TypeOK /\ Executor /\ BindingsPersisted /\ AnswersMatch
            => RefusedLeaveNoTrace
  <2> SUFFICES ASSUME TypeOK, Executor, BindingsPersisted, AnswersMatch,
                      NEW n \in Names, State[n] # Unbound
               PROVE  answer[State[n]] \notin {"bad_args", "state", "unsupported"}
    BY DEF RefusedLeaveNoTrace
  <2>1. State[n] \in Calls
    BY MaxCallsAssumption DEF TypeOK, SessionTypeOK, Namespace
  <2>2. fut[State[n]] \in {"returned", "error", "running"}
    BY DEF BindingsPersisted, Persisted, Executor, OneRunning
  <2> QED BY <2>1, <2>2 DEF AnswersMatch
<1>2. Init => BindingsPersisted /\ AnswersMatch
    BY RefusalInit
<1> QED BY <1>1, <1>2, TypeCorrect, ExecutorInit, ExecutorStep, KeptInit, KeptStep,
           AnswersMatchStep, BindingsPersistedStep, PTL DEF Spec

-----------------------------------------------------------------------------
(* Invalidate requests are not lost. *)

LEMMA RequestInit == Init => RequestRecorded /\ InvalidationNotLost
BY DEF Init, RequestRecorded, InvalidationNotLost

LEMMA RequestStep ==
    ASSUME TypeOK, Executor, AnswersMatch, RequestRecorded,
           InvalidationNotLost, [Next]_vars
    PROVE  RequestRecorded' /\ InvalidationNotLost'
<1> DEFINE Goal == RequestRecorded /\ InvalidationNotLost
<1> SUFFICES Goal'
    OBVIOUS
<1> USE DEF RequestRecorded, InvalidationNotLost
<1> /\ MaxCalls \in Nat /\ answer \in [Calls -> Answers]
    /\ requested \subseteq Calls /\ lastFlush \in 0..MaxCalls
    /\ verdict \in {"timeout", "unsupported", "transient"}
    /\ current \in 0..MaxCalls /\ (pc # "idle" => current \in Calls)
    BY MaxCallsAssumption DEF TypeOK
<1>1. CASE UNCHANGED <<invalidateRequested, current, snap, pc, answer, lastFlush,
                       requested>>
    BY <1>1
<1>2. CASE Arrival
  <2>1. CASE RejectBadArgs
    BY <2>1 DEF RejectBadArgs, Receive, sessionVars, workerVars
  <2>2. CASE FastFail
    BY <2>2 DEF FastFail, Receive, sessionVars, workerVars
  <2>3. CASE Submit
    <3>1. /\ snap'.invalidate = invalidateRequested
          /\ UNCHANGED <<invalidateRequested, answer, requested, lastFlush>>
          /\ pc = "idle" /\ current' = current + 1
      BY <2>3 DEF Submit, Receive, Snapshot, sessionVars, workerVars
    <3> QED BY <3>1
  <2> QED BY <1>2, <2>1, <2>2, <2>3 DEF Arrival
<1>3. CASE Waited
  <2>1. CASE Timeout \/ CollectExit \/ CollectInterrupt
    BY <2>1 DEF Timeout, CollectExit, CollectInterrupt, RollBack, sessionVars,
            workerVars
  <2>2. CASE CollectError \/ CollectFatal
    BY <2>2 DEF CollectError, CollectFatal, sessionVars, workerVars
  <2>3. CASE CollectReturned
    BY <2>3 DEF CollectReturned, workerVars
  <2> QED BY <1>3, <2>1, <2>2, <2>3 DEF Waited
<1>4. CASE Sigint
    BY <1>4 DEF Sigint, RollBack, sessionVars, workerVars
<1>5. CASE ClearStep \/ UpdateStep
    BY <1>5 DEF ClearStep, UpdateStep, workerVars
<1>6. CASE FlagStep
    BY <1>6 DEF FlagStep, RestoreFlag, workerVars
<1>7. CASE OtherEval \/ UNCHANGED vars
    BY <1>1, <1>7 DEF OtherEval, vars, sessionVars, serverVars, workerVars
<1>8. CASE Worker
  <2>1. CASE Invalidate
    <3>1. work <= current /\ work \in Calls
      BY <2>1 DEF Invalidate, Executor, OneRunning, NothingAhead, TypeOK
    <3>2. answer[work] \notin {"ok", "internal"}
      BY <2>1, <3>1 DEF Invalidate, Executor, OneRunning, AnswersMatch, Done, Outcome,
              Raised
    <3> QED BY <2>1, <3>1, <3>2 DEF Invalidate, serverVars
  <2> QED BY <1>1, <1>8, <2>1 DEF Worker, Start, ContextFails, Inject, EndScript,
             Finish, Bind, Unbind, PersistName, Raise, sessionVars, serverVars
<1> QED BY <1>2, <1>3, <1>4, <1>5, <1>6, <1>7, <1>8 DEF Next, Restoring

(* A cache.invalidate() of a call that succeeded or failed stays recorded  *)
(* until the decompile cache is flushed, however many later calls are      *)
(* rolled back in between.                                                 *)
THEOREM InvalidationKept == Spec => []InvalidationNotLost
<1>1. Init => AnswersMatch
    BY RefusalInit
<1> QED BY <1>1, TypeCorrect, ExecutorInit, ExecutorStep, AnswersMatchStep,
           RequestInit, RequestStep, PTL DEF Spec

-----------------------------------------------------------------------------
(* Output slots. *)

(* SlotsClean holds at first: everything is empty. *)
LEMMA SlotsInit == Init => SlotsClean
<1> SUFFICES ASSUME Init PROVE SlotsClean
    OBVIOUS
<1> QED BY UnsavedAssumption DEF Init, SessionInit, Empty, SlotsClean, NoStaleSlot

(* persist() filters what it saves, and nothing else adds to the session.  *)
LEMMA SlotsStep ==
    ASSUME TypeOK, SlotsClean, [Next]_vars
    PROVE  SlotsClean'
<1> USE UnsavedAssumption DEF SlotsClean, NoStaleSlot
<1> /\ State \in [Names -> 0..MaxCalls]
    /\ ns \in [Names -> 0..MaxCalls]
    BY DEF TypeOK, SessionTypeOK, Namespace
<1>1. CASE Arrival
  BY <1>1 DEF Arrival, RejectBadArgs, FastFail, Submit, Snapshot, sessionVars,
          workerVars
<1>2. CASE Waited \/ Sigint \/ FlagStep \/ OtherEval \/ UNCHANGED vars
  <2>1. UNCHANGED <<State, snap, ns, wpc, work>>
    BY <1>2 DEF Waited, Timeout, CollectExit, CollectInterrupt, CollectError,
            CollectFatal, CollectReturned, RollBack, Sigint, FlagStep,
            OtherEval, vars, sessionVars, serverVars, workerVars
  <2> QED BY <2>1
<1>3. CASE ClearStep
  BY <1>3 DEF ClearStep, RestoreClear, Empty, workerVars
<1>4. CASE UpdateStep
  BY <1>4 DEF UpdateStep, RestoreUpdate, Overlay, workerVars
<1>5. CASE Worker
  <2> USE DEF sessionVars, serverVars
  <2>1. CASE Start \/ ContextFails \/ Finish \/ \E o \in Raised : Raise(o)
    BY <2>1 DEF Start, ContextFails, Finish, Raise, Complete
  <2>2. CASE Inject
    BY <2>2 DEF Inject, Injected, Overlay, Empty
  <2>3. CASE Invalidate \/ EndScript
    BY <2>3 DEF Invalidate, EndScript
  <2>4. ASSUME NEW n \in Names, Bind(n) \/ Unbind(n) PROVE SlotsClean'
    BY <2>4 DEF Bind, Unbind
  <2>5. ASSUME NEW n \in Names, PersistName(n) PROVE SlotsClean'
    <3>1. n \notin Unsaved
      BY <2>5 DEF PersistName, TypeOK
    <3> QED BY <2>5, <3>1 DEF PersistName, PersistOne
  <2> QED BY <1>5, <2>1, <2>2, <2>3, <2>4, <2>5 DEF Worker
<1> QED BY <1>1, <1>2, <1>3, <1>4, <1>5 DEF Next, Restoring

(* NoStaleSlot: what a call leaves in `result` and its like is never seen  *)
(* by another call, through rollbacks and abandoned workers.               *)
THEOREM SlotsNotCarriedOver == Spec => []NoStaleSlot
<1>1. SlotsClean => NoStaleSlot
  BY DEF SlotsClean
<1> QED BY <1>1, TypeCorrect, SlotsInit, SlotsStep, PTL DEF Spec

-----------------------------------------------------------------------------
(* What a script starts from. *)

(* No call is waited for at first. *)
LEMMA SnapshotFreshInit == Init => SnapshotFresh
BY DEF Init, SnapshotFresh

(* As long as no SIGINT made the server forget a worker, the gate lets a   *)
(* call in only when the worker is idle, and then the worker's next script *)
(* is that call's.                                                         *)
LEMMA SnapshotFreshStep ==
    ASSUME TypeOK, Executor, interrupts = 0, Gated, SnapshotFresh, [Next]_vars
    PROVE  SnapshotFresh'
<1> USE DEF SnapshotFresh
<1> fut \in [Calls -> {"none"} \cup Unfinished \cup Outcome]
  BY DEF TypeOK
<1> current \in 0..MaxCalls /\ (pc # "idle" => current \in Calls)
  BY DEF TypeOK
<1>1. CASE Arrival
  <2>1. CASE RejectBadArgs \/ FastFail
    BY <2>1 DEF RejectBadArgs, FastFail, Receive
  <2>2. CASE Submit
    BY <2>2 DEF Submit, Snapshot, sessionVars
  <2> QED BY <1>1, <2>1, <2>2 DEF Arrival
<1>2. CASE Waited \/ Sigint \/ Restoring
  BY <1>2 DEF Waited, Timeout, CollectExit, CollectInterrupt, CollectError,
            CollectFatal, CollectReturned, RollBack, Sigint, Restoring,
            ClearStep, UpdateStep, FlagStep
<1>3. CASE OtherEval \/ UNCHANGED vars
  BY <1>3 DEF OtherEval, vars, sessionVars, serverVars, workerVars
<1>4. CASE Worker
  <2>1. UNCHANGED <<pc, current, snap>>
    BY <1>4 DEF Worker, Start, ContextFails, Inject, Invalidate, EndScript,
            Finish, Bind, Unbind, PersistName, Raise, serverVars
  <2>2. CASE Start
    <3>1. PICK c \in Calls : fut[c] = "queued"
      BY <2>2 DEF Start
    <3>2. pc = "waiting" => c = current
      BY <3>1 DEF Gated, Busy, Unfinished
    <3> QED BY <2>1, <2>2, <3>1, <3>2 DEF Start, sessionVars
  <2>3. CASE ~Start
    (* A worker that is not idle runs the awaited call. *)
    <3>1. pc = "waiting" => fut'[current] # "queued"
      <4>1. wpc # "idle"
        BY <1>4, <2>3 DEF Worker, ContextFails, Inject, Invalidate, EndScript,
                Finish, Bind, Unbind, PersistName, Raise
      <4>2. pc = "waiting" => work = current /\ fut[work] = "running"
        BY <4>1 DEF Gated, Executor, OneRunning, Busy, Unfinished
      <4>3. fut' = fut \/ \E o \in Outcome : fut' = [fut EXCEPT ![work] = o]
        BY <1>4, <2>3 DEF Worker, ContextFails, Inject, Invalidate, EndScript,
                Finish, Bind, Unbind, PersistName, Raise, Complete, Outcome,
                Raised
      <4> QED BY <4>2, <4>3 DEF Outcome, Raised
    <3>2. wpc' # "prelude"
      BY <1>4, <2>3 DEF Worker, ContextFails, Inject, Invalidate, EndScript,
              Finish, Bind, Unbind, PersistName, Raise, Complete
    <3> QED BY <2>1, <3>1, <3>2
  <2> QED BY <2>2, <2>3
<1> QED BY <1>1, <1>2, <1>3, <1>4 DEF Next

-----------------------------------------------------------------------------
(* The inductive invariant as a whole. *)

(* IInv holds in every state of the exec machine. *)
THEOREM IInvCorrect == Spec => []IInv
<1>1. Init => IInv
  BY TypeInit, ExecutorInit, KeptInit, RefusalInit, RequestInit, GatedInit,
     SlotsInit, SnapshotFreshInit DEF IInv
<1>2. IInv /\ [Next]_vars => IInv'
  <2> SUFFICES ASSUME IInv, [Next]_vars PROVE IInv'
      OBVIOUS
  <2>1. TypeOK' /\ Executor'
    BY TypeStep, ExecutorStep DEF IInv
  <2>2. Kept' /\ AnswersMatch' /\ BindingsPersisted'
    BY KeptStep, AnswersMatchStep, BindingsPersistedStep DEF IInv
  <2>3. RequestRecorded' /\ InvalidationNotLost'
    BY RequestStep DEF IInv
  <2>4. SlotsClean'
    BY SlotsStep DEF IInv
  <2>5. (interrupts = 0 => Gated)'
    BY GatedStep DEF IInv, Executor
  <2>6. interrupts' = 0 => interrupts = 0
    BY InterruptsGrow DEF IInv, TypeOK
  <2>7. (interrupts = 0 => SnapshotFresh)'
    BY <2>6, SnapshotFreshStep DEF IInv
  <2> QED BY <2>1, <2>2, <2>3, <2>4, <2>5, <2>7 DEF IInv
<1> QED BY <1>1, <1>2, PTL DEF Spec

(* StartsFromSnapshot: the script of a call that is still waited for       *)
(* starts from the globals that the rollback of the call would bring back. *)
THEOREM ScriptsStartFromSnapshot == Spec => StartsFromSnapshot
<1> DEFINE A == (/\ wpc = "prelude" /\ wpc' = "script"
                 /\ pc = "waiting" /\ interrupts = 0) => ns' = snap.state
<1>1. ASSUME IInv, [Next]_vars PROVE [A]_vars
  <2> SUFFICES ASSUME wpc = "prelude", wpc' = "script", pc = "waiting",
                      interrupts = 0
               PROVE  ns' = snap.state
    OBVIOUS
  <2>1. State = snap.state
    BY <1>1 DEF IInv, SnapshotFresh
  <2>2. Inject
    BY <1>1 DEF Next, Arrival, RejectBadArgs, FastFail, Submit, Waited, Timeout,
            CollectExit, CollectInterrupt, CollectError,
            CollectFatal, CollectReturned,
            RollBack, Sigint, Restoring, ClearStep, UpdateStep, FlagStep,
            OtherEval, Worker, Start, ContextFails, Invalidate, EndScript,
            Finish, Bind, Unbind, PersistName, Raise, Complete, vars, workerVars
  <2>3. ns' = State
    BY <1>1, <2>2 DEF Inject, Injected, Overlay, Empty, IInv, TypeOK,
            SessionTypeOK, Namespace
  <2> QED BY <2>1, <2>3
<1> QED BY <1>1, IInvCorrect, PTL DEF Spec, StartsFromSnapshot

-----------------------------------------------------------------------------
(* PyghidraExec implements ExecContract: the initial states map to an      *)
(* initial state, and every step of the two threads to a step of the       *)
(* contract or to none.                                                    *)
USE DEF Contract!Calls

(* Overlaying a namespace on nothing gives the namespace. *)
LEMMA OverlayEmpty ==
    ASSUME NEW s \in Namespace
    PROVE  Overlay(Empty, s) = s
BY DEF Overlay, Empty, Namespace

(* A worker that is not idle runs the oldest unfinished call. *)
LEMMA RunsOldest ==
    ASSUME TypeOK, Executor, wpc # "idle"
    PROVE  Contract!Running(work)
<1>1. work \in Calls /\ fut[work] = "running"
  BY DEF Executor, OneRunning
<1>2. \A d \in Calls : Busy(d) => work <= d
  BY <1>1, MaxCallsAssumption DEF Executor, FirstInFirstOut, Started
<1> QED BY <1>1, <1>2 DEF Contract!Running, Live, Busy, Unfinished

-----------------------------------------------------------------------------

(* The server starts where the contract does. *)
LEMMA ContractInit == Init => Contract!Init
<1> SUFFICES ASSUME Init PROVE Contract!Init
    OBVIOUS
<1>1. Settled = Empty /\ snap.state = Empty /\ ns = Empty
  BY DEF Init, SessionInit, Settled
<1>2. \A c \in Calls : ~Busy(c)
  BY DEF Init, Busy, Unfinished
<1> QED BY <1>1, <1>2 DEF Init, Contract!Init, Contract!Empty, Empty, Phase, Live,
                           ScriptState

(* A step that the contract does not see. *)
Stutters == UNCHANGED <<Settled, snap, current, Phase, Live, ScriptState, ns, answer>>

(* Such a step leaves the contract's variables alone. *)
LEMMA StutterIsStep == Stutters => UNCHANGED Contract!contractVars
BY DEF Stutters, Contract!contractVars

(* The server thread takes a call, or waits for one, or rolls one back. *)
LEMMA ServerRefines ==
    ASSUME IInv, Arrival \/ Waited \/ Sigint \/ Restoring
    PROVE  Contract!Next \/ Stutters
<1> USE DEF IInv
<1> UNCHANGED <<wpc, work, ns>>
  BY DEF Arrival, RejectBadArgs, FastFail, Submit, Waited, Timeout, CollectExit,
         CollectInterrupt, CollectError,
         CollectFatal, CollectReturned, RollBack, Sigint,
         Restoring, ClearStep, UpdateStep, FlagStep, workerVars
<1> UNCHANGED ScriptState
  BY DEF ScriptState
<1> USE DEF Contract!Next, Contract!scriptVars
<1>1. CASE RejectBadArgs \/ FastFail
  <2>1. Phase = "closed" /\ UNCHANGED <<pc, Phase, State, Settled, snap, fut, Live>>
    BY <1>1 DEF RejectBadArgs, FastFail, Receive, Phase, Settled, Live, Busy,
            sessionVars
  <2>2. /\ current < MaxCalls /\ current' = current + 1
        /\ \E a \in {"bad_args", "state"} :
              answer' = [answer EXCEPT ![current + 1] = a]
    BY <1>1 DEF RejectBadArgs, FastFail, Receive
  <2>3. Contract!Refuse
    BY <2>1, <2>2 DEF Contract!Refuse, Contract!Refusals
  <2> QED BY <2>3
<1>2. CASE Submit
  <2>1. /\ Phase = "closed" /\ Phase' = "open"
        /\ Settled = State /\ Settled' = State /\ snap'.state = State
        /\ current < MaxCalls /\ current' = current + 1
        /\ answer' = answer
    BY <1>2 DEF Submit, Receive, Phase, Settled, Snapshot, sessionVars
  <2>2. Live' = Live \cup {current + 1}
    BY <1>2, MaxCallsAssumption DEF Submit, Receive, Live, Busy, Unfinished, TypeOK
  <2>3. Contract!Open
    BY <2>1, <2>2 DEF Contract!Open
  <2> QED BY <2>3
<1>3. CASE Timeout \/ CollectExit \/ CollectInterrupt \/ Sigint
  <2>1. /\ UNCHANGED <<State, snap, current, answer, fut>>
        /\ pc = "waiting" /\ pc' = "clear"
    BY <1>3 DEF Timeout, CollectExit, CollectInterrupt, Sigint, RollBack,
            sessionVars
  <2>2. Stutters
    BY <2>1 DEF Stutters, Settled, Phase, Live, Busy
  <2> QED BY <2>2
<1>4. CASE CollectError \/ CollectReturned
  <2>1. /\ UNCHANGED <<State, snap, current, fut>>
        /\ pc = "waiting" /\ pc' = "idle"
        /\ fut[current] \in Outcome
        /\ \E a \in {"ok", "internal"} :
              answer' = [answer EXCEPT ![current] = a]
    BY <1>4 DEF CollectError, CollectReturned, sessionVars, Outcome, Raised
  <2>2. /\ Phase = "open" /\ Phase' = "closed"
        /\ UNCHANGED <<Settled, Live>>
        /\ current \notin Live
    BY <2>1 DEF Settled, Phase, Live, Busy, Unfinished, Outcome, Raised
  <2>3. Contract!Keep
    BY <2>1, <2>2 DEF Contract!Keep, Contract!Kept
  <2> QED BY <2>3
<1>5. CASE CollectFatal
  <2>1. /\ UNCHANGED <<State, snap, current, answer, fut>>
        /\ pc = "waiting" /\ pc' = "ended"
    BY <1>5 DEF CollectFatal, sessionVars
  <2>2. Stutters
    BY <2>1 DEF Stutters, Settled, Phase, Live, Busy
  <2> QED BY <2>2
<1>8. CASE ClearStep
  <2>1. /\ UNCHANGED <<snap, current, answer, fut>>
        /\ pc = "clear" /\ pc' = "update" /\ State' = Empty
    BY <1>8 DEF ClearStep, RestoreClear
  <2>2. Settled' = snap.state
    BY <2>1, OverlayEmpty DEF Settled, TypeOK, Snapshots
  <2>3. /\ Phase = "open" /\ Phase' = "rolled_back"
        /\ UNCHANGED Live
    BY <2>1 DEF Phase, Live, Busy
  <2>4. Contract!RollBack
    BY <2>1, <2>2, <2>3 DEF Contract!RollBack
  <2> QED BY <2>4
<1>6. CASE UpdateStep
  <2>1. /\ UNCHANGED <<snap, current, answer, fut>>
        /\ pc = "update" /\ pc' = "flag" /\ State' = Overlay(State, snap.state)
    BY <1>6 DEF UpdateStep, RestoreUpdate
  <2>2. Stutters
    BY <2>1 DEF Stutters, Settled, Phase, Live, Busy
  <2> QED BY <2>2
<1>7. CASE FlagStep
  <2>1. /\ UNCHANGED <<State, snap, current, fut>>
        /\ pc = "flag" /\ pc' = "idle"
        /\ answer' = [answer EXCEPT ![current] = verdict]
    BY <1>7 DEF FlagStep
  <2>2. /\ Phase = "rolled_back" /\ Phase' = "closed"
        /\ UNCHANGED <<Settled, Live>>
    BY <2>1 DEF Settled, Phase, Live, Busy
  <2>3. verdict = "unsupported" => current \notin Live
    BY <2>1 DEF AnswersMatch, Live, Busy, Unfinished
  <2>4. verdict \in {"timeout", "transient", "unsupported"}
    BY DEF TypeOK
  <2>5. Contract!Undo
    BY <2>1, <2>2, <2>3, <2>4 DEF Contract!Undo, Contract!Undone
  <2> QED BY <2>5
<1> QED BY <1>1, <1>2, <1>3, <1>4, <1>5, <1>6, <1>7, <1>8
        DEF Arrival, Waited, Restoring

(* The worker's steps. *)
LEMMA WorkerRefines ==
    ASSUME IInv, Worker
    PROVE  Contract!Next \/ Stutters
<1> USE DEF IInv
<1> /\ UNCHANGED <<pc, current, snap, answer>>
    /\ UNCHANGED Phase
  BY DEF Worker, Start, ContextFails, Inject, Invalidate, EndScript, Finish, Bind,
         Unbind, PersistName, Raise, serverVars, Phase
<1> USE DEF Contract!Next, Contract!scriptVars
<1>1. CASE Start
  <2>1. UNCHANGED <<State, ns, Settled>> /\ wpc = "idle" /\ wpc' = "prelude"
    BY <1>1 DEF Start, Settled, sessionVars
  <2>2. Live' = Live
    BY <1>1 DEF Start, Live, Busy, Unfinished, TypeOK
  <2>3. Stutters
    BY <2>1, <2>2 DEF Stutters, ScriptState
  <2> QED BY <2>3
<1>2. CASE ContextFails \/ Finish \/ \E o \in Raised : Raise(o)
  <2>1. PICK o \in Outcome : Complete(o) /\ wpc # "idle" /\ State' = State
    BY <1>2 DEF ContextFails, Finish, Raise, Outcome, Raised, sessionVars
  <2>2. Contract!Running(work) /\ work \in Calls
    BY <2>1, RunsOldest DEF Executor, OneRunning
  <2>3. Live' = Live \ {work}
    BY <2>1, <2>2 DEF Complete, Live, Busy, Unfinished, Outcome, Raised, TypeOK
  <2>4. UNCHANGED Settled /\ ScriptState' = "none" /\ ns' = Empty
    BY <2>1 DEF Settled, Complete, ScriptState
  <2>5. Contract!End(work)
    BY <2>2, <2>3, <2>4 DEF Contract!End, Contract!Empty, Empty
  <2> QED BY <2>2, <2>5
<1>3. CASE Inject
  <2>1. /\ UNCHANGED <<State, fut, Settled, Live, work>>
        /\ wpc = "prelude" /\ wpc' = "script"
    BY <1>3 DEF Inject, Settled, Live, Busy, sessionVars
  <2>2. ns' = State
    BY <1>3, OverlayEmpty DEF Inject, Injected, TypeOK, SessionTypeOK
  <2>3. Live # {}
    BY <2>1, RunsOldest DEF Contract!Running
  <2>4. \/ Settled = State
        \/ Phase = "rolled_back" /\ State \in [Names -> 0..current]
    <3>1. CASE pc = "update"
      <4>1. \A n \in Names : State[n] # 0 => State[n] <= current
        <5> SUFFICES ASSUME NEW n \in Names, State[n] # 0 PROVE State[n] <= current
            OBVIOUS
        <5>1. State[n] \in Calls /\ Started(State[n])
          BY MaxCallsAssumption
             DEF Kept, BindingsStarted, TypeOK, SessionTypeOK, Namespace
        <5>2. fut[State[n]] # "none"
          BY <5>1 DEF Started, Outcome, Raised
        <5> QED BY <5>1, <5>2, MaxCallsAssumption
                DEF Executor, NothingAhead, TypeOK
      <4>2. State \in [Names -> 0..MaxCalls] /\ current \in 0..MaxCalls
        BY DEF TypeOK, SessionTypeOK, Namespace
      <4>3. State \in [Names -> 0..current]
        BY <4>1, <4>2, MaxCallsAssumption
      <4> QED BY <3>1, <4>3 DEF Phase
    <3>2. CASE pc # "update"
      BY <3>2 DEF Settled
    <3> QED BY <3>1, <3>2
  <2>5. ScriptState = "none" /\ ScriptState' = "running"
    BY <2>1 DEF ScriptState
  <2>6. Contract!Begin
    BY <2>1, <2>2, <2>3, <2>4, <2>5 DEF Contract!Begin
  <2> QED BY <2>6
<1>4. CASE Invalidate \/ EndScript
  <2>1. UNCHANGED <<State, fut, ns>> /\ UNCHANGED ScriptState
    BY <1>4 DEF Invalidate, EndScript, ScriptState, sessionVars
  <2>2. Stutters
    BY <2>1 DEF Stutters, Settled, Live, Busy
  <2> QED BY <2>2
<1>5. ASSUME NEW n \in Names, Bind(n) \/ Unbind(n)
      PROVE  Contract!Next
  <2>1. UNCHANGED <<State, fut, wpc, Settled, Live, ScriptState>> /\ wpc = "script"
    BY <1>5 DEF Bind, Unbind, Settled, Live, Busy, ScriptState, sessionVars
  <2>2. \E v \in {work, 0} : ns' = [ns EXCEPT ![n] = v]
    BY <1>5 DEF Bind, Unbind
  <2>3. Contract!Running(work) /\ ScriptState = "running"
    BY <2>1, RunsOldest DEF ScriptState
  <2>4. Contract!Change(n)
    BY <2>1, <2>2, <2>3 DEF Contract!Change, Contract!Running
  <2> QED BY <2>4
<1>6. ASSUME NEW n \in Names, PersistName(n)
      PROVE  Contract!Next \/ Stutters
  <2>1. /\ UNCHANGED <<fut, wpc, ns, Live, ScriptState>>
        /\ wpc = "persist" /\ n \in toSave
        /\ State' = [State EXCEPT ![n] = ns[n]]
    BY <1>6 DEF PersistName, PersistOne, Live, Busy, ScriptState
  <2>2. n \notin Unsaved /\ ns[n] # 0 /\ ScriptState = "running"
    BY <2>1 DEF TypeOK, Kept, SavesBindings, ScriptState
  (* Between clear() and update(), what the snapshot holds comes back. *)
  <2>3. CASE pc = "update" /\ snap.state[n] # 0
    <3>1. Settled' = Settled
      BY <2>1, <2>3 DEF Settled, Overlay, TypeOK, SessionTypeOK, Namespace
    <3> QED BY <2>1, <3>1 DEF Stutters
  <2>4. CASE ~(pc = "update" /\ snap.state[n] # 0)
    <3>1. Settled' = [Settled EXCEPT ![n] = ns[n]]
      BY <2>1, <2>4 DEF Settled, Overlay, TypeOK, SessionTypeOK, Namespace
    <3>2. Contract!Save(n)
      BY <2>1, <2>2, <3>1 DEF Contract!Save
    <3> QED BY <3>2
  <2> QED BY <2>3, <2>4
<1> QED BY <1>1, <1>2, <1>3, <1>4, <1>5, <1>6 DEF Worker

(* Every step is one of the contract, or none. *)
LEMMA ContractStep ==
    IInv /\ [Next]_vars => [Contract!Next]_(Contract!contractVars)
<1> SUFFICES ASSUME IInv, [Next]_vars
             PROVE  Contract!Next \/ Stutters
    BY StutterIsStep
<1>1. CASE OtherEval \/ UNCHANGED vars
  <2>1. UNCHANGED <<State, snap, current, pc, fut, wpc, ns, answer>>
    BY <1>1 DEF OtherEval, vars, sessionVars, serverVars, workerVars
  <2> QED BY <2>1 DEF Stutters, Settled, Phase, Live, Busy, ScriptState
<1> QED BY <1>1, ServerRefines, WorkerRefines DEF Next

(* ContractKept: PyghidraExec, its server and worker thread interleaved in *)
(* any way and restore() in three statements, implements ExecContract, in  *)
(* which a rollback is one step.                                           *)
THEOREM ExecKeepsContract == Spec => ContractKept
BY IInvCorrect, ContractInit, ContractStep, PTL
   DEF Spec, ContractKept, Contract!Spec

-----------------------------------------------------------------------------
USE EntryAssumption, MaxVersionAssumption, MaxCallsAssumption
USE DEF Calls, NoEntry, Versions, Threads

-----------------------------------------------------------------------------
(* AgentSession: the exec machine inside. *)

(* Whatever the agent, the warm-up and a script do, the two threads of     *)
(* pyghidra.exec take one of their steps or none.                          *)
LEMMA AgentStepIsExecStep == TypeOK /\ [AgentNext]_allVars => [Next]_vars
<1> SUFFICES ASSUME TypeOK, AgentNext PROVE [Next]_vars
    BY DEF allVars
<1>1. ASSUME NEW t \in Threads, Resolve(t) PROVE Next \/ UNCHANGED vars
  <2>1. readOnly \in BOOLEAN
    BY DEF TypeOK
  <2>2. CASE readOnly = TRUE
    BY <1>1, <2>2 DEF Resolve, Next, OtherEval
  <2>3. CASE readOnly = FALSE
    BY <1>1, <2>3 DEF Resolve, vars
  <2> QED BY <2>1, <2>2, <2>3
<1> QED BY <1>1 DEF AgentNext, Request, LookupHit, LookupMiss, Decompile,
            PutResult, ScriptWrites, ExecReturned, ExecOther, Next, Waited

(* So everything proved of PyghidraExec holds of an agent session. *)
THEOREM AgentIsExec == AgentSpec => Spec
<1>1. AgentInit => Init
  BY DEF AgentInit
<1> QED BY <1>1, TypeInit, TypeStep, AgentStepIsExecStep, PTL DEF AgentSpec, Spec

-----------------------------------------------------------------------------
(* AgentSession: the inductive invariant. *)

(* A call that flushed is over. *)
FlushDone == lastFlush # 0 => lastFlush \in Calls /\ Done(lastFlush)

(* A thread holds a result only on its way into the cache, and the warm-up *)
(* has one target.                                                         *)
Fetching ==
    /\ \A t \in Threads : fetched[t] # NoEntry => dpc[t] = "put"
    /\ target["warmup"] = Entry

(* The calls up to the last flush wrote what they wrote before it; results *)
(* in the cache or on their way to it are not older than that.             *)
Seen(v) ==
    /\ \A f \in Functions :
          cache[f] # NoEntry /\ cache[f] < v => f = Entry /\ warmingAtFlush
    /\ fetched["server"] # NoEntry => fetched["server"] >= v
    /\ fetched["warmup"] # NoEntry => fetched["warmup"] >= v \/ warmingAtFlush

FlushedWritesSeen ==
    \A v \in Versions : v <= version /\ writer[v] <= lastFlush => Seen(v)

CacheInv == AgentTypeOK /\ FlushDone /\ Fetching /\ FlushedWritesSeen

(* It holds at the start. *)
LEMMA CacheInit == AgentInit => CacheInv
<1> SUFFICES ASSUME AgentInit PROVE CacheInv
    OBVIOUS
<1>1. TypeOK /\ pc = "idle" /\ lastFlush = 0
  BY TypeInit DEF AgentInit, Init
<1>2. cache \in [Functions -> {NoEntry} \cup Versions] /\ version \in Versions
  BY DEF AgentInit, NoEntries
<1>3. dpc \in [Threads -> {"idle", "resolve", "lookup", "decompile", "put"}]
  BY DEF AgentInit
<1>4. target \in [Threads -> Functions] /\ okVersion \in Versions
  BY DEF AgentInit
<1>5. fetched \in [Threads -> {NoEntry} \cup Versions]
  BY DEF AgentInit
<1>6. writer \in [Versions -> 0..MaxCalls]
  BY MaxCallsAssumption DEF AgentInit
<1>7. warmingAtFlush \in BOOLEAN
  BY Zenon DEF AgentInit
<1>8. AgentTypeOK
  BY <1>1, <1>2, <1>3, <1>4, <1>5, <1>6, <1>7 DEF AgentTypeOK
<1> QED BY <1>1, <1>8 DEF AgentInit, CacheInv, FlushDone, Fetching,
            FlushedWritesSeen, Seen, NoEntries

(* A step of _decompile_one in one of the threads. *)
LEMMA ThreadStep ==
    ASSUME CacheInv, NEW t \in Threads,
           Resolve(t) \/ LookupHit(t) \/ LookupMiss(t) \/ Decompile(t) \/ PutResult(t)
    PROVE  CacheInv'
<1> USE DEF CacheInv, GoTo
<1>1. /\ UNCHANGED <<sessionVars, serverVars, workerVars, fut, version, target, writer,
                     okVersion, warmingAtFlush>>
      /\ readOnly' \in {readOnly, FALSE}
  BY DEF Resolve, LookupHit, LookupMiss, Decompile, PutResult, vars
<1>2. TypeOK'
  <2>1. readOnly' \in BOOLEAN
    BY <1>1 DEF AgentTypeOK, TypeOK
  <2> QED BY <1>1, <2>1, Zenon
             DEF AgentTypeOK, TypeOK, SessionTypeOK, sessionVars, serverVars,
                 workerVars
<1>3. FlushDone'
  BY <1>1 DEF FlushDone, Done, serverVars
<1>4. PICK step \in {"idle", "lookup", "decompile", "put"} :
            dpc' = [dpc EXCEPT ![t] = step]
  BY DEF Resolve, LookupHit, LookupMiss, Decompile, PutResult
<1>5. dpc[t] # "idle"
  BY DEF Resolve, LookupHit, LookupMiss, Decompile, PutResult
<1>6. \/ UNCHANGED <<cache, fetched>> /\ step # "put" /\ dpc[t] # "put"
      \/ /\ fetched' = [fetched EXCEPT ![t] = version] /\ step = "put"
         /\ UNCHANGED cache
      \/ /\ cache' = [cache EXCEPT ![target[t]] = fetched[t]]
         /\ fetched' = [fetched EXCEPT ![t] = NoEntry]
  BY <1>4 DEF Resolve, LookupHit, LookupMiss, Decompile, PutResult, AgentTypeOK
<1>7. AgentTypeOK'
  BY <1>1, <1>2, <1>4, <1>5, <1>6 DEF AgentTypeOK, serverVars
<1>8. Fetching'
  BY <1>1, <1>4, <1>6 DEF Fetching, AgentTypeOK
<1>9. FlushedWritesSeen'
  <2> SUFFICES ASSUME NEW v \in Versions, v <= version, Seen(v) PROVE Seen(v)'
      BY <1>1 DEF FlushedWritesSeen, serverVars
  <2>1. UNCHANGED warmingAtFlush /\ version \in Nat /\ v \in Nat
    BY <1>1 DEF AgentTypeOK
  <2>2. CASE UNCHANGED <<cache, fetched>>
    BY <2>1, <2>2, Zenon DEF Seen
  <2>3. CASE fetched' = [fetched EXCEPT ![t] = version] /\ UNCHANGED cache
    BY <2>1, <2>3 DEF Seen, AgentTypeOK
  <2>4. CASE /\ cache' = [cache EXCEPT ![target[t]] = fetched[t]]
             /\ fetched' = [fetched EXCEPT ![t] = NoEntry]
    <3>1. CASE t = "server"
      BY <2>1, <2>4, <3>1 DEF Seen, AgentTypeOK
    <3>2. CASE t = "warmup"
      BY <2>1, <2>4, <3>2 DEF Seen, AgentTypeOK, Fetching
    <3> QED BY <3>1, <3>2
  <2> QED BY <1>6, <2>2, <2>3, <2>4
<1> QED BY <1>3, <1>7, <1>8, <1>9

(* The next `decompile` request. *)
LEMMA DecompileRequestStep ==
    ASSUME CacheInv, NEW f \in Functions, Request(f)
    PROVE  CacheInv'
<1> USE DEF CacheInv, Request, GoTo, Ready
<1>1. UNCHANGED <<vars, version, cache, fetched, writer, okVersion, warmingAtFlush>>
  OBVIOUS
<1>2. TypeOK'
  BY TypeStep DEF AgentTypeOK
<1>3. AgentTypeOK'
  BY <1>2 DEF AgentTypeOK, vars, serverVars
<1>4. FlushDone' /\ Fetching' /\ FlushedWritesSeen'
  BY DEF FlushDone, Done, Fetching, FlushedWritesSeen, Seen, AgentTypeOK, vars, serverVars
<1> QED BY <1>3, <1>4

(* The call of the running script is younger than the last flush. *)
LEMMA WriteStep ==
    ASSUME CacheInv, Executor, ScriptWrites
    PROVE  CacheInv'
<1> USE DEF CacheInv, ScriptWrites
<1>1. TypeOK'
  BY TypeStep DEF AgentTypeOK
<1>2. work \in Calls /\ fut[work] = "running" /\ lastFlush \in 0..MaxCalls
  BY DEF Executor, OneRunning, AgentTypeOK, TypeOK
<1>3. work > lastFlush
  <2> SUFFICES ASSUME ~(work > lastFlush) PROVE FALSE
      OBVIOUS
  <2>1. work \in Nat /\ lastFlush \in Nat /\ work # 0
    BY <1>2, MaxCallsAssumption
  <2>2. lastFlush # 0 /\ (work < lastFlush \/ work = lastFlush)
    BY <2>1
  <2> QED BY <1>2, <2>2 DEF FlushDone, Executor, FirstInFirstOut, Started, Busy, Done,
                            Unfinished, Outcome, Raised
<1>4. AgentTypeOK'
  <2>1. version' \in Versions /\ version \in Versions
    BY DEF AgentTypeOK
  <2>2. writer' \in [Versions -> 0..MaxCalls]
    BY <1>2, MaxCallsAssumption DEF AgentTypeOK
  <2>3. UNCHANGED <<pc, cache, dpc, target, fetched, okVersion, warmingAtFlush>>
    BY DEF vars, serverVars
  <2> QED BY <1>1, <2>1, <2>2, <2>3, Zenon DEF AgentTypeOK
<1>5. FlushDone' /\ Fetching'
  BY DEF FlushDone, Done, Fetching, vars, serverVars
<1>6. FlushedWritesSeen'
  <2>1. UNCHANGED <<lastFlush, cache, fetched, warmingAtFlush>>
    BY DEF vars, serverVars
  <2>2. ASSUME NEW v \in Versions, v <= version', writer'[v] <= lastFlush
        PROVE  v <= version /\ writer[v] <= lastFlush
    BY <1>2, <1>3, <2>2, MaxCallsAssumption DEF AgentTypeOK
  <2> QED BY <2>1, <2>2 DEF FlushedWritesSeen, Seen
<1> QED BY <1>4, <1>5, <1>6

(* A successful call: the worker is idle, the cache emptied if asked. *)
LEMMA ReturnStep ==
    ASSUME CacheInv, Executor, ExecReturned
    PROVE  CacheInv'
<1> USE DEF CacheInv, ExecReturned
<1>1. TypeOK'
  BY TypeStep DEF AgentTypeOK, Next, Waited
<1>2. /\ pc = "waiting" /\ fut[current] = "returned" /\ UNCHANGED fut
      /\ lastFlush' = IF Flushes THEN current ELSE lastFlush
  BY DEF CollectReturned, Flushes
<1>3. current \in Calls
  BY <1>2 DEF AgentTypeOK, TypeOK
<1>4. warmingAtFlush' \in BOOLEAN
  BY Zenon DEF AgentTypeOK
<1>5. dpc["server"] = "idle" /\ fetched["server"] = NoEntry
  BY <1>2 DEF AgentTypeOK, Fetching
<1>6. cache' \in [Functions -> {NoEntry} \cup Versions]
  BY DEF AgentTypeOK, NoEntries
<1>7. AgentTypeOK'
  BY <1>1, <1>4, <1>5, <1>6 DEF AgentTypeOK
<1>8. FlushDone'
  BY <1>2, <1>3 DEF FlushDone, Done, Outcome
<1>9. Fetching'
  BY DEF Fetching
<1>10. CASE Flushes
  <2>1. cache' = NoEntries /\ (warmingAtFlush' <=> dpc["warmup"] # "idle")
    BY <1>10
  <2>2. fetched["warmup"] # NoEntry => warmingAtFlush'
    BY <2>1 DEF Fetching
  <2> QED BY <1>5, <1>7, <1>8, <1>9, <2>1, <2>2 DEF FlushedWritesSeen, Seen, NoEntries
<1>11. CASE ~Flushes
  <2>1. UNCHANGED <<cache, lastFlush, version, writer, fetched>>
    BY <1>2, <1>11
  <2>2. warmingAtFlush' = warmingAtFlush
    BY <1>11
  <2>3. FlushedWritesSeen'
    BY <2>1, <2>2 DEF FlushedWritesSeen, Seen
  <2> QED BY <1>7, <1>8, <1>9, <2>3
<1> QED BY <1>10, <1>11

(* The rest of pyghidra.exec leaves the cache alone, and flushed nothing. *)
LEMMA OtherStep ==
    ASSUME CacheInv, Executor, ExecOther \/ UNCHANGED allVars
    PROVE  CacheInv'
<1> USE DEF CacheInv
<1>1. [Next]_vars /\ UNCHANGED agentVars
  BY AgentStepIsExecStep DEF AgentTypeOK, AgentNext, ExecOther, allVars
<1>2. TypeOK'
  BY <1>1, TypeStep DEF AgentTypeOK
<1>3. UNCHANGED lastFlush
  BY DEF ExecOther, allVars, Arrival, RejectBadArgs, FastFail, Submit, Timeout,
         CollectExit, CollectInterrupt, CollectError,
         CollectFatal, RollBack, Sigint, Restoring,
         ClearStep, UpdateStep, FlagStep, Worker, Start, ContextFails, Inject,
         Invalidate, EndScript, Finish, Bind, Unbind, PersistName, Raise, vars,
         serverVars
<1>4. FlushDone'
  BY <1>1, <1>3, Forward DEF FlushDone, AgentTypeOK
<1>5. dpc["server"] # "idle" => pc' = "idle"
  BY DEF AgentTypeOK, Ready, ExecOther, allVars, Timeout, CollectExit,
         CollectInterrupt, CollectError,
         CollectFatal, RollBack, Sigint, Restoring, ClearStep,
         UpdateStep, FlagStep, Worker, Start, ContextFails, Inject, Invalidate,
         EndScript, Finish, Bind, Unbind, PersistName, Raise, vars, serverVars
<1>6. AgentTypeOK'
  BY <1>1, <1>2, <1>5, Zenon DEF AgentTypeOK, agentVars
<1>7. Fetching' /\ FlushedWritesSeen'
  BY <1>1, <1>3, Zenon DEF Fetching, FlushedWritesSeen, Seen, agentVars
<1> QED BY <1>4, <1>6, <1>7

(* A step of the exec machine or of a decompile request. *)
LEMMA CacheStep == CacheInv /\ Executor /\ [AgentNext]_allVars => CacheInv'
BY ThreadStep, DecompileRequestStep, WriteStep, ReturnStep, OtherStep DEF AgentNext

(* The invariant of the cached result. *)
LEMMA CacheCorrect == AgentSpec => []CacheInv
<1>1. IInv => Executor
  BY DEF IInv
<1> QED BY <1>1, CacheInit, CacheStep, AgentIsExec, IInvCorrect, PTL DEF AgentSpec

(* AgentTypeOK: the program, the cache and the two decompiling threads     *)
(* keep their types, and the server thread decompiles between calls only.  *)
THEOREM AgentTypes == AgentSpec => []AgentTypeOK
<1>1. CacheInv => AgentTypeOK
  BY DEF CacheInv
<1> QED BY <1>1, CacheCorrect, PTL

(* InvalidatedWritesVisible: what a script wrote and a later flush was to  *)
(* uncover is not hidden by an older cached result, but for the entry      *)
(* function the warm-up was decompiling at that flush.                     *)
THEOREM FlushedWritesVisible == AgentSpec => []InvalidatedWritesVisible
<1>1. CacheInv => InvalidatedWritesVisible
  <2> SUFFICES ASSUME CacheInv, NEW f \in Functions, NEW v \in Versions, Hides(f, v)
               PROVE  f = Entry /\ warmingAtFlush
      BY DEF InvalidatedWritesVisible
  <2>1. v <= version /\ writer[v] <= lastFlush
    BY MaxCallsAssumption DEF Hides, CacheInv, AgentTypeOK, TypeOK
  <2> QED BY <2>1 DEF Hides, CacheInv, FlushedWritesSeen, Seen
<1> QED BY <1>1, CacheCorrect, PTL
=============================================================================
