--------------------------- MODULE PyghidraExecInv ---------------------------
(***************************************************************************)
(* The inductive invariants behind the safety properties of PyghidraExec.  *)
(* TLC checks them on an instance, PyghidraExecProofs proves them.         *)
(***************************************************************************)
EXTENDS PyghidraExec

(* The worker has taken the call. *)
Started(c) == fut[c] \in {"running"} \cup Outcome

-----------------------------------------------------------------------------
(* The executor is first in, first out and has one thread. *)

NothingAhead == \A c \in Calls : c > current => fut[c] = "none"

OneRunning ==
    /\ wpc = "idle" => \A c \in Calls : fut[c] # "running"
    /\ wpc # "idle" => /\ work \in Calls
                       /\ fut[work] = "running"
                       /\ \A c \in Calls : fut[c] = "running" => c = work

FirstInFirstOut == \A c, d \in Calls : c < d /\ Started(d) => ~Busy(c)

Executor == NothingAhead /\ OneRunning /\ FirstInFirstOut

-----------------------------------------------------------------------------
(* No value in the session is older than the committed one, and a          *)
(* committed name is missing only between the two statements of restore(). *)

BindingsStarted ==
    /\ \A n \in Names : State[n] # Unbound => Started(State[n])
    /\ \A n \in Names : snap.state[n] # Unbound => Started(snap.state[n])
    /\ wpc \in {"script", "persist"} => \A n \in Names : ns[n] # Unbound => Started(ns[n])

CommittedDone ==
    \A n \in Names : committed[n] # Unbound => Done(committed[n])

StateNewer == \A n \in Names : State[n] # Unbound => State[n] >= committed[n]

NamespaceNewer ==
    wpc \in {"script", "persist"} =>
        \A n \in Names : ns[n] # Unbound => ns[n] >= committed[n]

SnapshotKeeps ==
    pc # "idle" =>
        \A n \in Names : committed[n] # Unbound =>
                            snap.state[n] >= committed[n]

SavesBindings ==
    wpc = "persist" => \A n \in toSave : ns[n] # Unbound

CommittedBefore ==
    wpc # "idle" => \A n \in Names : committed[n] <= work

Kept ==
    /\ BindingsStarted
    /\ CommittedDone
    /\ StateNewer
    /\ NamespaceNewer
    /\ SnapshotKeeps
    /\ SavesBindings
    /\ CommittedBefore
    /\ CommittedKept

-----------------------------------------------------------------------------
(* Only a script that reached its postlude binds anything, and an answer   *)
(* tells how the call's future ended.                                      *)

Persisted(c) ==
    fut[c] \in {"returned", "error"} \/ (wpc = "persist" /\ work = c)

BindingsPersisted ==
    /\ \A n \in Names : State[n] # Unbound => Persisted(State[n])
    /\ \A n \in Names : snap.state[n] # Unbound => Persisted(snap.state[n])
    /\ wpc \in {"script", "persist"} =>
        \A n \in Names : ns[n] # Unbound => ns[n] = work \/ Persisted(ns[n])

AnswersMatch ==
    /\ \A c \in Calls : c > current => answer[c] = "none"
    /\ \A c \in Calls : answer[c] \in {"bad_args", "state"} => fut[c] = "none"
    /\ \A c \in Calls : answer[c] \in {"ok", "internal"} => Done(c)
    /\ \A c \in Calls : answer[c] = "unsupported" => fut[c] = "exit"
    /\ pc = "waiting" => fut[current] # "none"
    /\ pc \in {"clear", "update", "flag"} /\ verdict = "unsupported"
            => fut[current] = "exit"

-----------------------------------------------------------------------------
(* An invalidate request survives in the flag or in the snapshot. *)

RequestRecorded ==
    /\ \A c \in requested : c <= current
    /\ pc = "waiting" /\ current \in requested => invalidateRequested
    /\ pc # "idle" =>
        \A c \in requested : answer[c] \in {"ok", "internal"} =>
            snap.invalidate \/ lastFlush >= c

(* Without interrupts, whatever is unfinished is the pending future. *)

Gated ==
    /\ \A c \in Calls : Busy(c) => pending = c
    /\ pc = "waiting" => pending = current
    /\ pc \in {"clear", "update", "flag"} /\ verdict # "timeout"
            => \A c \in Calls : ~Busy(c)
    /\ pc \in {"clear", "update", "flag"} => \A c \in Calls : Busy(c) => c = current
    /\ BusyIsKnown

(* Until the awaited script begins, nobody changes the session under it. *)

SnapshotFresh ==
    pc = "waiting" /\ (fut[current] = "queued" \/ wpc = "prelude")
        => State = snap.state

-----------------------------------------------------------------------------
(* Names that do not outlive their call are never in the session. *)

SlotsClean ==
    /\ \A n \in Unsaved : State[n] = Unbound /\ snap.state[n] = Unbound
    /\ NoStaleSlot

-----------------------------------------------------------------------------
(* The inductive invariant of PyghidraExecProofs. *)
IInv ==
    /\ TypeOK
    /\ Executor
    /\ Kept
    /\ BindingsPersisted
    /\ AnswersMatch
    /\ RequestRecorded
    /\ InvalidationNotLost
    /\ SlotsClean
    /\ interrupts = 0 => Gated /\ SnapshotFresh
=============================================================================
