-------------------------- MODULE PyghidraSession --------------------------
(***************************************************************************)
(* The globals a `pyghidra.exec` session keeps between calls, from         *)
(* src/tinyghidramcp/_pyghidra_session.py: the module-level dict STATE,    *)
(* the flag `cache.invalidate()` sets, and the operations on the two.      *)
(*                                                                         *)
(* A namespace is a function from names to the number of the call that     *)
(* last bound the name; Unbound stands for an absent key.  The value a     *)
(* script computes is never looked at by the code, only which call's value *)
(* is where.  `currentAddress` is one more name here: persist stores it    *)
(* under a private key when it is not None, inject reads it back, so None  *)
(* plays the part of an absent key.                                        *)
(***************************************************************************)
EXTENDS Naturals

CONSTANTS
    Names,      \* the names agent scripts bind
    Unsaved,    \* those in _BACKEND_KEYS or starting with "_": `result`, `_`, ...
    MaxCalls    \* bound: calls the agent makes in one session

ASSUME UnsavedAssumption == Unsaved \subseteq Names
ASSUME MaxCallsAssumption == MaxCalls \in Nat

VARIABLES
    State,               \* STATE: the persisted globals
    invalidateRequested  \* INVALIDATE_REQUESTED

sessionVars == <<State, invalidateRequested>>

Calls == 1..MaxCalls
Unbound == 0
Namespace == [Names -> 0..MaxCalls]

Empty == [n \in Names |-> Unbound]

(* dict.update: the bindings of `top` laid over those of `base`. *)
Overlay(base, top) ==
    [n \in Names |-> IF top[n] # Unbound THEN top[n] ELSE base[n]]

(* inject(globals()): eval_code made a fresh context, State goes on top. *)
Injected == Overlay(Empty, State)

(* Mutant: `result` and `_` missing from _BACKEND_KEYS. *)
Saved_KeepsSlots(space) == {n \in Names : space[n] # Unbound}

(* The keys persist() copies out of a namespace: bound and not filtered.   *)
(* It only ever adds or overwrites: a name the script deleted is not       *)
(* deleted from State.                                                     *)
Saved(space) == {n \in Names \ Unsaved : space[n] # Unbound}

(* One iteration of persist's loop. *)
PersistOne(space, n) == State' = [State EXCEPT ![n] = space[n]]

(* snapshot(): a shallow copy of the dict, and the flag. *)
Snapshot == [state |-> State, invalidate |-> invalidateRequested]

Snapshots == [state : Namespace, invalidate : BOOLEAN]

(* Mutants: restore() that leaves out one of its statements. *)
RestoreClear_Nothing == UNCHANGED State
RestoreUpdate_Nothing(snap) == UNCHANGED State
RestoreFlag_Lowered(snap) == invalidateRequested' = FALSE

(* restore(snap) is three statements another thread can run between. *)
RestoreClear == State' = Empty
RestoreUpdate(snap) == State' = Overlay(State, snap.state)
RestoreFlag(snap) == invalidateRequested' = snap.invalidate

SessionTypeOK ==
    /\ State \in Namespace
    /\ invalidateRequested \in BOOLEAN

SessionInit ==
    /\ State = Empty
    /\ invalidateRequested = FALSE
=============================================================================
