---------------------------- MODULE AgentSession ----------------------------
(***************************************************************************)
(* One agent session: pyghidra.exec (PyghidraExec), the tools that         *)
(* decompile through the cache, and the warm-up thread, over the one       *)
(* program they share.  Scripts change the program; the cache has to keep  *)
(* up.  A decompile result is known by the version of the program it was   *)
(* made from.  The cache's capacity is the subject of DecompileCache and   *)
(* is left out here: no entry is evicted.                                  *)
(***************************************************************************)
EXTENDS PyghidraExec

CONSTANTS
    Functions,     \* resolved cache keys
    Entry,         \* the one the warm-up thread decompiles
    MaxVersion     \* bound: program states

ASSUME EntryAssumption == Entry \in Functions
ASSUME MaxVersionAssumption == MaxVersion \in Nat \ {0}

VARIABLES
    version,         \* the program, counted from 1 up by scripts that write it
    cache,           \* version each cached result was made from, 0 for none
    dpc,             \* where each decompiling thread is in _decompile_one
    target,          \* the function it was asked for
    fetched,         \* version of the result it is about to put
    writer,          \* history: the call whose script made each version
    okVersion,       \* history: the program at the last successful exec
    warmingAtFlush   \* history: was the warm-up under way at the last flush

agentVars == <<version, cache, dpc, target, fetched, writer, okVersion,
               warmingAtFlush>>
allVars == <<vars, agentVars>>

Threads == {"server", "warmup"}
NoEntry == 0
Versions == 1..MaxVersion
NoEntries == [f \in Functions |-> NoEntry]

AgentTypeOK ==
    /\ TypeOK
    /\ version \in Versions
    /\ cache \in [Functions -> {NoEntry} \cup Versions]
    /\ dpc \in [Threads -> {"idle", "resolve", "lookup", "decompile", "put"}]
    /\ target \in [Threads -> Functions]
    /\ fetched \in [Threads -> {NoEntry} \cup Versions]
    /\ writer \in [Versions -> 0..MaxCalls]
    /\ okVersion \in Versions
    /\ warmingAtFlush \in BOOLEAN
    /\ dpc["server"] # "idle" => pc = "idle"     \* one handler at a time

(* bootstrap_program starts the warm-up thread before the first request. *)
AgentInit ==
    /\ Init
    /\ version = 1
    /\ cache = NoEntries
    /\ dpc = [t \in Threads |-> IF t = "warmup" THEN "resolve" ELSE "idle"]
    /\ target = [t \in Threads |-> Entry]
    /\ fetched = [t \in Threads |-> NoEntry]
    /\ writer = [v \in Versions |-> 0]
    /\ okVersion = 1
    /\ warmingAtFlush = FALSE

(* Mutant: requests are served while pyghidra.exec waits. *)
Ready_Concurrent == dpc["server"] = "idle"

(* serve_stdio takes the next request when the previous one is answered. *)
Ready == pc = "idle" /\ dpc["server"] = "idle"

-----------------------------------------------------------------------------
(* _decompile_one, in the server thread or in the warm-up thread. *)

GoTo(t, step) == dpc' = [dpc EXCEPT ![t] = step]

(* A `decompile` request, or the next target of a `decompile.batch`. *)
Request(f) ==
    /\ Ready
    /\ GoTo("server", "resolve")
    /\ target' = [target EXCEPT !["server"] = f]
    /\ UNCHANGED <<vars, version, cache, fetched, writer, okVersion,
                   warmingAtFlush>>

(* The resolver is a script run by eval_code: it makes the session         *)
(* writable.  A miss, or an error from the backend, ends the request.      *)
Resolve(t) ==
    /\ dpc[t] = "resolve"
    /\ readOnly' = FALSE
    /\ GoTo(t, "lookup") \/ GoTo(t, "idle")
    /\ UNCHANGED <<sessionVars, serverVars, workerVars, fut, version, cache, target,
                   fetched, writer, okVersion, warmingAtFlush>>

LookupHit(t) ==
    /\ dpc[t] = "lookup"
    /\ cache[target[t]] # NoEntry
    /\ GoTo(t, "idle")
    /\ UNCHANGED <<vars, version, cache, target, fetched, writer, okVersion,
                   warmingAtFlush>>

LookupMiss(t) ==
    /\ dpc[t] = "lookup"
    /\ cache[target[t]] = NoEntry
    /\ GoTo(t, "decompile")
    /\ UNCHANGED <<vars, version, cache, target, fetched, writer, okVersion,
                   warmingAtFlush>>

Decompile(t) ==
    /\ dpc[t] = "decompile"
    /\ \/ GoTo(t, "put") /\ fetched' = [fetched EXCEPT ![t] = version]
       \/ GoTo(t, "idle") /\ UNCHANGED fetched      \* GhidraBackendError
    /\ UNCHANGED <<vars, version, cache, target, writer, okVersion,
                   warmingAtFlush>>

PutResult(t) ==
    /\ dpc[t] = "put"
    /\ cache' = [cache EXCEPT ![target[t]] = fetched[t]]
    /\ fetched' = [fetched EXCEPT ![t] = NoEntry]
    /\ GoTo(t, "idle")
    /\ UNCHANGED <<vars, version, target, writer, okVersion, warmingAtFlush>>

-----------------------------------------------------------------------------
(* pyghidra.exec, with what it does to the program and to the cache. *)

(* A running script changes the program: a rename, a new function, ... *)
ScriptWrites ==
    /\ wpc = "script"
    /\ version < MaxVersion
    /\ version' = version + 1
    /\ writer' = [writer EXCEPT ![version + 1] = work]
    /\ UNCHANGED <<vars, cache, dpc, target, fetched, okVersion, warmingAtFlush>>

(* Mutant: wrote_program alone decides. *)
Flushes_WroteOnly == transitioned[current]

(* Whether a successful call flushes: server.py:1673. *)
Flushes == invalidateRequested \/ transitioned[current]

ExecReturned ==
    /\ CollectReturned
    /\ okVersion' = version
    /\ cache' = IF Flushes THEN NoEntries ELSE cache
    /\ warmingAtFlush' = IF Flushes THEN dpc["warmup"] # "idle"
                                    ELSE warmingAtFlush
    /\ UNCHANGED <<version, dpc, target, fetched, writer>>

ExecOther ==
    /\ \/ Ready /\ Arrival
       \/ Timeout \/ CollectExit \/ CollectInterrupt \/ CollectError
       \/ CollectFatal \/ Sigint \/ Restoring
       \/ Worker
    /\ UNCHANGED agentVars

AgentNext ==
    \/ \E f \in Functions : Request(f)
    \/ \E t \in Threads : \/ Resolve(t) \/ LookupHit(t) \/ LookupMiss(t)
                          \/ Decompile(t) \/ PutResult(t)
    \/ ScriptWrites \/ ExecReturned \/ ExecOther

AgentSpec == AgentInit /\ [][AgentNext]_allVars

-----------------------------------------------------------------------------
(* Properties. *)

(* What a script wrote and asked to be flushed is not hidden by the cache: *)
(* once a flush followed the call, no cached result is older than that     *)
(* write, however fills, flushes and abandoned workers interleave.         *)
Hides(f, v) ==
    /\ cache[f] # NoEntry /\ cache[f] < v /\ v <= version
    /\ writer[v] \in requested
    /\ answer[writer[v]] \in {"ok", "internal"}
    /\ lastFlush >= writer[v]

(* The one exception is the entry function while the warm-up, under way at *)
(* the last flush, can still put what it fetched before (a later flush     *)
(* mends that).                                                            *)
InvalidatedWritesVisible ==
    \A f \in Functions, v \in Versions :
        Hides(f, v) => f = Entry /\ warmingAtFlush

(* "Flush decompile cache when state may have changed" (server.py:1671):   *)
(* between two requests no cached result predates the program as the last  *)
(* successful script left it.                                              *)
CacheReflectsWrites ==
    \A f \in Functions : cache[f] # NoEntry => cache[f] >= okVersion
=============================================================================
