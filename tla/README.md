# A TLA+ model of tinyghidramcp

tinyghidramcp is an MCP server that gives an agent one Ghidra program: the
agent sends JSON-RPC requests on stdin, the server answers on stdout, and the
most powerful tool, `pyghidra.exec`, runs any Python script the agent writes
against the live program. The server is one thread that takes one request at a
time. What makes it hard is what runs beside that thread: the script worker,
which is abandoned and not stopped when a call runs out of time; the warm-up
thread, which decompiles the entry function while the first requests arrive;
the analysis thread of address resolution; the one `sys.stdout` they all
redirect; and a disk that may refuse the telemetry. This directory models those
parts, checks them with TLC, and proves most of their safety with TLAPS.

## The system

| Part | Source | State it keeps | Operations |
|---|---|---|---|
| stdio transport | `server.py` `serve_stdio`, `_read_stdio_request`, `_write_stdio_response` | the position in the stream, the open header block | a JSON line, a frame, a framing error, end of input |
| dispatch | `server.py` `handle_json_line` to `_dispatch_tool_call` | none | JSON-RPC checks, tool lookup, the three exits of a handler |
| telemetry | `telemetry.py` | an append-only file and its buffer | `emit`, `close` |
| `pyghidra.exec` | `server.py` `_tool_pyghidra_exec`, `backend.py` `eval_code` | `_pending_pyghidra_future`, one worker thread with a queue | gate, snapshot, submit, wait, five kinds of exit, rollback |
| session globals | `_pyghidra_session.py` | `STATE`, `INVALIDATE_REQUESTED` | `inject`, `persist`, `snapshot`, `restore`, `pop_invalidate_request` |
| decompile cache | `decompile_cache.py` | an `OrderedDict`, sizes, a running total | `get`, `put`, `invalidate` |
| decompile, warm-up | `server.py` `_decompile_one`, `_warm_entry_decompile` | none of its own | resolve, look up, decompile, put |
| address tolerance | `address_tolerance.py` | none; an executor per call | `resolve`, `_run_auto_analyze` |
| backend | `backend.py` | `_sessions`, `_tasks`, `read_only`, the decompiler | open, close, queries, `eval_code`, `shutdown` |
| search, `tools/list`, xrefs | `server.py`, `backend.py` | none | scans with paging, limits and filters |
| call graph | `backend.py` `callgraph_paths` | a queue of paths | breadth-first search |
| `decompile.batch` | `server.py` | the results of a call | one `_decompile_one` per target, errors per target |
| summary, help | `binary_summary.py`, `meta.py` | one cached summary | reads |
| process | `cli.py`, `__main__.py`, `server.py` | none | bootstrap, one `session_start` record, serve, exit |

How they interact:

- The transport calls dispatch, dispatch calls one tool handler, and the
  telemetry record is written between the handler and its answer.
- `pyghidra.exec` shares `STATE` with its worker thread, without a lock. The
  worker of a timed-out call goes on running while later calls are handled.
- Every resolution of an address is itself a script run by `eval_code`, in the
  thread that asks. `eval_code` makes the session writable and reports that it
  did (`mode_transitioned`), and that report, not a write, is what flushes the
  decompile cache.
- The cache is shared by the server thread and the warm-up thread, without a lock.
- `eval_code` redirects `sys.stdout` for the whole process, in any of three
  threads, while the protocol's output stream is taken from `sys.stdout` once,
  at the start of `serve_stdio`.
- A listing takes several requests, and each scan is a loop; an abandoned script
  can change the program between any two of its steps.

What makes each part correct:

- *exec*: one script at a time; a script left behind is remembered; no rollback
  and no abandoned worker damages what earlier calls left; a call the agent was
  told had no effect had none; every call is answered, but for one whose script
  takes the server down.
- *cache*: the cap holds whatever overlaps; without an overlap the total is the
  sum of the entries and eviction takes no more than needed, in LRU order; what a
  script asked to be flushed is not served again.
- *resolution*: a hit is the entry of a function; a function that is there is
  found, if the code reads the request as it is documented.
- *process*: redirects are private; decompilers are disposed of; nothing new
  runs after shutdown; the process serves once it is up and ends when it should.
- *listings, xrefs, batch, call graph*: nothing that was there all the time is
  missed or listed twice by an agent that repeats its question; an answer that
  does not say "truncated" is exhaustive; a batch that is answered reports every
  target; the paths are the shortest, none missing, and the search ends.
- *transport, dispatch, telemetry*: every request that was read is answered once,
  with its id and in its framing; junk costs no request behind an empty line that
  is read as one; the file agrees with the answers; a full disk does not take the
  server down.

`PROJECT.json` lists the places where each of these can go wrong ("hazards").

## Modules

| Module | Models |
|---|---|
| `PyghidraSession` | the globals and the flag, as operators and step relations |
| `PyghidraExec` | extends it with the server thread, the executor and the worker |
| `PyghidraExecInv` | the inductive invariant, in named parts |
| `ExecContract` | what `pyghidra.exec` promises, without threads and futures |
| `PyghidraExecContract` | the refinement mapping from `PyghidraExec` |
| `PyghidraExecProofs` | theorems about exec, the refinement, and the agent session over it |
| `AgentSession` | composes `PyghidraExec` with `_decompile_one` in two threads, over one program |
| `DecompileCache`, `DecompileCacheProofs` | the LRU cache with its byte cap |
| `AddressTolerance`, `AddressToleranceProofs` | `resolve()`, its two scripts and the analysis thread |
| `StdioServer`, `StdioServerProofs` | reader, dispatch, outcome of a call, telemetry |
| `ServerProcess`, `ServerProcessProofs` | start-up to exit, three threads in `eval_code`, `sys.stdout`, the decompiler |
| `DataLemmas` | smallest numbers, induction, the layout of a concatenation |
| `CallGraph`, `CallGraphProofs` | `callgraph_paths` and the definition of its result |
| `ProgramTable` | a table of the program that a script changes while it is read |
| `SearchListings`, `XrefsTools`, `DecompileBatch` | the tools that read it |
| `Explore`, `ExploreProofs` | composes these three: one agent, one server thread, one table |
| `MC*` | constants for TLC |

### PyghidraExec

`pc` is the server thread: `idle` at stdin, `waiting` in `fut.result`, then the
three statements of `restore()` (`clear`, `update`, `flag`) as steps of their
own, because the worker can run between them. `wpc` is the worker: `prelude`
(context and `inject`), `script`, `persist`, one name at a time. `fut` is the
state of each call's future, `pending` the remembered one. A value is known by
the number of the call that bound it: the code never looks at values, only at
which call's value is where. Actions and handler branches correspond one to
one; `map` in `PROJECT.json` has the lines.

A script that raises ends its call with an error, `SystemExit` and
`KeyboardInterrupt` with a refusal. Any other `BaseException` (`GeneratorExit`,
`asyncio.CancelledError`, a class of the script's own) is re-raised by
`fut.result` and has no clause there, nor in dispatch, which catches `Exception`
only: `CollectFatal` ends the server, and the call is not answered.
`server.py:1638-1641` says why that must not happen for `SystemExit`.
`EveryCallAnswered` excepts such a call and nothing else. `StdioServer` and
`ServerProcess` leave this exit out: no message is read after it.

Four history variables serve the properties: `requested` (calls whose script
called `cache.invalidate()`), `lastFlush`, `committed` (the globals at the last
successful answer) and `interrupts`.

Abstractions: gate, snapshot and submit are one step (the worker is idle there
or, after a SIGINT, touches only what a snapshot copies in one bytecode
sequence); the change to writable and the start of a script are one step;
`currentAddress` is an ordinary name; a SIGINT arrives only while the server
waits (elsewhere it ends the process); sizes of globals are left out.

### ExecContract

The contract takes calls one at a time. An open call is kept, or rolled back in
one step to what the session held when it was opened. Scripts run one after the
other, begin with a copy of the globals, and save names one by one; they may
outlive their call, and what they save then stays. It says what `errors.py:26-28`
would have to say for the code to keep it.

In the code a rollback is several statements, and `persist()` runs between them.
The mapping (`Settled`) reads the session between `clear()` and `update()` as
what `update()` will make of it, so the rollback happens at the `clear()`. One
thing the mapping cannot hide: a script that begins during a rollback may find
names missing, or hold a value that the rollback then undoes; `Begin` of the
contract allows exactly that, and `StartsFromSnapshot` says that the script of a
call that is still waited for never meets it (before a SIGINT).

### AgentSession

The program is a version number that scripts count up. A cached result is the
version it was made from. `_decompile_one` is `resolve`, `lookup`, `decompile`,
`put`, each a step, in the server thread (any number of requests, also the
targets of a batch) and once in the warm-up thread. The server thread does
either that or an exec (`Ready`). Entries are never evicted here, which is the
worst case for staleness.

### DecompileCache

Two threads call the cache without a lock, so each statement of `put` and of
`invalidate` is a step, and `total -= sizes.get(...)` is two: CPython hands over
between bytecodes at calls and at the ends of loops, and there is a call between
the load of the total and its store. `total += size` has none and is one step.
`get` is one step: if the key goes away in the middle of it, it raises and
changes nothing. Values are known by their sizes.

Three histories: `used`, the pairs of cached keys of which the first was used
earlier; `overwritten`, an entry was put twice since the last flush;
`overlapped`, two methods ran at once since the last flush. They say how far the
code keeps what the properties claim. Two threads that miss one key and put it
at the same time both find it absent, and its size is counted twice, until the
next flush: `Accounting` is claimed until methods have overlapped, and so is what
depends on it (`NoNeedlessEviction`, `FreshEntryStays`). `UnderCap`
holds in every interleaving, and so does `LeastRecentlyUsedFirst` until an entry
was put twice. The drift can go on for ever, so `Miss` has a bound (`FarOff`): no
decompile is begun while a total is past it, above or below zero. It bounds TLC; the proofs
hold for any value of it.

### AddressTolerance

A text is known by the form `_is_addresslike` and `_parse_addr` see (prefix,
letters, digits only, name, too large) with its values in base 16 and base 10.
`Value` is the number the code makes of it, `Documented` the one `meta.py:109-110`
promises (hex with or without `0x`), and `Misread` says where the two differ:
digits without a letter. `ExistingFunctionFound` speaks of the documented address
and leaves out what is misread.
A binary is a kind of block per address, the function that owns it, the PLT
references, and the symbols of one name. The first script is one step, the
analysis runs in its own thread beside `Tick`, and another thread may create
functions at any moment. The order of PLT references and of symbols of equal
rank is Ghidra's, hence nondeterministic. PLT references out of the program and
overflow exceptions of the JVM are left out. `Leave` is the end of the executor's
`with` block, which joins the analysis: no property is made of that, because
`address_tolerance.py:263-266` means the opposite.

### ServerProcess

`main` is the server thread: `boot`, `announce` (the `session_start` record),
`serve` (taking the streams), `ready`, in an evaluation of its own (`eval`),
`waiting` for the worker, `closing`, `joining`, `exited`. The server thread, the
warm-up thread and the worker each may be in `eval_code`, whose parts that touch
shared state are steps: the session is looked up twice, the decompiler is
tested, opened and stored, `sys.stdout` is remembered, replaced and put back.
Evaluations are numbered; a buffer and a decompiler are known by the evaluation
that made them. `met`, `raced` and `underway` are histories that say when two
redirects overlapped, when two threads opened a decompiler at once, and what was
in progress when the session was closed: the properties are claimed as far as
the code keeps them, and these tell where it stops.

Every evaluation goes by the decompiler here, though a script that does not
decompile passes it by; that is the more general case only for `decompiler`, and
changes nothing for the other properties. `stderr` is redirected in the same way
and left out, and so are SIGINT (in `PyghidraExec`) and the executor's queue: an
exec request is refused while the worker runs.

### CallGraph

One iteration of the `while` loop is one step. The graph, the two functions, the
depth and the limit are any; the graph does not change during a search, and a
program has finitely many functions. `ByEntryPoint` is `sorted` with the code's
sort key, of which the entry point alone decides. The result is compared with a
definition of it (`AllPaths`, `Before`): all simple call paths, shorter first,
equal lengths by entry points. `FirstPaths` says that what was found is an
initial piece of that list: in order (so nothing is in it twice), and before
everything not found yet.

### Explore

A row of the table is a string, a function, a tool or a reference, by address.
A scan reads one row per step, as Ghidra's iterators give it, and the abandoned
script defines or removes rows between any two steps. `kept` are the rows that
were there from the beginning of the agent's activity, `gained` and `lost` tell
what happened meanwhile. `SearchListings` has both paths of a search (the loop
in the JVM that skips and counts, the backend that collects and slices) and an
agent that changes the page size from page to page. A query finds other rows on
the two paths: a pattern minds the case and an exact search of strings does not,
and an exact function name is the whole name. So `exact` belongs to the question
(`Matching` has a set for each path), the agent repeats its question for every
page, and pages of different questions are not claimed to fit together. `XrefsTools` has the
expansion of a function's address to its body, in two scripts, the backend's
limit, the marker and the filter, in the code's order. `DecompileBatch` has the
loop over targets; a target is the function it means, errors are one of the
kinds the code catches or not. A function that is removed behind
`_resolve_function` raises one it does not catch; that it is removed and defined
again within a step is not told apart. Refused arguments read nothing and are left out;
the order of references at one address is not modelled (one per address).

### StdioServer

The stream is a sequence of lines and bodies. A request is its id and how far
it gets: undecodable, unparsable, no object, refused, notification, another
method, `tools/call` refused early, `tools/call`. Header mode takes every line
up to an empty one, JSON or not, as in the code; a body has no newline, so one that the reader
meets where a line should start is read together with the line behind it. It is
taken for a JSON line if it begins with `{` or `[` (`BodyAsLine`). Any other body
("bare") opens a header block (`BodyOpensHeaders`), and an empty line directly
behind it is swallowed: the requests after it are lost up to the next empty line.
Any line that was not meant for a header may be one or not (`Headings`): it can
have a colon and be ASCII, or lack either. Each
telemetry write may fail, which leaves the record in the file object's buffer
for the next flush. `Story(req)` is what file and answers say of a request that
was handled on a healthy disk, and `OneLine(id)` that it has one answer, as a
line. A request is known by its id, which no other message of its stream has;
a frame that is cut short is the last message, because `read(n)` returns less
than `n` bytes only at the end of the stream. A body is one line with
something visible in it. A `Content-Length` that is negative, no number or does
not match its body is left out, and so are telemetry switched off and exceptions of
`json.loads` other than `JSONDecodeError`.

## Runs

| Run | Shows | Bounds |
|---|---|---|
| `exec` | one script at a time and a known leftover until a SIGINT; always: no stale slot, committed globals kept, refused calls leave nothing, invalidations kept, scripts start from the snapshot, the contract is implemented, the inductive invariant | 3 calls, 1 SIGINT, one saved name and one output slot; 2.2 million states |
| `exec_live` | every call is answered, but for one that ends the server | 2 calls, 1 SIGINT |
| `exec_ghost` | *violated*: a timed-out call leaves no trace | 2 calls |
| `cache` | statement by statement: cap, LRU order; until methods overlap: accounting, least eviction, the fresh entry stays | 3 keys (two alike), sizes 2, 3, 6, cap 5, totals within 11 before a miss, 2 threads; 4 million states |
| `agent` | flushed writes are not hidden by the cache, except for the warm-up's own entry | 2 calls, 2 functions, 2 versions; 2.8 million states |
| `agent_write` | *violated*: the cache reflects what scripts wrote | same |
| `resolve` | hits are entries, functions are found by address as documented and by name | 4 addresses, cap 1 tick of 2, 9 texts |
| `stdio` | answers, resynchronisation, telemetry | all streams of up to 3 messages, 5 of a smaller kind; 2 failed writes; 0.7 million states |
| `process` | redirects are private, decompilers disposed of, nothing new after shutdown, the process ends | 3 evaluations; 0.5 million states |
| `process_start` | *violated*: the warm-up is harmless | 2 evaluations |
| `callgraph` | sound, the first paths and all of them, ends | every graph of 4 functions, depth and limit up to 3 |
| `explore` | listings complete, xrefs exhaustive, batches report every target | 4 addresses, 2 changes per activity, pages of 1 and 2, 3 targets; 2.1 million states |

Why the bounds are enough. In `exec` the interesting histories need an
abandoned call, one that meets it, and one after: three. One SIGINT makes two
scripts overlap in the queue; the executor has one thread, so more of them
queue in the same way (and the proofs have no bound). Names do not interact
beyond saved against unsaved, so one of each. In `cache` three keys give a
first, a middle and a last entry; the sizes fit twice, fit once, and pass the
cap; a total of 11 is past the cap by an entry counted twice. In
`agent` one write before and one after a flush tell a fresh entry from a stale
one. In `resolve` the four addresses make 10 and 12 mean different functions in
the two bases, and have text, PLT, data and no block. In `stdio` five messages
are enough for junk, a swallowed request, an empty line and what follows, and
two faults for the failing record in the handler of a failing record. In
`process` three evaluations put one into each thread, which is all that can
overlap. In `callgraph` four functions have cycles, two ways of equal length, a
way around and a target passed through; three is the length of the longest
simple path. In `explore` three of four addresses match a pattern and two the same query
with `exact`, so a listing has a full, a half and an empty last page; two changes are an addition in front and a
removal behind, or the reverse.

`CHECK_DEADLOCK FALSE` is set where the bound on calls, the end of the stream
or the answer ends the behaviour. `DecompileCache` and `Explore` never stop and
are checked for deadlock.

Fairness. `FairSpec` has weak fairness of the server thread's own steps only,
the wait and the rollback: `fut.result(timeout=...)` returns when the budget is
used up, and `restore()` does not block. Nothing is assumed of the worker: a
script may run for ever, and `EveryCallAnswered` holds all the same. In
`ServerProcess` it is again the server thread's own steps, its resolver scripts
among them, and never the worker's or the warm-up's: `ProcessEnds` is claimed
when the worker's script ends, whatever the warm-up does. `callgraph_paths` runs
in the server thread and waits for nothing, so each of its steps is fair.

Every property has a mutant: a definition written as a likely bug would have
it, with which the run fails. Mutants stand in the modules before the
definition they would replace.

## Where the program differs from what it says

Each of these is a run with a counterexample:

- `exec_ghost`: `errors.py:26-28` says a timed-out call should be treated "as
  having never happened". Its worker goes on, and `persist()` puts its globals
  into `STATE` when the script ends.
- `agent_write`: `server.py:1671` flushes the cache "when state may have
  changed", but the flag it reads is true for the first script only.
- `process_start`: the warm-up is said to be fire-and-forget, its failures
  ignored (`server.py:482-484`). `serve_stdio` evaluates `sys.stdout.buffer` in
  `server.py:525`; while the warm-up's script has `sys.stdout` redirected that is
  an attribute of a `StringIO`, and the `AttributeError` ends the server.

Others were met while modelling. The models do what the code does; no run
states the other reading:

- after a `KeyboardInterrupt` in the wait the pending future is forgotten and the
  next call queues up behind the busy worker, which `server.py:1585-1588` rules
  out (`CollectInterrupt`; `SingleFlightUntilSigint` is claimed until then);
- a script's `BaseException` other than `SystemExit` and `KeyboardInterrupt` ends
  the server, which `server.py:1638-1641` means to prevent (`CollectFatal`);
- two overlapping `put`s of one key count it twice in the running total
  (`DecompileCache`);
- `cache.invalidate()` is said to flush the cache (`meta.py:267`); the warm-up can
  put an older result right after (`warmingAtFlush` in `AgentSession`);
- "what we never do is block longer than the cap", the analysis "may complete in the
  background" (`address_tolerance.py:263-266`); leaving the `with` block joins the thread (`Leave`);
- the loop for the nearest function below (`address_tolerance.py:188`) walks down
  from the top and stops at the first entry above the address, so it gives none
  or the lowest function (`Nearest`);
- two overlapping redirects send what a script prints to another call, or to the
  protocol's stdout, and can leave `sys.stdout` redirected for good; the output
  of a call is expected in its result (`tests/test_pyghidra_exec.py:165-167`);
- a batch in which a target raises anything but the two caught errors fails as a
  whole, though `meta.py:133-134` says the whole call still succeeds;
- `_apply_max_lines` looks for keys the backend does not use (its text is under
  `c`, `backend.py:601`), so neither `max_lines` nor the hard ceiling applies;
- `callgraph_paths` answers with lists of function records, not with the edges of
  `meta.py:210-213`; an empty `name` with `exact` searches for a function called
  `.*` (`server.py:1241-1256`); `search.strings` has a default limit of 100 and no
  `min_length`, against `meta.py:91-95`;
- a text of digits only is read in base 10, though `meta.py:109-110` documents
  `401234` as hex (`Value` and `Documented` in `AddressTolerance`);
- an external function outranks a label of the program, against the comment at
  `address_tolerance.py:94-95` (`Rank`);
- a second `put` of a key does not move it to the recent end, so the "LRU cache"
  (`decompile_cache.py:1`) can evict it first, and even evict it during that put
  (`LeastRecentlyUsedFirst` and `FreshEntryStays` are claimed until then);
- what the reader cannot make a request of is answered with a line whatever the
  framing (`server.py:530-532`), though the docstring at `server.py:522` promises to
  mirror it; `CleanStreamAnswered` claims no framing for those answers;
- `search.functions` with `exact` is said to be a substring search that ignores
  the case (`meta.py:68-70`); the code compares for equality (`backend.py:254-255`).

## Proofs

Each theorem holds for every value of the constants that the named assumptions
allow. None of the properties is inductive; each has an inductive invariant,
in named parts. TLC checked the invariants on the bounds of their runs before
they were proved (`InStep`, which speaks of a concatenation by its prefixes, is
the one it cannot evaluate; the list that `SearchInv` of `ExploreProofs` says
exists was looked for among all lists of the run's addresses).
Every theorem has a lemma for the initial states, lemmas for the steps with a
case per action, and a temporal step.

### exec (`PyghidraExecProofs`)

| Theorem | States |
|---|---|
| `TypeCorrect` | `TypeOK` |
| `OneScriptAtATime` | `SingleFlightUntilSigint` and `BusyIsKnown` |
| `GlobalsKept` | `CommittedKept` |
| `RefusalsLeaveNoTrace` | `RefusedLeaveNoTrace` |
| `InvalidationKept` | `InvalidationNotLost` |
| `SlotsNotCarriedOver` | `NoStaleSlot` |
| `ScriptsStartFromSnapshot` | `StartsFromSnapshot` |
| `IInvCorrect` | `IInv` |

They hold for any set of names, any `Unsaved` within it, any number of calls and
of SIGINTs: `PyghidraSession` and `PyghidraExec` assume only
`Unsaved \subseteq Names`, and that the two bounds are natural numbers.

The invariant is `IInv` of `PyghidraExecInv`, which the run `exec` checks:

- `Executor`: no future beyond the current call, one call running, calls
  started in the order they were submitted. It says who can still write.
- `Kept`: nothing the session holds (the globals, the snapshot, a running
  script's namespace) is older than the committed value of its name. The reason
  is the queue: everything committed was bound by a finished call, and with
  first-in-first-out (`FirstInFirstOut`) a running worker is the newest to have
  started, so what an abandoned worker persists is newer than what was
  committed before it ran; the snapshot, taken after the last commit, holds
  every committed name, so neither half of `restore()` brings an old one back.
- `BindingsPersisted`, `AnswersMatch`: every binding was made by a call whose
  script reached the postlude, and an answer tells how a future ended; a call
  told "unsupported" ended in `exit`, so it persisted nothing.
- `RequestRecorded`: an invalidate request of an answered call is in the flag or
  in the snapshot that a rollback would put back.
- `SlotsClean`: a name that is not saved is bound neither in the session nor in
  the snapshot, whoever persists or restores; so a script finds in its output
  slots only what its own call put there.
- `Gated`, `SnapshotFresh`, while no SIGINT has reached the wait: whatever is
  unfinished is the pending future, and from the submission to the start of the
  script nobody changes the session. The first gives `OneScriptAtATime`; both
  are needed for `ScriptsStartFromSnapshot`, because it is an abandoned worker
  or a rollback that would come between.

### The contract of exec (`PyghidraExecProofs`)

`ExecKeepsContract` states `ContractKept`: `PyghidraExec` implements
`ExecContract` under the mapping of `PyghidraExecContract`. Initial states map
to initial states. A submission opens a call, the three kinds of normal exit
keep it, and the `clear()` of a rollback is the whole rollback. `UpdateStep` is
a stutter, since `Settled` already reads the session as the update will make it.
A save between the two is a stutter or a save according to whether the update
will overwrite it; the flag and the steps of the executor that are seen by
nobody are stutters. `Executor` tells that the script that runs is the oldest
unfinished one, as the contract wants.

### The agent session (`PyghidraExecProofs`)

| Theorem | States |
|---|---|
| `AgentIsExec` | `AgentSpec => Spec`: the exec theorems hold of the whole session |
| `AgentTypes` | `AgentTypeOK` |
| `FlushedWritesVisible` | `InvalidatedWritesVisible` |

Every step of the agent, of the warm-up and of a writing script is a step of
`PyghidraExec` or leaves it alone, so the composition inherits its theorems. The
invariant `CacheInv` then adds: a call that flushed is over (`FlushDone`), a
thread holds a result only on its way into the cache (`Fetching`), and every
write up to the last flush is seen by whatever is in the cache or on its way
there, except for the entry the warm-up was decompiling at that flush
(`FlushedWritesSeen`). A proof that looked at the cache alone would miss the
results in flight.

### Resolution (`AddressToleranceProofs`)

| Theorem | States |
|---|---|
| `ResolveTypes` | `TypeOK` |
| `HitsAreEntries` | `HitIsEntry` |
| `ExistingFunctionsFound` | `ExistingFunctionFound` |
| `NamesFindFunctions` | `NameFindsFunction` |

Assumed: addresses are natural numbers; the analysis cap is below the bound on
ticks; a program's tables agree with each other (`ProgramsAssumption`: the entry
of a function belongs to that function, and a function symbol of the program
names a function, as Ghidra keeps them); a text that is no name and not too large
means an address (`RequestsAssumption`, which `_parse_addr` establishes by
raising otherwise). Those tables stay consistent, which is part of `TypeOK`,
because both the analysis and the other thread define functions in the program
while the request is answered. `ResolveInv` adds that a function that was there
is still there and keeps the request out of the analysis (`BeforeKept`,
`NameKept`), and that the analysis runs only while `resolve()` waits for it
(`AnalysisKept`).

### The cache (`DecompileCacheProofs`)

| Theorem | States |
|---|---|
| `CacheTypes` | `TypeOK` |
| `TotalsAddUp` | `Accounting` |
| `CapHolds` | `UnderCap` |
| `EvictsInOrderOfUse` | `LeastRecentlyUsedFirst` |
| `EvictsOnlyWhatItMust` | `NoNeedlessEviction` |
| `OwnResultStays` | `FreshEntryStays` |

Assumed: sizes are positive and the cap is a natural number. `Shape` (types, each key
once in the order), `UnderCap` and `LeastRecentlyUsedFirst` are inductive in
every interleaving of the two threads: a thread leaves `put` by the test of its
loop, so the last one to leave has seen the total as it is. For the others the
invariant is `InStep`: as long as no two methods have overlapped, a thread in
`put` or `invalidate` is alone there, and `Stage` says what each of its statements
finds. While the key it puts is on its way in, the total is the sum of the other
entries (`OthersOf`); from the loop on it is the sum of them all, less what has
just been popped; and a result that fits is the last in line (`Kept`), so the loop
stops before it, because the total without the rest is its size. A sum is read
as the running sums of the keys in their order (`SumExists`, `SumUnique`), and
two sums are compared by segments (`Segments`).

### The transport (`StdioServerProofs`)

| Theorem | States |
|---|---|
| `ServerTypes` | `TypeOK` |
| `FaultsAreCaught` | `FaultsDoNotKill` |
| `CleanStreamsAnswered` | `CleanStreamAnswered` |
| `TelemetryAgrees` | `TelemetryMatches` |
| `ReaderResynchronises` | `JunkIsContained` |

They hold for streams of any length and any number of failing writes. Assumed
(`StreamsAssumption`): a request's id is its own in the stream, junk has none,
a body that does not begin like JSON is no JSON object, and a frame that is cut
short is the last message.

- `ServerInv`: the input is the concatenation of the messages' lines and bodies;
  inside a header block the last line read was not empty, and a body is read
  behind a length and an empty line.
- `InStep`: in a stream of well-formed messages the reader is between two
  messages, or at the headers, the body or the request of one, and its answers
  so far fit what is allowed of the messages before it, one for one (`Fits`).
  An answer is allowed as a set of ids and framings (`Allowed`), with both
  framings where the docstring and the code differ. `Stop(s, i)` is where message `i`
  ends; `DataLemmas` says how a concatenation is laid out.
- `Fates`: nothing is said of a request before its last item is read, and what a
  healthy disk holds of it afterwards fits its answer (or nothing is told of it:
  the reader took its line for a header or its body for a part of a line, and
  then the request is lost as a whole).
- `Synchronised`, `Served`: at the end of a line behind an empty line the reader
  is in no header block, whatever came before, so that line is handled; from
  then on it has its one answer, also when its telemetry failed. The reader takes
  two items at a time only from a body (`WhatIsTaken`), and none that could swallow
  the line's empty line stands before it (`NoBareBefore`).

Lengths, sums and positions in a stream call for induction. The library's
induction theorems take an operator, so these proofs take a smallest
counterexample instead: the natural numbers are well-founded (`LeastNumber` and
`Inductive` in `DataLemmas`).

### The process (`ServerProcessProofs`)

For any number of evaluations (`MaxEvals` a positive natural number is all it
assumes):

| Theorem | States |
|---|---|
| `TypeCorrect` | `TypeOK` |
| `RedirectsPrivate` | `RedirectIsPrivate` |
| `NothingNewAfterShutdown` | `NoNewScriptAfterShutdown` |
| `NoDecompilerLost` | `DecompilerDisposed` |

Its invariants, each inductive with those before it:

- `Fresh`: no thread evaluates anything before the bootstrap is over.
- `Private`: two threads inside a redirect have both been recorded in `met`; the
  buffer of one that has not is `sys.stdout` from its `SetStdout` to its
  `RestoreStdout`; and while none have met, what a redirect will put back is the
  protocol stream. The property speaks of what was printed and of the time when
  no redirect is open, so it needs to know what `old` holds in between.
  `OutputPrivate` follows from it, print by print.
- `Late`: in a closed session whoever is past the two look-ups was under way at
  the close. The look-ups are the only guard; the property speaks of the two
  steps of a script, but a thread can wait in any step before them.
- `Disposal`: until `raced`, at most one thread opens a decompiler, and in the
  open session it finds the field empty. Without it an opening could overwrite a
  decompiler that nobody then disposes of.

### Exploration (`ExploreProofs`)

For any table, any arguments and any number of changes by the script:

| Theorem | States |
|---|---|
| `BatchesReportEveryTarget` | `BatchReportsEveryTarget` |
| `XrefsLeaveNothingOut` | `XrefsExhaustive` |
| `ListingsComplete` | `PagesComplete` |

The invariants:

- `TableInv`: a row of `kept` is there, and if nothing was gained or lost there
  is no other.
- `BatchInv`: the loop is through with exactly the targets before `current`, and
  what it made of each fits the histories (`Reported`). A target that is being
  looked up is a row unless a row was lost.
- `XrefsInv`: a scan has found the rows of its range up to the cursor that were
  there all the time (`Scanned`), so an answer at the end of the rows leaves none
  out (`Replied`).
- `SearchInv`, which relates two requests. Between two pages (`Asked`), while
  nothing is lost, a kept row that is still to be given has at least `offset`
  wanted rows in front of it; while nothing is gained, a row that was given has
  fewer. During a scan (`Placing`) the rows in front are those the iterator has
  passed and those it has still to give, so a row that appears or vanishes on
  either side of the iterator disturbs only the half whose history it ends.
  `Collected` ties the passed rows to what the two paths keep of them: the loop
  in the JVM has the slice and two counters, the backend has the rows, and both
  come to the same page and the same total. `ToolsGiven` is the simple case of
  `tools/list`: what was given is what stands before the offset.

The passed rows are a list the code never holds; the invariant says that one
exists. The lemmas about `Filtered` and `Slice` (what one more row does to a
filtered list and to a slice of it, and that a slice goes on where the list's
first members end) are by induction over the length of the list. `Filtered` is a
recursive function, and not `SelectSeq`, because a proof can expand it.

### The call graph (`CallGraphProofs`)

| Theorem | States |
|---|---|
| `SearchSound` | `Sound` |
| `ShortestPathsFirst` | `FirstPaths` |
| `SearchInvariant` | `SearchInv` |

For any finite set of functions, any calls between them, and any depth and
limit. Assumed (`FunctionsAssumption`): entry points are natural numbers, of
which there are finitely many; without that `sorted` would have no result.

`FirstPaths` speaks of paths the search may not have reached yet, so it is far
from inductive. `SearchInv` adds three things about the queue.

- `NoneMissed`: a path that is asked for and not found begins with a queued one.
  Taking the head off keeps this: if the head ends in the target, the only path
  that begins with it is itself, because the target is in a simple path once
  (`NoFurther`); if it is as long as it may be, so is whatever begins with it,
  and then it would end in the target; otherwise the path goes on with a callee
  that is not in the head, and the head is expanded to all of those (`GoesOn`,
  `Expanded`).
- `InOrder`: the queue is sorted and behind everything found. A queue of
  expanded paths stays sorted only because of its last part: the path that a
  queued one was expanded from (`Parent`) came before the head. So when the head
  is expanded, whatever waits is as long as the head, or one longer and of an
  earlier parent, and is before the new paths either way (`ChildrenLater`).
  With a stack in place of the queue this fails first.
- `Results`: what is found is sorted and asked for, and the search stops at the
  limit or with an empty queue.

A missed path is then not before its queued beginning, which is after everything
found. `Before` is transitive (`BeforeTransitive`), and `ByEntryPoint` gives all
of a finite set (`Listed`) because an increasing list of as many elements as
the set has leaves none out.

### Only model-checked

- Liveness (`EveryCallAnswered`, `ProcessEnds`, `Terminates`) and anything with
  `ENABLED`: out of the prover's reach.

Every safety property that a passing run checks is stated by a theorem.

## Not modelled

- `meta.help`, the build information: texts and constants.
- `binary.summary`: a value computed once around sorting and formatting; that it
  can go stale is a hazard without a property, because the code means it to be
  kept for the session.
- The backend's queries that are one read of the Ghidra database and a record,
  and its tasks, imports and shared projects, which no tool of the server reaches.
- A cache's running total that has drifted: how far, and what is cached meanwhile.
  The properties stop at the overlap, but for the cap and the order of eviction.
- Bodies of functions that change between the two scripts of an xrefs request, and
  how much `callgraph_paths` stores on its way (hazards without a property).
- Argument checks, which read and change nothing.

## Plan

Done, in this order, from the behaviour most likely to go wrong: the exec
machine and its globals, its proofs, the cache, their composition, resolution,
transport with dispatch and telemetry; then the contract of exec and its
refinement, the process with its three threads, the call graph, and the tools
that read a changing program.

Then the proofs, again from the behaviour most likely to go wrong: exec and its
contract, the agent session over it, resolution, the cache, the transport, the
process, the tools that read a changing program, and the call graph.

Left for later, should the code change there: a lock in the cache, with which the
properties would hold without their histories; and a statement of what `restore()`
should do with a request to flush (in `PROJECT.json` as a hazard without a property).
