----------------------------- MODULE CallGraph -----------------------------
(***************************************************************************)
(* callgraph_paths in src/tinyghidramcp/backend.py: a breadth-first search *)
(* over paths, one iteration of its loop per step, for the calls between   *)
(* two functions.  A function is known by its entry point, which is what   *)
(* the code compares and sorts by.  The program is any call graph; a call  *)
(* of a function to itself is left out of it, because the function is then *)
(* in the path that would be extended.                                     *)
(***************************************************************************)
EXTENDS Naturals, SequencesExt

CONSTANTS
    Functions,   \* entry points
    Sources,     \* those asked for as the source
    MaxDepth,    \* bound: the largest max_depth asked for
    MaxLimit     \* bound: the largest limit asked for

ASSUME FunctionsAssumption ==
    Functions \subseteq Nat /\ IsFiniteSet(Functions) /\ Sources \subseteq Functions
ASSUME BoundsAssumption == MaxDepth \in Nat /\ MaxLimit \in Nat

VARIABLES
    calls,       \* the program: the functions each function calls
    source, target, max_depth, limit,   \* the request
    pc,          \* "check", "search", "done" or "error"
    queue,       \* paths to look at
    paths        \* paths found

request == <<calls, source, target, max_depth, limit>>
vars == <<request, pc, queue, paths>>

Init ==
    /\ calls \in [Functions -> SUBSET Functions]
    /\ \A f \in Functions : f \notin calls[f]
    /\ source \in Sources
    /\ target \in Functions
    /\ max_depth \in 0..MaxDepth
    /\ limit \in 0..MaxLimit
    /\ pc = "check"
    /\ queue = <<>>
    /\ paths = <<>>

(* Arguments that are not positive are a GhidraBackendError. *)
Refuse ==
    /\ pc = "check"
    /\ max_depth <= 0 \/ limit <= 0
    /\ pc' = "error"
    /\ UNCHANGED <<request, queue, paths>>

Begin ==
    /\ pc = "check"
    /\ max_depth > 0 /\ limit > 0
    /\ pc' = "search"
    /\ queue' = <<<<source>>>>
    /\ UNCHANGED <<request, paths>>

-----------------------------------------------------------------------------

Depth(path) == Len(path) - 1

(* One iteration: the path is taken off the queue, and ... *)
Iterate ==
    /\ pc = "search"
    /\ queue # <<>> /\ Len(paths) < limit
    /\ UNCHANGED <<request, pc>>

(* ... it is a result when it ends in the target, ... *)
Found ==
    /\ Iterate
    /\ Last(Head(queue)) = target
    /\ paths' = Append(paths, Head(queue))
    /\ queue' = Tail(queue)

(* Mutant: `continue` is reached before the path is taken off. *)
TooDeep_NotTaken ==
    /\ Iterate
    /\ Last(Head(queue)) # target
    /\ Depth(Head(queue)) >= max_depth
    /\ UNCHANGED <<queue, paths>>

(* ... it is dropped when it is as long as it may be, ... *)
TooDeep ==
    /\ Iterate
    /\ Last(Head(queue)) # target
    /\ Depth(Head(queue)) >= max_depth
    /\ queue' = Tail(queue)
    /\ UNCHANGED paths

ByEntryPoint(S) ==
    CHOOSE s \in [1..Cardinality(S) -> S] : \A i, j \in DOMAIN s : i < j => s[i] < s[j]

(* Mutant: only the way straight back is left out. *)
Callees_NoSeen(path) ==
    ByEntryPoint({f \in calls[Last(path)] : Len(path) < 2 \/ path[Len(path) - 1] # f})

(* The callees that are not in the path yet, by entry point. *)
Callees(path) == ByEntryPoint(calls[Last(path)] \ Range(path))

Extensions(path) ==
    LET cs == Callees(path) IN [i \in DOMAIN cs |-> Append(path, cs[i])]

(* Mutant: a stack in place of a queue. *)
Enqueued_First(rest, new) == new \o rest

Enqueued(rest, new) == rest \o new

(* ... and otherwise each of its callees makes a new path. *)
Expand ==
    /\ Iterate
    /\ Last(Head(queue)) # target
    /\ Depth(Head(queue)) < max_depth
    /\ queue' = Enqueued(Tail(queue), Extensions(Head(queue)))
    /\ UNCHANGED paths

Return ==
    /\ pc = "search"
    /\ queue = <<>> \/ Len(paths) >= limit
    /\ pc' = "done"
    /\ UNCHANGED <<request, queue, paths>>

Next == Refuse \/ Begin \/ Found \/ TooDeep \/ Expand \/ Return

Spec == Init /\ [][Next]_vars

(* The loop runs in the server thread and waits for nothing. *)
FairSpec == Spec /\ WF_vars(Next)

-----------------------------------------------------------------------------
(* What is asked for: the simple call paths from source to target.         *)

IsCallPath(p) ==
    /\ p[1] = source
    /\ IsInjective(p)
    /\ \A i \in 1..Depth(p) : p[i + 1] \in calls[p[i]]

AllPaths ==
    {p \in UNION {[1..n -> Functions] : n \in 1..(max_depth + 1)} :
        IsCallPath(p) /\ p[Len(p)] = target}

(* Shorter first, and by entry points among those of one length. *)
Before(p, q) ==
    \/ Len(p) < Len(q)
    \/ /\ Len(p) = Len(q)
       /\ \E i \in 1..Len(p) : p[i] < q[i] /\ \A j \in 1..(i - 1) : p[j] = q[j]

(* Whatever the graph, cycles included, what is queued or found is a path  *)
(* of calls from the source that visits no function twice, no longer than  *)
(* asked for, and that passes through the target only at its end.          *)
Sound ==
    \A p \in Range(queue) \cup Range(paths) :
        /\ IsCallPath(p)
        /\ Depth(p) <= max_depth
        /\ \A i \in 1..Depth(p) : p[i] # target

(* The result is the first `limit` of all simple paths, shortest first:    *)
(* what was found is in order and has nothing twice, what was not found    *)
(* yet comes after all of it, and at the end only the limit leaves any out. *)
FirstPaths ==
    /\ \A i, j \in DOMAIN paths : i < j => Before(paths[i], paths[j])
    /\ Range(paths) \subseteq AllPaths
    /\ \A p \in Range(paths), q \in AllPaths \ Range(paths) : Before(p, q)
    /\ Len(paths) <= limit
    /\ pc = "done" => Range(paths) = AllPaths \/ Len(paths) = limit

(* The search ends, on every graph. *)
Terminates == <>(pc \in {"done", "error"})
=============================================================================
