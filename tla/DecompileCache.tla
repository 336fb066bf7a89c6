--------------------------- MODULE DecompileCache ---------------------------
(***************************************************************************)
(* The byte-capped LRU cache of src/tinyghidramcp/decompile_cache.py and   *)
(* the way _decompile_one uses it: get, and on a miss decompile and put.   *)
(* The server thread does that for `decompile` and `decompile.batch` and   *)
(* flushes the cache after a pyghidra.exec; the warm-up thread does it     *)
(* once, for the entry function, at the same time.  No method takes a      *)
(* lock, so each statement of put() and invalidate() is a step, and        *)
(* `total -= sizes.get(..)` is two: the call between the load and the      *)
(* store lets the other thread in.  get() is one: an eviction in the       *)
(* middle of it only makes it raise KeyError.  Values are known by their   *)
(* sizes, and the counters `hits` and `misses`, which nothing reads, are   *)
(* left out.                                                               *)
(***************************************************************************)
EXTENDS Integers, SequencesExt, FiniteSetsExt

CONSTANTS
    Keys,       \* (resolved address, timeout_secs) pairs
    Entry,      \* the one the warm-up thread decompiles
    Sizes,      \* JSON lengths a decompiled function can have
    MaxBytes,   \* the cap
    FarOff,     \* bound: no decompile is begun when a total is past it either way
    None

ASSUME SizesAssumption == Sizes \subseteq Nat \ {0} /\ MaxBytes \in Nat
ASSUME EntryAssumption == Entry \in Keys

VARIABLES
    order,       \* _cache: the keys of the OrderedDict, next to evict first
    sizes,       \* _sizes
    total,       \* _total_size
    at,          \* where each thread is
    fill,        \* the entry it missed and is about to put
    victim,      \* the key it has just popped
    held,        \* the value its `total -= ...` is about to store
    used,        \* history: pairs of cached keys, the first one used earlier
    overwritten, \* history: has an entry been put again since the last flush
    overlapped   \* history: have two methods run at once since the last flush

vars == <<order, sizes, total, at, fill, victim, held, used, overwritten,
          overlapped>>

Threads == {"server", "warmup"}
Putting == {"off", "assign", "size", "add", "loop", "popped", "taken"}
Flushing == {"clear_sizes", "zero"}

Cached == Range(order)
Entries == [key : Keys, size : Sizes]

(* A thread in the middle of put() or invalidate(). *)
Busy(t) == at[t] \in Putting \cup Flushing
Another(t) == \E u \in Threads \ {t} : Busy(u)

TypeOK ==
    /\ order \in Seq(Keys)
    /\ DOMAIN sizes \subseteq Keys /\ Range(sizes) \subseteq Sizes
    /\ total \in Int
    /\ at \in [Threads -> {"idle", "missed", "done"} \cup Putting \cup Flushing]
    /\ fill \in [Threads -> Entries \cup {None}]
    /\ \A t \in Threads : at[t] \in {"missed"} \cup Putting => fill[t] \in Entries
    /\ victim \in [Threads -> Keys \cup {None}]
    /\ \A t \in Threads : at[t] = "popped" => victim[t] \in Keys
    /\ held \in [Threads -> Int]
    /\ used \subseteq Keys \X Keys
    /\ overwritten \in BOOLEAN
    /\ overlapped \in BOOLEAN

Init ==
    /\ order = <<>>
    /\ sizes = <<>>
    /\ total = 0
    /\ at = [t \in Threads |-> "idle"]
    /\ fill = [t \in Threads |-> None]
    /\ victim = [t \in Threads |-> None]
    /\ held = [t \in Threads |-> 0]
    /\ used = {}
    /\ overwritten = FALSE
    /\ overlapped = FALSE

(* The keys a thread asks for. *)
Wanted(t) == IF t = "warmup" THEN {Entry} ELSE Keys

GoTo(t, step) == at' = [at EXCEPT ![t] = step]

(* _decompile_one is over: the server thread may begin another. *)
Over(t) == GoTo(t, IF t = "warmup" THEN "done" ELSE "idle")

(* OrderedDict.move_to_end, or an append when the key is new. *)
MoveToEnd(s, k) == Append(RemoveFirst(s, k), k)

(* dict assignment: a key that is there keeps its place in the order. *)
Assign(s, k) == IF Contains(s, k) THEN s ELSE Append(s, k)

(* The cached keys by last use, after a get or put of k (kept as long as   *)
(* the order has to follow it).                                            *)
UseNow(k) ==
    used' = IF overwritten' THEN {}
            ELSE {p \in used : p[1] # k /\ p[2] # k} \cup ((Cached \ {k}) \X {k})

(* _sizes.get(k, 0) *)
SizeOf(k) == IF k \in DOMAIN sizes THEN sizes[k] ELSE 0

-----------------------------------------------------------------------------
(* get(), and the decompile a miss leads to. *)

(* Mutant: a hit does not refresh the entry. *)
Touch_Nothing(k) == UNCHANGED order

(* A hit moves the key to the recent end. *)
Touch(k) == order' = MoveToEnd(order, k)

Hit(t, k) ==
    /\ at[t] = "idle"
    /\ k \in Wanted(t) \cap Cached
    /\ Touch(k)
    /\ overwritten' = overwritten
    /\ UseNow(k)
    /\ overlapped' = (overlapped \/ Another(t))
    /\ Over(t)
    /\ UNCHANGED <<sizes, total, fill, victim, held>>

Miss(t, k) ==
    /\ at[t] = "idle"
    /\ k \in Wanted(t) \ Cached
    /\ {total} \cup Range(held) \subseteq (-FarOff)..FarOff
    /\ \E z \in Sizes : fill' = [fill EXCEPT ![t] = [key |-> k, size |-> z]]
    /\ GoTo(t, "missed")
    /\ UNCHANGED <<order, sizes, total, victim, held, used, overwritten,
                   overlapped>>

(* The resolver or the backend raises: nothing is put. *)
GiveUp(t) ==
    /\ at[t] \in {"idle", "missed"}
    /\ fill' = [fill EXCEPT ![t] = None]
    /\ Over(t)
    /\ UNCHANGED <<order, sizes, total, victim, held, used, overwritten,
                   overlapped>>

-----------------------------------------------------------------------------
(* put(), statement by statement. *)

(* Mutant: the old size of a key that is put again is not taken off. *)
PutBegin_KeepsOld(t) ==
    /\ at[t] = "missed"
    /\ GoTo(t, "assign")
    /\ overlapped' = (overlapped \/ Another(t))
    /\ UNCHANGED <<order, sizes, total, fill, victim, held, used, overwritten>>

(* A key that is there has its old size taken off the total first. *)
PutBegin(t) ==
    /\ at[t] = "missed"
    /\ LET k == fill[t].key
       IN  \/ /\ k \in Cached
              /\ held' = [held EXCEPT ![t] = total - SizeOf(k)]
              /\ GoTo(t, "off")
           \/ k \notin Cached /\ GoTo(t, "assign") /\ UNCHANGED held
    /\ overlapped' = (overlapped \/ Another(t))
    /\ UNCHANGED <<order, sizes, total, fill, victim, used, overwritten>>

PutOff(t) ==
    /\ at[t] = "off"
    /\ total' = held[t]
    /\ held' = [held EXCEPT ![t] = 0]
    /\ GoTo(t, "assign")
    /\ UNCHANGED <<order, sizes, fill, victim, used, overwritten, overlapped>>

PutAssign(t) ==
    /\ at[t] = "assign"
    /\ LET k == fill[t].key
       IN  /\ order' = Assign(order, k)
           /\ overwritten' = (overwritten \/ k \in Cached)
           /\ UseNow(k)
    /\ GoTo(t, "size")
    /\ UNCHANGED <<sizes, total, fill, victim, held, overlapped>>

(* Mutant: a value that cannot be measured counts nothing. *)
PutSize_Nothing(t) ==
    /\ at[t] = "size"
    /\ sizes' = [j \in DOMAIN sizes \cup {fill[t].key} |->
                    IF j = fill[t].key THEN 0 ELSE sizes[j]]
    /\ GoTo(t, "add")
    /\ UNCHANGED <<order, total, fill, victim, held, used, overwritten,
                   overlapped>>

PutSize(t) ==
    /\ at[t] = "size"
    /\ sizes' = [j \in DOMAIN sizes \cup {fill[t].key} |->
                    IF j = fill[t].key THEN fill[t].size ELSE sizes[j]]
    /\ GoTo(t, "add")
    /\ UNCHANGED <<order, total, fill, victim, held, used, overwritten,
                   overlapped>>

PutAdd(t) ==
    /\ at[t] = "add"
    /\ total' = total + fill[t].size
    /\ GoTo(t, "loop")
    /\ UNCHANGED <<order, sizes, fill, victim, held, used, overwritten,
                   overlapped>>

(* The loop goes on while the cap is passed and something is left. *)
OverCap == total > MaxBytes /\ order # <<>>

(* The loop's popitem(last=False). *)
Pop(t) ==
    /\ victim' = [victim EXCEPT ![t] = Head(order)]
    /\ order' = Tail(order)
    /\ used' = used \cap (Range(order') \X Range(order'))
    /\ GoTo(t, "popped")
    /\ UNCHANGED <<sizes, total, fill, held, overwritten, overlapped>>

(* Mutants: an entry is dropped when the cap is only reached; the newest   *)
(* entry is the one to go.                                                 *)
PutEvict_Eager(t) ==
    /\ at[t] = "loop"
    /\ total >= MaxBytes /\ order # <<>>
    /\ Pop(t)

PutEvict_Newest(t) ==
    /\ at[t] = "loop"
    /\ OverCap
    /\ victim' = [victim EXCEPT ![t] = Last(order)]
    /\ order' = Front(order)
    /\ used' = used \cap (Range(order') \X Range(order'))
    /\ GoTo(t, "popped")
    /\ UNCHANGED <<sizes, total, fill, held, overwritten, overlapped>>

PutEvict(t) ==
    /\ at[t] = "loop"
    /\ OverCap
    /\ Pop(t)

PutFree(t) ==
    /\ at[t] = "popped"
    /\ held' = [held EXCEPT ![t] = total - SizeOf(victim[t])]
    /\ sizes' = [j \in DOMAIN sizes \ {victim[t]} |-> sizes[j]]
    /\ victim' = [victim EXCEPT ![t] = None]
    /\ GoTo(t, "taken")
    /\ UNCHANGED <<order, total, fill, used, overwritten, overlapped>>

(* Mutant: one round of evictions at most. *)
PutTake_Once(t) ==
    /\ at[t] = "taken"
    /\ total' = held[t]
    /\ fill' = [fill EXCEPT ![t] = None]
    /\ Over(t)
    /\ UNCHANGED <<order, sizes, victim, held, used, overwritten, overlapped>>

PutTake(t) ==
    /\ at[t] = "taken"
    /\ total' = held[t]
    /\ held' = [held EXCEPT ![t] = 0]
    /\ GoTo(t, "loop")
    /\ UNCHANGED <<order, sizes, fill, victim, used, overwritten, overlapped>>

PutEnd(t) ==
    /\ at[t] = "loop"
    /\ ~OverCap
    /\ fill' = [fill EXCEPT ![t] = None]
    /\ Over(t)
    /\ UNCHANGED <<order, sizes, total, victim, held, used, overwritten,
                   overlapped>>

-----------------------------------------------------------------------------
(* invalidate(): the server thread flushes after a pyghidra.exec. *)

FlushEntries ==
    /\ at["server"] = "idle"
    /\ order' = <<>>
    /\ used' = {}
    /\ overwritten' = FALSE
    /\ overlapped' = Another("server")
    /\ GoTo("server", "clear_sizes")
    /\ UNCHANGED <<sizes, total, fill, victim, held>>

FlushSizes ==
    /\ at["server"] = "clear_sizes"
    /\ sizes' = <<>>
    /\ GoTo("server", "zero")
    /\ UNCHANGED <<order, total, fill, victim, held, used, overwritten,
                   overlapped>>

FlushTotal ==
    /\ at["server"] = "zero"
    /\ total' = 0
    /\ Over("server")
    /\ UNCHANGED <<order, sizes, fill, victim, held, used, overwritten,
                   overlapped>>

-----------------------------------------------------------------------------

PutStep(t) ==
    \/ PutBegin(t) \/ PutOff(t) \/ PutAssign(t) \/ PutSize(t) \/ PutAdd(t)
    \/ PutEvict(t) \/ PutFree(t) \/ PutTake(t) \/ PutEnd(t)

Flush == FlushEntries \/ FlushSizes \/ FlushTotal

Next ==
    \/ \E t \in Threads, k \in Keys : Hit(t, k) \/ Miss(t, k)
    \/ \E t \in Threads : GiveUp(t) \/ PutStep(t)
    \/ Flush

Spec == Init /\ [][Next]_vars

-----------------------------------------------------------------------------
(* Properties. *)

(* Bytes of the first n keys of s. *)
Freed(s, sz, n) ==
    LET sum[i \in 0..n] == IF i = 0 THEN 0 ELSE sum[i - 1] + sz[s[i]]
    IN  sum[n]

Bytes == Freed(order, sizes, Len(order))

(* No method is under way. *)
Quiet == \A t \in Threads : ~Busy(t)

(* The two dicts have the same keys and the total is what the entries add  *)
(* up to, through any sequence of puts, evictions and flushes, as long as  *)
(* no two methods have overlapped since the last flush.  (Once they have,  *)
(* the total may be off until the next flush: two puts of one key count    *)
(* its size twice.)                                                        *)
Accounting ==
    Quiet /\ ~overlapped => DOMAIN sizes = Cached /\ total = Bytes

(* Between two calls the counter is within the cap or nothing is cached,   *)
(* however the statements of the two threads have interleaved: the last    *)
(* thread to change the counter also looks at it last.                     *)
UnderCap == Quiet => total <= MaxBytes \/ order = <<>>

(* The eviction order is the order of last use (decompile_cache.py:1       *)
(* "LRU"), in every interleaving, until two threads that missed the same   *)
(* key both put it: the second put leaves the key where the first put it.  *)
LeastRecentlyUsedFirst ==
    ~overwritten =>
        \A i, j \in DOMAIN order : <<order[i], order[j]>> \in used <=> i < j

(* A put evicts no more than it must: when it drops an entry, the entries  *)
(* there are do exceed the cap (until two methods have overlapped).        *)
NoNeedlessEviction ==
    [][\A t \in Threads :
          at[t] = "loop" /\ at'[t] = "popped" /\ ~overlapped
              => Bytes > MaxBytes]_vars

(* An entry that fits the cap on its own is there when its put ends: the   *)
(* call that paid for a decompile never evicts its own result, until       *)
(* methods overlapped or an entry was put twice (a larger second result    *)
(* can then be the next in line for its own eviction).                     *)
FreshEntryStays ==
    [][\A t \in Threads :
          (/\ at[t] \in Putting /\ at'[t] \in {"idle", "done"}
           /\ fill[t].size <= MaxBytes /\ ~overwritten /\ ~overlapped)
              => fill[t].key \in Cached]_vars
=============================================================================
