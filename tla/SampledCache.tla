---------------------------- MODULE SampledCache ----------------------------
(***************************************************************************)
(* The default cache, cache/cache.go: a sync.Map with an atomic size that  *)
(* is adjusted after the map, and stripe locks that a Set holds over the   *)
(* evictions it makes - of keys of other stripes, too.  A step is one      *)
(* operation on the map, the counter or a lock.  With fewer entries than   *)
(* evictionSampleSize every entry is sampled.  Of an item only matters     *)
(* whether it has expired; which of several is the oldest is left open, as *)
(* creation times may be equal.                                            *)
(***************************************************************************)
EXTENDS Integers, FiniteSets

CONSTANTS
    Procs,        \* goroutines; each makes one call at a time
    Keys,
    StripeOf,     \* getStripe: key -> stripe; keys may share one
    Capacities,   \* the values WithCapacity is tried with; 0 is unbounded
    None

VARIABLES
    capacity,
    data,     \* key -> "absent", "live" or "expired"
    size,
    holder,   \* stripe -> the process holding its lock, or None
    pc,       \* where a process stands
    key,      \* the key of its call
    target,   \* the key evictIfNeeded picked, or None
    after,    \* where evictIfNeeded returns to
    foiled    \* history: an entry picked for eviction was taken by someone else

vars == <<capacity, data, size, holder, pc, key, target, after, foiled>>

Stripes == {StripeOf[k] : k \in Keys}
Present == {k \in Keys : data[k] # "absent"}

Init ==
    /\ capacity \in Capacities
    /\ data = [k \in Keys |-> "absent"]
    /\ size = 0
    /\ holder = [s \in Stripes |-> None]
    /\ pc = [p \in Procs |-> "idle"]
    /\ key = [p \in Procs |-> None]
    /\ target = [p \in Procs |-> None]
    /\ after = [p \in Procs |-> None]
    /\ foiled = FALSE

Goto(p, place) == pc' = [pc EXCEPT ![p] = place]
At(p, place) == pc[p] = place

\* A call is over: its locals are gone.
Return(p) ==
    /\ Goto(p, "idle")
    /\ key' = [key EXCEPT ![p] = None]
    /\ target' = [target EXCEPT ![p] = None]
    /\ after' = [after EXCEPT ![p] = None]

Lock(p) ==
    /\ holder[StripeOf[key[p]]] = None
    /\ holder' = [holder EXCEPT ![StripeOf[key[p]]] = p]

\* Leave the call, giving back the stripe if it is held.
Finish(p) ==
    /\ Return(p)
    /\ holder' = [s \in Stripes |-> IF holder[s] = p THEN None ELSE holder[s]]

\* sync.Map.LoadAndDelete of a key that is there, by an evictor or not.
LoadAndDelete(k, evicts) ==
    /\ k \in Present
    /\ data' = [data EXCEPT ![k] = "absent"]
    /\ foiled' = (foiled \/ (~evicts /\ \E q \in Procs : target[q] = k))

-----------------------------------------------------------------------------
(* Set, and the fetch function of getOrFetchSampledLRU, which stores alike *)

Begin(p, k, place) ==
    /\ At(p, "idle")
    /\ key' = [key EXCEPT ![p] = k]
    /\ Goto(p, place)
    /\ UNCHANGED <<capacity, data, size, holder, target, after, foiled>>

Set(p, k) == Begin(p, k, IF capacity > 0 THEN "setLock" ELSE "swap")

SetLock(p) ==
    /\ At(p, "setLock")
    /\ Lock(p)
    /\ Goto(p, "setCheck")
    /\ UNCHANGED <<capacity, data, size, key, target, after, foiled>>

Evict(p, return) ==
    /\ Goto(p, "evict")
    /\ after' = [after EXCEPT ![p] = return]

SetCheck(p) ==
    /\ At(p, "setCheck")
    /\ IF key[p] \in Present THEN Goto(p, "swap") /\ UNCHANGED after ELSE Evict(p, "swap")
    /\ UNCHANGED <<capacity, data, size, holder, key, target, foiled>>

Swap(p) ==
    /\ At(p, "swap")
    /\ data' = [data EXCEPT ![key[p]] = "live"]
    /\ Goto(p, IF key[p] \notin Present THEN "added" ELSE IF capacity > 0 THEN "over" ELSE "end")
    /\ UNCHANGED <<capacity, size, holder, key, target, after, foiled>>

Added_Skipped(p) ==
    /\ At(p, "added")
    /\ Goto(p, IF capacity > 0 THEN "over" ELSE "end")
    /\ UNCHANGED <<capacity, data, size, holder, key, target, after, foiled>>
\* size.Add(1).
Added(p) ==
    /\ At(p, "added")
    /\ size' = size + 1
    /\ Goto(p, IF capacity > 0 THEN "over" ELSE "end")
    /\ UNCHANGED <<capacity, data, holder, key, target, after, foiled>>

Over_NotChecked(p) ==
    /\ At(p, "over")
    /\ Goto(p, "end")
    /\ UNCHANGED <<capacity, data, size, holder, key, target, after, foiled>>
\* Others may have added entries since evictIfNeeded made room.
Over(p) ==
    /\ At(p, "over")
    /\ IF size > capacity THEN Evict(p, "end") ELSE Goto(p, "end") /\ UNCHANGED after
    /\ UNCHANGED <<capacity, data, size, holder, key, target, foiled>>

\* The loop of evictIfNeeded.
EvictLoop(p) ==
    /\ At(p, "evict")
    /\ Goto(p, IF size >= capacity THEN "pick" ELSE after[p])
    /\ UNCHANGED <<capacity, data, size, holder, key, target, after, foiled>>

\* The eviction candidates: expired entries before others, never the new key.
Candidates(k) ==
    LET expired == {j \in Present \ {k} : data[j] = "expired"}
    IN  IF expired # {} THEN expired ELSE Present \ {k}

Pick(p) ==
    /\ At(p, "pick")
    /\ \/ /\ Candidates(key[p]) = {}
          /\ Goto(p, after[p])
          /\ UNCHANGED target
       \/ /\ Goto(p, "take")
          /\ \E k \in Candidates(key[p]) : target' = [target EXCEPT ![p] = k]
    /\ UNCHANGED <<capacity, data, size, holder, key, after, foiled>>

\* LoadAndDelete of the candidate, under the stripe of another key.
Take(p) ==
    /\ At(p, "take")
    /\ target' = [target EXCEPT ![p] = None]
    /\ \/ LoadAndDelete(target[p], TRUE) /\ Goto(p, "taken")
       \/ target[p] \notin Present /\ Goto(p, after[p]) /\ UNCHANGED <<data, foiled>>
    /\ UNCHANGED <<capacity, size, holder, key, after>>

Taken(p) ==
    /\ At(p, "taken")
    /\ size' = size - 1
    /\ Goto(p, "evict")
    /\ UNCHANGED <<capacity, data, holder, key, target, after, foiled>>

-----------------------------------------------------------------------------
(* Delete, Get and the sweeper                                             *)

Delete(p, k) == Begin(p, k, IF capacity > 0 THEN "deleteLock" ELSE "delete")

DeleteLock(p) ==
    /\ At(p, "deleteLock")
    /\ Lock(p)
    /\ Goto(p, "delete")
    /\ UNCHANGED <<capacity, data, size, key, target, after, foiled>>

\* Get of a live or absent entry changes nothing; one that finds an expired entry
\* takes the stripe's lock, whatever the capacity.
Get(p, k) == data[k] = "expired" /\ Begin(p, k, "cleanLock")
\* So does the sweeper of WithEvictionInterval with every expired entry it meets.
Sweep(p, k) == data[k] = "expired" /\ Begin(p, k, "cleanLock")

CleanLock(p) ==
    /\ At(p, "cleanLock")
    /\ Lock(p)
    /\ Goto(p, "recheck")
    /\ UNCHANGED <<capacity, data, size, key, target, after, foiled>>

Recheck_Skipped(p) ==
    /\ At(p, "recheck")
    /\ Goto(p, "clean")
    /\ UNCHANGED <<capacity, data, size, holder, key, target, after, foiled>>
Recheck(p) ==
    /\ At(p, "recheck")
    /\ Goto(p, IF data[key[p]] = "expired" THEN "clean" ELSE "end")
    /\ UNCHANGED <<capacity, data, size, holder, key, target, after, foiled>>

\* LoadAndDelete by Delete or by a clean-up.
Remove(p) ==
    /\ pc[p] \in {"delete", "clean"}
    /\ \/ LoadAndDelete(key[p], FALSE) /\ Goto(p, "removed")
       \/ key[p] \notin Present /\ Goto(p, "end") /\ UNCHANGED <<data, foiled>>
    /\ UNCHANGED <<capacity, size, holder, key, target, after>>

Removed(p) ==
    /\ At(p, "removed")
    /\ size' = size - 1
    /\ Goto(p, "end")
    /\ UNCHANGED <<capacity, data, holder, key, target, after, foiled>>

End(p) == At(p, "end") /\ Finish(p) /\ UNCHANGED <<capacity, data, size, foiled>>

\* The clock passes an entry's expiration.
Expire(k) ==
    /\ data[k] = "live"
    /\ data' = [data EXCEPT ![k] = "expired"]
    /\ UNCHANGED <<capacity, size, holder, pc, key, target, after, foiled>>

Next ==
    \/ \E p \in Procs, k \in Keys : Set(p, k) \/ Delete(p, k) \/ Get(p, k) \/ Sweep(p, k)
    \/ \E p \in Procs :
         \/ SetLock(p) \/ SetCheck(p) \/ Swap(p) \/ Added(p) \/ Over(p)
         \/ EvictLoop(p) \/ Pick(p) \/ Take(p) \/ Taken(p)
         \/ DeleteLock(p) \/ CleanLock(p) \/ Recheck(p) \/ Remove(p) \/ Removed(p) \/ End(p)
    \/ \E k \in Keys : Expire(k)

Spec == Init /\ [][Next]_vars

-----------------------------------------------------------------------------

\* The counter never drifts from the map, in spite of evictions under other
\* stripes: it differs by exactly the adjustments calls still have to make.
SizeTracksMap ==
    Cardinality(Present) = size + Cardinality({p \in Procs : pc[p] = "added"})
                                - Cardinality({p \in Procs : pc[p] \in {"taken", "removed"}})

\* When no Set is under way the bound holds, however Sets raced - unless a Delete
\* or a clean-up took an entry that an eviction had just picked, which ends the
\* loop of evictIfNeeded early.
CapacityRestored ==
    (capacity > 0 /\ \A p \in Procs : pc[p] = "idle") => foiled \/ Cardinality(Present) <= capacity

\* The call that removes a live entry k is a Delete or an eviction.
Intended(k) == \E p \in Procs : \/ pc[p] = "delete" /\ key[p] = k
                                \/ pc[p] = "take" /\ target[p] = k

\* Get and the sweeper remove only entries that have expired, even if the entry
\* they found was replaced meanwhile.
CleanUpSparesLive ==
    [][\A k \in Keys : data[k] = "live" /\ data'[k] = "absent" => Intended(k)]_vars

\* With a capacity, CleanUpSparesLive holds: Set then takes the stripe's lock.
BoundedCleanUpSparesLive ==
    [][capacity > 0 => \A k \in Keys : data[k] = "live" /\ data'[k] = "absent" => Intended(k)]_vars
=============================================================================
