---------------------------- MODULE LimiterTable ----------------------------
(***************************************************************************)
(* What ratelimit/token_bucket.go and ratelimit/sliding_window.go have in  *)
(* common: a map from keys to entries behind a RWMutex, entries behind a   *)
(* mutex of their own, garbage collection of idle entries, and Reset.  A   *)
(* call finds its entry in one or two critical sections and uses it in     *)
(* another; in between the map may have dropped it.  Times are kept as     *)
(* ages, up to where nothing further depends on them.                      *)
(***************************************************************************)
EXTENDS Naturals

CONSTANTS
    Procs,         \* goroutines; each makes one call at a time
    Keys,          \* the keys that are followed; there are others
    Amounts,       \* the values of n: 0 stands for a call of Remaining
    gcInterval, idleTimeout,
    Ids,           \* identities of entries: one for every key and every goroutine will do
    None

VARIABLES
    table,      \* key -> its entry, or None
    entry,      \* the entries; one that nothing refers to is None
    sinceGC,    \* clock.Since(lastGC), up to gcInterval
    call,       \* where each goroutine stands, with its key, n and entry
    usage,      \* history: what the key was allowed
    disturbed   \* history: keys that were Reset, or whose entry was dropped in use

tableVars == <<table, entry, sinceGC, call, usage, disturbed>>

Idle == [at |-> "idle", key |-> None, n |-> 0, id |-> None]
UpTo(bound, x) == IF x > bound THEN bound ELSE x

TableInit(unused) ==
    /\ table = [k \in Keys |-> None]
    /\ entry = [i \in Ids |-> None]
    /\ sinceGC = 0
    /\ call = [p \in Procs |-> Idle]
    /\ usage = [k \in Keys |-> unused]
    /\ disturbed = {}

Held == {call[p].id : p \in Procs}
Entries(map) == {map[k] : k \in Keys}
Free(map) == {i \in Ids : i \notin Held \union Entries(map)}

\* The entries become e; what is referred to no more is garbage.
Keep(e) == entry' = [i \in Ids |-> IF i \in Entries(table') \union Held' THEN e[i] ELSE None]

\* The read-locked lookup that AllowN and Remaining begin with.
Lookup(p, k, n) ==
    /\ call[p] = Idle
    /\ call' = [call EXCEPT ![p] =
                  [at |-> IF table[k] = None THEN "create" ELSE "use",
                   key |-> k, n |-> n, id |-> table[k]]]
    /\ UNCHANGED <<table, entry, sinceGC, usage, disturbed>>

\* The keys that lose the entry some call is about to use when the map shrinks.
Orphaned(map) == {k \in Keys : table[k] # map[k] /\ table[k] \in Held \ {None}}

\* What a disturbed key is allowed is not recorded.
Disturb(keys, unused) ==
    /\ disturbed' = disturbed \union keys
    /\ usage' = [k \in Keys |-> IF k \in keys THEN unused ELSE usage[k]]

Collects == sinceGC >= gcInterval

\* maybeGC: the map without the entries that have been idle.
Collected ==
    [k \in Keys |->
       IF Collects /\ table[k] # None /\ entry[table[k]].age > idleTimeout
       THEN None
       ELSE table[k]]

\* The write-locked part of getBucket and getEntry, with the lookup repeated.
Create(p, new, unused) ==
    LET kept == Collected
        k == call[p].key
        id == IF kept[k] # None THEN kept[k]
              ELSE CHOOSE i \in Free(kept) : TRUE
    IN  /\ call[p].at = "create"
        /\ kept[k] = None => Free(kept) # {}
        /\ table' = [kept EXCEPT ![k] = id]
        /\ call' = [call EXCEPT ![p].at = "use", ![p].id = id]
        /\ Keep(IF kept[k] # None THEN entry ELSE [entry EXCEPT ![id] = new])
        /\ sinceGC' = IF Collects THEN 0 ELSE sinceGC
        /\ Disturb(Orphaned(kept), unused)

\* The same for a key that is not followed: all that matters is its collection.
CreateElsewhere(unused) ==
    /\ Collects
    /\ table' = Collected
    /\ UNCHANGED call
    /\ Keep(entry)
    /\ sinceGC' = 0
    /\ Disturb(Orphaned(Collected), unused)

\* The call ends: its entry is now e, and its key has been allowed u in all.
Finish(p, e, u) ==
    /\ call' = [call EXCEPT ![p] = Idle]
    /\ UNCHANGED <<table, sinceGC, disturbed>>
    /\ Keep([entry EXCEPT ![call[p].id] = e])
    /\ usage' = IF call[p].key \in disturbed THEN usage ELSE [usage EXCEPT ![call[p].key] = u]

Reset(k, unused) ==
    /\ table' = [table EXCEPT ![k] = None]
    /\ UNCHANGED <<sinceGC, call>>
    /\ Keep(entry)
    /\ Disturb({k}, unused)

\* Time passes: entries age, up to oldAge, and their use recedes.
Tick(oldAge, receded) ==
    /\ entry' = [i \in Ids |-> IF entry[i] = None THEN None ELSE [entry[i] EXCEPT !.age = UpTo(oldAge, @ + 1)]]
    /\ sinceGC' = UpTo(gcInterval, sinceGC + 1)
    /\ usage' = receded
    /\ UNCHANGED <<table, call, disturbed>>
=============================================================================
