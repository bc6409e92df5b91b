---------------------------- MODULE OrderedCache ----------------------------
(***************************************************************************)
(* What the LRU and the FIFO cache promise: a queue of at most Capacity    *)
(* keys, in the order of last use (LRU) or of insertion (FIFO), from whose *)
(* end room is made.  Written from cache/README.md and the comments of     *)
(* cache/lru.go and cache/fifo.go; ListCache implements it.                *)
(***************************************************************************)
EXTENDS Naturals, Sequences

CONSTANTS Keys, Capacity

VARIABLES
    policy,       \* "EvictionLRU" or "EvictionFIFO"
    order,        \* the keys, newest first
    expired       \* the keys in it whose TTL is over

vars == <<policy, order, expired>>

Present(k) == \E i \in DOMAIN order : order[i] = k

Without(k) == SelectSeq(order, LAMBDA j : j # k)

Init ==
    /\ policy \in {"EvictionLRU", "EvictionFIFO"}
    /\ order = <<>>
    /\ expired = {}

\* A use of k, which only the LRU cache takes note of.
Use(k) == order' = IF policy = "EvictionLRU" THEN <<k>> \o Without(k) ELSE order

Get(k) ==
    /\ Present(k)
    /\ IF k \in expired THEN order' = Without(k) ELSE Use(k)
    /\ expired' = expired \ {k}

Update(k) == Present(k) /\ Use(k) /\ expired' = expired \ {k}

Insert(k) ==
    /\ ~Present(k)
    /\ LET kept == IF Len(order) = Capacity THEN Without(order[Len(order)]) ELSE order
       IN  /\ order' = <<k>> \o kept
           /\ expired' = {j \in expired : \E i \in DOMAIN kept : kept[i] = j}

Delete(k) == Present(k) /\ order' = Without(k) /\ expired' = expired \ {k}

Expire(k) == Present(k) /\ expired' = expired \union {k} /\ UNCHANGED order

Next ==
    /\ \E k \in Keys : Get(k) \/ Update(k) \/ Insert(k) \/ Delete(k) \/ Expire(k)
    /\ UNCHANGED policy

Spec == Init /\ [][Next]_vars
=============================================================================
