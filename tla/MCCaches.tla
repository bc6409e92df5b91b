------------------------------ MODULE MCCaches ------------------------------
(***************************************************************************)
(* The cache backends of TypedCache side by side: a behaviour is one of    *)
(* the LFU cache, of the LRU or FIFO list cache, of the sampled cache, or  *)
(* of the key cache of jwks, and leaves the others in their initial states.*)
(***************************************************************************)
EXTENDS LFUCache, ConcurrentCaches, TLC

CONSTANTS Parts    \* the backends of this run

VARIABLES policy, nodeOf, node, list

List == INSTANCE ListCache WITH Capacity <- capacity, items <- nodeOf

\* Two of three keys share a stripe.
TwoStripes == [k \in SampledKeys |-> IF k = "b" THEN 2 ELSE 1]

\* The queue that the list cache implements; outside its behaviours, an empty one.
Queue == INSTANCE OrderedCache WITH
    Capacity <- capacity,
    order <- IF part = "list" THEN List!Order ELSE <<>>,
    expired <- IF part = "list" THEN List!Expired ELSE {}

listVars == <<policy, nodeOf, node, list>>

CacheInit ==
    /\ part \in Parts
    /\ LFUInit
    /\ List!Init /\ (part = "list" \/ policy = "EvictionLRU")
    /\ ConcurrentInit
    /\ part = "sampled" \/ \A c \in Capacities : sCapacity <= c
    /\ part = "jwks" \/ \A k \in DOMAIN published : published[k] = 0
    /\ \A c \in Callers : kid[c] = CHOOSE k \in Kids : TRUE

CacheNext ==
    \/ part = "lfu" /\ LFUNext /\ UNCHANGED <<part, listVars, sampledVars, jwksVars>>
    \/ part = "list" /\ List!Next /\ UNCHANGED <<part, lfuVars, sampledVars, jwksVars>>
    \/ ConcurrentNext /\ UNCHANGED <<lfuVars, listVars>>

CacheSpec == CacheInit /\ [][CacheNext]_<<part, lfuVars, listVars, sampledVars, jwksVars>>

Symmetry == Permutations(Procs)

\* The pointers of the LRU and FIFO backends implement the queue of OrderedCache:
\* room is made by evicting the least recently used (LRU) or first inserted (FIFO)
\* item, and nothing else leaves the cache but by Delete or expiration.
ImplementsQueue == Queue!Spec
=============================================================================
