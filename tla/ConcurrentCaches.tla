-------------------------- MODULE ConcurrentCaches --------------------------
(***************************************************************************)
(* The caches whose operations take several steps, so that the calls of    *)
(* goroutines interleave: a behaviour is one of the sampled backend of     *)
(* TypedCache or one of the key cache of jwks, and leaves the other alone. *)
(***************************************************************************)
EXTENDS Naturals, FiniteSets

CONSTANTS
    Nil,
    Procs, SampledKeys, StripeOf, Capacities,     \* the sampled cache
    Callers, Kids, cacheTTL, Versions             \* the key cache of jwks

ASSUME CachesAssumption ==
    /\ IsFiniteSet(Procs) /\ IsFiniteSet(SampledKeys) /\ Capacities \subseteq Nat
    /\ Nil \notin Procs /\ Nil \notin SampledKeys
    /\ cacheTTL \in Nat \ {0} /\ Nil \notin Callers /\ Nil \notin [Kids -> Nat]

VARIABLES
    part,
    sCapacity, data, size, holder, pc, key, target, after, foiled,
    published, superseded, keyCache, age, writer, at, kid, body, told

Sampled == INSTANCE SampledCache WITH
    Keys <- SampledKeys, capacity <- sCapacity, None <- Nil

Issuer == INSTANCE Jwks WITH None <- Nil, cache <- keyCache, holder <- writer

sampledVars == <<sCapacity, data, size, holder, pc, key, target, after, foiled>>
jwksVars == <<published, superseded, keyCache, age, writer, at, kid, body, told>>

ConcurrentInit == Sampled!Init /\ Issuer!Init

ConcurrentNext ==
    \/ part = "sampled" /\ Sampled!Next /\ UNCHANGED <<part, jwksVars>>
    \/ part = "jwks" /\ Issuer!Next /\ UNCHANGED <<part, sampledVars>>

ConcurrentSpec == ConcurrentInit /\ [][ConcurrentNext]_<<part, sampledVars, jwksVars>>

\* The resolver of jwks gives out no key that was replaced cacheTTL ago.
KeysFresh == Issuer!KeysFresh

\* The sampled backend is within its capacity again once no call is under way.
CapacityRestored == Sampled!CapacityRestored

\* With a capacity, Get and the sweeper remove only expired entries.
BoundedCleanUpSparesLive == Sampled!BoundedCleanUpSparesLive

\* Get and the sweeper remove only expired entries, whatever the capacity.
CleanUpSparesLive == Sampled!CleanUpSparesLive
=============================================================================
