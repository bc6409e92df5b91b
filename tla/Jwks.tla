--------------------------------- MODULE Jwks ---------------------------------
(***************************************************************************)
(* Resolver of jwks/jwks.go: callers of GetECPublicKey share a cache of    *)
(* public keys that one of them at a time fetches again from the issuer,   *)
(* under the write lock, once it is older than cacheTTL.  Keys are never   *)
(* removed from the cache, and a failed fetch leaves it as it was.         *)
(*                                                                         *)
(* The issuer publishes for each kid one version of its key at a time, or  *)
(* none.  Only the age of the last fetch is ever used.                     *)
(***************************************************************************)
EXTENDS Naturals

CONSTANTS
    Callers,
    Kids,
    cacheTTL,
    Versions,    \* how often the issuer may change a key, at most
    None

VARIABLES
    published,   \* the issuer's version of each kid's key; 0: none
    superseded,  \* how long ago the issuer last changed it, up to cacheTTL
    cache,       \* r.cache; 0: not there
    age,         \* the time since r.lastFetch, up to cacheTTL
    holder,      \* who holds r.mu for writing, or None
    at,          \* where each caller stands
    kid,         \* the key it asks for
    body,        \* what the issuer answered to its fetch, or None
    told         \* what it was told: how the key was found, whose it is, and its lag

vars == <<published, superseded, cache, age, holder, at, kid, body, told>>

NoAnswer == [how |-> "none", lag |-> 0]

Init ==
    /\ published \in [Kids -> {0, 1}]
    /\ superseded = [k \in Kids |-> cacheTTL]
    /\ cache = [k \in Kids |-> 0]
    /\ age = cacheTTL
    /\ holder = None
    /\ at = [c \in Callers |-> "idle"]
    /\ kid \in [Callers -> Kids]
    /\ body = None
    /\ told = [c \in Callers |-> NoAnswer]

\* The lookup, under the read or the write lock.
Fresh(k) == cache[k] # 0 /\ age < cacheTTL

\* For how long the issuer had published another key for k than the one given out.
Lag(k, keys) == IF published[k] \in {0, keys[k]} THEN 0 ELSE superseded[k]

\* c returns with the key of its kid in keys, found in the way how.
Tell(c, how, keys) ==
    /\ at' = [at EXCEPT ![c] = "idle"]
    /\ told' = [told EXCEPT ![c] = [how |-> how, lag |-> Lag(kid[c], keys)]]

Refuse(c, how) ==
    /\ at' = [at EXCEPT ![c] = "idle"]
    /\ told' = [told EXCEPT ![c] = [how |-> how, lag |-> 0]]

\* getCachedKey; on a miss the caller goes on to the write lock, which waits for it.
GetCachedKey(c) ==
    /\ at[c] = "idle" /\ holder = None
    /\ \E k \in Kids : kid' = [kid EXCEPT ![c] = k]
    /\ IF Fresh(kid'[c])
       THEN told' = [told EXCEPT ![c] = [how |-> "cached", lag |-> Lag(kid'[c], cache)]] /\ UNCHANGED at
       ELSE at' = [at EXCEPT ![c] = "lock"] /\ told' = [told EXCEPT ![c] = NoAnswer]
    /\ UNCHANGED <<published, superseded, cache, age, holder, body>>

\* The write lock, the second lookup, and resolveJWKSURL, which may find no address.
Lock(c) ==
    /\ at[c] = "lock" /\ holder = None
    /\ \/ Fresh(kid[c]) /\ Tell(c, "cached", cache) /\ UNCHANGED holder
       \/ ~Fresh(kid[c]) /\ Refuse(c, "error") /\ UNCHANGED holder
       \/ /\ ~Fresh(kid[c])
          /\ holder' = c
          /\ at' = [at EXCEPT ![c] = "fetch"]
          /\ UNCHANGED told
    /\ UNCHANGED <<published, superseded, cache, age, kid, body>>

\* The issuer answers the request of fetchAndCacheKeys.
Respond(c) ==
    /\ at[c] = "fetch" /\ body = None
    /\ body' = published
    /\ UNCHANGED <<published, superseded, cache, age, holder, at, kid, told>>

\* Mutant of FetchFails: lastFetch is set although the fetch failed.
FetchFails_Counts(c) ==
    /\ at[c] = "fetch"
    /\ IF cache[kid[c]] # 0 THEN Tell(c, "stale", cache) ELSE Refuse(c, "error")
    /\ age' = 0
    /\ holder' = None /\ body' = None
    /\ UNCHANGED <<published, superseded, cache, kid>>

\* The fetch fails, the answer is not OK or not JSON: the old key is good enough.
FetchFails(c) ==
    /\ at[c] = "fetch"
    /\ IF cache[kid[c]] # 0 THEN Tell(c, "stale", cache) ELSE Refuse(c, "error")
    /\ holder' = None /\ body' = None
    /\ UNCHANGED <<published, superseded, cache, age, kid>>

\* The answer is cached; a kid that is in the cache no more than before gets any key.
FetchSucceeds(c) ==
    LET merged == [k \in Kids |-> IF body[k] # 0 THEN body[k] ELSE cache[k]]
    IN  /\ at[c] = "fetch" /\ body # None
        /\ cache' = merged
        /\ age' = 0
        /\ IF merged[kid[c]] # 0 THEN Tell(c, "fetched", merged)
           ELSE Refuse(c, IF \E k \in Kids : merged[k] # 0 THEN "other" ELSE "error")
        /\ holder' = None /\ body' = None
        /\ UNCHANGED <<published, superseded, kid>>

\* The issuer rotates or withdraws a key.
Rotate(k) ==
    /\ \/ published[k] < Versions /\ published' = [published EXCEPT ![k] = @ + 1]
       \/ published[k] = Versions /\ published' = [published EXCEPT ![k] = 0]
    /\ superseded' = [superseded EXCEPT ![k] = 0]
    /\ UNCHANGED <<cache, age, holder, at, kid, body, told>>

\* Time passes.  The client's timeout is far below cacheTTL: a fetch takes none.
Tick ==
    /\ holder = None
    /\ age' = IF age < cacheTTL THEN age + 1 ELSE age
    /\ superseded' = [k \in Kids |-> IF superseded[k] < cacheTTL THEN superseded[k] + 1 ELSE cacheTTL]
    /\ UNCHANGED <<published, cache, holder, at, kid, body, told>>

Step(c) == GetCachedKey(c) \/ Lock(c) \/ Respond(c) \/ FetchFails(c) \/ FetchSucceeds(c)

Next == (\E c \in Callers : Step(c)) \/ (\E k \in Kids : Rotate(k)) \/ Tick

Spec == Init /\ [][Next]_vars

-----------------------------------------------------------------------------

\* A key that the issuer has replaced is given out for less than cacheTTL, whoever
\* fetched it and whatever failed since, unless this call's own fetch failed
\* (jwks.go:58-100, 118-148).
KeysFresh == \A c \in Callers : told[c].how \in {"cached", "fetched"} => told[c].lag < cacheTTL
===============================================================================
