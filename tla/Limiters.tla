------------------------------ MODULE Limiters ------------------------------
(***************************************************************************)
(* The rate limiters side by side: a behaviour is one of the token bucket, *)
(* of the sliding window, of the PostgreSQL limiter or of the log sampler, *)
(* and leaves the others alone.                                            *)
(***************************************************************************)
EXTENDS Integers

CONSTANTS
    Procs, LimiterKeys, Ids, Amounts, None, gcInterval, limit,
    bucketIdle, refillRate,                   \* the token bucket
    slidingWindow, slidingIdle,               \* the sliding window
    Replicas, sharedWindow, MaxTime,          \* the PostgreSQL limiter; bound on its clock
    refillInterval                            \* the log sampler

ASSUME LimitersAssumption ==
    /\ Amounts \subseteq Nat
    /\ {gcInterval, limit, bucketIdle, refillRate, slidingWindow, slidingIdle, sharedWindow,
        refillInterval} \subseteq Int
    /\ None \notin Ids /\ None \notin LimiterKeys /\ None \notin [tokens : Nat, age : Nat]
    /\ None \notin [age : Nat, curr : Nat, prev : Nat] /\ None \notin [count : Nat, start : Nat]
    /\ None \notin [n : Nat, at : Nat]

VARIABLES
    part,
    table, entry, sinceGC, call, usage, disturbed, phase,
    time, row, upsert, allowed,
    tokens, age, passed

Token == INSTANCE TokenBucket WITH
    Keys <- LimiterKeys, idleTimeout <- bucketIdle, capacity <- limit

Sliding == INSTANCE SlidingWindow WITH
    Keys <- LimiterKeys, idleTimeout <- slidingIdle, window <- slidingWindow

Shared == INSTANCE PGLimiter WITH window <- sharedWindow, Amounts <- Amounts \ {0}

Sampler == INSTANCE LogSampler WITH burst <- limit

tableVars == <<table, entry, sinceGC, call, usage, disturbed, phase>>
sharedVars == <<time, row, upsert, allowed>>
samplerVars == <<tokens, age, passed>>
limiterVars == <<tableVars, sharedVars, samplerVars>>

LimitersInit ==
    /\ IF part = "sliding" THEN Sliding!Init ELSE Token!Init /\ phase = 0
    /\ Shared!Init
    /\ Sampler!Init

LimitersNext ==
    \/ part = "token" /\ Token!Next /\ UNCHANGED <<part, phase, sharedVars, samplerVars>>
    \/ part = "sliding" /\ Sliding!Next /\ UNCHANGED <<part, sharedVars, samplerVars>>
    \/ part = "shared" /\ Shared!Next /\ UNCHANGED <<part, tableVars, samplerVars>>
    \/ part = "sampler" /\ Sampler!Next /\ UNCHANGED <<part, tableVars, sharedVars>>

LimitersSpec == LimitersInit /\ [][LimitersNext]_<<part, limiterVars>>

\* The token bucket, and that of the log sampler, allow no more than a burst and the
\* refill.
RateHolds == (part = "token" => Token!RateHolds) /\ Sampler!SamplingHolds

\* The sliding window allows a key no more than its limit, across collections.
WindowHolds == part = "sliding" => Sliding!WindowHolds

\* Replicas that share a limit are allowed no more than it in a window of the row.
SharedLimitHolds == Shared!SharedLimitHolds
=============================================================================
