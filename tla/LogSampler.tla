------------------------------ MODULE LogSampler ------------------------------
(***************************************************************************)
(* SamplingHandler of logger/sampler.go with its token bucket.  Handlers   *)
(* derived by WithAttrs and WithGroup share one sampler.  Tokens are       *)
(* counted in ticks of time, say seconds: refillInterval of them make one. *)
(***************************************************************************)
EXTENDS Naturals

CONSTANTS burst, refillInterval   \* as passed to NewSamplingHandler, 0 included

VARIABLES
    tokens,
    age,      \* the time since lastRefill
    passed    \* history: what was passed on below the bypass level, draining with time

vars == <<tokens, age, passed>>

Burst == IF burst <= 0 THEN 1 ELSE burst
Interval == IF refillInterval <= 0 THEN 1 ELSE refillInterval
Full == Burst * Interval

Init == tokens = Full /\ age = 0 /\ passed = 0

\* Mutant of Refilled: the bucket is not capped at its burst.
Refilled_Uncapped == tokens + age

Refilled == IF tokens + age > Full THEN Full ELSE tokens + age

\* A record below the bypass level: Allow decides, in one critical section.
Handle ==
    /\ age' = 0
    /\ \/ Refilled >= Interval /\ tokens' = Refilled - Interval /\ passed' = passed + Interval
       \/ Refilled < Interval /\ tokens' = Refilled /\ UNCHANGED passed

\* A record at or above it is passed on and asks the sampler nothing.
Bypass == UNCHANGED vars

\* Beyond Full the age makes no difference.
Tick ==
    /\ age' = IF age < Full THEN age + 1 ELSE age
    /\ passed' = IF passed = 0 THEN 0 ELSE passed - 1
    /\ UNCHANGED tokens

Next == Handle \/ Bypass \/ Tick

-----------------------------------------------------------------------------

\* In any interval no more is logged below the bypass level than a burst and one record
\* for each refillInterval of it (sampler.go:87-107).
SamplingHolds == passed <= Full
===============================================================================
