----------------------------- MODULE BreakerCore -----------------------------
(***************************************************************************)
(* The part that circuitbreaker/consecutive.go and circuitbreaker/ratio.go *)
(* have in common, line for line: Execute, canExecute, onPanic, transition *)
(* and the half-open probes, used by concurrent callers.  The two breakers *)
(* differ in when a result trips a closed circuit; here that is the        *)
(* parameter trips, which CoreSpec leaves open.                            *)
(*                                                                         *)
(* Each critical section of mu is one step.  The request itself and the    *)
(* onStateChange callback run outside the lock, so they are steps of their *)
(* own.  Only the time since openedAt is ever used, and only to compare it *)
(* with the reset timeout: sinceOpen stops at one unit past the timeout.   *)
(* A call that Execute rejects, or whose context had already expired,      *)
(* changes nothing.                                                        *)
(***************************************************************************)
EXTENDS Integers, FiniteSets

CONSTANTS
    Calls,           \* the concurrent callers of Execute
    resetTimeout,    \* as configured: initDefaults has not run yet
    maxHalfOpen,     \* as configured
    DefaultReset,    \* the reset timeout initDefaults puts in for a missing one
    CallbackPanics   \* whether the onStateChange callback may panic

ASSUME CoreAssumption ==
    /\ IsFiniteSet(Calls)
    /\ resetTimeout \in Int
    /\ maxHalfOpen \in Int
    /\ DefaultReset \in Nat \ {0}
    /\ CallbackPanics \in BOOLEAN

\* initDefaults: a value that is not positive is replaced.
Default(value, default) == IF value <= 0 THEN default ELSE value
ResetTimeout == Default(resetTimeout, DefaultReset)
MaxHalfOpen  == Default(maxHalfOpen, 1)

VARIABLES
    state,             \* cb.state
    halfOpenInFlight,  \* cb.halfOpenInFlight
    sinceOpen,         \* clock.Now() - cb.openedAt, up to ResetTimeout + 1
    pc,                \* where each caller stands in Execute
    isProbe,           \* whether canExecute admitted the caller as a probe
    healthy            \* requests fail no more (the dependency has recovered)

cbVars == <<state, halfOpenInFlight, sinceOpen>>
coreVars == <<state, halfOpenInFlight, sinceOpen, pc, isProbe, healthy>>

States == {"CLOSED", "OPEN", "HALF_OPEN"}

\* What a request returns, with an expired context turned into an error.
Errors == {"nil", "error", "Canceled"}

\* idle: not in Execute.  req: in the request.  The others are about to run the
\* callback that canExecute, recordResult or onPanic prepared.
Places == {"idle", "admitNotify", "req", "resultNotify", "panicNotify"}

CoreInit ==
    /\ state = "CLOSED"
    /\ halfOpenInFlight = 0
    /\ sinceOpen = ResetTimeout + 1
    /\ pc = [c \in Calls |-> "idle"]
    /\ isProbe = [c \in Calls |-> FALSE]
    /\ healthy = FALSE

\* The calls admitted as probes, and as ordinary requests, whose result has not
\* been recorded.
Probes  == {c \in Calls : isProbe[c] /\ pc[c] \in {"admitNotify", "req"}}
Normals == {c \in Calls : ~isProbe[c] /\ pc[c] = "req"}

\* What State() reports.
ReportedState ==
    IF state = "OPEN" /\ sinceOpen > ResetTimeout THEN "HALF_OPEN" ELSE state

-----------------------------------------------------------------------------
(* Execute                                                                 *)

\* Mutant of CanExecute: a half-open circuit does not count its probes.
CanExecute_UncountedProbe(c) ==
    /\ pc[c] = "idle"
    /\ state = "OPEN" => sinceOpen > ResetTimeout
    /\ state' = IF state = "CLOSED" THEN "CLOSED" ELSE "HALF_OPEN"
    /\ halfOpenInFlight' = IF state = "OPEN" THEN 1 ELSE halfOpenInFlight
    /\ pc' = [pc EXCEPT ![c] = IF state = "OPEN" THEN "admitNotify" ELSE "req"]
    /\ isProbe' = [isProbe EXCEPT ![c] = state # "CLOSED"]
    /\ UNCHANGED <<sinceOpen, healthy>>

\* Mutant of CanExecute: an open circuit is never half-opened.
CanExecute_StaysOpen(c) ==
    /\ pc[c] = "idle"
    /\ state = "CLOSED"
    /\ pc' = [pc EXCEPT ![c] = "req"]
    /\ isProbe' = [isProbe EXCEPT ![c] = FALSE]
    /\ UNCHANGED <<cbVars, healthy>>

\* canExecute.  In the remaining cases the call is rejected.
CanExecute(c) ==
    /\ pc[c] = "idle"
    /\ \/ /\ state = "CLOSED"
          /\ pc' = [pc EXCEPT ![c] = "req"]
          /\ isProbe' = [isProbe EXCEPT ![c] = FALSE]
          /\ UNCHANGED cbVars
       \/ /\ state = "OPEN"
          /\ sinceOpen > ResetTimeout
          /\ state' = "HALF_OPEN"
          /\ halfOpenInFlight' = 1
          /\ pc' = [pc EXCEPT ![c] = "admitNotify"]
          /\ isProbe' = [isProbe EXCEPT ![c] = TRUE]
          /\ UNCHANGED sinceOpen
       \/ /\ state = "HALF_OPEN"
          /\ halfOpenInFlight < MaxHalfOpen
          /\ halfOpenInFlight' = halfOpenInFlight + 1
          /\ pc' = [pc EXCEPT ![c] = "req"]
          /\ isProbe' = [isProbe EXCEPT ![c] = TRUE]
          /\ UNCHANGED <<state, sinceOpen>>
    /\ UNCHANGED healthy

\* transition(to) by caller c, whose callback, if it changed anything, runs at
\* place next.
Transition(c, to, next) ==
    /\ state' = to
    /\ pc' = [pc EXCEPT ![c] = IF state = to THEN "idle" ELSE next]

\* decrementHalfOpen
DecrementHalfOpen ==
    halfOpenInFlight' = IF halfOpenInFlight > 0 THEN halfOpenInFlight - 1 ELSE 0

\* A probe failed or panicked: the circuit is open, from now on.
ProbeFails(c, next) ==
    /\ DecrementHalfOpen
    /\ sinceOpen' = 0
    /\ Transition(c, "OPEN", next)

\* recordResult for a probe; a cancelled one decides nothing.
ProbeResult(c, err) ==
    \/ /\ err = "error"
       /\ ProbeFails(c, "resultNotify")
    \/ /\ err = "Canceled"
       /\ DecrementHalfOpen
       /\ pc' = [pc EXCEPT ![c] = "idle"]
       /\ UNCHANGED <<state, sinceOpen>>
    \/ /\ err = "nil"
       /\ DecrementHalfOpen
       /\ Transition(c, "CLOSED", "resultNotify")
       /\ UNCHANGED sinceOpen

\* Mutant of RequestResult: a late result counts whatever the state is.
RequestResult_AnyState(c, trips, next) ==
    /\ IF trips
       THEN sinceOpen' = 0 /\ Transition(c, "OPEN", next)
       ELSE pc' = [pc EXCEPT ![c] = "idle"] /\ UNCHANGED <<state, sinceOpen>>
    /\ UNCHANGED halfOpenInFlight

\* The result of an ordinary request: it is ignored unless the circuit is
\* closed, and then it may trip it.
RequestResult(c, trips, next) ==
    /\ IF state = "CLOSED" /\ trips
       THEN sinceOpen' = 0 /\ Transition(c, "OPEN", next)
       ELSE pc' = [pc EXCEPT ![c] = "idle"] /\ UNCHANGED <<state, sinceOpen>>
    /\ UNCHANGED halfOpenInFlight

OnPanic(c, trips) ==
    IF isProbe[c] THEN ProbeFails(c, "panicNotify")
                  ELSE RequestResult(c, trips, "panicNotify")

\* The request returns err and recordResult runs.
RequestReturns(c, err, trips) ==
    /\ pc[c] = "req"
    /\ healthy => err = "nil"
    /\ IF isProbe[c] THEN ProbeResult(c, err)
                     ELSE RequestResult(c, trips, "resultNotify")
    /\ UNCHANGED <<isProbe, healthy>>

\* The request panics and the deferred function runs.
RequestPanics(c, trips) ==
    /\ pc[c] = "req"
    /\ ~healthy
    /\ OnPanic(c, trips)
    /\ UNCHANGED <<isProbe, healthy>>

\* The callback returns: a probe goes on to its request, the others are done.
CallbackReturns(c) ==
    /\ pc[c] \in {"admitNotify", "resultNotify", "panicNotify"}
    /\ pc' = [pc EXCEPT ![c] = IF pc[c] = "admitNotify" THEN "req" ELSE "idle"]
    /\ UNCHANGED <<cbVars, isProbe, healthy>>

\* The callback panics where no deferred function is left to run: canExecute
\* returns before it is registered, and it runs once.
CallbackPanicEscapes(c) ==
    /\ CallbackPanics
    /\ pc[c] \in {"admitNotify", "panicNotify"}
    /\ pc' = [pc EXCEPT ![c] = "idle"]
    /\ UNCHANGED <<cbVars, isProbe, healthy>>

\* The callback panics after recordResult: the deferred function takes it for a
\* panic of the request.
CallbackPanicCounted(c, trips) ==
    /\ CallbackPanics
    /\ pc[c] = "resultNotify"
    /\ OnPanic(c, trips)
    /\ UNCHANGED <<isProbe, healthy>>

\* The deferred function runs; the callback ends, one way or the other.
Panics(c, trips) == RequestPanics(c, trips) \/ CallbackPanicCounted(c, trips)
CallbackEnds(c) == CallbackReturns(c) \/ CallbackPanicEscapes(c)

\* Time passes.
Tick ==
    /\ sinceOpen' = IF sinceOpen > ResetTimeout THEN sinceOpen ELSE sinceOpen + 1
    /\ UNCHANGED <<state, halfOpenInFlight, pc, isProbe, healthy>>

\* From now on every request succeeds.
Recover ==
    /\ ~healthy
    /\ healthy' = TRUE
    /\ UNCHANGED <<cbVars, pc, isProbe>>

CoreStep(c) ==
    \/ CanExecute(c)
    \/ \E trips \in BOOLEAN :
          \/ \E err \in Errors : RequestReturns(c, err, trips)
          \/ Panics(c, trips)
    \/ CallbackEnds(c)

CoreNext == (\E c \in Calls : CoreStep(c)) \/ Tick \/ Recover

CoreSpec == CoreInit /\ [][CoreNext]_coreVars

-----------------------------------------------------------------------------
(* Properties of every breaker built on it                                 *)

CoreTypeOK ==
    /\ state \in States
    /\ halfOpenInFlight \in 0..MaxHalfOpen
    /\ sinceOpen \in 0..(ResetTimeout + 1)
    /\ pc \in [Calls -> Places]
    /\ isProbe \in [Calls -> BOOLEAN]
    /\ healthy \in BOOLEAN

\* Never more than maxHalfOpen probes are in flight at once (canExecute;
\* circuitbreaker.go:88, README "Herd Stampede Prevention").
ProbesBounded == Cardinality(Probes) <= MaxHalfOpen

\* Whoever sees State() report HALF_OPEN while no probe is in flight may send
\* one: failed, cancelled and panicked probes, stale ones included, all give
\* back their slot, so the breaker cannot freeze (README "Panic Safety").
NeverFrozen ==
    ReportedState = "HALF_OPEN" /\ Probes = {}
        => state = "OPEN" \/ halfOpenInFlight < MaxHalfOpen

\* With one probe at a time the breaker implements the lifecycle its README
\* promises: stale requests of an earlier closed period change nothing in an
\* open or half-open circuit, and only the canary moves a half-open one.
Lifecycle == INSTANCE BreakerLifecycle WITH
    cooled  <- sinceOpen > ResetTimeout,
    probes  <- Probes,
    normals <- Normals

ImplementsLifecycle == Lifecycle!Spec

\* Once requests succeed and the service keeps making them, the circuit closes
\* for good: no sequence of trips, cancelled probes and panics leaves it stuck
\* (canExecute, recordResult, onPanic).
RecoversWhenHealthy == healthy ~> [](state = "CLOSED")
==============================================================================
