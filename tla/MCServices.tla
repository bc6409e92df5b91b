------------------------------ MODULE MCServices ------------------------------
(***************************************************************************)
(* The parts that run a caller's functions, side by side: a behaviour is   *)
(* one of the worker pool, of GetOrFetch, of a shutdown, of a parallel     *)
(* call, of a health check, of an HTTP round trip, of a retry or of a      *)
(* request on its way through the middleware around its handler, and       *)
(* leaves the others alone.                                                *)
(***************************************************************************)
EXTENDS WorkerPool, Shutdown, Integers

CONSTANTS Fetchers, Checkers, NTasks, NilTasks, concurrency, Attempts, InitialWaits, MaxWaits

\* None is no caller, no index or attempt, and no error.
ASSUME ServicesAssumption ==
    /\ NTasks \in Nat /\ NilTasks \subseteq 1 .. NTasks
    /\ Attempts \in Int /\ InitialWaits \subseteq Int /\ MaxWaits \subseteq Int
    /\ None \notin Fetchers /\ None \notin Int
    /\ None \notin {"ctxErr", "readErr", "ErrRateLimited", "ErrCircuitOpen", "attemptErr",
                   "ok", "err", "ErrMaxAttemptsReached"}

VARIABLES
    part,
    cached, step, cancelled, flight, waiters, fetch, answer,
    limited, main, next, task, sem, parallelCtx, firstErr, first, ran,
    body, breaker, tripAt, tripAttempt, tripCtx, open, lastResp, lastErr, partial, tripResult,
    cfg, at, attempt, retryCtx, calls, waits, result,
    handler, check, outcome, results, resultsClosed, expired, report, heeds,
    stack, chain, depth, mode, sent, errors, panicked, span, spanEnded, logged, counted, active

Fetch == INSTANCE FetchCache
Par == INSTANCE Parallel WITH ctxDone <- parallelCtx
Http == INSTANCE HttpClient WITH
    at <- tripAt, attempt <- tripAttempt, ctxDone <- tripCtx, result <- tripResult
Retries == INSTANCE Retry WITH ctxDone <- retryCtx
Probe == INSTANCE Health WITH closed <- resultsClosed
Chain == INSTANCE MiddlewareChain

fetchVars == <<cached, step, cancelled, flight, waiters, fetch, answer>>
parVars == <<limited, main, next, task, sem, parallelCtx, firstErr, first, ran>>
httpVars == <<body, breaker, tripAt, tripAttempt, tripCtx, open, lastResp, lastErr, partial, tripResult>>
retryVars == <<cfg, at, attempt, retryCtx, calls, waits, result>>
healthVars == <<handler, check, outcome, results, resultsClosed, expired, report, heeds>>
chainVars == <<stack, chain, depth, mode, sent, errors, panicked, span, spanEnded, logged,
               counted, active>>

\* What an idle part leaves open at its start is irrelevant.
Untouched ==
    /\ part # "parallel" => limited
    /\ part # "http" => body = "none" /\ breaker = "absent"
    /\ part # "retry" => cfg.strategy = "constant" /\ cfg.initial = 0 /\ cfg.max = 0
    /\ part # "health" => heeds = {}

ServicesInit ==
    /\ part \in {"pool", "fetch", "shutdown", "parallel", "http", "retry", "health", "chain"}
    /\ Init /\ Fetch!Init /\ ShutdownInit /\ Par!Init /\ Http!Init /\ Retries!Init /\ Probe!Init
    /\ Untouched
    /\ Chain!Init
    /\ part # "chain" => stack = "http" /\ chain = <<"Telemetry", "Recovery", "Logger">>

PoolNext == part = "pool" /\ Next /\ UNCHANGED <<part, fetchVars, shutdownVars, parVars, httpVars, retryVars, healthVars, chainVars>>
FetchOnly(A) == part = "fetch" /\ A /\ UNCHANGED <<part, vars, shutdownVars, parVars, httpVars, retryVars, healthVars, chainVars>>
ShutOnly(A) == part = "shutdown" /\ A /\ UNCHANGED <<part, vars, fetchVars, parVars, httpVars, retryVars, healthVars, chainVars>>
ParOnly(A) == part = "parallel" /\ A /\ UNCHANGED <<part, vars, fetchVars, shutdownVars, httpVars, retryVars, healthVars, chainVars>>
HttpNext == part = "http" /\ Http!Next /\ UNCHANGED <<part, vars, fetchVars, shutdownVars, parVars, retryVars, healthVars, chainVars>>
RetryNext == part = "retry" /\ Retries!Next /\ UNCHANGED <<part, vars, fetchVars, shutdownVars, parVars, httpVars, healthVars, chainVars>>
HealthOnly(A) == part = "health" /\ A /\ UNCHANGED <<part, vars, fetchVars, shutdownVars, parVars, httpVars, retryVars, chainVars>>
ChainNext == part = "chain" /\ Chain!Next /\ UNCHANGED <<part, vars, fetchVars, shutdownVars, parVars, httpVars, retryVars, healthVars>>

ServicesNext ==
    \/ PoolNext \/ FetchOnly(Fetch!Next) \/ ShutOnly(ShutdownNext) \/ ParOnly(Par!Next) \/ HttpNext \/ RetryNext
    \/ HealthOnly(Probe!Next) \/ ChainNext

\* The fairness of each part, for the part that runs.
ServicesFairness ==
    /\ Fairness
    /\ \A p \in Fetchers :
         WF_fetchVars(FetchOnly(Fetch!CallStep(p))) /\ WF_fetchVars(FetchOnly(Fetch!FlightStep(p)))
    /\ WF_shutdownVars(ShutOnly(ExecuteStep)) /\ WF_shutdownVars(ShutOnly(Deadline))
    /\ \A h \in Hooks : WF_shutdownVars(ShutOnly(HookStep(h)))
    /\ WF_parVars(ParOnly(Par!MainStep))
    /\ \A t \in 1 .. NTasks : WF_parVars(ParOnly(Par!TaskStep(t)))
    /\ WF_healthVars(HealthOnly(Probe!Expire)) /\ WF_healthVars(HealthOnly(Probe!Answer))
    /\ \A c \in Checkers :
         /\ WF_healthVars(HealthOnly(Probe!CheckStep(c)))
         /\ WF_healthVars(HealthOnly(expired /\ c \in heeds /\ Probe!CheckReturns(c)))

ServicesSpec ==
    /\ ServicesInit
    /\ [][ServicesNext]_<<part, vars, fetchVars, shutdownVars, parVars, httpVars, retryVars, healthVars, chainVars>>
    /\ ServicesFairness

\* A caller of GetOrFetch whose context is done fails nobody else.
CancelIsolated == Fetch!CancelIsolated

\* Nobody waits for ever for the functions of others: a call of GetOrFetch returns when
\* its fetch does or its context is done, Parallel and ParallelLimit once their tasks
\* do, and the health handler once its context is done if the checkers heed it.
CallersReturn ==
    []<>(/\ part = "fetch" => Fetch!Settled
         /\ part = "parallel" => main = "returned"
         /\ part = "health" => Probe!Settled)

\* The error that Parallel and ParallelLimit return is the first there was, none means
\* all tasks succeeded, and no task they started still runs.
ResultTruthful == Par!ResultTruthful

\* A health report tells of every checker, and of nobody else's success.
HealthTruthful == Probe!HealthTruthful

\* A round trip closes every response it does not return, and no attempt sends a body
\* that an earlier one has consumed, if the caller's GetBody does not fail.
AttemptsClean == Http!ResponsesAccounted /\ Http!WholeBodySent

\* The circuit breaker is told what the caller of RoundTrip sees, timeouts apart.
BreakerToldTruth == Http!BreakerToldTruth

\* The calls and the sleeps of a retry stay within its configuration.
WithinLimits == Retries!WithinLimits

\* The spans of failed requests, and only theirs, are marked as failed.
FailuresTraced == Chain!FailuresTraced

\* REDMetrics counts what the client got.
CountedAsAnswered == Chain!CountedAsAnswered
===============================================================================
