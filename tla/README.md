# Verification of go-libs

TLA+ models of the concurrent and algorithmic parts of the go-libs packages,
the TLC runs that check them on small instances, and TLAPS proofs of their main
properties for every value of the constants. `PROJECT.json` is the index: parts,
runs, mutants, the source lines each definition models, findings, hazards and
theorems.

## The system

go-libs is a set of Go packages in four layers (`docs/ARCHITECTURE.md`). They
share no process-wide protocol: a service composes them, usually as an HTTP
pipeline (requestid, bodylimit, cors, recovery, logger, telemetry, ratelimit,
auth, rbac, idempotency).

| Part | State | Operations | What makes it hard |
| --- | --- | --- | --- |
| `workerpool` | RWMutex, `tasks` and `closed` channels, Once, WaitGroup | Submit, SubmitContext, Stop, StopWait, Drain, IsClosed | closing a channel others send on, a send that blocks under the read lock, several stoppers, tasks that submit tasks |
| `circuitbreaker` | state, in-flight probes, failure count or rolling window | Execute (canExecute, request, recordResult), State | results of an earlier period, probes racing for slots, panics in requests and callbacks |
| `cache` | sync.Map, atomic size, 16 stripe locks, singleflight | Get, Set, GetOrFetch, Delete, sweep, evictIfNeeded | size adjusted after the map, eviction under another key's stripe, a fetch that lands after a newer Set |
| `cache` LRU, FIFO, LFU | map plus linked lists, frequency buckets, `minFreq` | Get, Set, GetOrFetch, Delete | map and list must agree, `minFreq` can point at an empty bucket |
| `idempotency` | map of records, or a PostgreSQL table | Lock, Save, Unlock, Delete, eviction; the middleware around them | lock TTLs without owners, eviction of locks, a cancelled request context, two-statement reclaim |
| `ratelimit`, `db/ratelimit` | buckets or windows per key, garbage collection | Allow, AllowN, Remaining, Reset | orphaned buckets, truncation, windows longer than the idle timeout |
| `shutdown`, `async`, `health` | hooks, WaitGroup, error channel or Once | Execute, Wait, Parallel, ParallelLimit, Handler | the deadline races the last hook, returning before started work ends, checkers that come late |
| `retry`, `httpclient` | attempt count, breaker | Do, RoundTrip | retries around an open breaker, cancelled waits, bodies read twice |
| `clock` (fake), `jwks`, `logger` sampler | timers and tickers; key cache; a token bucket | Advance, Stop, Reset; GetECPublicKey; Handle | timers fired while stopped or reset, keys replaced while they are cached |
| `timeutil`, `ratelimit/realip.go` | none | BusinessDaysBetween, AddBusinessDays, RealIP | eras, leap days and weekends; headers that pass through many hands |
| `ginmw`, HTTP middleware | RED counters, the span; otherwise per request | one handler each | order around `c.Next`, panics, a response already started |
| `examples/microservice` | the packages above, wired together | the quote and task endpoints, start and shutdown | one breaker entered twice by a request, hooks that run side by side |
| `fsm`, `rbac`, `pagination`, `sliceutil` | none after construction | pure functions | wildcards, boundary arithmetic |
| `apperror`, `env`, `metrics`, `validation`, `maputil`, `stringutil`, `uuidutil`, `cryptoutil`, `db` | none of their own | parsing, formatting, library calls | nothing that a model reaches |

The properties worth stating, per part, are those the hazards of `PROJECT.json`
name.

## Modules

| Module | Models |
| --- | --- |
| `WorkerPool` | `workerpool/workerpool.go` |
| `BreakerLifecycle` | what `circuitbreaker/README.md` promises: the abstract breaker |
| `BreakerCore` | what `consecutive.go` and `ratio.go` have in common, with the decision to trip left open |
| `ConsecutiveBreaker` | `consecutive.go`: the core with a count of consecutive failures |
| `RatioBreaker` | `ratio.go`: the core with a rolling window of results |
| `IdempotencyMiddleware` | what `idempotency/middleware.go` and `ginmw/idempotency.go` do with a request, whatever the store |
| `MemoryStore` | `idempotency/memory.go` under the middleware |
| `PGStore` | `idempotency/postgres.go` under the middleware |
| `LFUCache` | `cache/lfu.go` |
| `ListCache`, `OrderedCache` | `cache/lru.go` and `cache/fifo.go` pointer by pointer, and the queue they implement |
| `SampledCache` | `cache/cache.go` with its default policy |
| `FetchCache` | GetOrFetch of the four backends over singleflight |
| `LimiterTable` | what `ratelimit/token_bucket.go` and `sliding_window.go` have in common: the map of entries, its collection and Reset |
| `TokenBucket`, `SlidingWindow` | the two limiters |
| `PGLimiter` | `db/ratelimit.go` |
| `Limiters` | the three limiters and the log sampler, side by side |
| `ConcurrentCaches` | the sampled cache and the key cache, side by side |
| `Shutdown` | `shutdown/shutdown.go` |
| `Parallel` | `async/parallel.go` |
| `HttpClient`, `Retry` | `httpclient/roundtripper.go` and `retry/retry.go` |
| `FakeClock` | `clock/fake.go` |
| `Health` | Handler of `health/health.go` |
| `Jwks` | `jwks/jwks.go` and the issuer whose keys it caches |
| `LogSampler` | `logger/sampler.go` |
| `RealIP` | `ratelimit/realip.go` and the proxies before it |
| `BusinessDays` | the business-day arithmetic of `timeutil/timeutil.go` |
| `MiddlewareChain` | a request's way through Telemetry, Recovery, ErrorHandler, Logger and REDMetrics of `ginmw`, or through `telemetry`, `recovery` and `logger` of net/http |
| `QuoteService` | the quote endpoint of `examples/microservice/main.go` over `ConsecutiveBreaker` |
| `Microservice` | task creation, start and shutdown of `examples/microservice/main.go` over `WorkerPool` and `Shutdown` |
| `MCWorkerPool` | the pool and the example service, side by side |
| `MCServices` | what runs a caller's functions: pool, GetOrFetch, shutdown, parallel calls, round trips, retries, health checks, the middleware chain |
| `MCConsecutiveBreaker` | the breaker with independent callers, and under the quote endpoint |
| `MCWindows` | what counts over time: ratio breaker, limiters, log sampler, simulated clock, calendar; and the client behind proxies |
| `MCIdempotency` | the middleware over the memory store whose locks last, over one in chaos, and over PostgreSQL |
| `MCCaches` | the cache backends, as `TypedCache` selects one, and the key cache |
| `*Proofs` | the theorems |

**WorkerPool.** A step is what one goroutine does between two points at which
another can see it. A call of Submit or SubmitContext goes `idle`, `rlock`
(waiting for `mu.RLock`), `poll` (holding it, about to test `isClosed` and
`closed`), `send` (in the select on `tasks`), then a result. `readers` and
`writerWaits` are the RWMutex with Go's rule that a waiting writer blocks new
readers. `once` and `stop` are `closeOnce` and the stoppers: close `closed`,
take the lock, set `isClosed` and close `tasks`, then wait for the workers. A
worker takes a task, runs it through `executeSafely` and takes the next; it
leaves when `tasks` is closed and empty. The body of a running task
may make the call of a task in `Nested`, and does not finish before that call
returns; only the contexts of `Expiring` tasks expire. Submitting to the closed
channel, or closing it twice, is the Go panic and is a state of the model.

**Breakers.** Each critical section under `mu` is one step; the request and the
state-change callback run between them, so calls interleave everywhere Go lets
them. `pc` says where a call stands (`idle`, `admitNotify`, in the request,
`resultNotify`), `isProbe` what canExecute told it. A request returns without
error, with one that counts, with a cancellation, or panics; with
`CallbackPanics` the callback may panic too, and then the deferred function of
Execute handles it as the code does. `sinceOpen` is the time since the circuit
opened, capped just above the reset timeout, where nothing further can be told
apart. In `RatioBreaker` a record holds its age and whether it failed; the
window drops records older than it, incrementally as evaluateRatio does.
`BreakerCore` takes the tripping decision as a parameter, so what is proved of
it holds for both breakers.

**Idempotency.** A request goes `idle`, `lock`, `handler`, then `save` or
`unlock`, and `done`; `answer` is what its client was told. A stored response is
named by the request whose handler wrote it, so a replay shows where it came
from. The two middlewares differ in three places, chosen by `Gin`: only the
net/http one can refuse a request without a key, only gin looks at an aborted
chain, and only gin unlocks after a failed Save. A method of the memory store is
one critical section and one step; making room, with its eviction, is part of
Lock and Save. In `PGStore` a call of Lock takes up to four steps, one per
statement, with `seen` the row it read; a statement can fail when the context is
done or the database fails, before or after it took effect. `began` is the time
Lock read, `now` the clock. `Prompt` is a hypothesis, not code: requests finish
before their lock expires. `Cancels`, `Deletes` and `DbFails` switch the
environment's steps on.

**Caches.** A method of the LRU, FIFO and LFU backends runs under one mutex and
is one step. In `ListCache` nodes come from a pool one larger than the capacity,
and the list is `head`, `tail` and two pointer functions. `LFUCache` keeps a
bucket as a sequence with its head first; `touched` is a history of use that the
code does not keep. In `SampledCache` a step is one operation on the sync.Map,
the counter or a stripe lock; `pc` says where in Set, Delete, Get or the sweep a
goroutine stands, and `target` is the key evictIfNeeded picked. Of an expiration
only whether it has passed is kept: an item without a TTL is one that never
takes `Expire`. Which of several entries is the oldest is left open.

**GetOrFetch.** `FetchCache` follows one key. A call checks its context, looks
the key up, joins the flight or starts one, and waits for its channel or its
context. The flight is a goroutine that outlives the call that started it.

**Limiters.** A call finds its entry under the map's lock and uses it under the
entry's own, with collections and Reset in between. Times are kept as ages, up
to where nothing further depends on them. `usage` is a reference that knows
nothing of tokens or windows: what a key was allowed, drained by the clock. An
entry that was dropped while a call held it makes the key `disturbed`, and the
bound is claimed only for other keys. The float64 of the sliding window's
estimate is a choice between the exact value and one below it. In `PGLimiter` a
caller reads its clock, and its upsert is a later atomic step whose answer may
be lost.

**Services.** In `Shutdown` a hook succeeds, fails, panics or never returns;
Execute's select takes either branch when both are ready. In `Parallel` the
caller's loop, the semaphore and each task's deferred calls are separate steps.
`HttpClient` names a response after its attempt and keeps the set of those whose
bodies are open; the limiter and the breaker answer as they like, and a GetBody
that came with the request may fail. `Retry` takes every strategy with several
waits and caps.

**FakeClock.** Each critical section is one step and a deadline is kept as the
time left to it, so the clock itself needs no bound. What the channels of timers
and tickers hold is left out.

**Health.** One request of Handler. A checker's goroutine returns from the
check, sends and counts itself done in separate steps; `heeds` are the checkers
that return once their context is done. A send to the closed channel is the Go
panic and is a state of the model.

**Jwks.** The issuer publishes a version of each key, or none, and changes it at
any time; `superseded` is how long ago. A caller's answer is recorded with its
`lag`: for how long the issuer had by then published another key than the one
given out. A fetch takes place within one instant, since the client's timeout of
seconds is small beside the cache's hours, and may read the keys before another
change.

**LogSampler.** Tokens are counted in ticks, so the code's fractions of a token
are whole numbers.

**RealIP.** The environment is modelled too: proxies of the service, which
either append to X-Forwarded-For or keep X-Real-IP and pass the other header on,
and other nodes, which write anything into both. ParseTrustedProxies is given all
of the proxies, some of them, or nothing that can be parsed; a proxy that is not
listed is a node like any other to the service. `ClientFound` has a premise: RealIP
reads X-Forwarded-For before X-Real-IP (`realip.go:61`, as its comment says in
rule 4), so a service whose proxies keep X-Real-IP finds its client only if no
address reaches it in X-Forwarded-For. Ports and white space are left out.

**BusinessDays.** `start` and `end` walk through the calendar, which is defined
day by day; the code's closed formulas are compared with counting.

**MiddlewareChain.** `depth` and `mode` are the call stack: down to the handler,
up again, or unwinding a panic, when only deferred functions run. Every order of
the middleware is an initial state. A span ignores marks after its end. `counted`
is the set of REDMetrics' totals that the request was added to: the switch over the
status adds a redirect, or a 101, to none of the classes.

**QuoteService.** A request is up to two concurrent calls of `ConsecutiveBreaker`,
the outer one of handleGetQuote and the inner one of the HTTP client, both on
the same variables. The module extends `ConsecutiveBreaker`, and its `Calls` are the
pairs of a request and one of the two. `recovered` is an assumption on the upstream, as
`healthy` is in `RecoversWhenHealthy`.

**Microservice.** The module extends `WorkerPool` and `Shutdown`, which take joint steps: the
hook `workerpool` is a stopper of the pool, `http_server` waits for the requests
that are being answered, a request is a call of Submit. When main returns
nothing moves any more.

## Runs

| Run | Checks | Bounds and why |
| --- | --- | --- |
| `workerpool_safety` | pool: no panic on a channel, no task lost, drain complete; example service: when it exits without an error every request is answered and every task confirmed with 201 was executed (`NoChannelPanic`, `NoTaskLost`, `DrainComplete`, `QueuedTasksRun`) | pool: 3 tasks, 2 workers, 2 stoppers, queue of 1, every task may nest and expire: fills the queue, occupies both workers and races two stops; service: the same tasks as requests and the three hooks |
| `services` | pool: StopWait returns, accepted tasks finish; GetOrFetch: a cancelled caller fails nobody else; shutdown: complete report, Execute returns and no goroutine is stuck; parallel calls: true results once all tasks are done; round trips: responses closed or returned, bodies sent whole unless GetBody fails, the breaker told the truth; retries: attempts and sleeps within the configuration, also when the context ends them; health: the answer tells of every checker; middleware: failed requests and no others have failed spans, requests are in the total, and in the totals of their class and of the errors as they were answered; none of these keeps its caller waiting (`CancelIsolated`, `ReportComplete`, `ResultTruthful`, `AttemptsClean`, `BreakerToldTruth`, `WithinLimits`, `HealthTruthful`, `FailuresTraced`, `CountedAsAnswered`, `StopReturns`, `AcceptedTasksFinish`, `CallersReturn`, `ShutdownEnds`) | pool: 1 worker, 3 tasks, one nested with a context that may expire, so that a task blocks on the only worker; 3 fetchers: a starter, one that joins, one that comes after the landing; 3 hooks; 3 checkers; 4 tasks, one nil, 2 at a time; 4 attempts; every order of the middleware |
| `consecutive_breaker` | one probe at a time; implements `BreakerLifecycle`; closes once requests succeed; under the quote endpoint the slot in use is counted once (`ProbesBounded`, `SlotsMatch`, `ImplementsLifecycle`, `RecoversWhenHealthy`) | 4 calls: a stale request, a probe and rejected calls at once; `maxHalfOpen = 0` exercises the default of one; 5 failures as in NewApp; under the endpoint the calls are those of 2 requests of 3 attempts |
| `rate_windows` | ratio breaker: a closed circuit is below its ratio, an ordinary request trips only on what is in the window; limiters: burst and refill of the token bucket, the weighted limit of the sliding window, the limit replicas share for the whole of its window; sampler: burst and refill; simulated clock: everything armed is listed once and not due, BlockUntil misses no wake-up; business days counted right; the client found behind proxies that maintain the header RealIP reads (`ClosedBelowRatio`, `RateHolds`, `WindowHolds`, `SharedLimitHolds`, `ClockFaithful`, `BusinessDaysCorrect`, `ClientFound`, `TripsOnWindowOnly`) | breaker: 3 calls, 2 slots, panicking callbacks, window of 2, 4 records; limiters: 2 goroutines on one key, 3 identities for entries, a limit of 2, idle timeouts that let entries be collected; 3 replicas, 5 half seconds; clock: 2 timers, a ticker, a sleeper, durations from -1 to 2; calendar: a year from each of 4 dates, one before an era that is negative, intervals up to 9 days, amounts from -13 to 13 with the bound at 12; 2 proxies, any of them listed as trusted, 2 other nodes, 4 header entries |
| `idempotency` | memory store: one valid lock per key, one success per key; memory store in chaos and PostgreSQL: replays are truthful; PostgreSQL: one valid lease per key, responses are kept (`LockExclusive`, `AtMostOneSuccess`, `ReplaysTruthful`, `PGLockExclusive`, `PGResponseKept`) | 3 requests, 3 keys, lock TTL of 1, no entry bound, `Prompt`; chaos: 2 entries, TTLs of 1, slow requests, cancellation, deletions; PostgreSQL: 3 requests on one key, TTLs of 1, cancellation, failing statements, deletions, `Prompt` |
| `caches` | LFU evicts a least used item, ties by recency; LRU and FIFO implement the queue; the capacity is restored after races; clean-ups spare live entries when a capacity is set; replaced keys are given out for less than the TTL (`KeysFresh`, `CapacityRestored`, `EvictsLeastUsed`, `TiesByRecency`, `ImplementsQueue`, `BoundedCleanUpSparesLive`) | LFU and lists: 4 keys for 3 places, frequencies up to 3; default cache: 3 goroutines, 3 keys on 2 stripes, capacity 1 or none; key cache: 2 callers, 2 kids, TTL of 2 ticks, 2 versions of a key |
| `consecutive_stale_probe` | violation: more probes than slots (`ProbesBounded`) | see Findings |
| `quote_stuck` | violation: the circuit stays open although the upstream is healthy (`QuotesRecover`) | see Findings |
| `panic_unlogged` | violation: a request that panics is not in the access log (`EveryRequestLogged`) | see Findings |
| `memory_cancelled` | violation: a retry after a failure is refused (`RetryAfterFailure`) | see Findings |
| `cache_lost_write` | violation: a clean-up removes a live entry (`CleanUpSparesLive`) | see Findings |
| `window_forgotten` | violation: a sliding window is forgotten while it counts (`WindowHolds`) | see Findings |

Three requests are what the idempotency hazards need: a slow holder, its
successor, and a third that profits from the mistake. `MaxTime` bounds the clock;
with TTLs of one tick, three ticks let a lock expire, its successor's lock
expire and a response expire. The stores in chaos and PostgreSQL have two ticks,
`ChaosTime`: a lock and its successor's expire.

The age of the key cache and of a rotation are kept up to `cacheTTL`, where
nothing further can be told apart. The header of `RealIP` holds up to two foreign
entries and those of two proxies. `AddBusinessDays` is bounded at 12 instead of
1000000, so that amounts beyond the bound are among those tried.

`MaxRecords` bounds the records kept in a window; the code has no such bound.
Four records are more than `minRequests`, so windows below, at and above it are
all reached. The reset timeout is one tick: only "passed" and "not passed" matter.
`MaxTime` also bounds the clock of `PGLimiter`, at two windows and a tick.
`MaxLeft` bounds how far the simulated clock is set back.

The passing runs check several parts each: `part` is chosen at the start and only
that part moves. The parts share no state, so a run over their union says of
each what a run of its own would. `services` does not check for deadlock because
its parts end: a shutdown, a parallel call, a round trip, a retry and a health
check return.

Each property of a passing run has a mutant: a plausible slip in the modelled
code (a dropped guard, a missing reset) under which the same run fails.

## Fairness

The Go scheduler runs every goroutine that can run, so each step of a call, a
worker or a stopper that has begun is weakly fair. Nobody is obliged to call
Submit or Stop and no context is obliged to expire. Tasks and requests return
in the end, which is an assumption on the caller's code. `AcceptedTasksFinish`
assumes that the pool is, again and again, not `Wedged`: every worker running a
task that waits for room in the queue of its own pool. `RecoversWhenHealthy`
further assumes that time passes and that the service keeps making calls: a
breaker moves only when it is called. Its premise `healthy` says that from some
point on every request succeeds.

In the other parts of `services` the goroutines of the packages proceed and the
deadline of a shutdown comes. A hook or a fetchFn need not return; the tasks of
a parallel call do, and so does a checker that heeds its context once that is
done, as it will be after five seconds. `CallersReturn` therefore excepts calls
that wait, uncancelled, for a fetchFn that never returns, and health requests with
a checker that ignores its context. Round trips and retries have safety properties
only. The fairness of a part is stated for behaviours of that part.

`QuotesRecover` has the fairness of `RecoversWhenHealthy`: clients keep asking, time
passes, and requests that have begun go on. Its counterexample is not one in which
the service stops: probe after probe is admitted and fails.

## Proofs

Checked by TLAPS for every set of tasks, workers, stoppers, hooks and calls and every
configuration.

- `PoolAndLFUProofs`, on the worker pool. `Invariance` is the inductive invariant: `LockInv` (who
  holds the read lock), `CloseInv` (`closed` before `isClosed`, `isClosed` with
  `tasks`, no reader afterwards), `OnceInv` (one stopper inside Do), `SendInv`,
  `LateInv`, `TaskInv` (an accepted task is in exactly one place, with the number
  of starts that place implies) and `ExitInv` (workers leave an empty closed
  channel). The properties alone are not inductive: that no send hits a closed
  channel needs that the closer excludes readers, and a complete drain needs
  that nobody can send once a worker has left. From it follow `TypeCorrect`,
  `ChannelSafety`, `TasksConserved`, `TasksRunOnce`, `DrainIsComplete` and
  `LateCallsRejected`.
- `PoolAndLFUProofs`, on the shutdown manager. `ShutInv` (an error is with its hook, in the
  channel or in the report; the channel is closed after every hook is done) gives
  `ReportsAreComplete` for any set of hooks.
- `PoolAndLFUProofs`, on the example service. `ConfirmedTasksRun` joins three invariants.
  `ServiceUsesPool` and `ServiceUsesManager` show that a step of the service is a step or
  a stutter of the pool and of the manager, so that both keep what was proved of them.
  `HooksInv` is the service's own: all three hooks run, a hook that has returned nil
  (`Settled`) has done its work, and 201 is answered only for an accepted task. A report
  without errors means, by `ShutInv`, that every hook has settled; the server then has no
  request left, StopWait has returned, and `DrainComplete` says that every accepted task
  was executed. `ReturnSettles` and `ServiceSettles` show that only the hooks' own returns
  settle them, which is why a hook that fails at the deadline is not mistaken for one that
  finished.
- `BreakerProofs`. `CoreTypeCorrect`; `BreakerNeverFreezes`, for any number of
  slots when callbacks do not panic, from `SlotInv` (a taken slot belongs to a
  probe in flight, stale ones included); `OneProbeInFlight` and
  `CoreImplementsLifecycle`, for one slot, from `OneProbe` (slot and probe come
  and go together, only in half open) and `AdmitInv`. Both hypotheses are
  needed: with two slots `consecutive_stale_probe` exceeds the limit, and a callback
  that panics inside canExecute, before Execute has registered its recovery, keeps
  its slot for good.
  The consecutive breaker inherits these because each of its steps is a step of the
  core (`ConsecutiveIsCore`), and adds `ThresholdHolds` and `ConsecutiveTypeCorrect`.
  The quote endpoint inherits them in turn (`QuoteUsesBreaker`): what its nested calls
  do to the breaker are steps of independent callers. `QuoteImplementsLifecycle` is one
  consequence; `QuoteSlotsMatch` is another, since under `OneProbe` the slots in use
  are as many as the probes in flight (`OneProbeCounts`).
  So does the ratio breaker (`RatioIsCore`, `RatioImplementsLifecycle`), which adds
  `CountIsExact`, `RatioHolds` and `TripsOnWindow`: failureCount is the number of
  failures in the window, a closed circuit is below its ratio, and what trips it is
  in the window. The count is adjusted by what is appended and pruned, so the proof
  rests on counting: the records are what is pruned and what is kept
  (`PruningSplits`, `FailedSplit`), and appending adds at most one (`FailedAppend`);
  ageing changes no record's outcome (`AgedRecords`). The ratio alone is not
  inductive: that the decision to trip was taken on the right count needs
  `CountIsExact`. `TripsOnWindow` also needs that records are in the order of their
  ages (`InOrder`): evaluateRatio prunes up to the first record that is still valid,
  and drops every stale one only if none comes after it.
- `MemoryStoreProofs`. Which hypotheses each promise needs. `ReplaysAreTruthful`
  needs none (`StoredTruthful`: a stored response was written by a successful
  handler of that key). `StoreIsBounded` and `TypeCorrect` need none either.
  `LocksAreReleased` needs that no context is cancelled. `LocksAreExclusive` and
  `ResponsesAreKept` need `LocksLast`: no entry bound, no Delete of a key in use,
  and handlers that finish within the lock's TTL or no TTL; from `HeldInv` (the record of a
  key in use is in progress, no older than its holder's lock, and has one holder).
  `SuccessHappensOnce` also needs that nothing expires or is deleted. The hypotheses
  are those the code needs: at maxEntries the store evicts the oldest record, a
  lock in use included; and a lock has no owner, so a request whose lock expired
  and was taken over releases its successor's lock when it fails.
- `PGStoreProofs`. `PGReplaysAreTruthful` needs no hypothesis: `TruthInv` says that a
  response in the table, and one that a statement has read and not yet acted on, was
  written by a successful handler of that key. `PGLocksAreExclusive` and
  `PGResponsesAreKept` need `PromptTTLs`: requests finish before their lock expires, no
  key that is held is deleted, and the response TTL is no shorter than the lock TTL
  (reclaiming looks at `expires_at` first). Four statements of several replicas interleave,
  so what a request read may be stale when it acts; `LockEffect` sums up what
  they have in common: a statement writes at most a lease, and only over a row that
  `RowFree` says nobody can be using, whether or not the request learns of it. `HoldInv`
  says that a holder's row is in progress, is the lease it wrote and has not expired,
  and that two holders have two keys; `TimeInv` that nobody began in the future, and
  `PGSeenInv` what a request that is about to reclaim has seen.
- `PoolAndLFUProofs`, on the LFU cache. `LFUIsBounded`, `BucketsAgree` and `LeastUsedIsEvicted`, for
  any keys, capacity and bound on frequencies. The capacity is not inductive:
  removeNode advances `minFreq` by one even when the next bucket is empty, so
  `minFreq` may name an empty bucket. `MinFreqInv` says that
  `minFreq` is at most every frequency, and that a full cache has an item of that
  frequency: a removal leaves the cache below its capacity, and a use that empties
  the bucket moves its item to the next one. `BucketSets` ties buckets to items.
  The lemmas assume `Counting`, the facts about cardinalities they need, and `LFUCounting`
  derives it from the finiteness of the keys.
- `LimiterProofs` and `SlidingWindowProofs`. `RateIsHeld`, `SharedLimitIsKept` and
  `WindowIsHeld`, for any goroutines, keys, replicas and configuration. The two
  limiters in memory share `TableInv`: what the map or a call refers to exists, no
  two keys share an entry, and a call that is about to use an entry has the one the
  map has for its key, unless the key was disturbed. There is one lemma for each kind of
  step on the table (`TableLookup`, `TableCreate`, `TableFinish`, `TableDrop`,
  `TableTick`). On top of it `BucketInv` balances the bucket: what was allowed and has
  not drained, the tokens left and the time since the refill never add up to more than
  the capacity, but for the fraction of a token that a full bucket forgets. A key
  without a bucket has drained, which is where the idle timeout has to be long
  enough for a bucket to fill up; `RateHolds` says so. `Counted` says of the sliding
  window that an entry's counts are those of the clock's two windows, wherever its
  own have got stuck (`Agree`), and that windows start together for all keys
  (`Aligned`). `WithinLimit` is kept by a use because the estimate is at most one below
  the exact weight (`EstimatedUse`), and by a tick because the weight of the previous
  window only falls until the next one starts, when the current count takes its place
  (`NextPhase`, `NextAge`, `NextWeight`: integer arithmetic with
  quotients). `WindowIsHeld` assumes that the idle timeout outlasts two windows less a
  tick, which `window_forgotten` shows to be needed. `SharedLimitIsKept` assumes that
  the window is one the statement can express, in whole seconds: otherwise its end
  in SQL and in Go differ. `SharedInv` says that the row counts at least what was
  allowed.
- `CachesProofs`. For the default cache, with any goroutines, keys, stripes and
  capacity: `SizeTracksTheMap`, `CapacityIsRestored` and `CleanUpsSpareLive`. The
  capacity by itself is not inductive, since writers exceed it. `RoomInv` says that then
  some call under way will look at the size again before it returns, and `CountedWithin` that a
  size within the capacity means a map within it, or a call that has stored and not
  counted yet; this is where the counter has to be exact up to the calls between
  the two updates, which finite-set counting shows. `StripeInv` says that a call
  holds its key's stripe, and that what a clean-up has seen expired is not replaced
  while it does. For the key cache: `KeysAreFresh`, for any callers, kids and TTL,
  from `KeyCacheInv`, that a cached key that is no longer the published one was superseded
  no longer ago than the last fetch, and `BodyInv`, the same of an answer on its way.
  `WriterInv` says that only the holder of the write lock fetches, so that no
  other fetch, and no time, comes between.
- `ServicesProofs`. One inductive invariant for each part of `MCServices` but the pool
  and the shutdown manager.
  `HealthInv` (while the handler waits the channel holds the results of those that
  have sent, and once it is closed all have) gives `HealthIsTruthful`. `FetchInv` (a
  flight that has not landed is the one in singleflight's map, and its context is
  never done) gives `CancelsAreIsolated` and `FetchesAreSingle`. `ParInv` (the loop has started what is before it, and
  while there is no error all that ended succeeded) gives `ResultsAreTruthful`.
  `HttpInv` (which response is open at which point of a round trip) gives
  `AttemptsAreClean` and `BreakerIsToldTruth`. `RetryInv` (calls and sleeps keep step with
  the attempts) gives `RetriesStayWithinLimits`; `WaitBounded` is about computeWait.
  `ChainInv` gives `FailuresAreTraced` and `CountsAreAnswers` for every order of the
  middleware: `DownInv` and `UpInv` say where in the stack a request and a panic can be,
  `SpanInv` that an open span is marked only for a reason and for every panic that
  recovery has ended, and that an ended one remains true, and `CountInv` that a request
  inside REDMetrics is in the total only and that, when whatever answers is inside it, the
  totals it is in afterwards are those of the answer. The theorems need
  the premises the properties state: in net/http telemetry has to be outside recovery,
  and REDMetrics outside recovery and the error handler.

`LimiterProofs`, `SlidingWindowProofs`, `CachesProofs` and `ServicesProofs` are about
specifications in which one of several parts moves. A first lemma of each
(`LimitersSteps`, `CachesSteps`, `ServicesSteps`) shows that every step is a step or a
stutter of each part, and the rest is about the parts' own next-state relations.

Assumptions: `PoolAssumption` (some worker, a queue size of at least one; New
substitutes defaults for smaller values), `CoreAssumption`, `ConsecutiveAssumption` and
`RatioAssumption` on the breakers' parameters, `MiddlewareAssumption` and
`MemoryAssumption` (finitely many keys, natural TTLs, and a `None` distinct from every
record), `PGAssumption` (positive TTLs, which NewPGStore enforces),
`LFUAssumption` (finitely many keys, and room for a second frequency),
`CachesAssumption` (finitely many goroutines and keys, natural capacities, a positive
TTL), `LimitersAssumption` (integers as configuration, any sign, since initDefaults
replaces what is not positive; natural amounts) and `ServicesAssumption`. Each also
says that `None` is none of the values it is told apart from. `QuoteAssumption` is
NewApp's configuration of the breaker: the calls are those of the requests, the number
of probes is left to its default and the callback only logs. `ServiceAssumption` says that
the hooks are the three that main registers. `Ids`, the identities of
entries, is any set: with too few of them a step that needs a new one is not taken,
and one for each key and goroutine is always enough.

Only model-checked:

- liveness (`StopReturns`, `AcceptedTasksFinish`, `RecoversWhenHealthy`,
  `CallersReturn`, `ShutdownEnds`), which is outside the prover;
- `BusinessDaysCorrect`, `ClientFound` and `ClockFaithful`: what the code computes from
  every date, header or list of timers needs induction over data, which is outside the
  prover too;
- `TiesByRecency` and `ImplementsQueue`, for which the sequences of a bucket and of a
  chain of pointers would have to be followed element by element.

What is proved for every value of the constants and follows the other properties
closely is not checked a second time by TLC: type correctness, `RunsAtMostOnce`,
`ClosedPoolRejects`, `NeverFrozen`, `ClosedBelowThreshold`, `NoOrphanLock`,
`EntriesBounded`, `ResponseKept` of the memory store, `CapacityHolds`,
`BucketsMatchItems`, `CountMatchesRecords`, `SizeTracksMap` and `OneFetchAtATime`.

## Findings

All are disagreements between a document, a comment or a test and the code.

- `quote_stuck`. `circuitbreaker/README.md:48-49` says that after `resetTimeout` "a
  single test probe request is permitted through" and that its success closes the
  circuit. handleGetQuote calls Execute around calls of a client that has the same
  breaker: when the circuit half-opens the outer call takes the only slot, the
  inner ones are refused, and the outer one fails as a probe. With an upstream
  configured an open circuit never closes again. `SlotsMatch` shows that the slots
  themselves are counted right; the breaker does what it was asked.
- `panic_unlogged`. `logger/middleware.go:103` says that the middleware "logs every
  HTTP request and response". It logs after the handler has returned, so in the
  order of `docs/ARCHITECTURE.md:73`, with recovery outside it, a request that
  panics leaves no line. With the logger outside recovery it does.
- `consecutive_stale_probe`. `circuitbreaker/circuitbreaker.go:88` says that
  WithHalfOpenProbes sets "the maximum number of concurrent probe requests".
  With two slots, one probe fails and reopens the circuit while the other runs
  on; after the reset timeout canExecute starts counting from one again and three
  probes run at once. With one slot, the default, the limit is proved.
- `memory_cancelled`. `idempotency/README.md:71` says that a failing handler's lock
  is released "so the client can safely retry". The release uses the request's
  context and does nothing once the client has gone; without a lock TTL, the
  default, the key stays locked.
- `window_forgotten`. `ratelimit/sliding_window.go:35` calls the limit the "maximum
  number of requests allowed within any sliding window". The collection drops an
  entry whose window began more than five minutes ago, also when the window is
  longer than that: the key's next call starts from nothing in the same window.
  `WindowHolds` asks less than that line: no more than the limit in a window as the
  code aligns it, and no more than one above it, for rounding, in the weighted sum of
  that window and the one before. `rate_windows` shows this much for windows that fit the idle timeout.
- `cache_lost_write`. `cache/cache_test.go:565` says "No-TTL entry must survive
  background eviction sweeps". Without a capacity, the default, Set stores without
  the stripe's lock: an entry stored between a clean-up's recheck and its
  LoadAndDelete is removed although it has not expired.

## Not modelled

Metrics, logging and the wording of errors are left out, but for the access log,
the spans and REDMetrics in `MiddlewareChain` and the sampling of records. A task that
calls StopWait on its own pool waits for itself; the code promises nothing about
it. The order in which callbacks of two transitions run is not fixed by the code
or its documents. Neither are clocks of replicas that disagree: a skew acts like a
shorter lease. A Set or Delete during the fetch of its key is overwritten by the
fetched value; the body of a response is read after the deferred cancels of
RoundTrip and of its attempt, which the model leaves out; the transport's linear
back-off may overflow. No text of the repository promises otherwise, and no property
states it. A token bucket that takes longer than the idle timeout to fill up is
collected and replaced by a full one, although `ratelimit/token_bucket.go:13` says
that it "refills at a steady rate": `RateHolds` has the premise that the idle timeout
lets a bucket fill up. Submit's refusal of a nil task (`workerpool.go:164`) comes
before any of its steps and changes nothing. The
loser of a race to reclaim an expired row of the PostgreSQL store returns that
row, and the middleware replays it; `idempotency` does not ask whether a replayed
response is still active.

A health checker that ignores its context keeps Handler waiting. Keys that the
issuer withdraws stay in the JWKS cache until the process ends, and a kid that is
not there gets any other key. In net/http a span of telemetry that is inside
recovery ends without a mark when the handler panics; `FailuresTraced` covers the
other order. REDMetrics inside Recovery or ErrorHandler counts a request before
they answer for it, as do the metrics that the example service registers itself,
which skip panics; `CountedAsAnswered` covers REDMetrics outside them. It also says
what REDMetrics does with a redirect: it is in `RequestsTotal` and in none of the
classes, while the help text calls the responses "partitioned by status class"
(`ginmw/red_metrics.go:106`). When a GetBody of the caller's own fails, a retry sends
the rest of the body that the first attempt has read (`httpclient/roundtripper.go:201`).
A request of the example service that is in flight when the pool closes is refused with 503.

Parts without a model:

- `fsm`, `rbac`, `pagination` and `sliceutil` are pure functions of their
  arguments: a transition table that is never changed, the matching of permission
  strings, clamped page numbers and encoded cursors. A model would repeat the
  function or put strings together.
- `apperror`, `env`, `metrics`, `validation`, `maputil`, `stringutil`, `uuidutil`,
  `cryptoutil` and the connection set-up of `db` format, parse or call libraries.
- Of the middleware: request ids, body limits, CORS, security headers, tenants,
  JWT checks and the set-up of exporters, which read or write one request's
  headers. Of `logger`: attributes and redaction. Of `timeutil`: parsing,
  formatting and the bounds of a day.
- Of `examples/microservice`: the item endpoints, configuration and the load
  generator.
