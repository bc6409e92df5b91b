---------------------------- MODULE ServicesProofs ----------------------------
(***************************************************************************)
(* Theorems about the parts that run a caller's functions: GetOrFetch,     *)
(* Parallel and ParallelLimit, the HTTP round trip, the retry loop, the    *)
(* health handler and the middleware around a handler.                     *)
(* Each is proved for the part's own next-state relation, for any number   *)
(* of callers, tasks, attempts and checkers, and then carried over to the  *)
(* behaviours of MCServices.                                               *)
(***************************************************************************)
EXTENDS MCServices, TLAPS

servicesVars == <<part, vars, fetchVars, shutdownVars, parVars, httpVars, retryVars, healthVars, chainVars>>

\* A step of one part is a step, or a stutter, of every part.
LEMMA ServicesSteps ==
    ASSUME [ServicesNext]_servicesVars
    PROVE  /\ [Fetch!Next]_fetchVars /\ [Par!Next]_parVars
           /\ [Http!Next]_httpVars /\ [Retries!Next]_retryVars /\ [Probe!Next]_healthVars
           /\ [Chain!Next]_chainVars
BY Zenon DEF ServicesNext, servicesVars, PoolNext, FetchOnly, ShutOnly, ParOnly, HttpNext, RetryNext,
             HealthOnly, ChainNext

-----------------------------------------------------------------------------
(* The health handler                                                      *)

\* The WaitGroup in terms of the channel: a result is in it, or was read from it, when
\* its checker has sent it, and the channel is closed when all have counted themselves
\* done.
HealthInv ==
    /\ handler \in {"idle", "wait", "answered"}
    /\ check \in [Checkers -> {"none", "running", "send", "sent", "done"}]
    /\ outcome \in [Checkers -> {"none", "pass", "fail"}]
    /\ resultsClosed = TRUE <=> handler = "answered"
    /\ handler = "idle" => \A c \in Checkers : check[c] = "none"
    /\ handler # "answered" => results = {c \in Checkers : check[c] \in {"sent", "done"}}
    /\ handler = "answered" => report = Checkers /\ \A c \in Checkers : check[c] = "done"

\* Every step of the handler and of its checkers keeps HealthInv.
LEMMA HealthStep == HealthInv /\ [Probe!Next]_healthVars => HealthInv'
<1> SUFFICES ASSUME HealthInv, [Probe!Next]_healthVars PROVE HealthInv'
  OBVIOUS
<1> USE DEF HealthInv
<1>1. CASE Probe!Start
  BY <1>1 DEF Probe!Start
<1>2. CASE Probe!Expire
  BY <1>2 DEF Probe!Expire
<1>3. CASE Probe!Answer
  BY <1>3 DEF Probe!Answer, Probe!AllDone
<1>4. ASSUME NEW c \in Checkers, Probe!CheckReturns(c) PROVE HealthInv'
  BY <1>4 DEF Probe!CheckReturns
<1>5. ASSUME NEW c \in Checkers, Probe!Send(c) PROVE HealthInv'
  <2>1. handler = "wait" /\ resultsClosed # TRUE
    BY <1>5, Zenon DEF Probe!Send
  <2>2. check' = [check EXCEPT ![c] = "sent"] /\ results' = results \cup {c}
    BY <1>5, <2>1, Zenon DEF Probe!Send
  <2> QED
    BY <1>5, <2>1, <2>2 DEF Probe!Send
<1>6. ASSUME NEW c \in Checkers, Probe!Done(c) PROVE HealthInv'
  BY <1>6 DEF Probe!Done
<1>7. CASE UNCHANGED healthVars
  BY <1>7 DEF healthVars
<1> QED
  BY <1>1, <1>2, <1>3, <1>4, <1>5, <1>6, <1>7, Zenon DEF Probe!Next, Probe!CheckStep

\* Whatever the checkers do, and whenever the deadline passes, an answer tells of all of
\* them and nobody sends to the closed channel.
THEOREM HealthIsTruthful == ServicesSpec => []HealthTruthful
<1>1. ServicesInit => HealthInv
  BY DEF ServicesInit, Probe!Init, HealthInv
<1>2. HealthInv => HealthTruthful
  BY DEF HealthInv, HealthTruthful, Probe!HealthTruthful, Probe!Healthy
<1> QED
  BY <1>1, <1>2, HealthStep, ServicesSteps, PTL DEF ServicesSpec, servicesVars

-----------------------------------------------------------------------------
(* GetOrFetch                                                              *)

\* The context that fetchFn gets is never done, so no flight brings back a context's
\* error; and a flight that has not landed is the one in singleflight's map.
FetchInv ==
    /\ fetch \in [Fetchers -> {"none", "fetching", "fetched", "fetchErr", "stored"}]
    /\ answer \in [Fetchers -> {None, "value", "fetchErr", "ctxErr"}]
    /\ \A p \in Fetchers : fetch[p] # "none" => flight = p
    /\ Fetch!CancelIsolated

\* Every step of the calls and of the flights keeps FetchInv.
LEMMA FetchStep == FetchInv /\ [Fetch!Next]_fetchVars => FetchInv'
<1> SUFFICES ASSUME FetchInv, [Fetch!Next]_fetchVars PROVE FetchInv'
  OBVIOUS
<1> USE ServicesAssumption DEF FetchInv, Fetch!CancelIsolated
<1>1. ASSUME NEW p \in Fetchers, Fetch!Begin(p) PROVE FetchInv'
  BY <1>1 DEF Fetch!Begin, Fetch!Return
<1>2. ASSUME NEW p \in Fetchers, Fetch!Look(p) PROVE FetchInv'
  BY <1>2 DEF Fetch!Look, Fetch!Return
<1>3. ASSUME NEW p \in Fetchers, Fetch!Join(p) PROVE FetchInv'
  BY <1>3 DEF Fetch!Join
<1>4. ASSUME NEW p \in Fetchers, Fetch!FetchReturns(p) PROVE FetchInv'
  BY <1>4 DEF Fetch!FetchReturns, Fetch!FetchCancelled
<1>5. ASSUME NEW p \in Fetchers, Fetch!Store(p) PROVE FetchInv'
  BY <1>5 DEF Fetch!Store
<1>6. ASSUME NEW p \in Fetchers, Fetch!Land(p) PROVE FetchInv'
  BY <1>6 DEF Fetch!Land
<1>7. ASSUME NEW p \in Fetchers, Fetch!Receive(p) \/ Fetch!GiveUp(p),
             UNCHANGED <<cached, cancelled, flight, waiters, fetch>>
      PROVE  FetchInv'
  BY <1>7 DEF Fetch!Receive, Fetch!GiveUp, Fetch!Return
<1>8. ASSUME NEW p \in Fetchers, Fetch!Cancel(p) PROVE FetchInv'
  BY <1>8 DEF Fetch!Cancel
<1>9. CASE Fetch!Change \/ UNCHANGED fetchVars
  BY <1>9 DEF Fetch!Change, fetchVars
<1> QED
  BY <1>1, <1>2, <1>3, <1>4, <1>5, <1>6, <1>7, <1>8, <1>9, Zenon
     DEF Fetch!Next, Fetch!CallStep, Fetch!FlightStep

\* FetchInv holds at the start.
LEMMA FetchInit == ServicesInit => FetchInv
BY ServicesAssumption DEF ServicesInit, Fetch!Init, FetchInv, Fetch!CancelIsolated

\* A call of GetOrFetch fails with a context's error only if its own context was done,
\* for any number of callers that share a flight.
THEOREM CancelsAreIsolated == ServicesSpec => []CancelIsolated
<1>1. FetchInv => CancelIsolated
  BY DEF FetchInv, CancelIsolated
<1> QED
  BY <1>1, FetchInit, FetchStep, ServicesSteps, PTL DEF ServicesSpec, servicesVars

\* The flights of a key follow one another: two callers never fetch it at once.
THEOREM FetchesAreSingle == ServicesSpec => []Fetch!OneFetchAtATime
<1>1. FetchInv => Fetch!OneFetchAtATime
  BY DEF FetchInv, Fetch!OneFetchAtATime, Fetch!Fetching
<1> QED
  BY <1>1, FetchInit, FetchStep, ServicesSteps, PTL DEF ServicesSpec, servicesVars

-----------------------------------------------------------------------------
(* Parallel and ParallelLimit                                              *)

\* The loop has started the tasks before next, all but the nil ones; while there is no
\* error every task that has ended succeeded; and the call returns after all of them, or
\* early with an error.
ParInv ==
    /\ main \in {"loop", "returned"}
    /\ next \in 1 .. NTasks + 1
    /\ task \in [1 .. NTasks -> {"none", "start", "running", "ended", "released", "done"}]
    /\ \A t \in 1 .. NTasks : task[t] = "none" <=> (t >= next \/ t \in NilTasks)
    /\ firstErr = first
    /\ ran \subseteq 1 .. NTasks \ NilTasks
    /\ firstErr = None => \A t \in 1 .. NTasks : task[t] \in {"ended", "released", "done"} => t \in ran
    /\ main = "returned" =>
         \/ next > NTasks /\ \A t \in 1 .. NTasks : task[t] \in {"none", "done"}
         \/ firstErr # None /\ limited /\ parallelCtx /\ next <= NTasks

\* Every step of the caller and of the tasks keeps ParInv.
LEMMA ParStep == ParInv /\ [Par!Next]_parVars => ParInv'
<1> SUFFICES ASSUME ParInv, [Par!Next]_parVars PROVE ParInv'
  OBVIOUS
<1> USE ServicesAssumption DEF ParInv, Par!Indices, Par!CtxErr
<1>1. CASE Par!Skip
  BY <1>1 DEF Par!Skip
<1>2. CASE Par!Start
  BY <1>2 DEF Par!Start
<1>3. CASE Par!Abandon
  BY <1>3 DEF Par!Abandon, Par!Once
<1>4. CASE Par!Wait
  BY <1>4 DEF Par!Wait, Par!Waits
<1>5. CASE Par!Cancel
  BY <1>5 DEF Par!Cancel
<1>6. ASSUME NEW t \in 1 .. NTasks, Par!Begin(t) PROVE ParInv'
  BY <1>6 DEF Par!Begin, Par!Once
<1>7. ASSUME NEW t \in 1 .. NTasks, Par!Returns(t) PROVE ParInv'
  <2>1. CASE ran' = ran \union {t} /\ UNCHANGED <<firstErr, first>>
    BY <1>7, <2>1 DEF Par!Returns
  <2>2. CASE Par!Once(t) /\ UNCHANGED ran
    BY <1>7, <2>2 DEF Par!Returns, Par!Once
  <2> QED
    BY <1>7, <2>1, <2>2, Zenon DEF Par!Returns
<1>8. ASSUME NEW t \in 1 .. NTasks, Par!Panics(t) PROVE ParInv'
  BY <1>8 DEF Par!Panics, Par!Once
<1>9. ASSUME NEW t \in 1 .. NTasks, Par!Release(t) PROVE ParInv'
  BY <1>9 DEF Par!Release
<1>10. ASSUME NEW t \in 1 .. NTasks, Par!Done(t) PROVE ParInv'
  BY <1>10 DEF Par!Done
<1>11. CASE UNCHANGED parVars
  BY <1>11 DEF parVars
<1> QED
  BY <1>1, <1>2, <1>3, <1>4, <1>5, <1>6, <1>7, <1>8, <1>9, <1>10, <1>11, Zenon
     DEF Par!Next, Par!MainStep, Par!TaskStep

\* When Parallel or ParallelLimit returns, nil means that every task has run and
\* succeeded and an error is the first there was, for any number of tasks and places in
\* the semaphore; unless ParallelLimit was cancelled in its loop, all tasks are done.
THEOREM ResultsAreTruthful == ServicesSpec => []ResultTruthful
<1>1. ServicesInit => ParInv
  BY ServicesAssumption DEF ServicesInit, Par!Init, Par!Indices, ParInv
<1>2. ParInv => ResultTruthful
  <2> SUFFICES ASSUME ParInv, main = "returned" PROVE Par!ResultTruthful
    BY DEF ResultTruthful, Par!ResultTruthful
  <2>1. ASSUME firstErr = None, NEW t \in 1 .. NTasks \ NilTasks PROVE t \in ran
    BY <2>1, ServicesAssumption DEF ParInv
  <2>2. firstErr = None => ran = 1 .. NTasks \ NilTasks
    BY <2>1, Zenon DEF ParInv
  <2> QED
    BY <2>2 DEF ParInv, Par!ResultTruthful, Par!Indices
<1> QED
  BY <1>1, <1>2, ParStep, ServicesSteps, PTL DEF ServicesSpec, servicesVars

-----------------------------------------------------------------------------
(* The HTTP round trip                                                     *)

\* Where the responses are: between two attempts there is none, after a failed attempt
\* its own may be open, and at the end the one that is returned.  A body that can be
\* read once only has been read before the first attempt ends, and no second follows.
HttpInv ==
    /\ tripAt \in {"prepare", "limit", "admit", "loop", "sent", "decide", "backoff", "returned"}
    /\ tripAttempt \in Nat
    /\ body # "rewindable" => partial = {}
    /\ body = "read" => tripAt \in {"sent", "decide", "returned"}
    /\ tripAt \notin {"decide", "returned"} => open = {} /\ lastResp = Http!NoResponse
    /\ tripAt = "decide" =>
         /\ lastErr = "attemptErr"
         /\ \/ open = {} /\ lastResp = Http!NoResponse
            \/ open = {tripAttempt} /\ lastResp = [id |-> tripAttempt, class |-> "5xx"]
    /\ tripAt # "returned" => breaker \in {"absent", "untold"}
    /\ Http!ResponsesAccounted
    /\ Http!BreakerToldTruth

\* What RoundTrip returns through the breaker: one response that is open, or none and an
\* error.
LEMMA HttpFinish ==
    ASSUME HttpInv, tripAt # "returned", UNCHANGED <<body, partial, tripCtx, tripAttempt>>,
           NEW resp, NEW err, Http!Finish(resp, err),
           \/ err = None /\ open' = {tripAttempt} /\ \E c \in {"ok", "5xx"} : resp = [id |-> tripAttempt, class |-> c]
           \/ err # None /\ open' = {} /\ resp = Http!NoResponse
    PROVE  HttpInv'
<1>1. tripAt' = "returned" /\ tripResult' = [resp |-> resp, err |-> err]
  BY DEF Http!Finish, Http!Return
<1>2. Http!ResponsesAccounted'
  BY <1>1, ServicesAssumption DEF HttpInv, Http!ResponsesAccounted, Http!NoResponse
<1>3. Http!BreakerToldTruth'
  BY <1>1 DEF HttpInv, Http!BreakerToldTruth, Http!NoResponse, Http!Finish, Http!Verdict
<1> QED
  BY <1>1, <1>2, <1>3 DEF HttpInv

\* What RoundTrip refuses before the breaker has let it pass.
LEMMA HttpRefuse ==
    ASSUME HttpInv, tripAt \in {"prepare", "limit", "admit"}, UNCHANGED <<body, tripCtx>>,
           NEW err, Http!Refuse(err), err # None
    PROVE  HttpInv'
BY ServicesAssumption DEF HttpInv, Http!Refuse, Http!Return, Http!ResponsesAccounted,
                          Http!BreakerToldTruth, Http!NoResponse

\* Every step of the round trip keeps HttpInv.
LEMMA HttpStep == HttpInv /\ [Http!Next]_httpVars => HttpInv'
<1> SUFFICES ASSUME HttpInv, [Http!Next]_httpVars PROVE HttpInv'
  OBVIOUS
<1>p. ASSUME tripAt \in {"prepare", "limit", "admit"}, UNCHANGED <<tripCtx>>,
             NEW to \in {"limit", "admit", "loop"}, Http!Pass(to), body' # "read",
             body = "rewindable" => body' = "rewindable"
      PROVE  HttpInv'
  BY <1>p DEF HttpInv, Http!Pass, Http!ResponsesAccounted, Http!BreakerToldTruth
<1>1. CASE Http!Prepare
  <2>1. CASE Http!Refuse("readErr") /\ UNCHANGED body
    BY <1>1, <2>1, HttpRefuse, ServicesAssumption DEF Http!Prepare
  <2>2. CASE Http!Pass("limit")
    BY <1>1, <1>p, <2>2 DEF Http!Prepare, HttpInv
  <2> QED
    BY <1>1, <2>1, <2>2, Zenon DEF Http!Prepare
<1>2. CASE Http!Limit
  <2>1. CASE Http!Refuse("ErrRateLimited")
    BY <1>2, <2>1, HttpRefuse, ServicesAssumption DEF Http!Limit
  <2>2. CASE Http!Pass("admit")
    BY <1>2, <1>p, <2>2 DEF Http!Limit, HttpInv
  <2> QED
    BY <1>2, <2>1, <2>2, Zenon DEF Http!Limit
<1>3. CASE Http!Admit
  <2>1. ASSUME NEW err \in {"ctxErr", "ErrCircuitOpen"}, Http!Refuse(err) PROVE HttpInv'
    BY <1>3, <2>1, HttpRefuse, ServicesAssumption DEF Http!Admit
  <2>2. CASE Http!Pass("loop")
    BY <1>3, <1>p, <2>2 DEF Http!Admit, HttpInv
  <2> QED
    BY <1>3, <2>1, <2>2 DEF Http!Admit
<1>4. CASE Http!Attempt
  <2>1. CASE tripCtx
    BY <1>4, <2>1, HttpFinish, ServicesAssumption DEF Http!Attempt, HttpInv
  <2>2. CASE ~tripCtx
    BY <1>4, <2>2, Zenon DEF Http!Attempt, Http!Partials, HttpInv, Http!ResponsesAccounted, Http!BreakerToldTruth
  <2> QED
    BY <2>1, <2>2
<1>5. CASE Http!Succeed
  BY <1>5, HttpFinish DEF Http!Succeed, HttpInv
<1>6. CASE Http!Fail
  BY <1>6 DEF Http!Fail, HttpInv, Http!ResponsesAccounted, Http!BreakerToldTruth
<1>7. CASE Http!Stop
  <2>1. CASE open = {} /\ lastResp = Http!NoResponse
    BY <1>7, <2>1, HttpFinish, ServicesAssumption DEF Http!Stop, HttpInv
  <2>2. CASE open = {tripAttempt} /\ lastResp = [id |-> tripAttempt, class |-> "5xx"]
    <3>1. lastResp # Http!NoResponse
      BY <2>2 DEF Http!NoResponse
    <3> QED
      BY <1>7, <2>2, <3>1, HttpFinish DEF Http!Stop, HttpInv
  <2> QED
    BY <1>7, <2>1, <2>2 DEF Http!Stop, HttpInv
<1>8. CASE Http!Retry
  BY <1>8 DEF Http!Retry, Http!Closed, Http!AttemptLimit, HttpInv, Http!NoResponse,
              Http!ResponsesAccounted, Http!BreakerToldTruth
<1>9. CASE Http!Backoff
  <2>1. CASE tripAt' = "loop" /\ tripAttempt' = tripAttempt + 1 /\ UNCHANGED <<breaker, tripResult>>
    BY <1>9, <2>1 DEF Http!Backoff, HttpInv, Http!ResponsesAccounted, Http!BreakerToldTruth
  <2>2. CASE Http!Finish(Http!NoResponse, "ctxErr") /\ UNCHANGED tripAttempt
    BY <1>9, <2>2, HttpFinish, ServicesAssumption DEF Http!Backoff, HttpInv
  <2> QED
    BY <1>9, <2>1, <2>2, Zenon DEF Http!Backoff
<1>10. CASE Http!Cancel
  BY <1>10 DEF Http!Cancel, HttpInv, Http!ResponsesAccounted, Http!BreakerToldTruth, Http!NoResponse
<1>11. CASE UNCHANGED httpVars
  BY <1>11 DEF httpVars, HttpInv, Http!ResponsesAccounted, Http!BreakerToldTruth, Http!NoResponse
<1> QED
  BY <1>1, <1>2, <1>3, <1>4, <1>5, <1>6, <1>7, <1>8, <1>9, <1>10, <1>11, Zenon DEF Http!Next

\* HttpInv holds at the start.
LEMMA HttpInit == ServicesInit => HttpInv
BY DEF ServicesInit, Http!Init, HttpInv, Http!ResponsesAccounted, Http!BreakerToldTruth

\* However many attempts a round trip makes and wherever it is cancelled, the response it
\* returns is the only one left open, and no attempt sends the rest of a body unless the
\* caller's GetBody fails.
THEOREM AttemptsAreClean == ServicesSpec => []AttemptsClean
<1>1. HttpInv => AttemptsClean
  BY DEF HttpInv, AttemptsClean, Http!WholeBodySent
<1> QED
  BY <1>1, HttpInit, HttpStep, ServicesSteps, PTL DEF ServicesSpec, servicesVars

\* The breaker learns of a success only with a response below 500, and of a failure only
\* without one or after a timeout.
THEOREM BreakerIsToldTruth == ServicesSpec => []BreakerToldTruth
<1>1. HttpInv => BreakerToldTruth
  BY DEF HttpInv, BreakerToldTruth
<1> QED
  BY <1>1, HttpInit, HttpStep, ServicesSteps, PTL DEF ServicesSpec, servicesVars

-----------------------------------------------------------------------------
(* The retry loop                                                          *)

\* The calls of fn and the sleeps keep step with the attempts: a call more while fn runs
\* and after its last return, and a sleep for every attempt that was given up.
RetryInv ==
    /\ at \in {"loop", "fn", "sleep", "returned"}
    /\ cfg.max \in Int /\ cfg.initial \in Int
    /\ attempt \in Nat /\ attempt < Retries!AttemptLimit
    /\ calls = IF at = "fn" \/ result \in {"ok", "err", "ErrMaxAttemptsReached"}
               THEN attempt + 1 ELSE attempt
    /\ at # "returned" => result = None
    /\ result = "ctxErr" => retryCtx
    /\ result = "ErrMaxAttemptsReached" => attempt = Retries!AttemptLimit - 1
    /\ waits \in Seq(Nat) /\ Len(waits) = attempt
    /\ cfg.max > 0 => \A i \in 1 .. Len(waits) : waits[i] <= cfg.max

\* computeWait returns no negative wait and none above the cap.
LEMMA WaitBounded ==
    ASSUME RetryInv, NEW w \in Retries!ComputeWait
    PROVE  w \in Nat /\ (cfg.max > 0 => w <= cfg.max)
<1> DEFINE exponent == Retries!UpTo(30, attempt)
<1>1. exponent \in Nat /\ Retries!UpTo(1000000, attempt) \in Nat
  BY DEF RetryInv, Retries!UpTo
<1>2. 2 ^ exponent \in Int
  BY <1>1, SMT
<1> HIDE DEF exponent
<1>3. cfg.initial <= 0 \/ \E d \in Int : w = Retries!Capped(d)
  BY <1>1, <1>2 DEF RetryInv, Retries!ComputeWait, exponent
<1> QED
  BY <1>3 DEF RetryInv, Retries!ComputeWait, Retries!Capped, Retries!UpTo

\* Every step of doInternal keeps RetryInv.
LEMMA RetryStep == RetryInv /\ [Retries!Next]_retryVars => RetryInv'
<1> SUFFICES ASSUME RetryInv, [Retries!Next]_retryVars PROVE RetryInv'
  OBVIOUS
<1>a. Retries!AttemptLimit \in Nat \ {0} /\ Retries!AttemptLimit' = Retries!AttemptLimit
  BY ServicesAssumption DEF Retries!AttemptLimit
<1>n. None \notin {"ok", "err", "ErrMaxAttemptsReached", "ctxErr"}
  BY ServicesAssumption
<1> USE <1>a, <1>n DEF RetryInv
<1>1. CASE Retries!Check
  BY <1>1 DEF Retries!Check, Retries!Return
<1>2. CASE Retries!Succeed
  BY <1>2 DEF Retries!Succeed, Retries!Return
<1>3. CASE Retries!Refuse
  BY <1>3 DEF Retries!Refuse, Retries!Return
<1>4. CASE Retries!Fail
  <2>1. CASE Retries!LastAttempt
    BY <1>4, <2>1 DEF Retries!Fail, Retries!LastAttempt, Retries!Return
  <2>2. CASE ~Retries!LastAttempt
    <3>1. PICK w \in Retries!ComputeWait : waits' = Append(waits, w)
      BY <1>4, <2>2, Zenon DEF Retries!Fail
    <3>2. w \in Nat /\ (cfg.max > 0 => w <= cfg.max)
      BY WaitBounded
    <3>3. /\ waits' \in Seq(Nat) /\ Len(waits') = attempt + 1
          /\ cfg.max > 0 => \A i \in 1 .. Len(waits') : waits'[i] <= cfg.max
      BY <3>1, <3>2
    <3> QED
      BY <1>4, <2>2, <3>3 DEF Retries!Fail, Retries!LastAttempt
  <2> QED
    BY <2>1, <2>2
<1>5. CASE Retries!Sleep
  BY <1>5 DEF Retries!Sleep, Retries!Return
<1>6. CASE Retries!Cancel
  BY <1>6 DEF Retries!Cancel
<1>7. CASE UNCHANGED retryVars
  BY <1>7 DEF retryVars
<1> QED
  BY <1>1, <1>2, <1>3, <1>4, <1>5, <1>6, <1>7, Zenon DEF Retries!Next

\* For any configuration fn is called at most Attempts times, with a sleep between two
\* calls and none that exceeds MaxWait.
THEOREM RetriesStayWithinLimits == ServicesSpec => []WithinLimits
<1>1. ServicesInit => RetryInv
  <2> SUFFICES ASSUME Retries!Init PROVE RetryInv
    BY Zenon DEF ServicesInit
  <2>1. cfg.max \in Int /\ cfg.initial \in Int
    BY ServicesAssumption, Zenon DEF Retries!Init
  <2>2. 0 < Retries!AttemptLimit
    BY ServicesAssumption DEF Retries!AttemptLimit
  <2>3. waits \in Seq(Nat) /\ Len(waits) = 0
    BY DEF Retries!Init
  <2> QED
    BY <2>1, <2>2, <2>3, ServicesAssumption DEF Retries!Init, RetryInv
<1>2. RetryInv => WithinLimits
  BY ServicesAssumption DEF RetryInv, WithinLimits, Retries!WithinLimits, Retries!AttemptLimit
<1> QED
  BY <1>1, <1>2, RetryStep, ServicesSteps, PTL DEF ServicesSpec, servicesVars

-----------------------------------------------------------------------------
(* The middleware chain                                                    *)

\* The chain is a sequence without repetitions in which telemetry, recovery and the logger
\* have their places; the other two are gin's.
ChainShape ==
    /\ stack \in {"gin", "http"}
    /\ Len(chain) \in Nat /\ DOMAIN chain = 1 .. Len(chain)
    /\ \A i, j \in 1 .. Len(chain) : chain[i] = chain[j] => i = j
    /\ Chain!Has("Telemetry") /\ Chain!Has("Recovery")
    /\ stack = "http" => ~Chain!Has("ErrorHandler") /\ ~Chain!Has("REDMetrics")

\* Every place has its middleware, and every middleware of the chain its place.
LEMMA ChainIndex ==
    ASSUME ChainShape
    PROVE  /\ \A m : Chain!Has(m) => Chain!Index(m) \in 1 .. Len(chain) /\ chain[Chain!Index(m)] = m
           /\ \A i \in 1 .. Len(chain) : Chain!Has(chain[i]) /\ Chain!Index(chain[i]) = i
<1>1. ASSUME NEW m, Chain!Has(m)
      PROVE  Chain!Index(m) \in 1 .. Len(chain) /\ chain[Chain!Index(m)] = m
  BY <1>1 DEF ChainShape, Chain!Has, Chain!Range, Chain!Index
<1>2. ASSUME NEW i \in 1 .. Len(chain) PROVE Chain!Has(chain[i])
  BY DEF ChainShape, Chain!Has, Chain!Range
<1> QED
  BY <1>1, <1>2, Zenon DEF ChainShape

\* The chain has its shape at the start.
LEMMA ShapeInit == Chain!Init => ChainShape
<1> SUFFICES ASSUME Chain!Init PROVE ChainShape
  OBVIOUS
<1>1. PICK n \in 3 .. 5, S \in {Chain!GinChain, Chain!HttpChain} :
        /\ chain \in [1 .. n -> S] /\ Chain!IsInjective(chain)
        /\ stack \in {"gin", "http"} /\ (stack = "http" => S = Chain!HttpChain)
  BY DEF Chain!Init, Chain!Injection
<1>2. Len(chain) = n /\ DOMAIN chain = 1 .. n
  <2>1. chain \in Seq(S)
    BY <1>1
  <2> QED
    BY <1>1, <2>1
<1>3. Chain!Has("Telemetry") /\ Chain!Has("Recovery")
  BY DEF Chain!Init, Chain!HttpChain
<1>4. stack = "http" => ~Chain!Has("ErrorHandler") /\ ~Chain!Has("REDMetrics")
  BY <1>1, <1>2 DEF Chain!Has, Chain!Range, Chain!HttpChain
<1> QED
  BY <1>1, <1>2, <1>3, <1>4 DEF ChainShape, Chain!IsInjective

\* What has been entered and not left again is at or above the depth, or above it on the
\* way down.
Inside(m) == Chain!Has(m) /\ IF mode = "down" THEN Chain!Index(m) < depth ELSE Chain!Index(m) <= depth

\* On the way down nothing has happened but the opening of the span.
DownInv ==
    mode = "down" =>
        /\ depth >= 1 /\ sent = "none" /\ errors = FALSE /\ panicked = FALSE
        /\ span = IF Inside("Telemetry") THEN "unset" ELSE "none"

\* On the way up a panic is on its way to Recovery or has been ended by it, and the span
\* is open inside telemetry.
UpInv ==
    mode # "down" =>
        /\ depth <= Len(chain)
        /\ mode = "panic" => panicked = TRUE /\ Inside("Recovery")
        /\ mode = "up" /\ panicked = TRUE => ~Inside("Recovery")
        /\ stack = "http" => errors = FALSE

\* The span of gin is marked before telemetry ends it only for a reason, and for every
\* panic that Recovery ends; and what telemetry made of it remains true.
SpanInv ==
    mode # "down" =>
        /\ stack = "gin" /\ Inside("Telemetry") =>
             /\ span \in {"unset", "error"}
             /\ span = "error" => panicked = TRUE \/ errors = TRUE
             /\ panicked = TRUE /\ ~Inside("Recovery") => span = "error"
        /\ (stack = "gin" \/ Chain!Index("Telemetry") < Chain!Index("Recovery")) /\ ~Inside("Telemetry") =>
             (span = "error" <=> panicked = TRUE \/ errors = TRUE \/ sent = "5xx")

\* A request inside REDMetrics is in the total only; the totals it is added to after that
\* are those of the answer if whatever answers is inside REDMetrics.
CountInv ==
    /\ active = IF Inside("REDMetrics") THEN 1 ELSE 0
    /\ Inside("REDMetrics") => counted = {"RequestsTotal"}
    /\ mode = "down" /\ ~Inside("REDMetrics") => counted = {}
    /\ mode # "down" /\ ~Inside("REDMetrics") /\ Chain!Has("REDMetrics") =>
         /\ "RequestsTotal" \in counted
         /\ Chain!Outside("REDMetrics", "Recovery") /\ Chain!Outside("REDMetrics", "ErrorHandler")
              => counted = {"RequestsTotal"} \union Chain!Totals(Chain!Status)

ChainInv ==
    /\ ChainShape
    /\ depth \in Nat /\ mode \in {"down", "up", "panic"}
    /\ errors \in BOOLEAN /\ panicked \in BOOLEAN
    /\ spanEnded = (mode # "down" /\ ~Inside("Telemetry"))
    /\ DownInv /\ UpInv /\ SpanInv /\ CountInv

\* The chain does not change on the way.
LEMMA ChainFixed ==
    ASSUME ChainShape, UNCHANGED <<stack, chain>>
    PROVE  /\ ChainShape'
           /\ \A m : Chain!Has(m)' = Chain!Has(m) /\ Chain!Index(m)' = Chain!Index(m)
BY DEF ChainShape, Chain!Has, Chain!Index, Chain!Range

\* On the way up one leaves what is at the depth, and nothing else.
LEMMA LeavesOne ==
    ASSUME ChainShape, Chain!Up, mode # "down", mode' # "down", NEW w, Chain!At(w, mode)
    PROVE  /\ depth \in 1 .. Len(chain) /\ Chain!Index(w) = depth
           /\ Inside(w) /\ ~Inside(w)'
           /\ \A m : m # w => Inside(m)' = Inside(m)
<1>1. /\ depth \in 1 .. Len(chain) /\ chain[depth] = w /\ depth' = depth - 1
      /\ UNCHANGED <<stack, chain>>
  BY DEF ChainShape, Chain!Up, Chain!At
<1>2. Chain!Index(w) = depth /\ Chain!Has(w)
  BY <1>1, ChainIndex
<1>3. \A m : Chain!Has(m)' = Chain!Has(m) /\ Chain!Index(m)' = Chain!Index(m)
  BY <1>1, ChainFixed
<1>4. Inside(w) /\ ~Inside(w)'
  BY <1>1, <1>2, <1>3 DEF Inside
<1>5. ASSUME NEW m, m # w PROVE Inside(m)' = Inside(m)
  <2>1. CASE Chain!Has(m)
    <3>1. Chain!Index(m) \in 1 .. Len(chain) /\ Chain!Index(m) # depth
      BY <1>1, <1>5, <2>1, ChainIndex
    <3> QED
      BY <1>1, <1>3, <3>1 DEF Inside
  <2>2. CASE ~Chain!Has(m)
    BY <1>3, <2>2 DEF Inside
  <2> QED
    BY <2>1, <2>2
<1> QED
  BY <1>1, <1>2, <1>4, <1>5

\* What a step on the way up keeps by leaving w.
Left(w) ==
    /\ ChainShape' /\ depth' \in Nat /\ depth' <= Len(chain)' /\ UNCHANGED <<stack, errors, panicked>>
    /\ Chain!Index("Telemetry")' = Chain!Index("Telemetry") /\ Chain!Index("Recovery")' = Chain!Index("Recovery")
    /\ Chain!Has("REDMetrics")' = Chain!Has("REDMetrics")
    /\ Chain!Outside("REDMetrics", "Recovery")' = Chain!Outside("REDMetrics", "Recovery")
    /\ Chain!Outside("REDMetrics", "ErrorHandler")' = Chain!Outside("REDMetrics", "ErrorHandler")
    /\ Inside(w) /\ ~Inside(w)'
    /\ \A m \in Chain!GinChain : m # w => Inside(m)' = Inside(m)

\* A step up leaves what is at the depth.
LEMMA StepUp ==
    ASSUME ChainInv, Chain!Up, mode # "down", mode' # "down", NEW w, Chain!At(w, mode)
    PROVE  Left(w)
<1>1. ChainShape /\ UNCHANGED <<stack, chain, errors, panicked>> /\ depth' = depth - 1
  BY DEF ChainInv, Chain!Up
<1>2. /\ depth \in 1 .. Len(chain) /\ Inside(w) /\ ~Inside(w)'
      /\ \A m : m # w => Inside(m)' = Inside(m)
  BY <1>1, LeavesOne
<1>3. ChainShape' /\ \A m : Chain!Has(m)' = Chain!Has(m) /\ Chain!Index(m)' = Chain!Index(m)
  BY <1>1, ChainFixed
<1>4. /\ Chain!Outside("REDMetrics", "Recovery")' = Chain!Outside("REDMetrics", "Recovery")
      /\ Chain!Outside("REDMetrics", "ErrorHandler")' = Chain!Outside("REDMetrics", "ErrorHandler")
  BY <1>3 DEF Chain!Outside
<1>5. depth' \in Nat /\ depth' <= Len(chain)'
  BY <1>1, <1>2 DEF ChainShape
<1> QED
  BY <1>1, <1>2, <1>3, <1>4, <1>5, Zenon DEF Left

\* Recovery and ErrorHandler inside REDMetrics have had their turn before it.
LEMMA MetricsLast ==
    ASSUME ChainInv, mode # "down", NEW m \in {"Recovery", "ErrorHandler"},
           Chain!Outside("REDMetrics", m), Inside(m)
    PROVE  Inside("REDMetrics")
<1>1. Chain!Index("REDMetrics") \in Int /\ Chain!Index(m) \in Int
  BY ChainIndex DEF ChainInv, Chain!Outside
<1> QED
  BY <1>1 DEF Chain!Outside, Inside, ChainInv

\* Every step up keeps the invariant.
LEMMA ChainUp ==
    ASSUME ChainInv,
           \/ Chain!GinTelemetryReturns \/ Chain!GinTelemetryUnwinds \/ Chain!HttpTelemetryReturns
           \/ Chain!GinRecovers \/ Chain!HttpRecovers \/ Chain!ErrorHandlerReturns
           \/ Chain!GinLoggerReturns \/ Chain!HttpLoggerReturns \/ Chain!MetricsReturn \/ Chain!Passes
    PROVE  ChainInv'
<1> USE DEF Chain!Gin, Chain!Http, Chain!GinChain
<1>m. mode # "down" /\ mode' # "down" /\ mode' \in {"up", "panic"} /\ mode \in {"up", "panic"} /\ Chain!Up
  BY DEF ChainInv, Chain!GinTelemetryReturns, Chain!GinTelemetryUnwinds, Chain!HttpTelemetryReturns,
     Chain!GinRecovers, Chain!HttpRecovers, Chain!ErrorHandlerReturns, Chain!GinLoggerReturns,
     Chain!HttpLoggerReturns, Chain!MetricsReturn, Chain!Passes, Chain!At
<1>l. ASSUME NEW w, Chain!At(w, "up") \/ Chain!At(w, "panic") PROVE Left(w)
  BY <1>l, <1>m, StepUp DEF Chain!At
<1>1. CASE Chain!GinTelemetryReturns
  <2>1. Left("Telemetry") /\ mode = "up" /\ mode' = "up" /\ stack = "gin"
    BY <1>1, <1>l DEF Chain!GinTelemetryReturns, Chain!At
  <2> QED
    BY <1>1, <2>1, Zenon DEF ChainInv, DownInv, UpInv, SpanInv, CountInv, Left, Chain!Status, Chain!GinTelemetryReturns
<1>2. CASE Chain!GinTelemetryUnwinds
  <2>1. Left("Telemetry") /\ mode = "panic" /\ mode' = "panic" /\ stack = "gin"
    BY <1>2, <1>l DEF Chain!GinTelemetryUnwinds, Chain!At
  <2> QED
    BY <1>2, <1>m, <2>1, Zenon DEF ChainInv, DownInv, UpInv, SpanInv, CountInv, Left, Chain!Status, Chain!GinTelemetryUnwinds
<1>3. CASE Chain!HttpTelemetryReturns
  <2>1. Left("Telemetry") /\ mode' = mode /\ stack = "http"
    BY <1>3, <1>l DEF Chain!HttpTelemetryReturns, Chain!At
  <2>2. mode = "panic" => ~(Chain!Index("Telemetry") < Chain!Index("Recovery"))
    <3>1. Chain!Index("Telemetry") = depth /\ depth \in Nat
      BY <1>3, <1>m, LeavesOne DEF ChainInv, Chain!HttpTelemetryReturns, Chain!At
    <3>2. Chain!Index("Recovery") \in Nat
      BY ChainIndex DEF ChainInv, ChainShape
    <3> QED
      BY <3>1, <3>2, <1>m DEF ChainInv, UpInv, Inside
  <2> QED
    BY <1>3, <1>m, <2>1, <2>2, Zenon DEF ChainInv, DownInv, UpInv, SpanInv, CountInv, Left, Chain!Status, Chain!HttpTelemetryReturns, Chain!Recorded
<1>4. CASE Chain!GinRecovers
  <2>1. Left("Recovery") /\ mode = "panic" /\ mode' = "up" /\ stack = "gin"
    BY <1>4, <1>l DEF Chain!GinRecovers, Chain!At
  <2> QED
    BY <1>4, <1>m, <2>1, MetricsLast, Zenon DEF ChainInv, DownInv, UpInv, SpanInv, CountInv, Left, Chain!Status, Chain!GinRecovers, Chain!Mark
<1>5. CASE Chain!HttpRecovers
  <2>1. Left("Recovery") /\ mode = "panic" /\ mode' = "up" /\ stack = "http"
    BY <1>5, <1>l DEF Chain!HttpRecovers, Chain!At
  <2> QED
    BY <1>5, <1>m, <2>1, MetricsLast, Zenon DEF ChainInv, DownInv, UpInv, SpanInv, CountInv, Left, Chain!Status, Chain!HttpRecovers, Chain!Mark
<1>6. CASE Chain!ErrorHandlerReturns
  <2>1. Left("ErrorHandler") /\ mode = "up" /\ mode' = "up"
    BY <1>6, <1>l DEF Chain!ErrorHandlerReturns, Chain!At
  <2> QED
    BY <1>6, <1>m, <2>1, MetricsLast, Zenon DEF ChainInv, DownInv, UpInv, SpanInv, CountInv, Left, Chain!Status, Chain!ErrorHandlerReturns, Chain!Mark
<1>7. CASE Chain!GinLoggerReturns
  <2>1. Left("Logger") /\ mode = "up" /\ mode' = "up"
    BY <1>7, <1>l, Zenon DEF Chain!GinLoggerReturns, Chain!At
  <2> QED
    BY <1>7, <1>m, <2>1, Zenon DEF ChainInv, DownInv, UpInv, SpanInv, CountInv, Left, Chain!Status, Chain!GinLoggerReturns
<1>8. CASE Chain!HttpLoggerReturns
  <2>1. Left("Logger") /\ mode = "up" /\ mode' = "up"
    BY <1>8, <1>l DEF Chain!HttpLoggerReturns, Chain!At
  <2> QED
    BY <1>8, <1>m, <2>1, Zenon DEF ChainInv, DownInv, UpInv, SpanInv, CountInv, Left, Chain!Status, Chain!HttpLoggerReturns
<1>9. CASE Chain!MetricsReturn
  <2>1. Left("REDMetrics") /\ mode' = mode
    BY <1>9, <1>l DEF Chain!MetricsReturn, Chain!At
  <2>2. active' = 0
    <3>1. active = 1 /\ active' = active - 1
      BY <1>9, <2>1, Zenon DEF ChainInv, CountInv, Left, Chain!MetricsReturn
    <3> QED
      BY <3>1
  <2>3. sent' = sent /\ counted' = {"RequestsTotal"} \union Chain!Totals(Chain!Status)
    BY <1>9, <2>1 DEF ChainInv, CountInv, Left, Chain!MetricsReturn
  <2>4. CountInv'
    BY <1>m, <2>1, <2>2, <2>3 DEF CountInv, Left, Chain!Status
  <2> QED
    BY <1>9, <1>m, <2>1, <2>4, Zenon DEF ChainInv, DownInv, UpInv, SpanInv, Left, Chain!Status, Chain!MetricsReturn
<1>10. CASE Chain!Passes
  <2>1. PICK w \in {"Recovery", "ErrorHandler", "Logger"} :
          /\ Left(w) /\ mode' = mode /\ (w = "Recovery" => mode = "up")
    BY <1>10, <1>l DEF Chain!Passes, Chain!At
  <2> QED
    BY <1>10, <1>m, <2>1, Zenon DEF ChainInv, DownInv, UpInv, SpanInv, CountInv, Left, Chain!Status, Chain!Passes
<1> QED
  BY <1>1, <1>2, <1>3, <1>4, <1>5, <1>6, <1>7, <1>8, <1>9, <1>10, Zenon

\* Every step keeps the invariant.
LEMMA ChainStep == ChainInv /\ [Chain!Next]_chainVars => ChainInv'
<1> SUFFICES ASSUME ChainInv, [Chain!Next]_chainVars PROVE ChainInv'
  OBVIOUS
<1>1. CASE Chain!Enter
  <2>1. /\ mode = "down" /\ mode' = "down" /\ depth \in 1 .. Len(chain) /\ depth' = depth + 1
        /\ UNCHANGED <<stack, chain, sent, errors, panicked, spanEnded>> /\ ChainShape
    BY <1>1 DEF ChainInv, ChainShape, Chain!Enter
  <2>2. ChainShape' /\ \A m : Chain!Has(m)' = Chain!Has(m) /\ Chain!Index(m)' = Chain!Index(m)
    BY <2>1, ChainFixed
  <2>3. ASSUME NEW m PROVE Inside(m)' <=> (Inside(m) \/ chain[depth] = m)
    <3>1. CASE Chain!Has(m)
      <4>1. Chain!Index(m) \in 1 .. Len(chain) /\ (Chain!Index(m) = depth <=> chain[depth] = m)
        BY <2>1, <3>1, ChainIndex
      <4> QED
        BY <2>1, <2>2, <3>1, <4>1 DEF Inside
    <3>2. CASE ~Chain!Has(m)
      BY <2>1, <2>2, <3>2, ChainIndex DEF Inside
    <3> QED
      BY <3>1, <3>2
  <2>4. chain[depth] = "REDMetrics" => ~Inside("REDMetrics")
    BY <2>1, ChainIndex DEF Inside
  <2>5. DownInv'
    BY <1>1, <2>1, <2>3 DEF ChainInv, DownInv, Chain!Enter
  <2>6. CountInv'
    BY <1>1, <2>1, <2>3, <2>4 DEF ChainInv, CountInv, Chain!Enter, Chain!CountIn
  <2>7. depth' \in Nat
    BY <2>1
  <2>8. (spanEnded = (mode # "down" /\ ~Inside("Telemetry")))'
    BY <2>1, Zenon DEF ChainInv
  <2> QED
    BY <2>1, <2>2, <2>5, <2>6, <2>7, <2>8 DEF ChainInv, UpInv, SpanInv
<1>2. CASE Chain!Handle
  <2>1. /\ mode = "down" /\ depth = Len(chain) + 1 /\ depth' = depth - 1 /\ mode' \in {"up", "panic"}
        /\ mode' = (IF panicked' THEN "panic" ELSE "up")
        /\ UNCHANGED <<stack, chain, span, spanEnded, counted, active>> /\ ChainShape
        /\ errors' \in BOOLEAN /\ panicked' \in BOOLEAN /\ (stack = "http" => errors' = FALSE)
    BY <1>2, Zenon DEF ChainInv, ChainShape, Chain!Handle
  <2>2. ChainShape' /\ \A m : Chain!Has(m)' = Chain!Has(m) /\ Chain!Index(m)' = Chain!Index(m)
    BY <2>1, ChainFixed
  <2>3. ASSUME NEW m PROVE (Inside(m) <=> Chain!Has(m)) /\ (Inside(m)' <=> Chain!Has(m))
    <3>1. Chain!Has(m) => Chain!Index(m) \in 1 .. Len(chain)
      BY <2>1, ChainIndex
    <3> QED
      BY <2>1, <2>2, <3>1 DEF Inside, ChainShape
  <2>4. Inside("Telemetry") /\ Inside("Telemetry")' /\ Inside("Recovery")'
    BY <2>1, <2>3 DEF ChainShape
  <2>5. Inside("REDMetrics")' <=> Inside("REDMetrics")
    BY <2>3
  <2>6. Chain!Has("REDMetrics")' => Inside("REDMetrics")'
    BY <2>2, <2>3
  <2>7. depth' \in Nat /\ depth' <= Len(chain)'
    BY <2>1 DEF ChainShape
  <2> QED
    BY <2>1, <2>2, <2>4, <2>5, <2>6, <2>7 DEF ChainInv, DownInv, UpInv, SpanInv, CountInv
<1>3. CASE Chain!Served \/ UNCHANGED chainVars
  <2>1. UNCHANGED chainVars
    BY <1>3 DEF Chain!Served, Chain!vars, chainVars
  <2>2. ChainShape' /\ \A m : Inside(m)' = Inside(m)
    BY <2>1, ChainFixed DEF ChainInv, Inside, chainVars
  <2>3. \A m : Chain!Has(m)' = Chain!Has(m) /\ Chain!Index(m)' = Chain!Index(m)
    BY <2>1, ChainFixed DEF ChainInv, chainVars
  <2> QED
    BY <2>1, <2>2, <2>3, Zenon DEF ChainInv, DownInv, UpInv, SpanInv, CountInv, Chain!Outside, Chain!Status, chainVars
<1> QED
  BY <1>1, <1>2, <1>3, ChainUp, Zenon DEF Chain!Next

\* The invariant holds at the start, before the first middleware is entered.
LEMMA ChainStart == Chain!Init => ChainInv
<1> SUFFICES ASSUME Chain!Init PROVE ChainInv
  OBVIOUS
<1>1. ChainShape
  BY ShapeInit, Zenon
<1>2. ASSUME NEW m PROVE ~Inside(m)
  BY <1>1, ChainIndex DEF Inside, Chain!Init
<1>3. depth \in Nat /\ depth >= 1
  BY DEF Chain!Init
<1>4. spanEnded = (mode # "down" /\ ~Inside("Telemetry"))
  BY Zenon DEF Chain!Init
<1>5. DownInv /\ UpInv /\ SpanInv /\ CountInv
  <2>1. mode = "down" /\ ~Inside("Telemetry") /\ ~Inside("REDMetrics")
    BY <1>2 DEF Chain!Init
  <2>2. DownInv
    BY <1>3, <2>1, Zenon DEF Chain!Init, DownInv
  <2>3. UpInv /\ SpanInv
    BY <2>1 DEF UpInv, SpanInv
  <2>4. CountInv
    BY <2>1, Zenon DEF Chain!Init, CountInv
  <2> QED
    BY <2>2, <2>3, <2>4
<1> QED
  BY <1>1, <1>3, <1>4, <1>5, Zenon DEF Chain!Init, ChainInv

\* In every order of the middleware the span of a failed request, and of no other, ends
\* marked as failed; in net/http if telemetry is outside recovery
\* (ginmw/telemetry.go:57-84, ginmw/recovery.go:59-66, recovery/recovery.go:64-72).
THEOREM FailuresAreTraced == ServicesSpec => []FailuresTraced
<1>1. ServicesInit => ChainInv
  BY ChainStart DEF ServicesInit
<1>2. ChainInv => FailuresTraced
  <2> SUFFICES ASSUME ChainInv, depth = 0, stack = "gin" \/ Chain!Outside("Telemetry", "Recovery")
               PROVE  span = "error" <=> panicked \/ errors \/ Chain!Status = "5xx"
    BY DEF FailuresTraced, Chain!FailuresTraced
  <2>1. mode # "down" /\ ~Inside("Telemetry")
    BY ChainIndex DEF ChainInv, DownInv, Inside
  <2>2. stack = "gin" \/ Chain!Index("Telemetry") < Chain!Index("Recovery")
    BY DEF Chain!Outside
  <2> QED
    BY <2>1, <2>2 DEF ChainInv, SpanInv, Chain!Status
<1> QED
  BY <1>1, <1>2, ChainStep, ServicesSteps, PTL DEF ServicesSpec, servicesVars

\* In every order of the middleware no request stays active or out of the total; and if
\* REDMetrics is outside whatever answers, the totals of the classes and of the errors that
\* a request is in are those of the status the client got (ginmw/red_metrics.go:38-62).
THEOREM CountsAreAnswers == ServicesSpec => []CountedAsAnswered
<1>1. ServicesInit => ChainInv
  BY ChainStart DEF ServicesInit
<1>2. ChainInv => CountedAsAnswered
  <2> SUFFICES ASSUME ChainInv, depth = 0, Chain!Has("REDMetrics") PROVE Chain!CountedAsAnswered
    BY DEF CountedAsAnswered, Chain!CountedAsAnswered
  <2>1. mode # "down" /\ ~Inside("REDMetrics")
    BY ChainIndex DEF ChainInv, DownInv, Inside
  <2>2. /\ active = 0 /\ "RequestsTotal" \in counted
        /\ Chain!Outside("REDMetrics", "Recovery") /\ Chain!Outside("REDMetrics", "ErrorHandler")
             => counted = {"RequestsTotal"} \union Chain!Totals(Chain!Status)
    BY <2>1 DEF ChainInv, CountInv
  <2> QED
    BY <2>2 DEF Chain!CountedAsAnswered, Chain!Totals
<1> QED
  BY <1>1, <1>2, ChainStep, ServicesSteps, PTL DEF ServicesSpec, servicesVars
===============================================================================
