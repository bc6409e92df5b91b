--------------------------- MODULE MiddlewareChain ---------------------------
(***************************************************************************)
(* One request on its way through the middleware that observes it: the gin *)
(* handlers of ginmw (Telemetry, Recovery, ErrorHandler, Logger, and       *)
(* REDMetrics) or the net/http ones of telemetry, recovery and logger, in  *)
(* any order.  The request goes down the chain to the handler, which       *)
(* returns or panics; on the way up each middleware runs what follows its  *)
(* call of the next one, and while a panic unwinds only what it deferred.  *)
(*                                                                         *)
(* A status is known by its class.  What is written first is what the      *)
(* client gets; gin and net/http are external.                             *)
(***************************************************************************)
EXTENDS Naturals, Sequences, Functions

VARIABLES
    stack,     \* gin or http
    chain,     \* the middleware, outermost first
    depth,     \* whose code runs: 0 the server's, Len(chain) + 1 the handler's
    mode,      \* down, up, or panic
    sent,      \* the status the client got, or none yet
    errors,    \* len(c.Errors) > 0
    panicked,  \* history: the handler panicked
    span,      \* the span of telemetry: none, unset, ok or error
    spanEnded,
    logged,    \* the status in the access log, or none
    counted,   \* the totals of REDMetrics that the request was added to
    active     \* REDMetrics' ActiveRequests

vars == <<stack, chain, depth, mode, sent, errors, panicked, span, spanEnded, logged,
          counted, active>>

GinChain == {"Telemetry", "Recovery", "ErrorHandler", "Logger", "REDMetrics"}
HttpChain == {"Telemetry", "Recovery", "Logger"}
\* Of 1xx only 101 is a final status.
Statuses == {"1xx", "2xx", "3xx", "4xx", "5xx"}

Has(m) == m \in Range(chain)
Index(m) == CHOOSE i \in DOMAIN chain : chain[i] = m
Outside(m, n) == Has(m) /\ Has(n) /\ Index(m) < Index(n)

\* The middleware is registered in any order, and in gin the last two may be missing.
Init ==
    /\ \/ stack = "gin" /\ \E n \in 3 .. 5 : chain \in Injection(1 .. n, GinChain)
       \/ stack = "http" /\ chain \in Injection(1 .. 3, HttpChain)
    /\ \A m \in HttpChain : Has(m)
    /\ depth = 1 /\ mode = "down"
    /\ sent = "none" /\ errors = FALSE /\ panicked = FALSE
    /\ span = "none" /\ spanEnded = FALSE
    /\ logged = "none" /\ counted = {} /\ active = 0

\* The status of the response: 200 unless another was written.
Status == IF sent = "none" THEN "2xx" ELSE sent

\* What net/http's middleware reads of it: a statusRecorder also takes the 500 that
\* Recovery writes too late, and only after a panic has met Recovery does a recorder
\* outside it get to be read.
Recorded == IF panicked THEN "5xx" ELSE Status

\* SetStatus has no effect once the span has ended.
Mark(s) == IF span = "none" \/ spanEnded THEN span ELSE s

\* Whose turn it is on the way.
At(m, way) == mode = way /\ depth \in DOMAIN chain /\ chain[depth] = m

Up == depth' = depth - 1 /\ UNCHANGED <<stack, chain, errors, panicked>>

-----------------------------------------------------------------------------
(* Down                                                                    *)

\* REDMetrics before it calls the next middleware.
CountIn == active' = active + 1 /\ counted' = counted \union {"RequestsTotal"}

Enter ==
    /\ mode = "down" /\ depth \in DOMAIN chain
    /\ depth' = depth + 1
    /\ span' = IF chain[depth] = "Telemetry" THEN "unset" ELSE span
    /\ IF chain[depth] = "REDMetrics" THEN CountIn ELSE UNCHANGED <<active, counted>>
    /\ UNCHANGED <<stack, chain, mode, sent, errors, panicked, spanEnded, logged>>

\* The handler writes a response or not, records an error with c.Error or not, and
\* returns or panics.
Handle ==
    /\ mode = "down" /\ depth = Len(chain) + 1
    /\ sent' \in Statuses \cup {"none"}
    /\ errors' \in IF stack = "gin" THEN BOOLEAN ELSE {FALSE}
    /\ panicked' \in BOOLEAN
    /\ mode' = IF panicked' THEN "panic" ELSE "up"
    /\ depth' = depth - 1
    /\ UNCHANGED <<stack, chain, span, spanEnded, logged, counted, active>>

-----------------------------------------------------------------------------
(* Up, one action per middleware, and the same while a panic unwinds       *)

Gin(m, way) == stack = "gin" /\ At(m, way)
Http(m, way) == stack = "http" /\ At(m, way)

\* ginmw.Telemetry marks failures only ...
GinTelemetryReturns ==
    /\ Gin("Telemetry", "up")
    /\ span' = IF errors \/ Status = "5xx" THEN "error" ELSE span
    /\ spanEnded' = TRUE
    /\ Up /\ UNCHANGED <<mode, sent, logged, counted, active>>

\* Mutant of GinTelemetryUnwinds: the panic passes unnoticed.
GinTelemetryUnwinds_NoRecover ==
    /\ Gin("Telemetry", "panic")
    /\ spanEnded' = TRUE
    /\ Up /\ UNCHANGED <<mode, sent, span, logged, counted, active>>

\* ... a panic among them, which it recovers and raises again.
GinTelemetryUnwinds ==
    /\ Gin("Telemetry", "panic")
    /\ span' = "error"
    /\ spanEnded' = TRUE
    /\ Up /\ UNCHANGED <<mode, sent, logged, counted, active>>

\* telemetry.Middleware also marks successes; of a panic it knows nothing.
HttpTelemetryReturns ==
    /\ Http("Telemetry", "up") \/ Http("Telemetry", "panic")
    /\ span' = IF mode = "panic" THEN span ELSE IF Recorded = "5xx" THEN "error" ELSE "ok"
    /\ spanEnded' = TRUE
    /\ Up /\ UNCHANGED <<mode, sent, logged, counted, active>>

\* Recovery ends the panic and answers for it, unless something has been written.  The
\* span it marks is the one in the context of its request: in gin that of the request
\* as inner middleware left it ...
GinRecovers ==
    /\ Gin("Recovery", "panic")
    /\ mode' = "up"
    /\ span' = Mark("error")
    /\ sent' = IF sent = "none" THEN "5xx" ELSE sent
    /\ Up /\ UNCHANGED <<spanEnded, logged, counted, active>>

\* ... and in net/http its own.
HttpRecovers ==
    /\ Http("Recovery", "panic")
    /\ mode' = "up"
    /\ span' = IF Outside("Telemetry", "Recovery") THEN Mark("error") ELSE span
    /\ sent' = IF sent = "none" THEN "5xx" ELSE sent
    /\ Up /\ UNCHANGED <<spanEnded, logged, counted, active>>

\* ErrorHandler answers for the errors nobody has answered, with their domain status.
ErrorHandlerReturns ==
    /\ At("ErrorHandler", "up")
    /\ IF errors
       THEN /\ span' = Mark("error")
            /\ sent' \in IF sent = "none" THEN {"4xx", "5xx"} ELSE {sent}
       ELSE UNCHANGED <<span, sent>>
    /\ Up /\ UNCHANGED <<mode, spanEnded, logged, counted, active>>

GinLoggerReturns ==
    /\ Gin("Logger", "up")
    /\ logged' = Status
    /\ Up /\ UNCHANGED <<mode, sent, span, spanEnded, counted, active>>

HttpLoggerReturns ==
    /\ Http("Logger", "up")
    /\ logged' = Recorded
    /\ Up /\ UNCHANGED <<mode, sent, span, spanEnded, counted, active>>

\* The totals that the switch over the status adds to, none of them for a redirect.
Totals(status) ==
    CASE status = "2xx" -> {"Status2xx"}
      [] status = "4xx" -> {"Status4xx", "ErrorsTotal"}
      [] status = "5xx" -> {"Status5xx", "ErrorsTotal"}
      [] OTHER -> {}

\* Mutant of MetricsReturn: the counting is not deferred.
MetricsReturn_NotDeferred ==
    /\ At("REDMetrics", "up") \/ At("REDMetrics", "panic")
    /\ active' = IF mode = "up" THEN active - 1 ELSE active
    /\ counted' = IF mode = "up" THEN counted \union Totals(Status) ELSE counted
    /\ Up /\ UNCHANGED <<mode, sent, span, spanEnded, logged>>

\* REDMetrics counts in a deferred function, and so also while a panic unwinds.
MetricsReturn ==
    /\ At("REDMetrics", "up") \/ At("REDMetrics", "panic")
    /\ active' = active - 1
    /\ counted' = counted \union Totals(Status)
    /\ Up /\ UNCHANGED <<mode, sent, span, spanEnded, logged>>

\* The middleware with nothing to do on the way.
Passes ==
    /\ \/ At("Recovery", "up") \/ At("ErrorHandler", "panic") \/ At("Logger", "panic")
    /\ Up /\ UNCHANGED <<mode, sent, span, spanEnded, logged, counted, active>>

Served == depth = 0 /\ UNCHANGED vars

Next ==
    \/ Enter \/ Handle
    \/ GinTelemetryReturns \/ GinTelemetryUnwinds \/ HttpTelemetryReturns
    \/ GinRecovers \/ HttpRecovers \/ ErrorHandlerReturns
    \/ GinLoggerReturns \/ HttpLoggerReturns \/ MetricsReturn \/ Passes
    \/ Served

Spec == Init /\ [][Next]_vars

-----------------------------------------------------------------------------

\* In whatever order the gin middleware is registered, and in net/http whenever
\* telemetry is outside recovery, the span of a request that panicked, left an error or
\* was answered 5xx is marked as failed before it ends, and no other is
\* (ginmw/telemetry.go:57-84, ginmw/recovery.go:59-66, recovery/recovery.go:64-72).
FailuresTraced ==
    depth = 0 /\ (stack = "gin" \/ Outside("Telemetry", "Recovery")) =>
        (span = "error" <=> panicked \/ errors \/ Status = "5xx")

\* No request stays active or out of the total.  When REDMetrics is outside the
\* middleware that answers for panics and errors, a request is also in the total of each
\* of the three classes if and only if the client got a status of the class, and in that
\* of the errors if and only if it got 4xx or 5xx, no matter where the handler stopped
\* (ginmw/red_metrics.go:38-62).  A redirect is in none of the three, although the help
\* text has the responses partitioned by class (ginmw/red_metrics.go:106).
CountedAsAnswered ==
    depth = 0 /\ Has("REDMetrics") =>
        /\ active = 0 /\ "RequestsTotal" \in counted
        /\ Outside("REDMetrics", "Recovery") /\ Outside("REDMetrics", "ErrorHandler") =>
             /\ "Status2xx" \in counted <=> Status = "2xx"
             /\ "Status4xx" \in counted <=> Status = "4xx"
             /\ "Status5xx" \in counted <=> Status = "5xx"
             /\ "ErrorsTotal" \in counted <=> Status \in {"4xx", "5xx"}

\* The net/http logger logs every request, also in the order the documentation gives:
\* recovery, then logger, then telemetry (logger/middleware.go:103-104, docs/ARCHITECTURE.md:73).
EveryRequestLogged ==
    depth = 0 /\ stack = "http" /\ chain = <<"Recovery", "Logger", "Telemetry">>
        => logged # "none"
==============================================================================
