------------------------------ MODULE HttpClient ------------------------------
(***************************************************************************)
(* One RoundTrip of the resilient transport of httpclient/roundtripper.go: *)
(* the body is prepared for rewinding, then come the rate limiter, the     *)
(* circuit breaker, the retry loop and its attempts.  The limiter and the  *)
(* breaker answer as they like.  Responses are named after their attempts. *)
(***************************************************************************)
EXTENDS Naturals

CONSTANTS
    Attempts,   \* retryCfg.Attempts
    None

VARIABLES
    body,      \* the request's body: absent, with GetBody, or unread or read without it
    breaker,   \* whether there is a circuit breaker, and what it was told
    at,        \* where RoundTrip stands
    attempt,   \* the attempt of the loop
    ctxDone,   \* the total timeout has passed or the caller has gone
    open,      \* the responses whose bodies are open
    lastResp,  \* the response of the last attempt and its class, or None
    lastErr,   \* whether the last attempt failed
    partial,   \* history: the attempts that sent a body already read
    result     \* [resp, err] when RoundTrip has returned

vars == <<body, breaker, at, attempt, ctxDone, open, lastResp, lastErr, partial, result>>

NoResponse == [id |-> None, class |-> "none"]

\* A body without GetBody is buffered up to 10MB and gets one; a larger one is
\* streamed.  "small" and "large" are such bodies before they are prepared.
Init ==
    /\ body \in {"none", "rewindable", "small", "large"}
    /\ breaker \in {"absent", "untold"}
    /\ at = "prepare" /\ attempt = 0
    /\ ctxDone = FALSE
    /\ open = {} /\ partial = {}
    /\ lastResp = NoResponse /\ lastErr = None
    /\ result = None

Return(resp, err) == at' = "returned" /\ result' = [resp |-> resp, err |-> err]

Refuse(err) == Return(NoResponse, err) /\ UNCHANGED <<breaker, attempt, open, lastResp, lastErr, partial>>

Pass(to) == at' = to /\ UNCHANGED <<breaker, attempt, open, lastResp, lastErr, partial, result>>

\* prepareRequestBody: reading the body may fail.
Prepare ==
    /\ at = "prepare"
    /\ \/ body \in {"small", "large"} /\ Refuse("readErr") /\ UNCHANGED body
       \/ /\ body' = IF body = "small" THEN "buffered" ELSE IF body = "large" THEN "unread" ELSE body
          /\ Pass("limit")
    /\ UNCHANGED ctxDone

\* checkRateLimit
Limit ==
    /\ at = "limit"
    /\ Refuse("ErrRateLimited") \/ Pass("admit")
    /\ UNCHANGED <<body, ctxDone>>

\* The breaker's Execute, up to the call of its function.
Admit ==
    /\ at = "admit"
    /\ \/ breaker # "absent" /\ ctxDone /\ Refuse("ctxErr")
       \/ breaker # "absent" /\ ~ctxDone /\ Refuse("ErrCircuitOpen")
       \/ (breaker = "absent" \/ ~ctxDone) /\ Pass("loop")
    /\ UNCHANGED <<body, ctxDone>>

Verdict_ErrorsOnly(resp, err) == IF err # None \/ ctxDone THEN "failure" ELSE "success"
\* What the breaker is told: a response counts as a success below 500, and if the
\* context is still good.
Verdict(resp, err) == IF err # None \/ resp.class = "5xx" \/ ctxDone THEN "failure" ELSE "success"

\* executeRetries returns, to RoundTrip or through the breaker: a response of any
\* class is returned without an error.
Finish(resp, err) ==
    /\ Return(resp, err)
    /\ breaker' = IF breaker = "absent" THEN breaker ELSE Verdict(resp, err)

AttemptLimit_NoStreamCheck == IF Attempts <= 0 THEN 1 ELSE Attempts
\* A body that cannot be rewound is sent once.
AttemptLimit == IF Attempts <= 0 \/ body \in {"unread", "read"} THEN 1 ELSE Attempts

\* The attempts that sent the rest of a body: when the GetBody that came with the request
\* fails, its error is ignored.
Partials ==
    LET more == partial \union {attempt}
    IN  IF body = "read" THEN {more}
        ELSE IF body = "rewindable" /\ attempt > 0 THEN {partial, more}
        ELSE {partial}

\* The head of the loop, and performAttempt up to the call of the transport.
Attempt ==
    /\ at = "loop"
    /\ IF ctxDone
       THEN Finish(NoResponse, "ctxErr") /\ UNCHANGED <<body, partial>>
       ELSE /\ at' = "sent"
            /\ partial' \in Partials
            /\ body' = IF body = "unread" THEN "read" ELSE body
            /\ UNCHANGED <<breaker, result>>
    /\ UNCHANGED <<attempt, ctxDone, open, lastResp, lastErr>>

\* The transport answers and the attempt is final.
Succeed ==
    /\ at = "sent"
    /\ open' = open \union {attempt}
    /\ Finish([id |-> attempt, class |-> "ok"], None)
    /\ UNCHANGED <<body, attempt, ctxDone, lastResp, lastErr, partial>>

\* The transport answers 5xx, or not at all: an error, or a timeout.
Fail ==
    /\ at = "sent"
    /\ \/ open' = open \union {attempt} /\ lastResp' = [id |-> attempt, class |-> "5xx"]
       \/ UNCHANGED open /\ lastResp' = NoResponse
    /\ lastErr' = "attemptErr"
    /\ at' = "decide"
    /\ UNCHANGED <<body, breaker, attempt, ctxDone, partial, result>>

\* ShouldRetry refuses, or there are no attempts left.
Stop ==
    /\ at = "decide"
    /\ Finish(lastResp, IF lastResp # NoResponse THEN None ELSE lastErr)
    /\ UNCHANGED <<body, attempt, ctxDone, open, lastResp, lastErr, partial>>

Closed_Never == open
\* The open bodies once the last response, which is not wanted, is closed.
Closed == open \ {lastResp.id}

Retry ==
    /\ at = "decide" /\ attempt < AttemptLimit - 1
    /\ open' = Closed
    /\ lastResp' = NoResponse
    /\ at' = "backoff"
    /\ UNCHANGED <<body, breaker, attempt, ctxDone, lastErr, partial, result>>

\* backoffWait ends, by its timer or by the context.
Backoff ==
    /\ at = "backoff"
    /\ \/ at' = "loop" /\ attempt' = attempt + 1 /\ UNCHANGED <<breaker, result>>
       \/ ctxDone /\ Finish(NoResponse, "ctxErr") /\ UNCHANGED attempt
    /\ UNCHANGED <<body, ctxDone, open, lastResp, lastErr, partial>>

Cancel ==
    /\ at # "returned" /\ ~ctxDone
    /\ ctxDone' = TRUE
    /\ UNCHANGED <<body, breaker, at, attempt, open, lastResp, lastErr, partial, result>>

Next == Prepare \/ Limit \/ Admit \/ Attempt \/ Succeed \/ Fail \/ Stop \/ Retry \/ Backoff \/ Cancel

Spec == Init /\ [][Next]_vars

-----------------------------------------------------------------------------

\* RoundTrip returns either a response or an error, and of all the responses it has
\* received the one it returns is open and the others are closed.
ResponsesAccounted ==
    at = "returned" =>
      /\ (result.resp = NoResponse) # (result.err = None)
      /\ open = {result.resp.id} \ {None}

\* No attempt sends the rest of a body that an earlier attempt has read, unless a GetBody
\* of the caller's own has failed.
WholeBodySent == body = "rewindable" \/ partial = {}

\* A breaker that let the request pass learns of a success only if the caller is
\* given a response below 500, and of a failure only if not, or after a timeout.
BreakerToldTruth ==
    at = "returned" =>
      /\ breaker = "success" => result.resp.class = "ok"
      /\ breaker = "failure" => result.resp.class # "ok" \/ ctxDone
===============================================================================
