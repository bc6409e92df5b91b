----------------------------- MODULE QuoteService -----------------------------
(***************************************************************************)
(* The quote endpoint of examples/microservice/main.go, composed with the  *)
(* breaker of circuitbreaker/consecutive.go.  handleGetQuote calls         *)
(* a.Breaker.Execute around a retry loop; each attempt calls FetchQuote,   *)
(* which, when QUOTE_SERVICE_URL is set, goes through a.HTTPClient, and    *)
(* NewApp gives that client the same breaker: a request is two calls of    *)
(* Execute, an outer one and, inside it, an inner one per attempt.         *)
(*                                                                         *)
(* The client's own retries and timeouts happen within one inner call      *)
(* (module HttpClient); the breaker learns of them only the outcome.       *)
(***************************************************************************)
EXTENDS ConsecutiveBreaker

CONSTANTS
    Requests,       \* the concurrent requests, each served again and again
    Attempts        \* of the retry loop in handleGetQuote

QuoteCalls == Requests \X {"outer", "inner"}
Outer(r) == <<r, "outer">>
Inner(r) == <<r, "inner">>

\* NewApp: the number of probes is left to its default, and the callback only logs.
ASSUME QuoteAssumption ==
    /\ Calls = QuoteCalls
    /\ maxHalfOpen = 0
    /\ CallbackPanics = FALSE
    /\ Attempts \in Nat \ {0}

VARIABLES
    upstream,   \* whether a QUOTE_SERVICE_URL is set
    recovered,  \* the upstream answers well from now on, and clients wait for it
    at,         \* where each request stands in handleGetQuote
    attempt     \* attempts made by the retry loop

quoteVars == <<vars, upstream, recovered, at, attempt>>

QuoteInit ==
    /\ Init
    /\ upstream \in BOOLEAN
    /\ recovered = FALSE
    /\ at = [r \in Requests |-> "idle"]
    /\ attempt = [r \in Requests |-> 0]

\* canExecute answers no.
Refused ==
    \/ state = "OPEN" /\ sinceOpen <= ResetTimeout
    \/ state = "HALF_OPEN" /\ halfOpenInFlight >= MaxHalfOpen

Goto(r, place) == at' = [at EXCEPT ![r] = place]

\* handleGetQuote enters the outer Execute, or answers 503 because it is refused.
Arrive(r) ==
    /\ at[r] = "idle" /\ pc[Outer(r)] = "idle"
    /\ \/ Refused /\ UNCHANGED <<vars, at, attempt>>
       \/ /\ Admit(Outer(r))
          /\ Goto(r, "loop")
          /\ attempt' = [attempt EXCEPT ![r] = 0]
    /\ UNCHANGED <<upstream, recovered>>

\* An attempt has failed: the loop goes on, after a wait, or gives up.
AttemptFails(r) ==
    /\ attempt' = [attempt EXCEPT ![r] = @ + 1]
    /\ Goto(r, IF attempt[r] + 1 < Attempts THEN "loop" ELSE "error")

\* One attempt begins, unless the client has gone.  Without an upstream the quote is
\* made up on the spot; with one the client enters the inner Execute, and a refusal
\* fails the attempt.
Attempt(r) ==
    /\ at[r] = "loop" /\ pc[Outer(r)] = "req" /\ pc[Inner(r)] = "idle"
    /\ \/ ~recovered /\ Goto(r, "Canceled") /\ UNCHANGED <<vars, attempt>>
       \/ ~upstream /\ Goto(r, "nil") /\ UNCHANGED <<vars, attempt>>
       \/ upstream /\ Refused /\ AttemptFails(r) /\ UNCHANGED vars
       \/ upstream /\ Admit(Inner(r)) /\ Goto(r, "sent") /\ UNCHANGED attempt
    /\ UNCHANGED <<upstream, recovered>>

\* Mutant of RecordResult: a call whose context is done returns without recordResult.
RecordResult_SkipCancelled(c, err) ==
    /\ IF err = "Canceled"
       THEN /\ pc[c] = "req"
            /\ pc' = [pc EXCEPT ![c] = "idle"]
            /\ UNCHANGED <<cbVars, isProbe, healthy>>
       ELSE RequestReturns(c, err, Trips(err))
    /\ Tally(c, err)

\* recordResult for what the call c of Execute returned.
RecordResult(c, err) == RequestReturns(c, err, Trips(err)) /\ Tally(c, err)

\* The client returns.  An answer below 500 is a success to the breaker, also if it
\* is no quote: then the attempt fails all the same.
Respond(r) ==
    /\ at[r] = "sent"
    /\ \/ RecordResult(Inner(r), "nil") /\ Goto(r, "nil") /\ UNCHANGED attempt
       \/ ~recovered /\ \E err \in {"nil", "error"} : RecordResult(Inner(r), err) /\ AttemptFails(r)
       \/ ~recovered /\ RecordResult(Inner(r), "Canceled") /\ Goto(r, "Canceled") /\ UNCHANGED attempt
    /\ UNCHANGED <<upstream, recovered>>

\* The retry loop is over and with it the outer call; the request is answered.  A
\* client that left meanwhile makes it a cancelled one.
Answer(r) ==
    /\ at[r] \in Errors
    /\ pc[Inner(r)] = "idle"
    /\ \/ RecordResult(Outer(r), at[r])
       \/ ~recovered /\ at[r] = "nil" /\ RecordResult(Outer(r), "Canceled")
    /\ Goto(r, "idle")
    /\ UNCHANGED <<upstream, recovered, attempt>>

\* onStateChange returns.
Logged(c) == CallbackEnds(c) /\ UNCHANGED <<failures, upstream, recovered, at, attempt>>

QuoteTick == Tick /\ UNCHANGED <<failures, upstream, recovered, at, attempt>>

QuoteRecover == ~recovered /\ recovered' = TRUE /\ UNCHANGED <<vars, upstream, at, attempt>>

Step(r) == Attempt(r) \/ Respond(r) \/ Answer(r) \/ Logged(Outer(r)) \/ Logged(Inner(r))

QuoteNext == (\E r \in Requests : Arrive(r) \/ Step(r)) \/ QuoteTick \/ QuoteRecover

\* Clients keep asking, time passes, and what was begun goes on.
QuoteFairness ==
    /\ WF_quoteVars(\E r \in Requests : Arrive(r))
    /\ WF_quoteVars(QuoteTick)
    /\ \A r \in Requests : WF_quoteVars(Step(r))

QuoteSpec == QuoteInit /\ [][QuoteNext]_quoteVars /\ QuoteFairness

-----------------------------------------------------------------------------

\* A request takes at most one slot although it enters the breaker twice, and when
\* no call holds one the breaker counts none: nested calls that fail, are refused or
\* are cancelled half way neither leak the slot nor free another request's
\* (main.go:595-609, consecutive.go:177-259).
SlotsMatch == state = "HALF_OPEN" => halfOpenInFlight = Cardinality(Probes)

\* Once the upstream answers well and clients keep asking, the circuit closes
\* (circuitbreaker/README.md:48-50).
QuotesRecover == recovered ~> state = "CLOSED"
===============================================================================
