------------------------- MODULE MCConsecutiveBreaker -------------------------
(***************************************************************************)
(* The consecutive-failure breaker for TLC, used by independent callers or *)
(* by the requests of the quote endpoint.                                  *)
(***************************************************************************)
EXTENDS QuoteService

VARIABLE part

MCInit == part \in {"breaker", "quotes"} /\ QuoteInit /\ (part = "breaker" => ~upstream)

BreakerOnly(A) == part = "breaker" /\ A /\ UNCHANGED <<part, upstream, recovered, at, attempt>>

MCNext ==
    \/ BreakerOnly(Next)
    \/ part = "quotes" /\ QuoteNext /\ UNCHANGED part

MCVars == <<part, quoteVars>>

\* The fairness of ConsecutiveBreaker, when it runs.
MCFairness ==
    /\ WF_MCVars(BreakerOnly(Tick /\ UNCHANGED failures))
    /\ \A c \in Calls : WF_MCVars(BreakerOnly(InExecute(c)))
    /\ WF_MCVars(BreakerOnly(\E c \in Calls : Admit(c)))

MCSpec == MCInit /\ [][MCNext]_MCVars /\ MCFairness
===============================================================================
