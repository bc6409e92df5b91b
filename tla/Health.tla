-------------------------------- MODULE Health --------------------------------
(***************************************************************************)
(* Service.Handler of health/health.go, for one request: every checker     *)
(* runs in a goroutine of its own under a context with a deadline, sends   *)
(* its result to a buffered channel and counts itself done; the handler    *)
(* waits for all of them, closes the channel and reads it out.  A checker  *)
(* returns when it likes, or never when it ignores its context.            *)
(***************************************************************************)
EXTENDS Naturals

CONSTANT Checkers

VARIABLES
    handler,   \* idle, wait (in wg.Wait), answered
    check,     \* where the goroutine of each checker stands
    outcome,   \* history: pass or fail, what the checker returned
    results,   \* the channel: the checkers whose results are in its buffer
    closed,    \* the channel is closed
    expired,   \* the context is done
    report,    \* resp.Checks, and with it the status
    heeds      \* the checkers that return once their context is done

vars == <<handler, check, outcome, results, closed, expired, report, heeds>>

Init ==
    /\ handler = "idle"
    /\ check = [c \in Checkers |-> "none"]
    /\ outcome = [c \in Checkers |-> "none"]
    /\ results = {} /\ report = {}
    /\ closed = FALSE /\ expired = FALSE
    /\ heeds \in SUBSET Checkers

Start ==
    /\ handler = "idle"
    /\ handler' = "wait"
    /\ check' = [c \in Checkers |-> "running"]
    /\ UNCHANGED <<outcome, results, closed, expired, report, heeds>>

\* Five seconds have passed, or the client has gone.
Expire ==
    /\ handler = "wait"
    /\ expired' = TRUE
    /\ UNCHANGED <<handler, check, outcome, results, closed, report, heeds>>

CheckReturns(c) ==
    /\ check[c] = "running"
    /\ \E o \in {"pass", "fail"} : outcome' = [outcome EXCEPT ![c] = o]
    /\ check' = [check EXCEPT ![c] = "send"]
    /\ UNCHANGED <<handler, results, closed, expired, report, heeds>>

\* The send, which the buffer has room for; on a closed channel it would panic.
Send(c) ==
    /\ check[c] = "send"
    /\ check' = [check EXCEPT ![c] = IF closed THEN "panicked" ELSE "sent"]
    /\ results' = IF closed THEN results ELSE results \cup {c}
    /\ UNCHANGED <<handler, outcome, closed, expired, report, heeds>>

Done(c) ==
    /\ check[c] = "sent"
    /\ check' = [check EXCEPT ![c] = "done"]
    /\ UNCHANGED <<handler, outcome, results, closed, expired, report, heeds>>

\* Mutant of AllDone: the handler waits for its context instead of the WaitGroup.
AllDone_OrExpired == expired \/ \A c \in Checkers : check[c] = "done"

\* What wg.Wait() waits for.
AllDone == \A c \in Checkers : check[c] = "done"

\* The handler closes the channel, reads what is in it and answers.
Answer ==
    /\ handler = "wait" /\ AllDone
    /\ handler' = "answered"
    /\ closed' = TRUE
    /\ report' = results /\ results' = {}
    /\ UNCHANGED <<check, outcome, expired, heeds>>

CheckStep(c) == Send(c) \/ Done(c)

Next ==
    \/ Start \/ Expire \/ Answer
    \/ \E c \in Checkers : CheckReturns(c) \/ CheckStep(c)

Spec == Init /\ [][Next]_vars

\* 200 or 503.
Healthy == \A c \in report : outcome[c] = "pass"

-----------------------------------------------------------------------------

\* An answer tells of every checker, so it is 200 only if all of them passed, and no
\* checker sends to the closed channel, however late it is (health.go:127-164).
HealthTruthful ==
    /\ handler = "answered" =>
         report = Checkers /\ (Healthy <=> \A c \in Checkers : outcome[c] = "pass")
    /\ \A c \in Checkers : check[c] # "panicked"

\* Unless a checker ignores its context, the handler is not waiting (health.go:107, 142).
Settled == heeds = Checkers => handler # "wait"
===============================================================================
