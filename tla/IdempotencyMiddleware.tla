------------------------- MODULE IdempotencyMiddleware -------------------------
(***************************************************************************)
(* What idempotency/middleware.go and ginmw/idempotency.go do with a       *)
(* request, whatever the Store behind them: take the lock of its key, run  *)
(* the handler, save the response or release the lock.  MemoryStore and    *)
(* PGStore extend this module with the store's own steps.                  *)
(*                                                                         *)
(* A response is named by the request whose handler wrote it: answer[r] =  *)
(* r when r was served by its own handler and answer[r] = q when r was     *)
(* given the stored response of q.                                         *)
(***************************************************************************)
EXTENDS Naturals, FiniteSets

CONSTANTS
    Requests,     \* HTTP requests
    Keys,         \* values of the Idempotency-Key header
    None,         \* nothing: no response, no record, no row
    Gin,          \* whether ginmw.Idempotency or idempotency.Middleware runs
    lockTTL,      \* how long a lock is valid; the memory store reads 0 as for ever
    responseTTL,  \* how long a response is kept; the same
    Cancels,      \* whether the context of a request may be cancelled
    Deletes,      \* whether the service also calls Delete
    Prompt,       \* whether requests finish before their lock expires, and the
                  \* service deletes no key that a request holds
    MaxTime       \* bound on the clock

Failures == {"5xx", "panic", "aborted"}
Refusals == {"unprotected", "400", "conflict", "storeError"}

ASSUME MiddlewareAssumption ==
    /\ {Gin, Cancels, Deletes, Prompt} \subseteq BOOLEAN
    /\ lockTTL \in Nat /\ responseTTL \in Nat /\ MaxTime \in Nat
    /\ IsFiniteSet(Keys)
    /\ None \notin Requests
    /\ Requests \cap (Failures \cup Refusals \cup {"none"}) = {}

VARIABLES
    pc,       \* where a request stands
    key,      \* its key
    answer,   \* what its client was told
    ctxDone,  \* the requests whose context is cancelled
    began,    \* the time Lock read for the request
    now       \* the time

reqVars == <<pc, key, answer, ctxDone, began, now>>

LockSteps == {"insert", "select", "reclaimRow", "reclaimLease"}
Places == {"idle", "lock", "handler", "save", "unlock", "done"} \cup LockSteps

MiddlewareInit ==
    /\ pc = [r \in Requests |-> "idle"]
    /\ key \in [Requests -> Keys]
    /\ answer = [r \in Requests |-> "none"]
    /\ ctxDone = {}
    /\ began = [r \in Requests |-> 0]
    /\ now = 0

\* The request is past Lock and has not yet given up what Lock gave it.
Holding(r) == pc[r] \in {"handler", "save", "unlock"}

Busy(r) == Holding(r) \/ pc[r] \in LockSteps

-----------------------------------------------------------------------------
(* The request                                                             *)

Goto(r, p) == pc' = [pc EXCEPT ![r] = p]

Reply(r, a) == answer' = [answer EXCEPT ![r] = a]

\* A request with an ignored method or without a key never reaches the store.
Bypass(r) ==
    /\ pc[r] = "idle"
    /\ Goto(r, "done")
    /\ \E a \in {"unprotected"} \cup (IF Gin THEN {} ELSE {"400"}) : Reply(r, a)
    /\ UNCHANGED <<key, ctxDone, began, now>>

Arrive(r) ==
    /\ pc[r] = "idle"
    /\ Goto(r, "lock")
    /\ UNCHANGED <<key, answer, ctxDone, began, now>>

\* Lock returned (false, nil, nil): run the handler.
LockAcquired(r) == Goto(r, "handler") /\ UNCHANGED answer

LockFailed(r) == Goto(r, "done") /\ Reply(r, "storeError")

\* Lock returned (true, rec, nil): refuse, or replay the stored response.
LockFound(r, rec) ==
    IF rec.status = "COMPLETED" /\ rec.response = None
    THEN LockAcquired(r)
    ELSE /\ Goto(r, "done")
         /\ Reply(r, IF rec.status = "IN_PROGRESS" THEN "conflict" ELSE rec.response)

HandlerReturns_SavesAll(r) ==
    /\ pc[r] = "handler"
    /\ \E a \in {r, "5xx"} : Reply(r, a) /\ Goto(r, "save")
    /\ UNCHANGED <<key, ctxDone, began, now>>

\* The handler returns or panics.  A response below 500 is saved (by gin only
\* if the chain was not aborted); otherwise the lock is released.
HandlerReturns(r) ==
    /\ pc[r] = "handler"
    /\ \E a \in {r, "5xx", "panic"} \cup (IF Gin THEN {"aborted"} ELSE {}) :
          /\ Reply(r, a)
          /\ Goto(r, IF a = r THEN "save" ELSE "unlock")
    /\ UNCHANGED <<key, ctxDone, began, now>>

\* Save returned.  Only gin, whose deferred function sees completed = false,
\* releases the lock when it failed.
SaveReturned(r, failed) == Goto(r, IF failed /\ Gin THEN "unlock" ELSE "done")

Cancel(r) ==
    /\ Cancels
    /\ pc[r] \notin {"idle", "done"}
    /\ ctxDone' = ctxDone \cup {r}
    /\ UNCHANGED <<pc, key, answer, began, now>>

\* Time passes; when requests are prompt, not beyond the lock of one at work.
Tick ==
    /\ now < MaxTime
    /\ Prompt => \A r \in Requests : Busy(r) => now < began[r] + lockTTL
    /\ now' = now + 1
    /\ UNCHANGED <<pc, key, answer, ctxDone, began>>

MayDelete(k) ==
    /\ Deletes
    /\ Prompt => \A r \in Requests : Holding(r) => key[r] # k

MiddlewareStep ==
    \/ \E r \in Requests : Bypass(r) \/ Arrive(r) \/ HandlerReturns(r) \/ Cancel(r)
    \/ Tick

-----------------------------------------------------------------------------
(* Properties of the requests, with either store                           *)

MiddlewareTypeOK ==
    /\ pc \in [Requests -> Places]
    /\ key \in [Requests -> Keys]
    /\ answer \in [Requests -> Requests \cup Failures \cup Refusals \cup {"none"}]
    /\ ctxDone \subseteq Requests
    /\ began \in [Requests -> Nat]
    /\ now \in Nat

\* The lock r was given is one WithLockTTL still calls valid.
Valid(r) == Holding(r) /\ (lockTTL = 0 \/ now <= began[r] + lockTTL)

\* Only one request at a time holds a valid lock of a key (idempotency/README
\* "Atomic Two-Phase Locking"; memory.go:31-32).
LockExclusive ==
    \A r, s \in Requests : Valid(r) /\ Valid(s) /\ key[r] = key[s] => r = s

\* No two handlers of the same key both succeed: the later request is refused
\* or given the response of the first (README "Replay").
AtMostOneSuccess ==
    \A r, s \in Requests : answer[r] = r /\ answer[s] = s /\ key[r] = key[s] => r = s

\* A replayed response is one that a successful handler wrote for this key.
ReplayTruthful ==
    \A r \in Requests : answer[r] \in Requests =>
        /\ key[answer[r]] = key[r]
        /\ answer[answer[r]] = answer[r]
================================================================================
