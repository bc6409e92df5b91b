-------------------------- MODULE ConsecutiveBreaker --------------------------
(***************************************************************************)
(* circuitbreaker/consecutive.go: the breaker that trips after maxFailures *)
(* consecutive failures.                                                   *)
(***************************************************************************)
EXTENDS BreakerCore

CONSTANT maxFailures  \* as configured

ASSUME ConsecutiveAssumption == maxFailures \in Int

MaxFailures == Default(maxFailures, 5)

VARIABLE failures     \* cb.failures

vars == <<coreVars, failures>>

Init == CoreInit /\ failures = 0

\* Whether a result of an ordinary request trips the circuit, when it is closed.
Trips(result) == result \in {"error", "panic"} /\ failures + 1 >= MaxFailures

\* What recordResult and onPanic do to the count.
Tally(c, result) ==
    failures' =
        CASE isProbe[c] /\ result = "nil" -> 0
          [] ~isProbe[c] /\ state = "CLOSED" /\ result = "nil" -> 0
          [] ~isProbe[c] /\ state = "CLOSED" /\ result \in {"error", "panic"} -> failures + 1
          [] OTHER -> failures

Admit(c) == CanExecute(c) /\ UNCHANGED failures

InExecute(c) ==
    \/ \E err \in Errors : RequestReturns(c, err, Trips(err)) /\ Tally(c, err)
    \/ Panics(c, Trips("panic")) /\ Tally(c, "panic")
    \/ CallbackEnds(c) /\ UNCHANGED failures

Next ==
    \/ \E c \in Calls : Admit(c) \/ InExecute(c)
    \/ Tick /\ UNCHANGED failures
    \/ Recover /\ UNCHANGED failures

Spec == Init /\ [][Next]_vars

\* Time passes, a request or callback that was started returns, and the
\* service keeps calling the dependency.
Fairness ==
    /\ WF_vars(Tick /\ UNCHANGED failures)
    /\ \A c \in Calls : WF_vars(InExecute(c))
    /\ WF_vars(\E c \in Calls : Admit(c))

FairSpec == Spec /\ Fairness

-----------------------------------------------------------------------------
(* Properties                                                              *)

TypeOK == CoreTypeOK /\ failures \in 0..MaxFailures

\* A closed circuit has not yet seen maxFailures consecutive failures: neither
\* a result left over from an earlier closed period nor a probe's success leaves
\* it closed with the threshold reached (consecutive.go:190-210).
ClosedBelowThreshold == state = "CLOSED" => failures < MaxFailures
==============================================================================
