-------------------------------- MODULE Retry --------------------------------
(***************************************************************************)
(* doInternal and computeWait of retry/retry.go, for one call of Do or     *)
(* DoWithResult with any strategy, initial wait and cap of the given sets. *)
(* Waits are far below the limits of a Duration.                           *)
(***************************************************************************)
EXTENDS Integers, Sequences

CONSTANTS
    Attempts,       \* cfg.Attempts
    InitialWaits,   \* the values of cfg.InitialWait
    MaxWaits,       \* the values of cfg.MaxWait
    None

VARIABLES
    cfg,       \* [strategy, initial, max]
    at,        \* where doInternal stands
    attempt,
    ctxDone,
    calls,     \* history: how often fn was called
    waits,     \* history: how long doInternal meant to sleep, each time
    result

vars == <<cfg, at, attempt, ctxDone, calls, waits, result>>

AttemptLimit == IF Attempts <= 0 THEN 1 ELSE Attempts

Init ==
    /\ cfg \in [strategy : {"constant", "linear", "exponential", "jitter"},
                initial : InitialWaits, max : MaxWaits]
    /\ at = "loop" /\ attempt = 0
    /\ ctxDone = FALSE
    /\ calls = 0 /\ waits = <<>>
    /\ result = None

UpTo(bound, n) == IF n > bound THEN bound ELSE n

Capped(d) == IF d < 0 THEN 0 ELSE IF cfg.max > 0 THEN UpTo(cfg.max, d) ELSE d

\* computeWait; jitter draws from an interval.
ComputeWait ==
    IF cfg.initial <= 0 THEN {0}
    ELSE LET exponential == cfg.initial * 2 ^ UpTo(30, attempt)
         IN  {Capped(d) : d \in CASE cfg.strategy = "linear" -> {cfg.initial * (UpTo(1000000, attempt) + 1)}
                                  [] cfg.strategy = "exponential" -> {exponential}
                                  [] cfg.strategy = "jitter" -> 0 .. exponential
                                  [] OTHER -> {cfg.initial}}

Return(r) == at' = "returned" /\ result' = r

\* The context is checked before each call of fn.
Check ==
    /\ at = "loop"
    /\ \/ ctxDone /\ Return("ctxErr") /\ UNCHANGED calls
       \/ ~ctxDone /\ at' = "fn" /\ calls' = calls + 1 /\ UNCHANGED result
    /\ UNCHANGED <<cfg, attempt, ctxDone, waits>>

Succeed ==
    /\ at = "fn"
    /\ Return("ok")
    /\ UNCHANGED <<cfg, attempt, ctxDone, calls, waits>>

\* ShouldRetry refuses the error, which is returned as it is.
Refuse ==
    /\ at = "fn"
    /\ Return("err")
    /\ UNCHANGED <<cfg, attempt, ctxDone, calls, waits>>

LastAttempt_OffByOne == attempt = AttemptLimit
LastAttempt == attempt = AttemptLimit - 1

Fail ==
    /\ at = "fn"
    /\ \/ /\ LastAttempt
          /\ Return("ErrMaxAttemptsReached")
          /\ UNCHANGED <<attempt, waits>>
       \/ /\ ~LastAttempt
          /\ \E w \in ComputeWait : waits' = Append(waits, w)
          /\ attempt' = attempt + 1
          /\ at' = "sleep"
          /\ UNCHANGED result
    /\ UNCHANGED <<cfg, ctxDone, calls>>

\* The timer fires, or there is none; or the context is done first.
Sleep ==
    /\ at = "sleep"
    /\ \/ /\ at' = "loop" /\ UNCHANGED result
       \/ /\ ctxDone /\ waits[Len(waits)] > 0
          /\ Return("ctxErr")
    /\ UNCHANGED <<cfg, attempt, ctxDone, calls, waits>>

Cancel ==
    /\ at # "returned" /\ ~ctxDone
    /\ ctxDone' = TRUE
    /\ UNCHANGED <<cfg, at, attempt, calls, waits, result>>

Next == Check \/ Succeed \/ Refuse \/ Fail \/ Sleep \/ Cancel

Spec == Init /\ [][Next]_vars

-----------------------------------------------------------------------------

\* A retry stays within its configuration: fn is called at most Attempts times, with a
\* sleep before every call but the first and none after the last; giving up means that
\* all were used; ending with the context means that another call was due, for which a
\* sleep had begun unless it was the first; no sleep exceeds MaxWait, if there is one.
WithinLimits ==
    /\ calls <= AttemptLimit
    /\ result \in {"ok", "err", "ErrMaxAttemptsReached"} => Len(waits) = calls - 1
    /\ result = "ErrMaxAttemptsReached" => calls = AttemptLimit
    /\ result = "ctxErr" => ctxDone /\ calls < AttemptLimit /\ Len(waits) = calls
    /\ cfg.max > 0 => \A i \in DOMAIN waits : waits[i] \in 0 .. cfg.max
===============================================================================
