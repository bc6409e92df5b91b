------------------------------ MODULE MCWindows ------------------------------
(***************************************************************************)
(* The parts that count events over time, side by side: a behaviour is one *)
(* of the failure-ratio breaker, of one of the limiters, of the simulated  *)
(* clock or of the business-day calendar, or else of a request whose       *)
(* client a limiter looks for, and leaves the others alone.                *)
(***************************************************************************)
EXTENDS RatioBreaker, Limiters, TLC

CONSTANT Parts   \* the parts of this run

VARIABLES
    timer, timers, ticker, tickers, sleeper, blocker,
    start, end,
    trusted, style, peer, client, xff, xRealIP

Clock == INSTANCE FakeClock WITH
    Timers <- {"t1", "t2"}, Tickers <- {"k"}, Sleepers <- {"s"}, Durations <- -1 .. 2, MaxLeft <- 3

\* From a month or two before the ends of February and the turns of years, eras and
\* negative years among them; the first days' weekdays are those of the calendar.
Calendar == INSTANCE BusinessDays WITH
    FirstDays <- {<<-401, 12, 28, 2>>, <<-1, 12, 28, 2>>, <<1900, 2, 12, 1>>, <<2023, 12, 28, 4>>},
    Days <- 370, Gap <- 9, Amounts <- -13 .. 13, maxDays <- 12

Proxied == INSTANCE RealIP WITH
    Proxies <- {"p1", "p2"}, Others <- {"c1", "c2"}, Network <- "net", Invalid <- "-", MaxEntries <- 4

clockVars == <<timer, timers, ticker, tickers, sleeper, blocker>>
calendarVars == <<start, end>>
proxiedVars == <<trusted, style, peer, client, xff, xRealIP>>

WindowsInit ==
    /\ part \in Parts
    /\ RatioInit
    /\ LimitersInit
    /\ Clock!Init
    /\ Calendar!Init /\ (part = "calendar" \/ start.y = 1900)
    /\ Proxied!Init
    /\ part = "proxied" \/ (trusted = {} /\ style = "X-Real-IP" /\ peer = "p1")

otherVars == <<clockVars, calendarVars, proxiedVars>>

WindowsNext ==
    \/ part = "ratio" /\ RatioNext /\ UNCHANGED <<part, limiterVars, otherVars>>
    \/ LimitersNext /\ UNCHANGED <<ratioVars, otherVars>>
    \/ part = "clock" /\ Clock!Next /\ UNCHANGED <<part, ratioVars, limiterVars, calendarVars, proxiedVars>>
    \/ part = "calendar" /\ Calendar!Next /\ UNCHANGED <<part, ratioVars, limiterVars, clockVars, proxiedVars>>
    \/ part = "proxied" /\ Proxied!Next /\ UNCHANGED <<part, ratioVars, limiterVars, clockVars, calendarVars>>

WindowsSpec == WindowsInit /\ [][WindowsNext]_<<part, ratioVars, limiterVars, otherVars>>

Symmetry == Permutations(Calls)

\* What is armed is registered with the simulated clock exactly once and not due, and
\* BlockUntil does not sleep on while enough waiters are registered.
ClockFaithful == Clock!ArmedOnce /\ Clock!NoLostWakeup

\* Business days are added and counted as one by one on the calendar.
BusinessDaysCorrect == part = "calendar" => Calendar!BusinessDaysCorrect

\* A limiter behind proxies finds the client that a request comes from.
ClientFound == Proxied!ClientFound
==============================================================================
