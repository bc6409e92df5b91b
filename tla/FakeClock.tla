------------------------------ MODULE FakeClock ------------------------------
(***************************************************************************)
(* The simulated clock of clock/fake.go, with which the other packages are *)
(* tested: timers, tickers and sleepers under one mutex, advanced by Add   *)
(* and Set, and BlockUntil, which waits on a condition variable until      *)
(* enough of them are registered.  A deadline is kept as the time left to  *)
(* it.  What the channels hold is left out: a timer fires when it is       *)
(* stopped by an advance.                                                  *)
(***************************************************************************)
EXTENDS Integers, Sequences, FiniteSets

CONSTANTS
    Timers, Tickers, Sleepers,
    Durations,   \* the arguments of the operations
    MaxLeft,     \* bound: the clock is not set back further than this
    None

VARIABLES
    timer,     \* each timer: [left, stopped], or None before NewTimer
    timers,    \* f.timers
    ticker,    \* each ticker: [left, period, stopped], or None
    tickers,   \* f.tickers
    sleeper,   \* the time left to each sleeper, or None when it does not sleep
    blocker    \* BlockUntil: [n, woken], or None

vars == <<timer, timers, ticker, tickers, sleeper, blocker>>

Init ==
    /\ timer = [t \in Timers |-> None] /\ timers = <<>>
    /\ ticker = [k \in Tickers |-> None] /\ tickers = <<>>
    /\ sleeper = [s \in Sleepers |-> None]
    /\ blocker = None

Members(list) == {list[i] : i \in DOMAIN list}

\* f.cond.Broadcast()
Broadcast == blocker' = IF blocker = None THEN None ELSE [blocker EXCEPT !.woken = TRUE]

Registered_Twice(list, x) == Append(list, x)
\* Reset appends what is not in the list.
Registered(list, x) == IF x \in Members(list) THEN list ELSE Append(list, x)

\* !f.now.Before(deadline)
Expired(left) == left <= 0

\* A stopped timer's deadline is of no interest.
Fired == [left |-> 0, stopped |-> TRUE]

NextTick(k, left) ==
    IF k.period <= 0 THEN [k EXCEPT !.left = 0, !.stopped = TRUE]
    ELSE [k EXCEPT !.left = k.period - ((-left) % k.period)]

\* Add, and Set, which may go back: advanceLocked.
Advance(d) ==
    LET active == {t \in Members(timers) : ~timer[t].stopped}
        ticking == {k \in Members(tickers) : ~ticker[k].stopped}
        pending(t) == t \in active /\ ~Expired(timer[t].left - d)
    IN  /\ timer' = [t \in Timers |->
                       IF t \notin active THEN timer[t]
                       ELSE IF pending(t) THEN [timer[t] EXCEPT !.left = @ - d]
                       ELSE Fired]
        /\ timers' = SelectSeq(timers, pending)
        /\ ticker' = [k \in Tickers |->
                        IF k \notin ticking THEN ticker[k]
                        ELSE IF Expired(ticker[k].left - d) THEN NextTick(ticker[k], ticker[k].left - d)
                        ELSE [ticker[k] EXCEPT !.left = @ - d]]
        /\ sleeper' = [s \in Sleepers |->
                         IF sleeper[s] = None \/ Expired(sleeper[s] - d) THEN None ELSE sleeper[s] - d]
        /\ UNCHANGED tickers
        /\ Broadcast

\* The bound on clocks that are set back.
Within ==
    /\ \A t \in Timers : timer'[t] # None => timer'[t].left <= MaxLeft
    /\ \A k \in Tickers : ticker'[k] # None => ticker'[k].left <= MaxLeft
    /\ \A s \in Sleepers : sleeper'[s] # None => sleeper'[s] <= MaxLeft

Sleep(s, d) ==
    /\ sleeper[s] = None /\ d > 0
    /\ sleeper' = [sleeper EXCEPT ![s] = d]
    /\ UNCHANGED <<timer, timers, ticker, tickers>>
    /\ Broadcast

\* A timer of no duration fires at once and is not registered.
SetTimer(t, d, list) ==
    /\ timer' = [timer EXCEPT ![t] = IF d <= 0 THEN Fired ELSE [left |-> d, stopped |-> FALSE]]
    /\ timers' = IF d <= 0 THEN timers ELSE list
    /\ UNCHANGED <<ticker, tickers, sleeper>>
    /\ IF d <= 0 THEN UNCHANGED blocker ELSE Broadcast

NewTimer(t, d) == timer[t] = None /\ SetTimer(t, d, Append(timers, t))
ResetTimer(t, d) == timer[t] # None /\ SetTimer(t, d, Registered(timers, t))

StopTimer(t) ==
    /\ timer[t] # None /\ ~timer[t].stopped
    /\ timer' = [timer EXCEPT ![t] = Fired]
    /\ UNCHANGED <<timers, ticker, tickers, sleeper>>
    /\ Broadcast

SetTicker(k, d, list) ==
    /\ ticker' = [ticker EXCEPT ![k] = [left |-> d, period |-> d, stopped |-> FALSE]]
    /\ tickers' = IF d > 0 THEN list ELSE tickers
    /\ UNCHANGED <<timer, timers, sleeper>>

NewTicker(k, d) ==
    /\ ticker[k] = None
    /\ SetTicker(k, d, Append(tickers, k))
    /\ IF d > 0 THEN Broadcast ELSE UNCHANGED blocker

ResetTicker_Silent(k, d) ==
    ticker[k] # None /\ SetTicker(k, d, Registered(tickers, k)) /\ UNCHANGED blocker
ResetTicker(k, d) == ticker[k] # None /\ SetTicker(k, d, Registered(tickers, k)) /\ Broadcast

StopTicker(k) ==
    /\ ticker[k] # None
    /\ ticker' = [ticker EXCEPT ![k].stopped = TRUE, ![k].left = 0]
    /\ UNCHANGED <<timer, timers, tickers, sleeper>>
    /\ Broadcast

Running(clocks, list) == {i \in DOMAIN list : ~clocks[list[i]].stopped}
Asleep == {s \in Sleepers : sleeper[s] # None}

ActiveWaiters ==
    Cardinality(Running(timer, timers)) + Cardinality(Running(ticker, tickers)) + Cardinality(Asleep)

\* BlockUntil holds the mutex while it counts, and gives it up to wait.
BlockUntil(n) ==
    /\ blocker = None /\ ActiveWaiters < n
    /\ blocker' = [n |-> n, woken |-> FALSE]
    /\ UNCHANGED <<timer, timers, ticker, tickers, sleeper>>

Recount ==
    /\ blocker # None /\ blocker.woken
    /\ blocker' = IF ActiveWaiters < blocker.n THEN [blocker EXCEPT !.woken = FALSE] ELSE None
    /\ UNCHANGED <<timer, timers, ticker, tickers, sleeper>>

Next ==
    \/ \E d \in Durations : Advance(d) /\ Within
    \/ \E t \in Timers : StopTimer(t) \/ \E d \in Durations : NewTimer(t, d) \/ ResetTimer(t, d)
    \/ \E k \in Tickers : StopTicker(k) \/ \E d \in Durations : NewTicker(k, d) \/ ResetTicker(k, d)
    \/ \E s \in Sleepers, d \in Durations : Sleep(s, d)
    \/ \E n \in 1 .. Cardinality(Timers \union Tickers \union Sleepers) : BlockUntil(n)
    \/ Recount

Spec == Init /\ [][Next]_vars

-----------------------------------------------------------------------------

\* Through any order of stops, resets and advances, every armed timer, and every ticker
\* with a period, is registered exactly once and not due, and no sleeper is: an advance
\* fires all that it reaches, and BlockUntil counts each once.
ArmedOnce ==
    /\ \A t \in Timers : timer[t] # None /\ ~timer[t].stopped =>
         timer[t].left > 0 /\ Cardinality({i \in DOMAIN timers : timers[i] = t}) = 1
    /\ \A k \in Tickers : ticker[k] # None /\ ~ticker[k].stopped /\ ticker[k].period > 0 =>
         ticker[k].left > 0 /\ Cardinality({i \in DOMAIN tickers : tickers[i] = k}) = 1
    /\ \A s \in Asleep : sleeper[s] > 0

\* BlockUntil does not wait, unwoken, for waiters that are there.
NoLostWakeup == blocker # None /\ ~blocker.woken => ActiveWaiters < blocker.n
===============================================================================
