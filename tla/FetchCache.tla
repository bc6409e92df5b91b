------------------------------ MODULE FetchCache ------------------------------
(***************************************************************************)
(* GetOrFetch of cache/cache.go and of the LRU, LFU and FIFO backends, on  *)
(* one key.  The four are alike: check the context, look the key up, join  *)
(* the key's singleflight, wait for its result or for the context.  The    *)
(* flight runs in a goroutine of its own, here named after the caller that *)
(* started it.  What a backend does inside Set is left to its own module.  *)
(* Whether the key has a live value is all that is kept of its entry.      *)
(***************************************************************************)
EXTENDS Naturals

CONSTANTS
    Fetchers,   \* the calls of GetOrFetch
    None

VARIABLES
    cached,     \* the key has a live entry
    step,       \* where each call stands
    cancelled,  \* the calls whose context is done
    flight,     \* singleflight's call for the key: its starter, or None
    waiters,    \* the calls whose channels the flight of a starter serves
    fetch,      \* what the flight of a starter is doing
    answer      \* what each call received on its channel or returned

vars == <<cached, step, cancelled, flight, waiters, fetch, answer>>

Init ==
    /\ cached = FALSE
    /\ step = [p \in Fetchers |-> "idle"]
    /\ cancelled = {}
    /\ flight = None
    /\ waiters = [p \in Fetchers |-> {}]
    /\ fetch = [p \in Fetchers |-> "none"]
    /\ answer = [p \in Fetchers |-> None]

Return(p, a) == step' = [step EXCEPT ![p] = "returned"] /\ answer' = [answer EXCEPT ![p] = a]

\* The call begins with the check of its context.
Begin(p) ==
    /\ step[p] = "idle"
    /\ IF p \in cancelled THEN Return(p, "ctxErr")
       ELSE step' = [step EXCEPT ![p] = "look"] /\ UNCHANGED answer
    /\ UNCHANGED <<cached, cancelled, flight, waiters, fetch>>

Look(p) ==
    /\ step[p] = "look"
    /\ IF cached THEN Return(p, "value")
       ELSE step' = [step EXCEPT ![p] = "join"] /\ UNCHANGED answer
    /\ UNCHANGED <<cached, cancelled, flight, waiters, fetch>>

Join_OwnFlight(p) ==
    /\ step[p] = "join"
    /\ step' = [step EXCEPT ![p] = "wait"]
    /\ flight' = p
    /\ fetch' = [fetch EXCEPT ![p] = "fetching"]
    /\ waiters' = [waiters EXCEPT ![p] = {p}]
    /\ UNCHANGED <<cached, cancelled, answer>>

\* DoChan adds a channel to the flight in the map, or starts one.
Join(p) ==
    /\ step[p] = "join"
    /\ step' = [step EXCEPT ![p] = "wait"]
    /\ IF flight = None
       THEN /\ flight' = p
            /\ fetch' = [fetch EXCEPT ![p] = "fetching"]
            /\ waiters' = [waiters EXCEPT ![p] = {p}]
       ELSE /\ waiters' = [waiters EXCEPT ![flight] = @ \union {p}]
            /\ UNCHANGED <<flight, fetch>>
    /\ UNCHANGED <<cached, cancelled, answer>>

\* Whether the context that fetchFn is given is done: context.WithoutCancel.
FetchCancelled_Callers(p) == p \in cancelled
FetchCancelled(p) == FALSE

\* fetchFn returns a value, or an error, or the error of its context.
FetchReturns(p) ==
    /\ fetch[p] = "fetching"
    /\ \E e \in {"fetched", "fetchErr"} \union (IF FetchCancelled(p) THEN {"ctxErr"} ELSE {}) :
         fetch' = [fetch EXCEPT ![p] = e]
    /\ UNCHANGED <<cached, step, cancelled, flight, waiters, answer>>

\* The flight caches what it fetched.
Store(p) ==
    /\ fetch[p] = "fetched"
    /\ cached' = TRUE
    /\ fetch' = [fetch EXCEPT ![p] = "stored"]
    /\ UNCHANGED <<step, cancelled, flight, waiters, answer>>

Served_Starter(p) == {p}
\* The calls that singleflight sends the result to.
Served(p) == waiters[p]

\* singleflight removes the flight from its map and fills the channels, in one
\* critical section.
Land(p) ==
    /\ fetch[p] \in {"stored", "fetchErr", "ctxErr"}
    /\ flight' = IF flight = p THEN None ELSE flight
    /\ answer' = [q \in Fetchers |->
                    IF q \in Served(p) /\ step[q] = "wait"
                    THEN IF fetch[p] = "stored" THEN "value" ELSE fetch[p]
                    ELSE answer[q]]
    /\ fetch' = [fetch EXCEPT ![p] = "none"]
    /\ waiters' = [waiters EXCEPT ![p] = {}]
    /\ UNCHANGED <<cached, step, cancelled>>

\* The two branches of the select.
Receive(p) == step[p] = "wait" /\ answer[p] # None /\ Return(p, answer[p])
GiveUp(p) == step[p] = "wait" /\ p \in cancelled /\ Return(p, "ctxErr")

Cancel(p) ==
    /\ step[p] # "returned" /\ p \notin cancelled
    /\ cancelled' = cancelled \union {p}
    /\ UNCHANGED <<cached, step, flight, waiters, fetch, answer>>

\* Other operations on the key: Set, and Delete, expiry or eviction.
Change == cached' = ~cached /\ UNCHANGED <<step, cancelled, flight, waiters, fetch, answer>>

CallStep(p) ==
    \/ Begin(p) \/ Look(p) \/ Join(p)
    \/ (Receive(p) \/ GiveUp(p)) /\ UNCHANGED <<cached, cancelled, flight, waiters, fetch>>
FlightStep(p) == Store(p) \/ Land(p)

Next ==
    \/ \E p \in Fetchers : CallStep(p) \/ FetchReturns(p) \/ FlightStep(p) \/ Cancel(p)
    \/ Change

\* Calls and flights make progress; fetchFn need not return.
Fairness == \A p \in Fetchers : WF_vars(CallStep(p)) /\ WF_vars(FlightStep(p))

Spec == Init /\ [][Next]_vars /\ Fairness

-----------------------------------------------------------------------------

Fetching == {p \in Fetchers : fetch[p] = "fetching"}

\* Every call has returned, or waits for a fetch and is not cancelled.
Settled == \A p \in Fetchers : step[p] = "returned" \/ (Fetching # {} /\ p \notin cancelled)

\* At most one fetch for the key is in progress, whoever misses and whoever has
\* given up in the meantime.
OneFetchAtATime == \A p, q \in Fetching : p = q

\* A call fails with a context's error only if its own context was done: that the
\* caller which started the flight went away fails nobody else.
CancelIsolated == \A p \in Fetchers : answer[p] = "ctxErr" => p \in cancelled

\* No call is stuck for good, unless it waits for a fetchFn that never returns and
\* is never cancelled.  (Each call is made once, so the states of the calls settle.)
CallsReturn == []<>Settled
===============================================================================
