---------------------------- MODULE SlidingWindow ----------------------------
(***************************************************************************)
(* ratelimit/sliding_window.go: a counter for the current and the previous *)
(* window, the latter weighted by what is left of the current one.  Windows*)
(* are aligned with the clock; phase is how far the current one has gone,  *)
(* and an entry keeps the age of its currWindowStart.                      *)
(***************************************************************************)
EXTENDS LimiterTable

CONSTANTS limit, window   \* as passed to NewSlidingWindow

VARIABLE phase

vars == <<tableVars, phase>>

Limit == IF limit <= 0 THEN 1 ELSE limit
Window == IF window <= 0 THEN 60 ELSE window

NewEntry == [age |-> phase, curr |-> 0, prev |-> 0]
Unused == [curr |-> 0, prev |-> 0]

Init == TableInit(Unused) /\ phase = 0

Advance_ForgetsCount(e) ==
    IF e.age < Window THEN e
    ELSE [age |-> phase, curr |-> 0, prev |-> 0]
Advance(e) ==
    IF e.age < Window THEN e
    ELSE [age |-> phase, curr |-> 0, prev |-> IF e.age < 2 * Window THEN e.curr ELSE 0]

\* The weighted previous count, in whole events.
Weighted(prev) == (prev * (Window - phase)) \div Window

\* int(est) of an advanced entry.  The fraction is a float64: where the product
\* is whole it may come out just below, and lose one.
Estimates(e) ==
    LET exact == Weighted(e.prev)
        rounded == IF phase > 0 /\ e.prev > 0 /\ exact * Window = e.prev * (Window - phase)
                   THEN {exact, exact - 1}
                   ELSE {exact}
    IN  {e.curr + w : w \in rounded}

AllowN(p) ==
    LET n == call[p].n
        e == Advance(entry[call[p].id])
        used == usage[call[p].key]
    IN  /\ call[p].at = "use" /\ n > 0
        /\ \E est \in Estimates(e) :
             \/ est + n <= Limit /\ Finish(p, [e EXCEPT !.curr = @ + n], [used EXCEPT !.curr = @ + n])
             \/ est + n > Limit /\ Finish(p, e, used)
        /\ UNCHANGED phase

\* Remaining advances the entry, too.
Remaining(p) ==
    /\ call[p].at = "use" /\ call[p].n = 0
    /\ Finish(p, Advance(entry[call[p].id]), usage[call[p].key])
    /\ UNCHANGED phase

\* Beyond these ages an entry is idle, and its counts are forgotten.
OldAge == IF idleTimeout >= 2 * Window THEN idleTimeout + 1 ELSE 2 * Window
Receded(u) == IF phase + 1 < Window THEN u ELSE [curr |-> 0, prev |-> u.curr]

Next ==
    \/ \E p \in Procs, k \in Keys, n \in Amounts : Lookup(p, k, n) /\ UNCHANGED phase
    \/ \E p \in Procs : Create(p, NewEntry, Unused) /\ UNCHANGED phase
    \/ \E p \in Procs : AllowN(p) \/ Remaining(p)
    \/ CreateElsewhere(Unused) /\ UNCHANGED phase
    \/ \E k \in Keys : Reset(k, Unused) /\ UNCHANGED phase
    \/ Tick(OldAge, [k \in Keys |-> Receded(usage[k])]) /\ phase' = (phase + 1) % Window

Spec == Init /\ [][Next]_vars

-----------------------------------------------------------------------------

\* No aligned window allows more than the limit, and neither do the current window
\* and the weighted previous one together, up to the event that rounding may cost:
\* whatever is collected, unless the key was Reset or its entry dropped in use.
WindowHolds ==
    \A k \in Keys \ disturbed :
      /\ usage[k].curr <= Limit
      /\ usage[k].curr + Weighted(usage[k].prev) <= Limit + 1
=============================================================================
