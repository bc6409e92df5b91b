------------------------------ MODULE PGLimiter ------------------------------
(***************************************************************************)
(* db/ratelimit.go: the rate limiter that replicas share through one row   *)
(* per key.  AllowN reads its clock, then runs one upsert, an atomic step  *)
(* that other replicas' upserts may overtake; its answer may be lost.      *)
(* Remaining reads only.  One key is followed; a tick is half a second.    *)
(***************************************************************************)
EXTENDS Naturals

CONSTANTS
    Replicas,        \* callers, in any process
    Amounts,         \* the values of n
    limit, window,   \* as passed to NewPGRateLimiter, the window in ticks
    MaxTime,         \* bound on the clock
    None

VARIABLES
    time,
    row,       \* [count, start], or None
    upsert,    \* the statement each caller is about to run: [n, at], or None
    allowed    \* history: the events allowed in the window of the configured length

vars == <<time, row, upsert, allowed>>

Limit == IF limit <= 0 THEN 1 ELSE limit
Window == IF window <= 0 THEN 120 ELSE window

Init ==
    /\ time = 0
    /\ row = None
    /\ upsert = [r \in Replicas |-> None]
    /\ allowed = 0

\* The interval in the statement: whole seconds, or milliseconds below one second.
SqlWindow_Half == Window \div 2
SqlWindow == IF Window < 2 THEN Window ELSE (Window \div 2) * 2

AllowN(r, n) ==
    /\ upsert[r] = None
    /\ n <= Limit
    /\ upsert' = [upsert EXCEPT ![r] = [n |-> n, at |-> time]]
    /\ UNCHANGED <<time, row, allowed>>

Over(u) == u.at >= row.start + SqlWindow

Fits_CountOnly(u) == row.count <= Limit
Fits(u) == row.count + u.n <= Limit

\* Whether the statement inserts a row or begins a new window, and what it leaves.
Begins(u) == row = None \/ Over(u)
Upserted(u) ==
    IF Begins(u) THEN [count |-> u.n, start |-> u.at]
    ELSE IF Fits(u) THEN [row EXCEPT !.count = @ + u.n]
    ELSE row

\* The upsert, when its answer arrives and when it does not: then AllowN is false.
\* The statement returns TRUE for any row it has written.
Upsert(r, answered) ==
    LET u == upsert[r]
        old == IF row = None \/ u.at >= row.start + Window THEN 0 ELSE allowed
    IN  /\ u # None
        /\ row' = Upserted(u)
        /\ allowed' = IF answered /\ (Begins(u) \/ Fits(u)) THEN old + u.n ELSE old
        /\ upsert' = [upsert EXCEPT ![r] = None]
        /\ UNCHANGED time

\* The statement fails without effect.
Fails(r) ==
    /\ upsert[r] # None
    /\ upsert' = [upsert EXCEPT ![r] = None]
    /\ UNCHANGED <<time, row, allowed>>

Reset ==
    /\ row' = None
    /\ allowed' = 0
    /\ UNCHANGED <<time, upsert>>

Tick == time < MaxTime /\ time' = time + 1 /\ UNCHANGED <<row, upsert, allowed>>

Next ==
    \/ \E r \in Replicas : (\E n \in Amounts : AllowN(r, n)) \/ Fails(r)
    \/ \E r \in Replicas, answered \in BOOLEAN : Upsert(r, answered)
    \/ Reset
    \/ Tick

Spec == Init /\ [][Next]_vars

-----------------------------------------------------------------------------

\* All replicas together are allowed no more than the limit in one window of the
\* length configured, in whole seconds, although their statements run late, out of
\* order and without an answer: the row neither forgets events nor lets a window end
\* early.  (A window of one and a half seconds would last one.)
SharedLimitHolds == row # None => allowed <= Limit /\ allowed <= row.count
=============================================================================
