----------------------------- MODULE TokenBucket -----------------------------
(***************************************************************************)
(* ratelimit/token_bucket.go, which ratelimit.New puts in front of HTTP    *)
(* handlers.  A bucket holds whole tokens and the age of its last refill.  *)
(* usage is a reference that knows nothing of tokens: it grows with what a *)
(* key is allowed, by refillRate an event, and drains by one a tick.       *)
(***************************************************************************)
EXTENDS LimiterTable

CONSTANTS capacity, refillRate   \* as passed to NewTokenBucket

Capacity == IF capacity <= 0 THEN 1 ELSE capacity
RefillRate == IF refillRate <= 0 THEN 1 ELSE refillRate

NewBucket == [tokens |-> Capacity, age |-> 0]

Init == TableInit(0)

Refill(b) == b.age \div RefillRate

Refilled_AgeKept(b) == [b EXCEPT !.tokens = UpTo(Capacity, b.tokens + Refill(b))]
\* AllowN's refill.  A bucket that is filled up forgets the fraction of a token.
Refilled(b) ==
    IF Refill(b) = 0 THEN b
    ELSE IF b.tokens + Refill(b) >= Capacity THEN [tokens |-> Capacity, age |-> 0]
    ELSE [tokens |-> b.tokens + Refill(b), age |-> b.age - Refill(b) * RefillRate]

AllowN(p) ==
    LET n == call[p].n
        b == Refilled(entry[call[p].id])
        used == usage[call[p].key]
    IN  /\ call[p].at = "use" /\ n > 0
        /\ \/ b.tokens >= n /\ Finish(p, [b EXCEPT !.tokens = @ - n], used + n * RefillRate)
           \/ b.tokens < n /\ Finish(p, b, used)

\* Remaining computes the refill and does not store it.
Remaining(p) ==
    /\ call[p].at = "use" /\ call[p].n = 0
    /\ Finish(p, entry[call[p].id], usage[call[p].key])

\* Beyond these ages a bucket is idle, and full.
OldAge == IF idleTimeout >= Capacity * RefillRate THEN idleTimeout + 1 ELSE Capacity * RefillRate
Drained(u) == IF u = 0 THEN 0 ELSE u - 1

Next ==
    \/ \E p \in Procs, k \in Keys, n \in Amounts : Lookup(p, k, n)
    \/ \E p \in Procs : Create(p, NewBucket, 0) \/ AllowN(p) \/ Remaining(p)
    \/ CreateElsewhere(0)
    \/ \E k \in Keys : Reset(k, 0)
    \/ Tick(OldAge, [k \in Keys |-> Drained(usage[k])])

Spec == Init /\ [][Next]_tableVars

-----------------------------------------------------------------------------

\* In any interval a key is allowed a full burst and what is refilled meanwhile, no
\* more, also across collections of its bucket: provided the key was never Reset,
\* no bucket was dropped in use, and the idle timeout lets a bucket fill up.
\* (An interval of length d that is allowed m events leaves usage at m * refillRate
\* - d or more, so the bound says m <= Capacity + ceiling(d / refillRate).)
RateHolds ==
    Capacity * RefillRate <= idleTimeout =>
      \A k \in Keys \ disturbed : usage[k] <= (Capacity + 1) * RefillRate - 1
=============================================================================
