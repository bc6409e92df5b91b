----------------------------- MODULE BusinessDays -----------------------------
(***************************************************************************)
(* The business-day arithmetic of timeutil/timeutil.go.  Two days of the   *)
(* calendar move on together, from dates where its rules change.  A time   *)
(* is a local day with the half of the day it is in and the half days that *)
(* its location is ahead of UTC; start and end need not be in one location.*)
(***************************************************************************)
EXTENDS Integers, FiniteSets

CONSTANTS
    FirstDays,   \* the first days, with their weekdays
    Days,        \* how far start moves on, at most
    Gap,         \* how far end may be ahead of start
    Amounts,     \* the values of n for AddBusinessDays
    maxDays      \* AddBusinessDays' bound on n; 1000000 in the code

VARIABLES start, end   \* days: dates with their weekdays, and counted from the first one

vars == <<start, end>>

-----------------------------------------------------------------------------
(* The Gregorian calendar of package time.  Saturday is 6, Sunday 0.       *)

Leap(y) == y % 4 = 0 /\ (y % 100 # 0 \/ y % 400 = 0)

MonthDays(y, m) == IF m = 2 THEN IF Leap(y) THEN 29 ELSE 28
                   ELSE IF m \in {4, 6, 9, 11} THEN 30 ELSE 31

Tomorrow(t) ==
    LET date == IF t.d < MonthDays(t.y, t.m) THEN [t EXCEPT !.d = @ + 1]
                ELSE IF t.m < 12 THEN [t EXCEPT !.m = @ + 1, !.d = 1]
                ELSE [t EXCEPT !.y = @ + 1, !.m = 1, !.d = 1]
    IN  [date EXCEPT !.weekday = (@ + 1) % 7, !.day = @ + 1]

\* The weekday n days after one, and what the code asks of it.
Weekday(w, n) == (w + n) % 7
Business(w) == w \notin {0, 6}

-----------------------------------------------------------------------------

\* Go's division by a positive number, which truncates.
Quo(a, b) == IF a >= 0 THEN a \div b ELSE -((-a) \div b)
Rem(a, b) == a - b * Quo(a, b)

\* Mutant of Era: the division is taken for one that rounds down.
Era_Truncated(y) == Quo(y, 400)

Era(y) == Quo(y, 400) - (IF y < 0 /\ Rem(y, 400) # 0 THEN 1 ELSE 0)

\* daysFromCivil: the days since 1970-01-01.
DaysFromCivil(t) ==
    LET y == IF t.m <= 2 THEN t.y - 1 ELSE t.y
        yoe == y - Era(y) * 400
        doy == Quo(153 * (IF t.m > 2 THEN t.m - 3 ELSE t.m + 9) + 2, 5) + t.d - 1
        doe == yoe * 365 + Quo(yoe, 4) - Quo(yoe, 100) + doy
    IN  Era(y) * 146097 + doe - 719468

\* From weekday w go on, by days of direction dir, until rem business days are passed;
\* the result is in days.
Walk(w, dir, rem) ==
    LET Passed(k) == Cardinality({i \in 1 .. k : Business(Weekday(w, dir * i))})
    IN  IF rem <= 0 THEN 0 ELSE dir * (CHOOSE k \in 1 .. 7 : Passed(k) = rem /\ Passed(k - 1) < rem)

\* addPositiveBusinessDays and subtractBusinessDays, which mirror each other: off the
\* weekend first, then whole weeks, then the rest; by how many days the time moves.
Moved(w, dir, n) ==
    LET off == IF w \notin {0, 6} THEN 0 ELSE IF (w = 6) = (dir = 1) THEN 2 ELSE 1
        left == IF off = 0 THEN n ELSE n - 1
    IN  IF left <= 0 THEN dir * off
        ELSE dir * off + dir * 7 * (left \div 5) + Walk(Weekday(w, dir * off), dir, left % 5)

AddBusinessDays(w, n) ==
    LET m == IF n > maxDays THEN maxDays ELSE IF n < -maxDays THEN -maxDays ELSE n
    IN  IF n = 0 THEN 0 ELSE IF m > 0 THEN Moved(w, 1, m) ELSE Moved(w, -1, -m)

Instant(t, half, zone) == 2 * t.day + half - zone

\* The part of BusinessDaysBetween that has first before last; only dates count.
Between(first, last) ==
    LET totalDays == DaysFromCivil(last) - DaysFromCivil(first)
    IN  IF first.day = last.day THEN 0
        ELSE Quo(totalDays, 7) * 5
             + Cardinality({i \in 0 .. Rem(totalDays, 7) - 1 : Business(Weekday(first.weekday, i))})

BusinessDaysBetween(s, si, e, ei) ==
    IF si = ei THEN 0 ELSE IF ei < si THEN -Between(e, s) ELSE Between(s, e)

-----------------------------------------------------------------------------

Init ==
    /\ start \in {[y |-> f[1], m |-> f[2], d |-> f[3], weekday |-> f[4], day |-> 0] : f \in FirstDays}
    /\ end = start

NextEnd ==
    /\ end' = IF end.day < start.day + Gap THEN Tomorrow(end) ELSE start
    /\ UNCHANGED start

NextStart ==
    /\ start.day < Days
    /\ end.day = start.day
    /\ start' = Tomorrow(start) /\ end' = start'

Next == NextEnd \/ NextStart

-----------------------------------------------------------------------------

\* Both functions count the days from Monday to Friday one by one, across months, leap
\* years and eras, from weekends too, and for times of two locations
\* (timeutil.go:93-222).
BusinessDaysCorrect ==
    LET BusinessIn(days) == Cardinality({i \in days : Business(Weekday(start.weekday, i))})
        between == BusinessIn(0 .. end.day - start.day - 1)
        Added(n) == AddBusinessDays(start.weekday, n)
        Capped(n) == IF n > maxDays THEN maxDays ELSE n
    IN  /\ \A hs, he \in {0, 1}, zs, ze \in {-1, 0, 1} :
             LET si == Instant(start, hs, zs)
                 ei == Instant(end, he, ze)
             IN  /\ si < ei => BusinessDaysBetween(start, si, end, ei) = between
                 /\ si > ei => BusinessDaysBetween(start, si, end, ei) = 0
                 /\ BusinessDaysBetween(end, ei, start, si) = -BusinessDaysBetween(start, si, end, ei)
        /\ start = end => \A n \in Amounts \ {0} :
             IF n > 0
             THEN Business(Weekday(start.weekday, Added(n))) /\ BusinessIn(1 .. Added(n)) = Capped(n)
             ELSE Business(Weekday(start.weekday, Added(n))) /\ BusinessIn(Added(n) .. -1) = Capped(-n)
===============================================================================
