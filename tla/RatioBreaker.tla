----------------------------- MODULE RatioBreaker -----------------------------
(***************************************************************************)
(* circuitbreaker/ratio.go: the breaker that trips when the share of       *)
(* failed requests within a rolling window reaches failureRatio.           *)
(*                                                                         *)
(* A record keeps the age of its timestamp instead of the timestamp; ages  *)
(* stop at one unit past the window, where a record is out of it.  The     *)
(* ratio is the fraction ratioNum / ratioDen.                              *)
(***************************************************************************)
EXTENDS BreakerCore, Sequences

CONSTANTS
    ratioNum, ratioDen,  \* failureRatio, as configured
    minRequests,         \* as configured
    window,              \* as configured
    MaxRecords           \* bound on the records within the window

ASSUME RatioAssumption ==
    /\ ratioNum \in Int
    /\ ratioDen \in Nat \ {0}
    /\ minRequests \in Int
    /\ window \in Int
    /\ MaxRecords \in Nat

\* initDefaults: a ratio outside (0, 1] becomes one half.
RatioValid  == 0 < ratioNum /\ ratioNum <= ratioDen
RatioNum    == IF RatioValid THEN ratioNum ELSE 1
RatioDen    == IF RatioValid THEN ratioDen ELSE 2
MinRequests == Default(minRequests, 10)
Window      == Default(window, 10)

VARIABLES
    records,      \* rb.records: <<[age, failed], ...>>
    failureCount  \* rb.failureCount

tally == <<records, failureCount>>
ratioVars == <<coreVars, tally>>

RatioInit == CoreInit /\ records = <<>> /\ failureCount = 0

InWindow(r) == r.age <= Window
FailedIn(rs) == Cardinality({i \in DOMAIN rs : rs[i].failed})

\* evaluateRatio's pruning: the leading records that left the window are cut
\* off, up to the first that is still in it.
FirstValid(rs) ==
    IF \E i \in DOMAIN rs : InWindow(rs[i])
    THEN CHOOSE i \in DOMAIN rs :
            InWindow(rs[i]) /\ \A j \in 1..(i - 1) : ~InWindow(rs[j])
    ELSE Len(rs) + 1

Pruned(rs) == SubSeq(rs, FirstValid(rs), Len(rs))
PrunedFailures(rs) == FailedIn(SubSeq(rs, 1, FirstValid(rs) - 1))

\* The records, and the count, once a result has been recorded.
Appended(failed) == Append(records, [age |-> 0, failed |-> failed])
NewRecords(failed) == Pruned(Appended(failed))

\* Mutant of NewCount: pruned failures stay counted.
NewCount_NoPruning(failed) == failureCount + (IF failed THEN 1 ELSE 0)

NewCount(failed) ==
    failureCount + (IF failed THEN 1 ELSE 0) - PrunedFailures(Appended(failed))

\* evaluateRatio's verdict.
ReachesRatio(count, total) ==
    total >= MinRequests /\ count * RatioDen >= RatioNum * total

\* Mutant of RatioTrips: only failures evaluate the ratio.
RatioTrips_FailuresOnly(result) ==
    /\ result \in {"error", "panic"}
    /\ ReachesRatio(NewCount(TRUE), Len(NewRecords(TRUE)))

\* Mutant of RatioTrips: the ratio is evaluated before the records are pruned.
RatioTrips_BeforePruning(result) ==
    /\ result # "Canceled"
    /\ LET failed == result # "nil"
       IN  ReachesRatio(FailedIn(Appended(failed)), Len(Appended(failed)))

\* Whether a result of an ordinary request trips the circuit, when it is
\* closed.  A cancelled request is not recorded; a success can trip it too.
RatioTrips(result) ==
    /\ result # "Canceled"
    /\ LET failed == result # "nil"
       IN  ReachesRatio(NewCount(failed), Len(NewRecords(failed)))

\* What recordResult and onPanic do to the records.
RatioTally(c, result) ==
    IF isProbe[c]
    THEN IF result = "nil" THEN records' = <<>> /\ failureCount' = 0
                           ELSE UNCHANGED tally
    ELSE IF state = "CLOSED" /\ result # "Canceled"
         THEN /\ records' = NewRecords(result # "nil")
              /\ failureCount' = NewCount(result # "nil")
         ELSE UNCHANGED tally

\* canExecute.  MaxRecords leaves room for the records of the calls in flight.
RatioAdmit(c) ==
    /\ Len(SelectSeq(records, InWindow)) + Cardinality(Normals) < MaxRecords
    /\ CanExecute(c)
    /\ UNCHANGED tally

RatioInExecute(c) ==
    \/ \E err \in Errors : RequestReturns(c, err, RatioTrips(err)) /\ RatioTally(c, err)
    \/ Panics(c, RatioTrips("panic")) /\ RatioTally(c, "panic")
    \/ CallbackEnds(c) /\ UNCHANGED tally

\* Time passes for the records too.
Age ==
    /\ Tick
    /\ records' = [i \in DOMAIN records |->
                      IF InWindow(records[i])
                      THEN [records[i] EXCEPT !.age = @ + 1] ELSE records[i]]
    /\ UNCHANGED failureCount

RatioNext ==
    \/ \E c \in Calls : RatioAdmit(c) \/ RatioInExecute(c)
    \/ Age
    \/ Recover /\ UNCHANGED tally

RatioSpec == RatioInit /\ [][RatioNext]_ratioVars

-----------------------------------------------------------------------------
(* Properties                                                              *)

\* The running failureCount, which is only ever adjusted, is the number of
\* failed records, through pruning, panics, late results and probe resets
\* (ratio.go:199-267).
CountMatchesRecords == failureCount = FailedIn(records)

\* A circuit that an ordinary request trips does so on the results of the window
\* and on nothing older: counted afresh, the results not older than the window are enough of
\* them and fail often enough (ratio.go:255-279).
TripsOnWindowOnly ==
    [][(\E c \in Calls : ~isProbe[c] /\ pc'[c] # pc[c]) /\ state = "CLOSED" /\ state' = "OPEN" =>
          LET recent == {i \in DOMAIN records' : InWindow(records'[i])}
          IN  ReachesRatio(Cardinality({i \in recent : records'[i].failed}), Cardinality(recent))]_ratioVars

\* A closed circuit never sits on a recorded failure rate that should have
\* tripped it, whichever result came last (ratio.go:237-250).
ClosedBelowRatio ==
    state = "CLOSED" => ~ReachesRatio(FailedIn(records), Len(records))
==============================================================================
