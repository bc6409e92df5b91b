--------------------------- MODULE BreakerLifecycle ---------------------------
(***************************************************************************)
(* What the circuit breakers of circuitbreaker/ promise a caller, whatever *)
(* rule trips them (circuitbreaker/README.md, "Lifecycle States"):         *)
(* ordinary requests are admitted only while the circuit is closed, an     *)
(* open circuit admits nothing until its reset timeout has passed, one     *)
(* canary probe at a time is then let through, and only that probe decides *)
(* whether the circuit closes or opens again.                              *)
(***************************************************************************)
CONSTANT Calls  \* the concurrent callers of Execute

VARIABLES
    state,    \* "CLOSED", "OPEN" or "HALF_OPEN"
    cooled,   \* the reset timeout has passed since the circuit opened
    probes,   \* the calls in flight as canary probes
    normals   \* the calls in flight that were admitted by a closed circuit

vars == <<state, cooled, probes, normals>>

Init ==
    /\ state = "CLOSED"
    /\ cooled = TRUE
    /\ probes = {}
    /\ normals = {}

\* A closed circuit admits any request.
Admit(c) ==
    /\ state = "CLOSED"
    /\ c \notin normals
    /\ normals' = normals \cup {c}
    /\ UNCHANGED <<state, cooled, probes>>

\* An ordinary request ends; it may trip a closed circuit and nothing else.
Complete(c) ==
    /\ c \in normals
    /\ normals' = normals \ {c}
    /\ \/ UNCHANGED <<state, cooled>>
       \/ state = "CLOSED" /\ state' = "OPEN" /\ cooled' = FALSE
    /\ UNCHANGED probes

\* The reset timeout passes.
Cool ==
    /\ cooled' = TRUE
    /\ UNCHANGED <<state, probes, normals>>

\* One canary at a time: the one that half-opens the circuit, or the next one
\* when the last was cancelled.
Probe(c) ==
    /\ \/ state = "OPEN" /\ cooled
       \/ state = "HALF_OPEN"
    /\ probes = {}
    /\ state' = "HALF_OPEN"
    /\ probes' = {c}
    /\ UNCHANGED <<cooled, normals>>

\* The canary succeeds, fails, or is cancelled and decides nothing.
Settle(c) ==
    /\ state = "HALF_OPEN"
    /\ probes = {c}
    /\ probes' = {}
    /\ \/ state' = "CLOSED" /\ UNCHANGED cooled
       \/ state' = "OPEN" /\ cooled' = FALSE
       \/ UNCHANGED <<state, cooled>>
    /\ UNCHANGED normals

Next ==
    \/ \E c \in Calls : Admit(c) \/ Complete(c) \/ Probe(c) \/ Settle(c)
    \/ Cool

Spec == Init /\ [][Next]_vars
==============================================================================
