------------------------------- MODULE Shutdown -------------------------------
(***************************************************************************)
(* The manager of shutdown/shutdown.go: hooks are registered until Wait is *)
(* woken by a signal and runs Execute under the deadline; Execute starts a *)
(* goroutine per hook and one that waits for them, and takes whichever of  *)
(* done and ctx.Done() its select offers.  A hook succeeds, fails, panics, *)
(* or never returns.                                                       *)
(***************************************************************************)
EXTENDS Naturals, FiniteSets

CONSTANT Hooks

VARIABLES
    hooks,      \* m.hooks
    snapshot,   \* the hooks that Execute runs
    hook,       \* where the goroutine of each hook stands
    failed,     \* history: the hooks that returned an error or panicked
    errs,       \* the errors in the channel's buffer, by their hooks
    errsClosed, \* the channel errs is closed
    done,       \* the channel done is closed
    execute,    \* where Execute stands
    deadline,   \* the context is done
    reported    \* the hooks whose errors have been joined into finalErr

shutdownVars == <<hooks, snapshot, hook, failed, errs, errsClosed, done, execute, deadline, reported>>

ShutdownInit ==
    /\ hooks = {} /\ snapshot = {} /\ failed = {} /\ errs = {} /\ reported = {}
    /\ hook = [h \in Hooks |-> "none"]
    /\ errsClosed = FALSE /\ done = FALSE /\ deadline = FALSE
    /\ execute = "idle"

\* Registration is possible at any time; Execute takes what is there.
Register(h) ==
    /\ h \notin hooks
    /\ hooks' = hooks \union {h}
    /\ UNCHANGED <<snapshot, hook, failed, errs, errsClosed, done, execute, deadline, reported>>

\* The signal arrives: Wait sets the deadline and Execute starts the goroutines,
\* or returns ctx.Err() when there is nothing to do.
Start ==
    /\ execute = "idle"
    /\ snapshot' = hooks
    /\ hook' = [h \in Hooks |-> IF h \in hooks THEN "running" ELSE "none"]
    /\ execute' = IF hooks = {} THEN "returned" ELSE "select"
    /\ UNCHANGED <<hooks, failed, errs, errsClosed, done, deadline, reported>>

Deadline ==
    /\ execute # "idle"
    /\ deadline' = TRUE
    /\ UNCHANGED <<hooks, snapshot, hook, failed, errs, errsClosed, done, execute, reported>>

\* The hook returns nil; returns an error or panics, which leaves an error to send.
HookReturns(h) ==
    /\ hook[h] = "running"
    /\ \/ hook' = [hook EXCEPT ![h] = "sent"] /\ UNCHANGED failed
       \/ hook' = [hook EXCEPT ![h] = "send"] /\ failed' = failed \union {h}
    /\ UNCHANGED <<hooks, snapshot, errs, errsClosed, done, execute, deadline, reported>>

ErrsCapacity_One == 1
\* make(chan error, len(hooks))
ErrsCapacity == Cardinality(snapshot)

\* errs <- err.  On a closed channel it would panic.
SendError(h) ==
    /\ hook[h] = "send"
    /\ errsClosed \/ Cardinality(errs) < ErrsCapacity
    /\ IF errsClosed THEN hook' = [hook EXCEPT ![h] = "panicked"] /\ UNCHANGED errs
       ELSE hook' = [hook EXCEPT ![h] = "sent"] /\ errs' = errs \union {h}
    /\ UNCHANGED <<hooks, snapshot, failed, errsClosed, done, execute, deadline, reported>>

\* wg.Done(), deferred first and so run last.
HookDone(h) ==
    /\ hook[h] = "sent"
    /\ hook' = [hook EXCEPT ![h] = "done"]
    /\ UNCHANGED <<hooks, snapshot, failed, errs, errsClosed, done, execute, deadline, reported>>

\* What wg.Wait() waits for.
AllDone == \A h \in snapshot : hook[h] = "done"

CloseDone ==
    /\ execute # "idle" /\ snapshot # {} /\ ~done /\ AllDone
    /\ done' = TRUE
    /\ UNCHANGED <<hooks, snapshot, hook, failed, errs, errsClosed, execute, deadline, reported>>

SelectDone_FirstError ==
    /\ execute = "select" /\ done
    /\ errsClosed' = TRUE
    /\ errs' = {}
    /\ reported' = IF errs = {} THEN {} ELSE {CHOOSE h \in errs : TRUE}
    /\ execute' = "returned"
    /\ UNCHANGED <<hooks, snapshot, hook, failed, done, deadline>>

\* All goroutines are done: the channel is closed and emptied.
SelectDone ==
    /\ execute = "select" /\ done
    /\ errsClosed' = TRUE
    /\ errs' = {}
    /\ reported' = errs
    /\ execute' = "returned"
    /\ UNCHANGED <<hooks, snapshot, hook, failed, done, deadline>>

SelectDeadline ==
    /\ execute = "select" /\ deadline
    /\ execute' = "late"
    /\ UNCHANGED <<hooks, snapshot, hook, failed, errs, errsClosed, done, deadline, reported>>

\* After the deadline the errors that are there are taken one by one.
Drain ==
    /\ execute = "late"
    /\ \/ /\ errs = {}
          /\ execute' = "lateReturned"
          /\ UNCHANGED <<errs, reported>>
       \/ \E h \in errs :
            /\ errs' = errs \ {h}
            /\ reported' = reported \union {h}
            /\ UNCHANGED execute
    /\ UNCHANGED <<hooks, snapshot, hook, failed, errsClosed, done, deadline>>

HookStep(h) == SendError(h) \/ HookDone(h)
ExecuteStep == CloseDone \/ SelectDone \/ SelectDeadline \/ Drain

ShutdownNext ==
    \/ \E h \in Hooks : Register(h) \/ HookReturns(h) \/ HookStep(h)
    \/ Start \/ Deadline \/ ExecuteStep

\* Goroutines that can proceed do, and the deadline comes; hooks need not return.
ShutdownFairness == WF_shutdownVars(ExecuteStep) /\ WF_shutdownVars(Deadline) /\ \A h \in Hooks : WF_shutdownVars(HookStep(h))

ShutdownSpec == ShutdownInit /\ [][ShutdownNext]_shutdownVars /\ ShutdownFairness

-----------------------------------------------------------------------------

\* When Execute reports no deadline, every hook it ran has ended and the error it
\* returns joins those of exactly the hooks that failed; otherwise it still names
\* only hooks that failed.
ReportComplete ==
    /\ execute = "returned" => reported = failed /\ \A h \in snapshot : hook[h] \in {"sent", "done"}
    /\ reported \subseteq failed

\* Execute returns by the deadline, although hooks may never return, and no goroutine
\* of a hook that has returned is stuck for good, also when Execute has long returned.
ShutdownEnds ==
    []<>(/\ execute \in {"idle", "returned", "lateReturned"}
         /\ \A h \in Hooks : hook[h] \notin {"send", "sent"})
===============================================================================
