------------------------------- MODULE Parallel -------------------------------
(***************************************************************************)
(* Parallel and ParallelLimit of async/parallel.go.  The caller starts the *)
(* goroutines in order; ParallelLimit first takes a place in the semaphore *)
(* and gives up when the context is done.  A task succeeds, fails or       *)
(* panics; tasks[i] = nil is skipped.                                      *)
(***************************************************************************)
EXTENDS Naturals

CONSTANTS
    NTasks,        \* len(tasks)
    NilTasks,      \* the indices of nil tasks
    concurrency,   \* of ParallelLimit
    None

VARIABLES
    limited,    \* whether the call is ParallelLimit
    main,       \* where the caller stands
    next,       \* the index the loop has reached
    task,       \* where the goroutine of each task stands
    sem,        \* the places taken in the semaphore
    ctxDone,    \* the context is done
    firstErr,   \* the variable firstErr; once has run if it is not None
    first,      \* history: the first error there was, or None
    ran         \* history: the tasks that succeeded

vars == <<limited, main, next, task, sem, ctxDone, firstErr, first, ran>>

Indices == 1 .. NTasks
CtxErr == 0   \* ctx.Err(); the error of a task is its index
Concurrency == IF concurrency <= 0 THEN 10 ELSE concurrency

Init ==
    /\ limited \in BOOLEAN
    /\ main = "loop"
    /\ next = 1
    /\ task = [t \in Indices |-> "none"]
    /\ sem = 0
    /\ ctxDone = FALSE
    /\ firstErr = None /\ first = None
    /\ ran = {}

Cancel ==
    /\ main # "returned" /\ ~ctxDone
    /\ ctxDone' = TRUE
    /\ UNCHANGED <<limited, main, next, task, sem, firstErr, first, ran>>

Once_Last(err) == firstErr' = err /\ first' = IF first = None THEN err ELSE first
\* once.Do(func() { firstErr = err })
Once(err) ==
    /\ firstErr' = IF firstErr = None THEN err ELSE firstErr
    /\ first' = IF first = None THEN err ELSE first

\* The loop skips a nil task, or starts a goroutine.  ParallelLimit needs a place.
Skip ==
    /\ main = "loop" /\ next \in NilTasks
    /\ next' = next + 1
    /\ UNCHANGED <<limited, main, task, sem, ctxDone, firstErr, first, ran>>
Start ==
    /\ main = "loop" /\ next \in Indices \ NilTasks
    /\ limited => sem < Concurrency
    /\ next' = next + 1
    /\ task' = [task EXCEPT ![next] = "start"]
    /\ sem' = IF limited THEN sem + 1 ELSE sem
    /\ UNCHANGED <<limited, main, ctxDone, firstErr, first, ran>>

\* ParallelLimit returns from its loop when the context is done, without waiting.
Abandon ==
    /\ main = "loop" /\ next \in Indices \ NilTasks /\ limited /\ ctxDone
    /\ Once(CtxErr)
    /\ main' = "returned"
    /\ UNCHANGED <<limited, next, task, sem, ctxDone, ran>>

\* wg counts the tasks that have been started and are not done.
Waits == \E t \in Indices : task[t] \notin {"none", "done"}

Wait ==
    /\ main = "loop" /\ next > NTasks /\ ~Waits
    /\ main' = "returned"
    /\ UNCHANGED <<limited, next, task, sem, ctxDone, firstErr, first, ran>>

\* The goroutine polls the context, and runs the task or not.
Begin(t) ==
    /\ task[t] = "start"
    /\ IF ctxDone THEN task' = [task EXCEPT ![t] = "ended"] /\ Once(CtxErr)
       ELSE task' = [task EXCEPT ![t] = "running"] /\ UNCHANGED <<firstErr, first>>
    /\ UNCHANGED <<limited, main, next, sem, ctxDone, ran>>

Returns(t) ==
    /\ task[t] = "running"
    /\ task' = [task EXCEPT ![t] = "ended"]
    /\ \/ ran' = ran \union {t} /\ UNCHANGED <<firstErr, first>>
       \/ Once(t) /\ UNCHANGED ran
    /\ UNCHANGED <<limited, main, next, sem, ctxDone>>

Panics_Unwinds(t) ==
    /\ task[t] = "running"
    /\ task' = [task EXCEPT ![t] = "done"]
    /\ Once(t)
    /\ UNCHANGED <<limited, main, next, sem, ctxDone, ran>>
\* A panic is recovered and the deferred calls go on as after a return.
Panics(t) ==
    /\ task[t] = "running"
    /\ task' = [task EXCEPT ![t] = "ended"]
    /\ Once(t)
    /\ UNCHANGED <<limited, main, next, sem, ctxDone, ran>>

\* The deferred <-sem of ParallelLimit, and wg.Done after it.
Release(t) ==
    /\ task[t] = "ended" /\ limited
    /\ task' = [task EXCEPT ![t] = "released"]
    /\ sem' = sem - 1
    /\ UNCHANGED <<limited, main, next, ctxDone, firstErr, first, ran>>
Done(t) ==
    /\ task[t] = (IF limited THEN "released" ELSE "ended")
    /\ task' = [task EXCEPT ![t] = "done"]
    /\ UNCHANGED <<limited, main, next, sem, ctxDone, firstErr, first, ran>>

MainStep == Skip \/ Start \/ Abandon \/ Wait
TaskStep(t) == Begin(t) \/ Returns(t) \/ Panics(t) \/ Release(t) \/ Done(t)

Next == MainStep \/ Cancel \/ \E t \in Indices : TaskStep(t)

\* Goroutines proceed, and tasks return.
Fairness == WF_vars(MainStep) /\ \A t \in Indices : WF_vars(TaskStep(t))

Spec == Init /\ [][Next]_vars /\ Fairness

-----------------------------------------------------------------------------

\* When the call returns, nil means that every task has run and succeeded, an error
\* is the first there was, and all tasks are done and none will start, unless
\* ParallelLimit was cancelled in its loop.
ResultTruthful ==
    main = "returned" =>
      /\ IF firstErr = None THEN ran = Indices \ NilTasks ELSE firstErr = first
      /\ (\A t \in Indices : task[t] \in {"none", "done"}) \/ (limited /\ ctxDone /\ next <= NTasks)

\* The call returns, whatever panics and whatever is cancelled.
ParallelReturns == <>(main = "returned")
===============================================================================
