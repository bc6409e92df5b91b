------------------------------ MODULE WorkerPool ------------------------------
(***************************************************************************)
(* The bounded worker pool of workerpool/workerpool.go: callers of Submit  *)
(* and SubmitContext, the worker goroutines, and callers of Stop, StopWait *)
(* and Drain, interleaved at the points where one goroutine can observe    *)
(* another: the read-write mutex mu, the channels tasks and closed, the    *)
(* sync.Once and the WaitGroup.                                            *)
(*                                                                         *)
(* Every task is submitted by one call, so a task also names the call that *)
(* submits it; a goroutine that submits several tasks is several calls     *)
(* that happen not to overlap.  A call may be made from inside a running   *)
(* task (parent), which then cannot finish before the call returns.        *)
(* Metrics and logging are left out.                                       *)
(***************************************************************************)
EXTENDS Naturals, Sequences

CONSTANTS
    Tasks,      \* the tasks, and with them the Submit/SubmitContext calls
    Workers,    \* the worker goroutines started by New
    Stoppers,   \* the goroutines that call Stop, StopWait or Drain
    QueueSize,  \* capacity of the channel p.tasks
    Nested,     \* the tasks that a running task may submit
    Expiring,   \* the calls with a context that may expire
    None        \* no task

ASSUME PoolAssumption ==
    /\ Workers # {}
    /\ QueueSize \in Nat \ {0}
    /\ Nested \subseteq Tasks /\ Expiring \subseteq Tasks
    /\ None \notin Tasks

VARIABLES
    call,         \* where the call that submits a task stands
    kind,         \* which of the two operations the call is
    parent,       \* the running task the call is made from, or None
    ctxDone,      \* the calls whose context has expired
    readers,      \* the calls that hold mu.RLock
    writerWaits,  \* Stop is blocked in mu.Lock: new RLocks must wait
    isClosed,     \* p.isClosed, guarded by mu
    closed,       \* the channel p.closed is closed
    tasksClosed,  \* the channel p.tasks is closed
    queue,        \* the buffer of the channel p.tasks
    running,      \* the task each worker executes, or None
    exited,       \* the workers that have called wg.Done
    runs,         \* how often each task was started
    finished,     \* the tasks whose executeSafely has returned
    once,         \* closeOnce: whether its function has not run, runs or is done
    stop,         \* where each stopper stands
    late          \* the calls begun when the pool already reported IsClosed

callVars == <<call, kind, parent, ctxDone, late>>
muVars   == <<readers, writerWaits, isClosed>>
workVars == <<running, exited, runs, finished>>
stopVars == <<once, stop>>
vars == <<callVars, muVars, closed, tasksClosed, queue, workVars, stopVars>>

Kinds      == {"Submit", "SubmitContext"}
Returned   == {"ok", "ErrPoolClosed", "ErrQueueFull", "ctxErr", "panic"}
CallStates == {"idle", "rlock", "poll", "send"} \cup Returned
StopStates == {"idle", "close", "announce", "lock", "once", "wait", "returned"}

Init ==
    /\ call = [t \in Tasks |-> "idle"]
    /\ kind = [t \in Tasks |-> "Submit"]
    /\ parent = [t \in Tasks |-> None]
    /\ ctxDone = {}
    /\ late = {}
    /\ readers = {}
    /\ writerWaits = FALSE
    /\ isClosed = FALSE
    /\ closed = FALSE
    /\ tasksClosed = FALSE
    /\ queue = <<>>
    /\ running = [w \in Workers |-> None]
    /\ exited = {}
    /\ runs = [t \in Tasks |-> 0]
    /\ finished = {}
    /\ once = "new"
    /\ stop = [s \in Stoppers |-> "idle"]

-----------------------------------------------------------------------------
(* Submit and SubmitContext                                                *)

\* What IsClosed() answers; both reads happen under mu.RLock.
IsClosed == isClosed \/ closed

\* The tasks workers are executing now.
RunningTasks == {running[w] : w \in Workers} \ {None}

\* Where a call may come from: outside the pool, or a task inside it.
Callers(t) == {None} \cup IF t \in Nested THEN RunningTasks ELSE {}

\* A goroutine outside the pool, or a running task, calls Submit or
\* SubmitContext; the latter returns at once when its context has expired.
Begin(t, k, p) ==
    /\ call[t] = "idle"
    /\ kind' = [kind EXCEPT ![t] = k]
    /\ parent' = [parent EXCEPT ![t] = p]
    /\ late' = IF IsClosed THEN late \cup {t} ELSE late
    /\ call' = [call EXCEPT ![t] =
                  IF k = "SubmitContext" /\ t \in ctxDone THEN "ctxErr" ELSE "rlock"]
    /\ UNCHANGED <<ctxDone, muVars, closed, tasksClosed, queue, workVars, stopVars>>

\* The context given to a SubmitContext call expires or is cancelled.
ExpireContext(t) ==
    /\ t \in Expiring \ ctxDone
    /\ call[t] = "idle" \/ (kind[t] = "SubmitContext" /\ call[t] \notin Returned)
    /\ ctxDone' = ctxDone \cup {t}
    /\ UNCHANGED <<call, kind, parent, late, muVars, closed, tasksClosed, queue,
                   workVars, stopVars>>

\* mu.RLock, which waits behind a blocked writer, and the test of isClosed it
\* guards.
AcquireRead(t) ==
    /\ call[t] = "rlock"
    /\ ~writerWaits
    /\ IF isClosed
       THEN /\ call' = [call EXCEPT ![t] = "ErrPoolClosed"]
            /\ UNCHANGED readers
       ELSE /\ call' = [call EXCEPT ![t] = "poll"]
            /\ readers' = readers \cup {t}
    /\ UNCHANGED <<kind, parent, ctxDone, late, writerWaits, isClosed, closed,
                   tasksClosed, queue, workVars, stopVars>>

\* The call returns r and releases its read lock.
Return(t, r) ==
    /\ call' = [call EXCEPT ![t] = r]
    /\ readers' = readers \ {t}

\* The non-blocking receive from p.closed.
PollClosed(t) ==
    /\ call[t] = "poll"
    /\ IF closed
       THEN Return(t, "ErrPoolClosed")
       ELSE /\ call' = [call EXCEPT ![t] = "send"]
            /\ UNCHANGED readers
    /\ UNCHANGED <<kind, parent, ctxDone, late, writerWaits, isClosed, closed,
                   tasksClosed, queue, workVars, stopVars>>

\* p.tasks <- task: panics on a closed channel, needs room in an open one.
SendReady == tasksClosed \/ Len(queue) < QueueSize

\* Mutant of Send: a full queue drops the task but the caller is told nil.
Send_DropWhenFull(t) ==
    /\ call[t] = "send"
    /\ ~tasksClosed
    /\ Return(t, "ok")
    /\ queue' = IF SendReady THEN Append(queue, t) ELSE queue
    /\ UNCHANGED <<kind, parent, ctxDone, late, writerWaits, isClosed, closed,
                   tasksClosed, workVars, stopVars>>

\* The send case of both selects.
Send(t) ==
    /\ call[t] = "send"
    /\ SendReady
    /\ IF tasksClosed
       THEN /\ Return(t, "panic")
            /\ UNCHANGED queue
       ELSE /\ Return(t, "ok")
            /\ queue' = Append(queue, t)
    /\ UNCHANGED <<kind, parent, ctxDone, late, writerWaits, isClosed, closed,
                   tasksClosed, workVars, stopVars>>

\* Mutant of GiveUp: SubmitContext's blocking select does not watch p.closed.
GiveUp_IgnoreClosed(t) ==
    /\ call[t] = "send"
    /\ \/ /\ kind[t] = "Submit"
          /\ ~SendReady
          /\ Return(t, "ErrQueueFull")
       \/ /\ kind[t] = "SubmitContext"
          /\ t \in ctxDone
          /\ Return(t, "ctxErr")
    /\ UNCHANGED <<kind, parent, ctxDone, late, writerWaits, isClosed, closed,
                   tasksClosed, queue, workVars, stopVars>>

\* The default case of Submit's select, and the other two cases of
\* SubmitContext's: any ready case may be taken, whether or not the send is
\* ready too.
GiveUp(t) ==
    /\ call[t] = "send"
    /\ \/ /\ kind[t] = "Submit"
          /\ ~SendReady
          /\ Return(t, "ErrQueueFull")
       \/ /\ kind[t] = "SubmitContext"
          /\ closed
          /\ Return(t, "ErrPoolClosed")
       \/ /\ kind[t] = "SubmitContext"
          /\ t \in ctxDone
          /\ Return(t, "ctxErr")
    /\ UNCHANGED <<kind, parent, ctxDone, late, writerWaits, isClosed, closed,
                   tasksClosed, queue, workVars, stopVars>>

-----------------------------------------------------------------------------
(* The workers                                                             *)

\* for task := range p.tasks: take the oldest task.
Receive(w) ==
    /\ w \notin exited
    /\ running[w] = None
    /\ queue # <<>>
    /\ running' = [running EXCEPT ![w] = Head(queue)]
    /\ runs' = [runs EXCEPT ![Head(queue)] = @ + 1]
    /\ queue' = Tail(queue)
    /\ UNCHANGED <<callVars, muVars, closed, tasksClosed, exited, finished, stopVars>>

\* Mutant of FinishTask: a panic in the task ends the worker goroutine.
FinishTask_NoRecover(w) ==
    /\ running[w] # None
    /\ \A t \in Tasks : parent[t] = running[w] => call[t] \in Returned
    /\ finished' = finished \cup {running[w]}
    /\ running' = [running EXCEPT ![w] = None]
    /\ exited' = exited \cup {w}
    /\ UNCHANGED <<callVars, muVars, closed, tasksClosed, queue, runs, stopVars>>

\* executeSafely returns, whether the task returned or panicked and whether or
\* not the panic handler panicked too: the worker goes on either way.
FinishTask(w) ==
    /\ running[w] # None
    /\ \A t \in Tasks : parent[t] = running[w] => call[t] \in Returned
    /\ finished' = finished \cup {running[w]}
    /\ running' = [running EXCEPT ![w] = None]
    /\ UNCHANGED <<callVars, muVars, closed, tasksClosed, queue, exited, runs, stopVars>>

\* Mutant of WorkerExit: workers leave as soon as the channel is closed.
WorkerExit_SkipQueue(w) ==
    /\ w \notin exited
    /\ running[w] = None
    /\ tasksClosed
    /\ exited' = exited \cup {w}
    /\ UNCHANGED <<callVars, muVars, closed, tasksClosed, queue, running, runs,
                   finished, stopVars>>

\* The range loop ends on a closed and empty channel; wg.Done.
WorkerExit(w) ==
    /\ w \notin exited
    /\ running[w] = None
    /\ tasksClosed
    /\ queue = <<>>
    /\ exited' = exited \cup {w}
    /\ UNCHANGED <<callVars, muVars, closed, tasksClosed, queue, running, runs,
                   finished, stopVars>>

-----------------------------------------------------------------------------
(* Stop, StopWait and Drain                                                *)

\* The first caller of closeOnce.Do runs the function, the others wait for it.
CallStop(s) ==
    /\ stop[s] = "idle"
    /\ IF once = "new"
       THEN /\ once' = "running"
            /\ stop' = [stop EXCEPT ![s] = "close"]
       ELSE /\ stop' = [stop EXCEPT ![s] = "once"]
            /\ UNCHANGED once
    /\ UNCHANGED <<callVars, muVars, closed, tasksClosed, queue, workVars>>

\* close(p.closed)
CloseSignal(s) ==
    /\ stop[s] = "close"
    /\ closed' = TRUE
    /\ stop' = [stop EXCEPT ![s] = "announce"]
    /\ UNCHANGED <<callVars, muVars, tasksClosed, queue, workVars, once>>

\* mu.Lock stops new readers, then waits for the present ones.
LockAnnounce(s) ==
    /\ stop[s] = "announce"
    /\ writerWaits' = TRUE
    /\ stop' = [stop EXCEPT ![s] = "lock"]
    /\ UNCHANGED <<callVars, readers, isClosed, closed, tasksClosed, queue, workVars, once>>

\* Mutant of CloseTasks: the channel is closed without taking mu.Lock.
CloseTasks_NoLock(s) ==
    /\ stop[s] = "lock"
    /\ writerWaits' = FALSE
    /\ isClosed' = TRUE
    /\ tasksClosed' = TRUE
    /\ once' = "done"
    /\ stop' = [stop EXCEPT ![s] = "once"]
    /\ UNCHANGED <<callVars, readers, closed, queue, workVars>>

\* The critical section: isClosed = true; close(p.tasks); and the end of Do.
CloseTasks(s) ==
    /\ stop[s] = "lock"
    /\ readers = {}
    /\ writerWaits' = FALSE
    /\ isClosed' = TRUE
    /\ tasksClosed' = TRUE
    /\ once' = "done"
    /\ stop' = [stop EXCEPT ![s] = "once"]
    /\ UNCHANGED <<callVars, readers, closed, queue, workVars>>

\* Do returns: Stop is finished, StopWait and Drain go on to wg.Wait.
OnceDone(s) ==
    /\ stop[s] = "once"
    /\ once = "done"
    /\ stop' = [stop EXCEPT ![s] = "wait"]
    /\ UNCHANGED <<callVars, muVars, closed, tasksClosed, queue, workVars, once>>

\* wg.Wait returns when every worker has exited.
WaitReturns(s) ==
    /\ stop[s] = "wait"
    /\ exited = Workers
    /\ stop' = [stop EXCEPT ![s] = "returned"]
    /\ UNCHANGED <<callVars, muVars, closed, tasksClosed, queue, workVars, once>>

-----------------------------------------------------------------------------
CallStep(t) == AcquireRead(t) \/ PollClosed(t) \/ Send(t) \/ GiveUp(t)
WorkStep(w) == Receive(w) \/ FinishTask(w) \/ WorkerExit(w)
StopStep(s) == CloseSignal(s) \/ LockAnnounce(s) \/ CloseTasks(s) \/ OnceDone(s) \/ WaitReturns(s)

\* Every call and every StopWait has returned.
Done ==
    /\ \A t \in Tasks : call[t] \in Returned
    /\ \A s \in Stoppers : stop[s] = "returned"
    /\ UNCHANGED vars

Next ==
    \/ \E t \in Tasks :
          \/ \E k \in Kinds, p \in Callers(t) : Begin(t, k, p)
          \/ ExpireContext(t)
          \/ CallStep(t)
    \/ \E w \in Workers : WorkStep(w)
    \/ \E s \in Stoppers : CallStop(s) \/ StopStep(s)
    \/ Done

Spec == Init /\ [][Next]_vars

\* The Go scheduler runs every goroutine that can run.  Nobody is obliged to
\* call Submit or Stop, and no context is obliged to expire.
Fairness ==
    /\ \A t \in Tasks : WF_vars(CallStep(t))
    /\ \A w \in Workers : WF_vars(WorkStep(w))
    /\ \A s \in Stoppers : WF_vars(StopStep(s))

FairSpec == Spec /\ Fairness
-----------------------------------------------------------------------------
(* Properties                                                              *)

TypeOK ==
    /\ call \in [Tasks -> CallStates]
    /\ kind \in [Tasks -> Kinds]
    /\ parent \in [Tasks -> Tasks \cup {None}]
    /\ ctxDone \subseteq Tasks
    /\ late \subseteq Tasks
    /\ readers \subseteq Tasks
    /\ writerWaits \in BOOLEAN
    /\ isClosed \in BOOLEAN
    /\ closed \in BOOLEAN
    /\ tasksClosed \in BOOLEAN
    /\ queue \in Seq(Tasks) /\ Len(queue) <= QueueSize
    /\ running \in [Workers -> Tasks \cup {None}]
    /\ exited \subseteq Workers
    /\ runs \in [Tasks -> Nat]
    /\ finished \subseteq Tasks
    /\ once \in {"new", "running", "done"}
    /\ stop \in [Stoppers -> StopStates]

\* The tasks whose call returned nil.
Accepted == {t \in Tasks : call[t] = "ok"}

\* The tasks waiting in the channel.
Elements(q) == {q[i] : i \in DOMAIN q}
Queued == Elements(queue)

\* Submit and SubmitContext never send on the closed tasks channel, whatever
\* Stop does meanwhile, and Stop closes neither channel a second time
\* (workerpool.go:159-162, 194-196, 239).
NoChannelPanic ==
    /\ \A t \in Tasks : call[t] # "panic"
    /\ \A s \in Stoppers : /\ stop[s] = "close" => ~closed
                           /\ stop[s] \in {"announce", "lock"} => ~tasksClosed

\* A task whose Submit returned nil is in the queue, with a worker or
\* finished, and no other task is: admission neither drops a task nor runs
\* one whose caller was told it was rejected.
NoTaskLost == Accepted = Queued \cup RunningTasks \cup finished

\* A task is started at most once, and once it has been started it is neither
\* queued nor held by two workers.
RunsAtMostOnce ==
    /\ \A t \in Tasks : runs[t] <= 1
    /\ \A t \in Queued : runs[t] = 0
    /\ \A v, w \in Workers : running[v] = running[w] => v = w \/ running[v] = None

\* When StopWait or Drain returns, every accepted task has been executed and
\* none can be accepted any more (workerpool.go:250-260).
DrainComplete ==
    \A s \in Stoppers : stop[s] = "returned" =>
        /\ Accepted \subseteq finished
        /\ \A t \in Tasks : call[t] \notin {"poll", "send"}

\* A call that begins when IsClosed already answers true is never accepted,
\* even while Stop still waits for the lock (workerpool.go:262-275).
ClosedPoolRejects == \A t \in late : call[t] # "ok"

\* Stop, StopWait and Drain return: a SubmitContext blocked on a full queue
\* with the read lock held is released by close(p.closed), also when it is
\* called from a task that occupies the last worker.
StopReturns == \A s \in Stoppers : stop[s] # "idle" ~> stop[s] = "returned"

\* Every worker runs a task that is itself blocked submitting to the pool.
Wedged ==
    \A w \in Workers : running[w] # None
        /\ \E t \in Tasks : parent[t] = running[w] /\ call[t] = "send"

\* Every accepted task is eventually executed, whether or not anyone calls Stop,
\* unless tasks that submit to their own full pool occupy all workers for good.
\* (A task is accepted once and stays finished, so it is enough that no accepted
\* task is left over at some later time.)
AcceptedTasksFinish == []<>~Wedged => []<>(Accepted \subseteq finished)
==============================================================================
