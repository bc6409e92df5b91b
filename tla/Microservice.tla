----------------------------- MODULE Microservice -----------------------------
(***************************************************************************)
(* The life of examples/microservice: main registers the shutdown hooks,   *)
(* serves requests until a signal comes, runs the hooks and exits.  The    *)
(* worker pool and the shutdown manager are those of modules WorkerPool    *)
(* and Shutdown; the hooks run side by side, so the pool may be closing    *)
(* while the HTTP server still has requests to answer.                     *)
(*                                                                         *)
(* Requests are those of handleCreateTask with a valid body.  The cache    *)
(* hook changes nothing the others see.  net/http is external: Shutdown    *)
(* stops the listener, then returns when no request is being served or its *)
(* context is done.                                                        *)
(***************************************************************************)
EXTENDS WorkerPool, Shutdown

VARIABLES
    server,    \* new, listening, or shutdown
    client,    \* what the client of each request was told
    ended      \* main has returned

mainVars == <<server, client, ended>>
serviceVars == <<vars, shutdownVars, mainVars>>

HookNames == {"workerpool", "cache", "http_server"}

\* main registers these.
ASSUME ServiceAssumption == Hooks = HookNames

ServiceInit ==
    /\ Init /\ ShutdownInit
    /\ server = "new" /\ client = [t \in Tasks |-> "none"] /\ ended = FALSE

-----------------------------------------------------------------------------
(* main and the handler                                                    *)

RegisterHook(h) ==
    /\ execute = "idle"
    /\ Register(h)
    /\ UNCHANGED <<vars, mainVars>>

\* The goroutine of ListenAndServe, which fails on a server already shut down.
Listen ==
    /\ hooks = HookNames /\ server = "new"
    /\ server' = "listening"
    /\ UNCHANGED <<vars, shutdownVars, client, ended>>

\* Shutdown.Wait receives the signal.
Signal ==
    /\ hooks = HookNames
    /\ Start
    /\ UNCHANGED <<vars, mainVars>>

Active == {t \in Tasks : client[t] = "waiting"}

\* handleCreateTask calls Submit ...
CreateTask(t) ==
    /\ server = "listening"
    /\ Begin(t, "Submit", None)
    /\ client' = [client EXCEPT ![t] = "waiting"]
    /\ UNCHANGED <<shutdownVars, server, ended>>

\* ... and answers what it returned.
Respond(t) ==
    /\ t \in Active
    /\ call[t] \in Returned
    /\ client' = [client EXCEPT ![t] = IF call[t] = "ok" THEN "201" ELSE "503"]
    /\ UNCHANGED <<vars, shutdownVars, server, ended>>

\* The goroutines of the calls and of the workers.
PoolStep ==
    /\ (\E t \in Tasks : CallStep(t)) \/ (\E w \in Workers : WorkStep(w))
    /\ UNCHANGED <<shutdownVars, mainVars>>

-----------------------------------------------------------------------------
(* The hooks                                                               *)

HookRuns(h) == hook[h] = "running"

\* A hook returns: nil, or an error.
Succeeds(h) == HookReturns(h) /\ UNCHANGED failed
Fails(h) == HookReturns(h) /\ h \in failed'

\* "workerpool" calls StopWait.
StopWait ==
    /\ HookRuns("workerpool")
    /\ \E s \in Stoppers :
         \/ (\A u \in Stoppers : stop[u] = "idle") /\ CallStop(s)
         \/ StopStep(s)
    /\ UNCHANGED <<shutdownVars, mainVars>>

\* Mutant of StopWaitReturns: the hook calls Stop instead.
StopWaitReturns_Stop ==
    /\ \E s \in Stoppers : stop[s] = "wait"
    /\ Succeeds("workerpool")
    /\ UNCHANGED <<vars, mainVars>>

StopWaitReturns ==
    /\ \E s \in Stoppers : stop[s] = "returned"
    /\ Succeeds("workerpool")
    /\ UNCHANGED <<vars, mainVars>>

CloseCache == Succeeds("cache") /\ UNCHANGED <<vars, mainVars>>

\* srv.Shutdown(ctx) stops the listener ...
CloseListener ==
    /\ HookRuns("http_server") /\ server # "shutdown"
    /\ server' = "shutdown"
    /\ UNCHANGED <<vars, shutdownVars, client, ended>>

\* ... and waits for the requests, or for its context.
ServerReturns ==
    /\ server = "shutdown"
    /\ \/ Active = {} /\ Succeeds("http_server")
       \/ deadline /\ Fails("http_server")
    /\ UNCHANGED <<vars, mainVars>>

\* What the manager itself does.
ManagerStep ==
    /\ Deadline \/ ExecuteStep \/ \E h \in HookNames : HookStep(h)
    /\ UNCHANGED <<vars, mainVars>>

\* Wait returns and main with it.
Exit ==
    /\ execute \in {"returned", "lateReturned"}
    /\ ended' = TRUE
    /\ UNCHANGED <<vars, shutdownVars, server, client>>

ServiceStep ==
    \/ \E h \in HookNames : RegisterHook(h)
    \/ Listen \/ Signal
    \/ \E t \in Tasks : CreateTask(t) \/ Respond(t)
    \/ PoolStep
    \/ StopWait \/ StopWaitReturns \/ CloseCache \/ CloseListener \/ ServerReturns
    \/ ManagerStep
    \/ Exit

\* The exit of main ends every goroutine.
Gone == ended /\ UNCHANGED serviceVars

ServiceNext == (~ended /\ ServiceStep) \/ Gone

ServiceSpec == ServiceInit /\ [][ServiceNext]_serviceVars

-----------------------------------------------------------------------------

\* When main exits without a shutdown error, every request it took was answered and
\* every task whose client was told 201 has been executed, although the server and
\* the pool are shut down at the same time (main.go:302-309, 645-656, 669-682;
\* shutdown/README.md "Drains in-flight requests cleanly before container exit").
QueuedTasksRun ==
    ended /\ execute = "returned" /\ reported = {} =>
        /\ Active = {}
        /\ \A t \in Tasks : client[t] = "201" => t \in finished
===============================================================================
