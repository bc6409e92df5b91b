-------------------------------- MODULE PGStore --------------------------------
(***************************************************************************)
(* idempotency/postgres.go under the middleware: requests on any number of *)
(* replicas, one step per SQL statement.  A statement is atomic; between   *)
(* two of one Lock call other replicas run theirs.                         *)
(*                                                                         *)
(* A statement fails when the context is cancelled and, with DbFails, at   *)
(* any time; it may fail after it took effect, when only the answer of the *)
(* server was lost.  The replicas' clocks agree.                           *)
(***************************************************************************)
EXTENDS IdempotencyMiddleware

CONSTANT DbFails  \* whether statements may fail although no context is done

Row == [status : {"IN_PROGRESS", "COMPLETED"},
        response : Requests \cup {None},
        lockedUntil : Nat,
        expiresAt : Nat]

\* NewPGStore keeps its defaults for TTLs that are not positive, so lockTTL and
\* responseTTL are positive here.

VARIABLES
    table,  \* table[k] is the row of key k, or None
    seen    \* the row that the SELECT of a request returned

vars == <<reqVars, table, seen>>

Init ==
    /\ MiddlewareInit
    /\ table = [k \in Keys |-> None]
    /\ seen = [r \in Requests |-> None]

MayFail(r) == r \in ctxDone \/ DbFails

-----------------------------------------------------------------------------
(* Lock                                                                    *)

\* The row of a lock taken at the time Lock read when it was called.
Lease(r) == [status      |-> "IN_PROGRESS",
             response    |-> None,
             lockedUntil |-> began[r] + lockTTL,
             expiresAt   |-> began[r] + responseTTL]

Lock(r) ==
    /\ pc[r] = "lock"
    /\ Goto(r, "insert")
    /\ began' = [began EXCEPT ![r] = now]
    /\ UNCHANGED <<key, answer, ctxDone, now, table, seen>>

\* INSERT ... ON CONFLICT (key) DO NOTHING.
Insert(r) ==
    /\ pc[r] = "insert"
    /\ \/ /\ r \notin ctxDone
          /\ table[key[r]] = None
          /\ table' = [table EXCEPT ![key[r]] = Lease(r)]
          /\ LockAcquired(r)
       \/ /\ r \notin ctxDone
          /\ table[key[r]] # None
          /\ Goto(r, "select")
          /\ UNCHANGED <<answer, table>>
       \/ /\ MayFail(r)
          /\ LockFailed(r)
          /\ \/ UNCHANGED table
             \/ /\ table[key[r]] = None
                /\ table' = [table EXCEPT ![key[r]] = Lease(r)]
    /\ UNCHANGED <<key, ctxDone, began, now, seen>>

RowExpired(r, row) == began[r] > row.expiresAt

LeaseExpired(r, row) == row.status = "IN_PROGRESS" /\ began[r] > row.lockedUntil

\* The SELECT of Lock, and which reclaim applies to the row.
Select(r) ==
    /\ pc[r] = "select"
    /\ \/ /\ r \notin ctxDone
          /\ table[key[r]] = None
          /\ Goto(r, "lock")
          /\ UNCHANGED <<answer, seen>>
       \/ /\ r \notin ctxDone
          /\ table[key[r]] # None
          /\ seen' = [seen EXCEPT ![r] = table[key[r]]]
          /\ IF RowExpired(r, table[key[r]])
             THEN Goto(r, "reclaimRow") /\ UNCHANGED answer
             ELSE IF LeaseExpired(r, table[key[r]])
             THEN Goto(r, "reclaimLease") /\ UNCHANGED answer
             ELSE LockFound(r, table[key[r]])
       \/ /\ MayFail(r)
          /\ LockFailed(r)
          /\ UNCHANGED seen
    /\ UNCHANGED <<key, ctxDone, began, now, table>>

\* The WHERE clause of the first UPDATE: the row has expired as it was read.
RowUnchanged(r) == table[key[r]] # None /\ table[key[r]].expiresAt = seen[r].expiresAt

\* The UPDATE of an expired row.  When it changes nothing, or fails, the lease
\* that was read is tried next, and then the row that was read is the answer.
ReclaimRow(r) ==
    /\ pc[r] = "reclaimRow"
    /\ \/ /\ r \notin ctxDone
          /\ RowUnchanged(r)
          /\ table' = [table EXCEPT ![key[r]] = Lease(r)]
          /\ LockAcquired(r)
       \/ /\ \/ r \notin ctxDone /\ ~RowUnchanged(r) /\ UNCHANGED table
             \/ MayFail(r) /\ UNCHANGED table
             \/ /\ MayFail(r)
                /\ RowUnchanged(r)
                /\ table' = [table EXCEPT ![key[r]] = Lease(r)]
          /\ IF LeaseExpired(r, seen[r])
             THEN Goto(r, "reclaimLease") /\ UNCHANGED answer
             ELSE LockFound(r, seen[r])
    /\ UNCHANGED <<key, ctxDone, began, now, seen>>

LeaseUnchanged_KeyOnly(r) == table[key[r]] # None /\ table[key[r]].status = "IN_PROGRESS"

\* The WHERE clause of the second UPDATE: still in progress under the same lease.
LeaseUnchanged(r) ==
    /\ table[key[r]] # None
    /\ table[key[r]].status = "IN_PROGRESS"
    /\ table[key[r]].lockedUntil = seen[r].lockedUntil

\* The UPDATE of an expired lease.
ReclaimLease(r) ==
    /\ pc[r] = "reclaimLease"
    /\ \/ /\ r \notin ctxDone
          /\ LeaseUnchanged(r)
          /\ table' = [table EXCEPT ![key[r]] = Lease(r)]
          /\ LockAcquired(r)
       \/ /\ \/ r \notin ctxDone /\ ~LeaseUnchanged(r) /\ UNCHANGED table
             \/ MayFail(r) /\ UNCHANGED table
             \/ /\ MayFail(r)
                /\ LeaseUnchanged(r)
                /\ table' = [table EXCEPT ![key[r]] = Lease(r)]
          /\ LockFound(r, seen[r])
    /\ UNCHANGED <<key, ctxDone, began, now, seen>>

-----------------------------------------------------------------------------
(* Save, Unlock and Delete                                                 *)

\* UPDATE ... WHERE key = $1: the row as it is, now completed.
Completed(r) ==
    IF table[key[r]] = None THEN table
    ELSE [table EXCEPT ![key[r]] = [status      |-> "COMPLETED",
                                    response    |-> r,
                                    lockedUntil |-> @.lockedUntil,
                                    expiresAt   |-> now + responseTTL]]

Save(r) ==
    /\ pc[r] = "save"
    /\ \/ r \notin ctxDone /\ table' = Completed(r) /\ SaveReturned(r, FALSE)
       \/ MayFail(r) /\ table' \in {table, Completed(r)} /\ SaveReturned(r, TRUE)
    /\ UNCHANGED <<key, answer, ctxDone, began, now, seen>>

Released_AnyStatus(r) == [table EXCEPT ![key[r]] = None]

\* DELETE ... WHERE key = $1 AND status = IN_PROGRESS.
Released(r) ==
    IF table[key[r]] # None /\ table[key[r]].status = "IN_PROGRESS"
    THEN [table EXCEPT ![key[r]] = None]
    ELSE table

Unlock(r) ==
    /\ pc[r] = "unlock"
    /\ Goto(r, "done")
    /\ \/ r \notin ctxDone /\ table' = Released(r)
       \/ MayFail(r) /\ table' \in {table, Released(r)}
    /\ UNCHANGED <<key, answer, ctxDone, began, now, seen>>

Delete(k) ==
    /\ MayDelete(k)
    /\ table' = [table EXCEPT ![k] = None]
    /\ UNCHANGED <<reqVars, seen>>

\* All requests have been served.
Done ==
    /\ \A r \in Requests : pc[r] = "done"
    /\ UNCHANGED vars

LockStep(r) ==
    Lock(r) \/ Insert(r) \/ Select(r) \/ ReclaimRow(r) \/ ReclaimLease(r)

Next ==
    \/ MiddlewareStep /\ UNCHANGED <<table, seen>>
    \/ \E r \in Requests : LockStep(r) \/ Save(r) \/ Unlock(r)
    \/ \E k \in Keys : Delete(k)
    \/ Done

Spec == Init /\ [][Next]_vars

-----------------------------------------------------------------------------
(* Properties                                                              *)

\* A stored response is replaced only after it has expired, and removed only by
\* Delete: neither a lost reclaim nor a Save or Unlock whose answer was lost
\* touches it.
ResponseKept ==
    [][\A k \in Keys :
          table[k] # None /\ table[k].status = "COMPLETED" /\ table'[k] # table[k]
              => \/ now > table[k].expiresAt
                 \/ Delete(k)]_vars
================================================================================
