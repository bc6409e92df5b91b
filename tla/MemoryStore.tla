------------------------------ MODULE MemoryStore ------------------------------
(***************************************************************************)
(* idempotency/memory.go under the middleware: every method of MemoryStore *)
(* is one critical section of mu, and so one step.                         *)
(***************************************************************************)
EXTENDS IdempotencyMiddleware

CONSTANT maxEntries  \* 0: no bound

VARIABLE data  \* data[k] is the record of k, or None

vars == <<reqVars, data>>

Record == [status : {"IN_PROGRESS", "COMPLETED"},
           response : Requests \cup {None},
           updatedAt : Nat]

ASSUME MemoryAssumption ==
    /\ maxEntries \in Nat
    /\ None \notin Record

InProgress(t) == [status |-> "IN_PROGRESS", response |-> None, updatedAt |-> t]

Init == MiddlewareInit /\ data = [k \in Keys |-> None]

Present(d) == {k \in Keys : d[k] # None}

-----------------------------------------------------------------------------
(* Expiry and eviction                                                     *)

LockExpired(rec) ==
    lockTTL > 0 /\ rec.status = "IN_PROGRESS" /\ now > rec.updatedAt + lockTTL

ResponseExpired(rec) ==
    responseTTL > 0 /\ rec.status = "COMPLETED" /\ now > rec.updatedAt + responseTTL

Expired(rec) == LockExpired(rec) \/ ResponseExpired(rec)

WithoutExpired(d) ==
    [k \in Keys |-> IF d[k] # None /\ Expired(d[k]) THEN None ELSE d[k]]

\* The records evictOldest may choose: equal times are told apart by the order
\* in which the map is ranged over.
Oldest(d) == {k \in Present(d) : \A j \in Present(d) : d[k].updatedAt <= d[j].updatedAt}

Full(d) == maxEntries > 0 /\ Cardinality(Present(d)) >= maxEntries

\* What may be left of the records before a new one is inserted.
MakeRoom(d) ==
    IF ~Full(d) THEN {d}
    ELSE LET e == WithoutExpired(d)
         IN  IF Full(e) THEN {[e EXCEPT ![k] = None] : k \in Oldest(e)} ELSE {e}

-----------------------------------------------------------------------------
(* The operations of the store                                             *)

Lock_IgnoresRecord(r) ==
    /\ pc[r] = "lock"
    /\ r \notin ctxDone
    /\ data' = [data EXCEPT ![key[r]] = InProgress(now)]
    /\ LockAcquired(r)
    /\ began' = [began EXCEPT ![r] = now]
    /\ UNCHANGED <<key, ctxDone, now>>

Lock(r) ==
    /\ pc[r] = "lock"
    /\ \/ /\ r \in ctxDone
          /\ LockFailed(r)
          /\ UNCHANGED data
       \/ /\ r \notin ctxDone
          /\ data[key[r]] # None
          /\ Expired(data[key[r]])
          /\ data' = [data EXCEPT ![key[r]] = InProgress(now)]
          /\ LockAcquired(r)
       \/ /\ r \notin ctxDone
          /\ data[key[r]] # None
          /\ ~Expired(data[key[r]])
          /\ LockFound(r, data[key[r]])
          /\ UNCHANGED data
       \/ /\ r \notin ctxDone
          /\ data[key[r]] = None
          /\ \E d \in MakeRoom(data) : data' = [d EXCEPT ![key[r]] = InProgress(now)]
          /\ LockAcquired(r)
    /\ began' = [began EXCEPT ![r] = now]
    /\ UNCHANGED <<key, ctxDone, now>>

Save_Unlocks(r) ==
    /\ pc[r] = "save"
    /\ SaveReturned(r, FALSE)
    /\ data' = [data EXCEPT ![key[r]] = None]
    /\ UNCHANGED <<key, answer, ctxDone, began, now>>

Save(r) ==
    /\ pc[r] = "save"
    /\ SaveReturned(r, r \in ctxDone)
    /\ \/ r \in ctxDone /\ UNCHANGED data
       \/ /\ r \notin ctxDone
          /\ \E d \in (IF data[key[r]] = None THEN MakeRoom(data) ELSE {data}) :
                data' = [d EXCEPT ![key[r]] =
                    [status |-> "COMPLETED", response |-> r, updatedAt |-> now]]
    /\ UNCHANGED <<key, answer, ctxDone, began, now>>

\* Only a lock is removed, whoever holds it; on a cancelled context nothing is,
\* and the middleware drops the error.
Unlock(r) ==
    /\ pc[r] = "unlock"
    /\ Goto(r, "done")
    /\ data' = IF /\ r \notin ctxDone
                  /\ data[key[r]] # None
                  /\ data[key[r]].status = "IN_PROGRESS"
               THEN [data EXCEPT ![key[r]] = None]
               ELSE data
    /\ UNCHANGED <<key, answer, ctxDone, began, now>>

Delete(k) ==
    /\ MayDelete(k)
    /\ data' = [data EXCEPT ![k] = None]
    /\ UNCHANGED reqVars

EvictExpired ==
    /\ data' = WithoutExpired(data)
    /\ UNCHANGED reqVars

Next ==
    \/ MiddlewareStep /\ UNCHANGED data
    \/ \E r \in Requests : Lock(r) \/ Save(r) \/ Unlock(r)
    \/ \E k \in Keys : Delete(k)
    \/ EvictExpired

Spec == Init /\ [][Next]_vars

-----------------------------------------------------------------------------
(* Properties                                                              *)

TypeOK == MiddlewareTypeOK /\ data \in [Keys -> Record \cup {None}]

\* WithMaxEntries bounds the records through every order of Lock and Save
\* (memory.go:103-109, 131-137).
EntriesBounded == maxEntries > 0 => Cardinality(Present(data)) <= maxEntries

\* A key is in progress only while a request that holds it is: when its handler
\* has failed or panicked the client can retry (README "Automatic Panic & Error
\* Unlock").
NoOrphanLock ==
    \A k \in Keys : data[k] # None /\ data[k].status = "IN_PROGRESS" =>
        \E r \in Requests : Holding(r) /\ key[r] = k

\* The part of NoOrphanLock the README states: a request whose handler failed
\* or panicked leaves no lock behind (middleware.go:143-148, 164-167).
RetryAfterFailure ==
    \A r \in Requests : pc[r] = "done" /\ answer[r] \in Failures =>
        \/ data[key[r]] = None
        \/ data[key[r]].status = "COMPLETED"
        \/ \E s \in Requests : Holding(s) /\ key[s] = key[r]

\* A stored response is replaced only when it has expired and removed only then
\* or by Delete or to make room: a late Save or Unlock never touches it
\* (memory.go:121-163).
ResponseKept ==
    [][\A k \in Keys :
          data[k] # None /\ data[k].status = "COMPLETED" /\ data'[k] # data[k]
              => \/ ResponseExpired(data[k])
                 \/ maxEntries > 0 /\ data'[k] = None
                 \/ Delete(k)]_vars
================================================================================
