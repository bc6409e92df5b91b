--------------------------- MODULE MemoryStoreProofs ---------------------------
(***************************************************************************)
(* Proofs about MemoryStore for any number of requests and keys.           *)
(***************************************************************************)
EXTENDS MemoryStore, FiniteSetTheorems, TLAPS

-----------------------------------------------------------------------------
(* Types                                                                   *)

\* Making room changes records only by removing them.
LEMMA RoomType ==
  ASSUME NEW d \in [Keys -> Record \cup {None}], NEW e \in MakeRoom(d)
  PROVE  /\ e \in [Keys -> Record \cup {None}]
         /\ \A k \in Keys : e[k] = d[k] \/ e[k] = None
<1>1. /\ WithoutExpired(d) \in [Keys -> Record \cup {None}]
      /\ \A k \in Keys : WithoutExpired(d)[k] = d[k] \/ WithoutExpired(d)[k] = None
  BY DEF WithoutExpired
<1>2. \/ e = d
      \/ e = WithoutExpired(d)
      \/ \E k \in Keys : e = [WithoutExpired(d) EXCEPT ![k] = None]
  BY DEF MakeRoom, Oldest, Present
<1> HIDE DEF WithoutExpired
<1>3. QED
  BY <1>1, <1>2

\* A request's steps keep the types of the middleware's variables.
LEMMA MiddlewareType ==
  MiddlewareTypeOK /\ MiddlewareStep => MiddlewareTypeOK'
<1> SUFFICES ASSUME MiddlewareTypeOK, MiddlewareStep PROVE MiddlewareTypeOK'
  OBVIOUS
<1> USE MiddlewareAssumption DEF MiddlewareTypeOK, Places, LockSteps, Goto, Reply,
        Failures, Refusals
<1>1. ASSUME NEW r \in Requests, Bypass(r) PROVE MiddlewareTypeOK'
  BY <1>1 DEF Bypass
<1>2. ASSUME NEW r \in Requests, Arrive(r) PROVE MiddlewareTypeOK'
  BY <1>2 DEF Arrive
<1>3. ASSUME NEW r \in Requests, HandlerReturns(r) PROVE MiddlewareTypeOK'
  BY <1>3 DEF HandlerReturns
<1>4. ASSUME NEW r \in Requests, Cancel(r) PROVE MiddlewareTypeOK'
  BY <1>4 DEF Cancel
<1>5. CASE Tick
  BY <1>5 DEF Tick
<1>6. QED
  BY <1>1, <1>2, <1>3, <1>4, <1>5 DEF MiddlewareStep

\* A new store is well typed.
LEMMA InitType == Init => TypeOK
BY MiddlewareAssumption
   DEF Init, MiddlewareInit, TypeOK, MiddlewareTypeOK, Places

\* Every step of the middleware and of the store keeps the types.
LEMMA NextType == TypeOK /\ [Next]_vars => TypeOK'
<1> SUFFICES ASSUME TypeOK, [Next]_vars PROVE TypeOK'
  OBVIOUS
<1> USE MiddlewareAssumption DEF TypeOK
<1>a. \A t \in Nat : InProgress(t) \in Record
  BY DEF InProgress, Record
<1>1. CASE MiddlewareStep /\ UNCHANGED data
  BY <1>1, MiddlewareType
<1>2. ASSUME NEW r \in Requests, Lock(r) PROVE TypeOK'
  <2> USE DEF MiddlewareTypeOK
  <2>1. key[r] \in Keys /\ now \in Nat
    OBVIOUS
  <2>2. data' \in [Keys -> Record \cup {None}]
    <3>1. CASE UNCHANGED data
      BY <3>1
    <3>2. CASE data' = [data EXCEPT ![key[r]] = InProgress(now)]
      BY <3>2, <1>a, <2>1
    <3>3. ASSUME NEW d \in MakeRoom(data), data' = [d EXCEPT ![key[r]] = InProgress(now)]
          PROVE  data' \in [Keys -> Record \cup {None}]
      BY <3>3, <1>a, <2>1, RoomType
    <3>4. QED
      BY <1>2, <3>1, <3>2, <3>3 DEF Lock
  <2>3. data[key[r]] # None => data[key[r]].response \in Requests \cup {None}
                            /\ data[key[r]].status \in {"IN_PROGRESS", "COMPLETED"}
    BY <2>1 DEF Record
  <2>4. MiddlewareTypeOK'
    BY <1>2, <2>1, <2>3 DEF Lock, LockFailed, LockFound, LockAcquired, Goto, Reply, Places,
       Refusals
  <2>5. QED
    BY <2>2, <2>4
<1>3. ASSUME NEW r \in Requests, Save(r) PROVE TypeOK'
  <2> USE DEF MiddlewareTypeOK
  <2>1. key[r] \in Keys /\ now \in Nat
    OBVIOUS
  <2>2. MiddlewareTypeOK'
    BY <1>3 DEF Save, SaveReturned, Goto, Places
  <2>3. [status |-> "COMPLETED", response |-> r, updatedAt |-> now] \in Record
    BY <2>1 DEF Record
  <2>4. ASSUME NEW d \in MakeRoom(data) \cup {data},
               data' = [d EXCEPT ![key[r]] =
                   [status |-> "COMPLETED", response |-> r, updatedAt |-> now]]
        PROVE  data' \in [Keys -> Record \cup {None}]
    BY <2>1, <2>3, <2>4, RoomType
  <2>5. QED
    BY <1>3, <2>2, <2>4 DEF Save
<1>4. ASSUME NEW r \in Requests, Unlock(r) PROVE TypeOK'
  BY <1>4 DEF Unlock, MiddlewareTypeOK, Goto, Places
<1>5. ASSUME NEW k \in Keys, Delete(k) PROVE TypeOK'
  BY <1>5 DEF Delete, MiddlewareTypeOK, reqVars
<1>6. CASE EvictExpired
  BY <1>6 DEF EvictExpired, MiddlewareTypeOK, reqVars, WithoutExpired
<1>7. CASE UNCHANGED vars
  BY <1>7 DEF vars, reqVars, MiddlewareTypeOK
<1>8. QED
  BY <1>1, <1>2, <1>3, <1>4, <1>5, <1>6, <1>7 DEF Next

\* Every reachable state of the store and its requests is well typed.
THEOREM TypeCorrect == Spec => []TypeOK
BY InitType, NextType, PTL DEF Spec

-----------------------------------------------------------------------------
(* Replays are truthful                                                    *)

\* A stored response was written by a successful handler of its key.
StoredTruthful ==
    \A k \in Keys : data[k] # None /\ data[k].response \in Requests =>
        /\ key[data[k].response] = k
        /\ answer[data[k].response] = data[k].response

\* A request about to save has a response of its own, and one that has not yet
\* been answered has none.
AnswerInv ==
    \A r \in Requests : /\ pc[r] = "save" => answer[r] = r
                        /\ pc[r] \in {"idle", "lock", "handler"} => answer[r] = "none"

\* Every step preserves what answers and stored responses say of each other.
LEMMA NextTruthful ==
  /\ TypeOK /\ StoredTruthful /\ AnswerInv /\ ReplayTruthful /\ [Next]_vars
  => StoredTruthful' /\ AnswerInv' /\ ReplayTruthful'
<1> SUFFICES ASSUME TypeOK, StoredTruthful, AnswerInv, ReplayTruthful, [Next]_vars
             PROVE  StoredTruthful' /\ AnswerInv' /\ ReplayTruthful'
  OBVIOUS
<1> DEFINE Kept == StoredTruthful' /\ AnswerInv' /\ ReplayTruthful'
<1> USE MiddlewareAssumption, MemoryAssumption
    DEF TypeOK, MiddlewareTypeOK, StoredTruthful, AnswerInv, ReplayTruthful, Goto, Reply,
        Failures, Refusals
<1>1. ASSUME NEW r \in Requests, Bypass(r), UNCHANGED data PROVE Kept
  BY <1>1 DEF Bypass
<1>2. ASSUME NEW r \in Requests, Arrive(r), UNCHANGED data PROVE Kept
  BY <1>2 DEF Arrive
<1>3. ASSUME NEW r \in Requests, HandlerReturns(r), UNCHANGED data PROVE Kept
  BY <1>3 DEF HandlerReturns
<1>4. ASSUME NEW r \in Requests, Cancel(r), UNCHANGED data PROVE Kept
  BY <1>4 DEF Cancel
<1>5. ASSUME Tick, UNCHANGED data PROVE Kept
  BY <1>5 DEF Tick
<1>6. ASSUME NEW r \in Requests, Lock(r) PROVE Kept
  BY <1>6, RoomType, SMTT(60) DEF Lock, LockFailed, LockFound, LockAcquired, InProgress, Record
<1>7. ASSUME NEW r \in Requests, Save(r) PROVE Kept
  BY <1>7, RoomType DEF Save, SaveReturned, Record
<1>8. ASSUME NEW r \in Requests, Unlock(r) PROVE Kept
  BY <1>8 DEF Unlock
<1>9. ASSUME NEW k \in Keys, Delete(k) PROVE Kept
  BY <1>9 DEF Delete, reqVars
<1>10. CASE EvictExpired
  BY <1>10 DEF EvictExpired, reqVars, WithoutExpired
<1>11. CASE UNCHANGED vars
  BY <1>11 DEF vars, reqVars
<1>12. QED
  BY <1>1, <1>2, <1>3, <1>4, <1>5, <1>6, <1>7, <1>8, <1>9, <1>10, <1>11, ZenonT(30)
     DEF Next, MiddlewareStep

\* Whatever expires, is evicted or deleted, a replayed response is one that a
\* successful handler wrote for that key (memory.go:93-100, middleware.go:132-135).
THEOREM ReplaysAreTruthful == Spec => []ReplayTruthful
<1>1. Init => StoredTruthful /\ AnswerInv /\ ReplayTruthful
  BY MiddlewareAssumption
     DEF Init, MiddlewareInit, StoredTruthful, AnswerInv, ReplayTruthful
<1>2. QED
  BY <1>1, TypeCorrect, NextTruthful, PTL DEF Spec

-----------------------------------------------------------------------------
(* Failed handlers leave no lock behind                                    *)

NobodyCancelled == ctxDone = {}

\* Without cancelled contexts every step keeps a holder for every lock.
LEMMA NextOrphan ==
  ASSUME ~Cancels
  PROVE  TypeOK /\ NobodyCancelled /\ NoOrphanLock /\ [Next]_vars
           => NobodyCancelled' /\ NoOrphanLock'
<1> SUFFICES ASSUME TypeOK, NobodyCancelled, NoOrphanLock, [Next]_vars
             PROVE  NobodyCancelled' /\ NoOrphanLock'
  OBVIOUS
<1> DEFINE Kept == NobodyCancelled' /\ NoOrphanLock'
<1> USE MiddlewareAssumption, MemoryAssumption
    DEF TypeOK, MiddlewareTypeOK, NobodyCancelled, NoOrphanLock, Holding, Goto, Reply
<1>1. ASSUME NEW r \in Requests, Bypass(r) \/ Arrive(r), UNCHANGED data PROVE Kept
  BY <1>1 DEF Bypass, Arrive
<1>2. ASSUME NEW r \in Requests, HandlerReturns(r), UNCHANGED data PROVE Kept
  BY <1>2 DEF HandlerReturns
<1>3. ASSUME NEW r \in Requests, Cancel(r), UNCHANGED data PROVE Kept
  BY <1>3 DEF Cancel
<1>4. ASSUME Tick, UNCHANGED data PROVE Kept
  BY <1>4 DEF Tick
<1>5. ASSUME NEW r \in Requests, Lock(r) PROVE Kept
  BY <1>5, RoomType DEF Lock, LockFailed, LockFound, LockAcquired, InProgress, Record
<1>6. ASSUME NEW r \in Requests, Save(r) PROVE Kept
  BY <1>6, RoomType DEF Save, SaveReturned, Record
<1>7. ASSUME NEW r \in Requests, Unlock(r) PROVE Kept
  BY <1>7 DEF Unlock
<1>8. ASSUME NEW k \in Keys, Delete(k) PROVE Kept
  BY <1>8 DEF Delete, reqVars
<1>9. CASE EvictExpired
  BY <1>9 DEF EvictExpired, reqVars, WithoutExpired
<1>10. CASE UNCHANGED vars
  BY <1>10 DEF vars, reqVars
<1>11. QED
  BY <1>1, <1>2, <1>3, <1>4, <1>5, <1>6, <1>7, <1>8, <1>9, <1>10 DEF Next, MiddlewareStep

\* Unless contexts are cancelled, no lock outlives the requests that hold it,
\* whatever the TTLs and the bound on entries (memory.go:121-163).
THEOREM LocksAreReleased ==
  ASSUME ~Cancels
  PROVE  Spec => []NoOrphanLock
<1>1. Init => NobodyCancelled /\ NoOrphanLock
  BY DEF Init, MiddlewareInit, NobodyCancelled, NoOrphanLock
<1>2. TypeOK /\ NobodyCancelled /\ NoOrphanLock /\ [Next]_vars
        => NobodyCancelled' /\ NoOrphanLock'
  BY NextOrphan
<1>3. QED
  BY <1>1, <1>2, TypeCorrect, PTL DEF Spec

-----------------------------------------------------------------------------
(* One holder at a time                                                    *)

\* The configurations in which a lock lasts as long as its holder.
LocksLast == (lockTTL = 0 \/ Prompt) /\ maxEntries = 0 /\ (Deletes => Prompt)

\* Each holder's lock is in the store, unexpired, and is its own.
HeldInv ==
    /\ \A r \in Requests : Holding(r) =>
          /\ data[key[r]] # None
          /\ data[key[r]].status = "IN_PROGRESS"
          /\ data[key[r]].updatedAt = began[r]
          /\ lockTTL > 0 => now <= began[r] + lockTTL
    /\ \A r, s \in Requests : Holding(r) /\ Holding(s) /\ key[r] = key[s] => r = s

\* No request of this store is inside a step of the PostgreSQL store, and a
\* completed record has its response.
ShapeInv ==
    /\ \A r \in Requests : pc[r] \notin LockSteps
    /\ \A k \in Keys : data[k] # None =>
          (data[k].status = "COMPLETED" <=> data[k].response \in Requests)

\* The shape of requests and records is preserved by every step.
LEMMA NextShape == TypeOK /\ ShapeInv /\ [Next]_vars => ShapeInv'
<1> SUFFICES ASSUME TypeOK, ShapeInv, [Next]_vars PROVE ShapeInv'
  OBVIOUS
<1> USE MiddlewareAssumption, MemoryAssumption
    DEF TypeOK, MiddlewareTypeOK, ShapeInv, LockSteps, Goto, Reply
<1>1. ASSUME NEW r \in Requests, Bypass(r) \/ Arrive(r) \/ HandlerReturns(r) \/ Cancel(r),
             UNCHANGED data
      PROVE  ShapeInv'
  BY <1>1 DEF Bypass, Arrive, HandlerReturns, Cancel
<1>2. ASSUME Tick, UNCHANGED data PROVE ShapeInv'
  BY <1>2 DEF Tick
<1>3. ASSUME NEW r \in Requests, Lock(r) PROVE ShapeInv'
  BY <1>3, RoomType, SMTT(60) DEF Lock, LockFailed, LockFound, LockAcquired, InProgress, Record
<1>4. ASSUME NEW r \in Requests, Save(r) PROVE ShapeInv'
  BY <1>4, RoomType, SMTT(60) DEF Save, SaveReturned, Record
<1>5. ASSUME NEW r \in Requests, Unlock(r) PROVE ShapeInv'
  BY <1>5 DEF Unlock
<1>6. ASSUME NEW k \in Keys, Delete(k) PROVE ShapeInv'
  BY <1>6 DEF Delete, reqVars
<1>7. CASE EvictExpired
  BY <1>7 DEF EvictExpired, reqVars, WithoutExpired
<1>8. CASE UNCHANGED vars
  BY <1>8 DEF vars, reqVars
<1>9. QED
  BY <1>1, <1>2, <1>3, <1>4, <1>5, <1>6, <1>7, <1>8 DEF Next, MiddlewareStep

\* When locks last, every step keeps one holder per key.
LEMMA NextHeld ==
  ASSUME LocksLast
  PROVE  TypeOK /\ ShapeInv /\ HeldInv /\ [Next]_vars => HeldInv'
<1> SUFFICES ASSUME TypeOK, ShapeInv, HeldInv, [Next]_vars PROVE HeldInv'
  OBVIOUS
<1>t. /\ pc \in [Requests -> Places] /\ key \in [Requests -> Keys]
      /\ began \in [Requests -> Nat] /\ now \in Nat
      /\ data \in [Keys -> Record \cup {None}]
  BY DEF TypeOK, MiddlewareTypeOK
<1>f. ASSUME UNCHANGED <<key, began, now>>,
             \A s \in Requests : Holding(s)' => Holding(s) /\ data'[key[s]] = data[key[s]]
      PROVE  HeldInv'
  BY <1>f DEF HeldInv
<1>v. ASSUME NEW s \in Requests, Holding(s) PROVE ~Expired(data[key[s]])
  BY <1>t, <1>v, MiddlewareAssumption, MemoryAssumption
     DEF HeldInv, Expired, LockExpired, ResponseExpired
<1>1. ASSUME NEW r \in Requests, Bypass(r) \/ Arrive(r) \/ HandlerReturns(r) \/ Cancel(r),
             UNCHANGED data
      PROVE  HeldInv'
  <2>1. UNCHANGED <<key, began, now>>
    BY <1>1, Zenon DEF Bypass, Arrive, HandlerReturns, Cancel
  <2>2. \A s \in Requests : Holding(s)' => Holding(s)
    BY <1>t, <1>1 DEF Bypass, Arrive, HandlerReturns, Cancel, Goto, Holding
  <2>3. QED
    BY <1>f, <1>1, <2>1, <2>2, Zenon
<1>2. ASSUME Tick, UNCHANGED data PROVE HeldInv'
  <2>1. UNCHANGED <<pc, key, began>> /\ now' = now + 1
    BY <1>2 DEF Tick
  <2>2. ASSUME NEW s \in Requests, Holding(s), lockTTL > 0 PROVE now' <= began[s] + lockTTL
    BY <1>t, <1>2, <2>2, MiddlewareAssumption DEF Tick, Busy, LocksLast
  <2>3. QED
    BY <1>2, <2>1, <2>2 DEF HeldInv, Holding
<1>3. ASSUME NEW r \in Requests, Lock(r) PROVE HeldInv'
  <2>1. MakeRoom(data) = {data}
    BY MemoryAssumption DEF MakeRoom, Full, LocksLast
  <2>2. /\ pc[r] = "lock" /\ UNCHANGED <<key, now>>
        /\ began' = [began EXCEPT ![r] = now]
    BY <1>3, Zenon DEF Lock
  <2>3. CASE UNCHANGED data /\ Goto(r, "done")
    <3>1. \A s \in Requests : Holding(s)' => s # r /\ Holding(s) /\ began'[s] = began[s]
      BY <1>t, <2>2, <2>3 DEF Goto, Holding
    <3>2. QED
      BY <2>2, <2>3, <3>1 DEF HeldInv
  <2>4. CASE /\ data[key[r]] = None \/ Expired(data[key[r]])
             /\ data' = [data EXCEPT ![key[r]] = InProgress(now)]
             /\ LockAcquired(r)
    <3>1. /\ InProgress(now) # None
          /\ InProgress(now).status = "IN_PROGRESS" /\ InProgress(now).updatedAt = now
      BY <1>t, MemoryAssumption DEF InProgress, Record
    <3>2. ASSUME NEW s \in Requests, Holding(s)', s # r
          PROVE  Holding(s) /\ began'[s] = began[s]
      BY <1>t, <2>2, <2>4, <3>2 DEF LockAcquired, Goto, Holding
    <3>3. ASSUME NEW s \in Requests, Holding(s) PROVE key[s] # key[r]
      BY <1>v, <2>4, <3>3 DEF HeldInv
    <3>4. ASSUME NEW s \in Requests, Holding(s) PROVE data'[key[s]] = data[key[s]]
      BY <1>t, <2>4, <3>3, <3>4
    <3>5. data'[key[r]] = InProgress(now) /\ began'[r] = now
      BY <1>t, <2>2, <2>4
    <3>6. lockTTL > 0 => now <= now + lockTTL
      BY <1>t, MiddlewareAssumption
    <3>7. QED
      BY <2>2, <3>1, <3>2, <3>3, <3>4, <3>5, <3>6 DEF HeldInv
  <2>5. CASE r \in ctxDone
    BY <1>3, <2>3, <2>5, Zenon DEF Lock, LockFailed
  <2>6. CASE r \notin ctxDone /\ data[key[r]] # None /\ ~Expired(data[key[r]])
    <3>1. LockFound(r, data[key[r]]) /\ UNCHANGED data
      BY <1>3, <2>6, Zenon DEF Lock
    <3>2. ~(data[key[r]].status = "COMPLETED" /\ data[key[r]].response = None)
      BY <1>t, <2>6, MiddlewareAssumption, MemoryAssumption DEF ShapeInv
    <3>3. QED
      BY <2>3, <3>1, <3>2, Zenon DEF LockFound
  <2>7. QED
    BY <1>3, <2>1, <2>4, <2>5, <2>6, Zenon DEF Lock
<1>4. ASSUME NEW r \in Requests, Save(r) PROVE HeldInv'
  <2>1. UNCHANGED <<key, began, now>> /\ Holding(r)
    BY <1>4, Zenon DEF Save, Holding
  <2>2. \A s \in Requests : Holding(s)' => Holding(s)
    BY <1>t, <1>4 DEF Save, SaveReturned, Goto, Holding
  <2>3. ASSUME NEW s \in Requests, Holding(s)' PROVE data'[key[s]] = data[key[s]]
    <3>1. CASE r \in ctxDone
      BY <1>4, <3>1, Zenon DEF Save
    <3>2. CASE r \notin ctxDone
      <4>1. s # r
        BY <1>t, <1>4, <2>3, <3>2 DEF Save, SaveReturned, Goto, Holding
      <4>2. key[s] # key[r] /\ data[key[r]] # None
        BY <2>1, <2>2, <2>3, <4>1, Zenon DEF HeldInv
      <4>3. PICK rec : data' = [data EXCEPT ![key[r]] = rec]
        BY <1>4, <3>2, <4>2 DEF Save
      <4>4. QED
        BY <1>t, <4>2, <4>3
    <3>3. QED
      BY <3>1, <3>2
  <2>4. QED
    BY <1>f, <2>1, <2>2, <2>3, Zenon
<1>5. ASSUME NEW r \in Requests, Unlock(r) PROVE HeldInv'
  <2>1. UNCHANGED <<key, began, now>> /\ Holding(r) /\ Goto(r, "done")
    BY <1>5, Zenon DEF Unlock, Holding
  <2>2. \A s \in Requests : Holding(s)' => s # r /\ Holding(s)
    BY <1>t, <2>1 DEF Goto, Holding
  <2>3. ASSUME NEW s \in Requests, s # r, Holding(s) PROVE data'[key[s]] = data[key[s]]
    <3>1. key[s] # key[r]
      BY <2>1, <2>3, Zenon DEF HeldInv
    <3>2. QED
      BY <1>t, <1>5, <3>1 DEF Unlock
  <2>4. QED
    BY <1>f, <2>1, <2>2, <2>3, Zenon
<1>6. ASSUME NEW k \in Keys, Delete(k) PROVE HeldInv'
  <2>1. UNCHANGED <<pc, key, began, now>>
    BY <1>6 DEF Delete, reqVars
  <2>2. \A s \in Requests : Holding(s) => key[s] # k
    BY <1>6 DEF Delete, MayDelete, LocksLast
  <2>3. \A s \in Requests : Holding(s) => data'[key[s]] = data[key[s]]
    BY <1>t, <1>6, <2>2 DEF Delete
  <2>4. QED
    BY <1>f, <2>1, <2>3 DEF Holding
<1>7. CASE EvictExpired
  <2>1. UNCHANGED <<pc, key, began, now>>
    BY <1>7 DEF EvictExpired, reqVars
  <2>2. \A s \in Requests : Holding(s) => data'[key[s]] = data[key[s]]
    BY <1>t, <1>v, <1>7 DEF EvictExpired, WithoutExpired
  <2>3. QED
    BY <1>f, <2>1, <2>2 DEF Holding
<1>8. CASE UNCHANGED vars
  BY <1>f, <1>8 DEF vars, reqVars, Holding
<1>9. QED
  BY <1>1, <1>2, <1>3, <1>4, <1>5, <1>6, <1>7, <1>8, Zenon DEF Next, MiddlewareStep

\* A new store has no holders.
LEMMA InitHeld == Init => ShapeInv /\ HeldInv
BY DEF Init, MiddlewareInit, ShapeInv, HeldInv, Holding, LockSteps

\* When no lock expires, is evicted or is deleted under its holder, at most one
\* request at a time holds a key (memory.go:67-118).
THEOREM LocksAreExclusive ==
  ASSUME LocksLast
  PROVE  Spec => []LockExclusive
<1>1. HeldInv => LockExclusive
  BY DEF HeldInv, LockExclusive, Valid
<1>2. TypeOK /\ ShapeInv /\ HeldInv /\ [Next]_vars => HeldInv'
  BY NextHeld
<1>3. QED
  BY <1>1, <1>2, InitHeld, NextShape, TypeCorrect, PTL DEF Spec

\* Under the same hypotheses a stored response changes only when it expires: no
\* late Save or Unlock overwrites it (memory.go:121-163).
THEOREM ResponsesAreKept ==
  ASSUME LocksLast
  PROVE  Spec => ResponseKept
<1> DEFINE Step == \A k \in Keys :
              data[k] # None /\ data[k].status = "COMPLETED" /\ data'[k] # data[k]
                  => \/ ResponseExpired(data[k])
                     \/ maxEntries > 0 /\ data'[k] = None
                     \/ Delete(k)
<1>1. TypeOK /\ HeldInv /\ [Next]_vars => [Step]_vars
  <2> SUFFICES ASSUME TypeOK, HeldInv, Next PROVE Step
    OBVIOUS
  <2> USE MemoryAssumption DEF TypeOK, MiddlewareTypeOK, HeldInv, Holding, LocksLast
  <2>1. MakeRoom(data) = {data}
    BY DEF MakeRoom, Full
  <2>2. ASSUME NEW r \in Requests, Lock(r) PROVE Step
    BY <2>1, <2>2 DEF Lock, Expired, LockExpired, Record
  <2>3. ASSUME NEW r \in Requests, Save(r) \/ Unlock(r) PROVE Step
    BY <2>1, <2>3, SMTT(60) DEF Save, Unlock
  <2>4. CASE EvictExpired
    BY <2>4 DEF EvictExpired, WithoutExpired, Expired, LockExpired
  <2>5. ASSUME NEW j \in Keys, Delete(j) PROVE Step
    BY <2>5, ZenonT(30) DEF Delete
  <2>6. ASSUME UNCHANGED data PROVE Step
    BY <2>6
  <2>7. QED
    BY <2>2, <2>3, <2>4, <2>5, <2>6 DEF Next
<1>2. TypeOK /\ ShapeInv /\ HeldInv /\ [Next]_vars => HeldInv'
  BY NextHeld
<1>3. QED
  BY <1>1, <1>2, InitHeld, NextShape, TypeCorrect, PTL DEF Spec, ResponseKept

-----------------------------------------------------------------------------
(* At most one handler of a key succeeds                                   *)

\* Once a handler has succeeded its key stays in the store and nobody else
\* holds it; a success that gin gives up has a cancelled context.
SuccessInv ==
    /\ \A r \in Requests : answer[r] = r =>
          /\ data[key[r]] # None
          /\ pc[r] = "unlock" => r \in ctxDone
          /\ \A s \in Requests : Holding(s) /\ key[s] = key[r] => s = r
    /\ AtMostOneSuccess

\* When nothing ever expires or is removed, every step keeps it so.
LEMMA NextSuccess ==
  ASSUME LocksLast, lockTTL = 0, responseTTL = 0, ~Deletes
  PROVE  TypeOK /\ ShapeInv /\ HeldInv /\ StoredTruthful /\ AnswerInv /\ SuccessInv
           /\ [Next]_vars => SuccessInv'
<1> SUFFICES ASSUME TypeOK, ShapeInv, HeldInv, StoredTruthful, AnswerInv, SuccessInv,
                    [Next]_vars
             PROVE  SuccessInv'
  OBVIOUS
<1>t. /\ pc \in [Requests -> Places] /\ key \in [Requests -> Keys]
      /\ answer \in [Requests -> Requests \cup Failures \cup Refusals \cup {"none"}]
      /\ now \in Nat /\ data \in [Keys -> Record \cup {None}]
  BY DEF TypeOK, MiddlewareTypeOK
<1>a. MakeRoom(data) = {data}
  BY MemoryAssumption DEF MakeRoom, Full, LocksLast
<1>b. \A rec : ~Expired(rec)
  BY DEF Expired, LockExpired, ResponseExpired
<1>f. ASSUME UNCHANGED key, ctxDone \subseteq ctxDone',
             \A q \in Requests : answer'[q] = q => answer[q] = q,
             \A q \in Requests : answer[q] = q => data'[key[q]] # None,
             \A q \in Requests : Holding(q)' => Holding(q),
             \A q \in Requests : pc'[q] = "unlock" => pc[q] = "unlock" \/ q \in ctxDone
      PROVE  SuccessInv'
  BY <1>f DEF SuccessInv, AtMostOneSuccess
<1>g. \A q \in Requests : answer[q] = q => data[key[q]] # None
  BY DEF SuccessInv
<1>1. ASSUME NEW r \in Requests, Bypass(r) \/ Arrive(r) \/ Cancel(r), UNCHANGED data
      PROVE  SuccessInv'
  <2>1. UNCHANGED key /\ ctxDone \subseteq ctxDone'
    BY <1>1, Zenon DEF Bypass, Arrive, Cancel
  <2>2. \A q \in Requests : answer'[q] = q => answer[q] = q
    BY <1>t, <1>1, MiddlewareAssumption DEF Bypass, Arrive, Cancel, Reply, Failures, Refusals
  <2>3. \A q \in Requests : Holding(q)' => Holding(q)
    BY <1>t, <1>1 DEF Bypass, Arrive, Cancel, Goto, Holding
  <2>4. \A q \in Requests : pc'[q] = "unlock" => pc[q] = "unlock"
    BY <1>t, <1>1 DEF Bypass, Arrive, Cancel, Goto
  <2>5. QED
    BY <1>f, <1>g, <1>1, <2>1, <2>2, <2>3, <2>4, Zenon
<1>2. ASSUME NEW r \in Requests, HandlerReturns(r), UNCHANGED data PROVE SuccessInv'
  <2>1. UNCHANGED <<key, ctxDone>> /\ Holding(r)
    BY <1>2, Zenon DEF HandlerReturns, Holding
  <2>2. /\ pc'[r] = "unlock" => answer'[r] # r
        /\ \A q \in Requests \ {r} : pc'[q] = pc[q] /\ answer'[q] = answer[q]
    BY <1>t, <1>2, MiddlewareAssumption DEF HandlerReturns, Reply, Goto, Failures, Refusals
  <2>3. data[key[r]] # None /\ \A q \in Requests : Holding(q) /\ key[q] = key[r] => q = r
    BY <2>1 DEF HeldInv
  <2>4. \A q \in Requests : answer[q] = q /\ key[q] = key[r] => q = r
    BY <2>1 DEF SuccessInv
  <2>5. \A q \in Requests : Holding(q)' => Holding(q)
    BY <2>1, <2>2 DEF Holding
  <2>6. QED
    BY <1>2, <2>1, <2>2, <2>3, <2>4, <2>5 DEF SuccessInv, AtMostOneSuccess
<1>3. ASSUME Tick, UNCHANGED data PROVE SuccessInv'
  BY <1>f, <1>g, <1>3 DEF Tick, Holding
<1>4. ASSUME NEW r \in Requests, Lock(r) PROVE SuccessInv'
  <2>1. CASE data[key[r]] = None /\ r \notin ctxDone
    <3>1. /\ data' = [data EXCEPT ![key[r]] = InProgress(now)]
          /\ pc' = [pc EXCEPT ![r] = "handler"]
          /\ UNCHANGED <<key, ctxDone, answer>>
      BY <1>4, <1>a, <2>1 DEF Lock, LockAcquired, Goto
    <3>2. \A q \in Requests : answer[q] = q => key[q] # key[r]
      BY <1>g, <2>1, Zenon
    <3>3. \A q \in Requests : answer[q] = q => data'[key[q]] # None
      BY <1>t, <1>g, <3>1, <3>2
    <3>4. \A q \in Requests : /\ pc'[q] = "unlock" => pc[q] = "unlock"
                              /\ Holding(q)' => q = r \/ Holding(q)
      BY <1>t, <3>1 DEF Holding
    <3>5. QED
      BY <3>1, <3>2, <3>3, <3>4 DEF SuccessInv, AtMostOneSuccess
  <2>2. CASE data[key[r]] # None \/ r \in ctxDone
    <3>1. /\ UNCHANGED <<data, key, ctxDone>>
          /\ pc' = [pc EXCEPT ![r] = "done"]
          /\ \E a : a # r /\ answer' = [answer EXCEPT ![r] = a]
      <4>1. CASE r \in ctxDone
        <5>1. LockFailed(r) /\ UNCHANGED <<data, key, ctxDone>>
          BY <1>4, <4>1, Zenon DEF Lock
        <5>2. r # "storeError"
          BY MiddlewareAssumption DEF Failures, Refusals
        <5>3. QED
          BY <5>1, <5>2, Zenon DEF LockFailed, Goto, Reply
      <4>2. CASE r \notin ctxDone
        <5>1. /\ LockFound(r, data[key[r]]) /\ data[key[r]] # None /\ answer[r] = "none"
              /\ UNCHANGED <<data, key, ctxDone>>
          BY <1>4, <1>b, <2>2, <4>2, Zenon DEF Lock, AnswerInv
        <5>2. data[key[r]].response # r
          BY <1>t, <5>1, MiddlewareAssumption, MemoryAssumption
             DEF StoredTruthful, Failures, Refusals
        <5>3. ~(data[key[r]].status = "COMPLETED" /\ data[key[r]].response = None)
          BY <1>t, <5>1, MiddlewareAssumption, MemoryAssumption DEF ShapeInv
        <5>4. r # "conflict"
          BY MiddlewareAssumption DEF Failures, Refusals
        <5>5. QED
          BY <5>1, <5>2, <5>3, <5>4 DEF LockFound, Goto, Reply
      <4>3. QED
        BY <4>1, <4>2
    <3>2. \A q \in Requests : answer'[q] = q => answer[q] = q
      BY <1>t, <3>1
    <3>3. \A q \in Requests : /\ pc'[q] = "unlock" => pc[q] = "unlock"
                              /\ Holding(q)' => Holding(q)
      BY <1>t, <3>1 DEF Holding
    <3>4. QED
      BY <1>f, <1>g, <3>1, <3>2, <3>3
  <2>3. QED
    BY <2>1, <2>2
<1>5. ASSUME NEW r \in Requests, Save(r) PROVE SuccessInv'
  <2>1. UNCHANGED <<key, answer, ctxDone>>
    BY <1>5, Zenon DEF Save
  <2>2. \A q \in Requests : /\ Holding(q)' => Holding(q)
                            /\ pc'[q] = "unlock" => pc[q] = "unlock" \/ q \in ctxDone
    BY <1>t, <1>5 DEF Save, SaveReturned, Goto, Holding
  <2>3. \A k \in Keys : data[k] # None => data'[k] # None
    <3> DEFINE saved == [status |-> "COMPLETED", response |-> r, updatedAt |-> now]
    <3>1. UNCHANGED data \/ data' = [data EXCEPT ![key[r]] = saved]
      BY <1>5, <1>a, Zenon DEF Save
    <3>2. saved # None
      BY <1>t, MiddlewareAssumption, MemoryAssumption DEF Record
    <3> HIDE DEF saved
    <3>3. QED
      BY <1>t, <3>1, <3>2
  <2>4. QED
    BY <1>f, <1>g, <1>t, <2>1, <2>2, <2>3
<1>6. ASSUME NEW r \in Requests, Unlock(r) PROVE SuccessInv'
  <2>1. /\ UNCHANGED <<key, answer, ctxDone>> /\ pc' = [pc EXCEPT ![r] = "done"]
        /\ pc[r] = "unlock" /\ Holding(r)
    BY <1>6, Zenon DEF Unlock, Goto, Holding
  <2>2. ASSUME NEW q \in Requests, answer[q] = q PROVE data'[key[q]] # None
    <3>1. CASE r \in ctxDone
      BY <1>g, <1>6, <2>2, <3>1, Zenon DEF Unlock
    <3>2. CASE r \notin ctxDone
      <4>1. key[q] # key[r]
        BY <2>1, <2>2, <3>2, Zenon DEF SuccessInv
      <4>2. QED
        BY <1>t, <1>g, <1>6, <2>2, <4>1 DEF Unlock
    <3>3. QED
      BY <3>1, <3>2
  <2>3. \A q \in Requests : /\ Holding(q)' => Holding(q)
                            /\ pc'[q] = "unlock" => pc[q] = "unlock"
    BY <1>t, <2>1 DEF Holding
  <2>4. QED
    BY <1>f, <2>1, <2>2, <2>3
<1>7. ASSUME NEW k \in Keys, Delete(k) PROVE SuccessInv'
  BY <1>7 DEF Delete, MayDelete
<1>8. CASE EvictExpired
  <2>1. UNCHANGED <<pc, key, answer, ctxDone>>
    BY <1>8 DEF EvictExpired, reqVars
  <2>2. \A k \in Keys : data'[k] = data[k]
    BY <1>b, <1>8 DEF EvictExpired, WithoutExpired
  <2>3. QED
    BY <1>f, <1>g, <1>t, <2>1, <2>2 DEF Holding
<1>9. CASE UNCHANGED vars
  BY <1>f, <1>g, <1>9 DEF vars, reqVars, Holding
<1>10. QED
  BY <1>1, <1>2, <1>3, <1>4, <1>5, <1>6, <1>7, <1>8, <1>9, Zenon DEF Next, MiddlewareStep

\* With the default options a handler never succeeds twice for a key, also when
\* clients go away between any two steps (memory.go:67-163, middleware.go:115-167).
THEOREM SuccessHappensOnce ==
  ASSUME LocksLast, lockTTL = 0, responseTTL = 0, ~Deletes
  PROVE  Spec => []AtMostOneSuccess
<1>1. Init => StoredTruthful /\ AnswerInv /\ ReplayTruthful /\ SuccessInv
  BY MiddlewareAssumption
     DEF Init, MiddlewareInit, StoredTruthful, AnswerInv, ReplayTruthful, SuccessInv,
         AtMostOneSuccess
<1>2. TypeOK /\ ShapeInv /\ HeldInv /\ [Next]_vars => HeldInv'
  BY NextHeld
<1>3. TypeOK /\ ShapeInv /\ HeldInv /\ StoredTruthful /\ AnswerInv /\ SuccessInv
        /\ [Next]_vars => SuccessInv'
  BY NextSuccess
<1>4. SuccessInv => AtMostOneSuccess
  BY DEF SuccessInv
<1>5. QED
  BY <1>1, <1>2, <1>3, <1>4, InitHeld, NextShape, NextTruthful, TypeCorrect, PTL DEF Spec

-----------------------------------------------------------------------------
(* The bound on entries                                                    *)

\* The records present are finitely many keys.
LEMMA PresentFinite ==
  ASSUME NEW d
  PROVE  /\ IsFiniteSet(Present(d))
         /\ Cardinality(Present(d)) \in Nat
BY MiddlewareAssumption, FS_Subset, FS_CardinalityType DEF Present

\* After making room there is room, if the bound held before.
LEMMA RoomLeft ==
  ASSUME maxEntries > 0, NEW d \in [Keys -> Record \cup {None}],
         Cardinality(Present(d)) <= maxEntries, NEW e \in MakeRoom(d)
  PROVE  Cardinality(Present(e)) < maxEntries
<1> USE MemoryAssumption
<1> DEFINE w == WithoutExpired(d)
<1>1. CASE ~Full(d)
  BY <1>1, PresentFinite DEF MakeRoom, Full
<1>2. CASE Full(d) /\ ~Full(w)
  BY <1>2, PresentFinite DEF MakeRoom, Full
<1>3. CASE Full(d) /\ Full(w)
  <2>1. PICK k \in Present(w) : e = [w EXCEPT ![k] = None]
    BY <1>3 DEF MakeRoom, Oldest
  <2>2. w \in [Keys -> Record \cup {None}] /\ Present(w) \subseteq Present(d)
    BY DEF WithoutExpired, Present
  <2>3. Cardinality(Present(w)) <= Cardinality(Present(d))
    BY <2>2, PresentFinite, FS_Subset
  <2>4. Present(e) = Present(w) \ {k}
    <3> HIDE DEF w
    <3>1. QED
      BY <2>1, <2>2 DEF Present
  <2>5. Cardinality(Present(e)) = Cardinality(Present(w)) - 1
    BY <2>4, PresentFinite, FS_RemoveElement, ZenonT(60)
  <2>6. QED
    BY <2>3, <2>5, PresentFinite
<1>4. QED
  BY <1>1, <1>2, <1>3

\* A write to one key adds at most one record, and none if it had one.
LEMMA OneMore ==
  ASSUME NEW d \in [Keys -> Record \cup {None}], NEW k \in Keys,
         NEW rec \in Record \cup {None}
  PROVE  LET e == [d EXCEPT ![k] = rec]
         IN  /\ Cardinality(Present(e)) <= Cardinality(Present(d)) + 1
             /\ d[k] # None => Cardinality(Present(e)) <= Cardinality(Present(d))
             /\ rec = None => Cardinality(Present(e)) <= Cardinality(Present(d))
<1> DEFINE e == [d EXCEPT ![k] = rec]
<1>1. Present(e) \subseteq Present(d) \cup {k}
  BY DEF Present
<1>2. d[k] # None \/ rec = None => Present(e) \subseteq Present(d)
  BY DEF Present
<1>3. /\ IsFiniteSet(Present(d) \cup {k})
      /\ Cardinality(Present(d) \cup {k}) <= Cardinality(Present(d)) + 1
  <2>1. IsFiniteSet(Present(d)) /\ Cardinality(Present(d)) \in Nat
    BY PresentFinite
  <2>2. /\ IsFiniteSet(Present(d) \cup {k})
        /\ \/ Cardinality(Present(d) \cup {k}) = Cardinality(Present(d))
           \/ Cardinality(Present(d) \cup {k}) = Cardinality(Present(d)) + 1
    BY <2>1, FS_AddElement, Zenon
  <2>3. QED
    BY <2>1, <2>2
<1> HIDE DEF e
<1>4. Cardinality(Present(e)) <= Cardinality(Present(d) \cup {k})
  BY <1>1, <1>3, FS_Subset
<1>5. d[k] # None \/ rec = None => Cardinality(Present(e)) <= Cardinality(Present(d))
  BY <1>2, PresentFinite, FS_Subset
<1>6. Cardinality(Present(d) \cup {k}) \in Nat
  BY <1>3, FS_CardinalityType
<1>7. QED
  BY <1>3, <1>4, <1>5, <1>6, PresentFinite DEF e

\* Every step keeps the number of records within WithMaxEntries.
LEMMA NextBounded == TypeOK /\ EntriesBounded /\ [Next]_vars => EntriesBounded'
<1> SUFFICES ASSUME TypeOK, EntriesBounded, [Next]_vars, maxEntries > 0
             PROVE  Cardinality(Present(data')) <= maxEntries
  BY DEF EntriesBounded, Present
<1> USE MemoryAssumption DEF TypeOK, MiddlewareTypeOK
<1>1. Cardinality(Present(data)) <= maxEntries
  BY DEF EntriesBounded
<1>2. ASSUME NEW k \in Keys, NEW rec \in Record, NEW d \in MakeRoom(data),
             data' = [d EXCEPT ![k] = rec]
      PROVE  Cardinality(Present(data')) <= maxEntries
  <2>1. d \in [Keys -> Record \cup {None}] /\ Cardinality(Present(d)) < maxEntries
    BY <1>1, RoomType, RoomLeft
  <2>2. Cardinality(Present(data')) <= Cardinality(Present(d)) + 1
    BY <1>2, <2>1, OneMore, ZenonT(30)
  <2>3. QED
    BY <2>1, <2>2, PresentFinite
<1>3. ASSUME NEW k \in Keys, NEW rec \in Record \cup {None},
             data[k] # None \/ rec = None, data' = [data EXCEPT ![k] = rec]
      PROVE  Cardinality(Present(data')) <= maxEntries
  <2>1. Cardinality(Present(data')) <= Cardinality(Present(data))
    BY <1>3, OneMore, ZenonT(30)
  <2>2. QED
    BY <1>1, <2>1, PresentFinite
<1>4. ASSUME UNCHANGED data PROVE Cardinality(Present(data')) <= maxEntries
  BY <1>1, <1>4
<1>5. ASSUME NEW r \in Requests, Lock(r) PROVE Cardinality(Present(data')) <= maxEntries
  <2>1. InProgress(now) \in Record /\ key[r] \in Keys
    BY DEF InProgress, Record
  <2>2. QED
    BY <1>2, <1>3, <1>4, <1>5, <2>1 DEF Lock
<1>6. ASSUME NEW r \in Requests, Save(r) PROVE Cardinality(Present(data')) <= maxEntries
  <2>1. /\ [status |-> "COMPLETED", response |-> r, updatedAt |-> now] \in Record
        /\ key[r] \in Keys
    BY DEF Record
  <2>2. QED
    BY <1>2, <1>3, <1>4, <1>6, <2>1, ZenonT(30) DEF Save
<1>7. ASSUME NEW r \in Requests, Unlock(r) PROVE Cardinality(Present(data')) <= maxEntries
  BY <1>3, <1>4, <1>7, ZenonT(30) DEF Unlock
<1>8. ASSUME NEW k \in Keys, Delete(k) PROVE Cardinality(Present(data')) <= maxEntries
  BY <1>3, <1>8, ZenonT(30) DEF Delete
<1>9. ASSUME EvictExpired PROVE Cardinality(Present(data')) <= maxEntries
  <2>1. Present(data') \subseteq Present(data)
    BY <1>9 DEF EvictExpired, WithoutExpired, Present
  <2>2. Cardinality(Present(data')) <= Cardinality(Present(data))
    BY <2>1, PresentFinite, FS_Subset
  <2>3. QED
    BY <1>1, <2>2, PresentFinite
<1>10. QED
  BY <1>4, <1>5, <1>6, <1>7, <1>8, <1>9 DEF Next, vars

\* WithMaxEntries bounds the store through every order of Lock, Save, Unlock,
\* Delete and EvictExpired (memory.go:103-109, 131-137, 193-221).
THEOREM StoreIsBounded == Spec => []EntriesBounded
<1>1. Init => EntriesBounded
  <2> SUFFICES ASSUME Init PROVE Cardinality(Present(data)) = 0
    BY MemoryAssumption DEF EntriesBounded
  <2>1. Present(data) = {}
    BY DEF Init, Present
  <2>2. QED
    BY <2>1, FS_EmptySet
<1>2. QED
  BY <1>1, TypeCorrect, NextBounded, PTL DEF Spec
================================================================================
