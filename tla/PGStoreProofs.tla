---------------------------- MODULE PGStoreProofs ----------------------------
(***************************************************************************)
(* Proofs about the idempotency middleware over the PostgreSQL store, for  *)
(* any number of requests, replicas and keys.                              *)
(***************************************************************************)
EXTENDS MCIdempotency, TLAPS

-----------------------------------------------------------------------------
(* Types                                                                   *)

pgVars == <<cPc, cKey, cAnswer, cCtxDone, cBegan, cNow, table, seen>>

\* The types.
PGType ==
    /\ cPc \in [Requests -> Places]
    /\ cKey \in [Requests -> Keys]
    /\ cAnswer \in [Requests -> Requests \cup Failures \cup Refusals \cup {"none"}]
    /\ cBegan \in [Requests -> Nat]
    /\ cNow \in Nat
    /\ table \in [Keys -> PG!Row \cup {None}]
    /\ seen \in [Requests -> PG!Row \cup {None}]

\* What a request that is about to reclaim a row has seen of it.
PGSeenInv ==
    \A r \in Requests :
        /\ cPc[r] = "reclaimRow" => seen[r] # None /\ cBegan[r] > seen[r].expiresAt
        /\ cPc[r] = "reclaimLease" => /\ seen[r] # None /\ seen[r].status = "IN_PROGRESS"
                                     /\ cBegan[r] > seen[r].lockedUntil

\* The instance's places and refusals are those of the middleware, and None is no row.
LEMMA PGConstants ==
    /\ PG!Places = Places /\ PG!Failures = Failures /\ PG!Refusals = Refusals
    /\ None \notin PG!Row /\ None \notin Requests
BY PGAssumption, MiddlewareAssumption
   DEF PG!Places, PG!LockSteps, Places, LockSteps, PG!Failures, PG!Refusals, Failures, Refusals, PG!Row

\* A lease is a row, and so is what Save makes of one.
LEMMA Rows ==
    ASSUME PGType, NEW r \in Requests
    PROVE  /\ PG!Lease(r) \in PG!Row
           /\ PG!Completed(r) \in [Keys -> PG!Row \cup {None}]
           /\ PG!Released(r) \in [Keys -> PG!Row \cup {None}]
<1>1. cKey[r] \in Keys /\ cBegan[r] \in Nat /\ cNow \in Nat /\ table \in [Keys -> PG!Row \cup {None}]
  BY DEF PGType
<1>2. PG!Lease(r) \in PG!Row
  BY <1>1, PGAssumption DEF PG!Lease, PG!Row
<1>3. PG!Released(r) \in [Keys -> PG!Row \cup {None}]
  BY <1>1 DEF PG!Released
<1>4. PG!Completed(r) \in [Keys -> PG!Row \cup {None}]
  <2>1. CASE table[cKey[r]] = None
    BY <1>1, <2>1 DEF PG!Completed
  <2>2. CASE table[cKey[r]] # None
    <3> DEFINE new == [status |-> "COMPLETED", response |-> r,
                       lockedUntil |-> table[cKey[r]].lockedUntil, expiresAt |-> cNow + pgResponseTTL]
    <3>1. table[cKey[r]] \in PG!Row
      BY <1>1, <2>2
    <3>2. new \in PG!Row
      BY <1>1, <3>1, PGAssumption DEF PG!Row
    <3>3. PG!Completed(r) = [table EXCEPT ![cKey[r]] = new]
      BY <2>2 DEF PG!Completed
    <3> QED
      BY <1>1, <3>2, <3>3
  <2> QED
    BY <2>1, <2>2
<1> QED
  BY <1>2, <1>3, <1>4

\* Nobody can be using the row of the request's key: there is none, or it has expired, or
\* its lease has.
RowFree(r) ==
    LET row == table[cKey[r]]
    IN  row # None => \/ cBegan[r] > row.expiresAt
                      \/ row.status = "IN_PROGRESS" /\ cBegan[r] > row.lockedUntil

\* What the statements of Lock do: each may take a free row, whether or not the request
\* learns of it; and the request goes on to its handler only if it has, to another
\* statement, or is told what it or an earlier statement saw.
LockEffect(r) ==
    /\ cPc[r] \in LockSteps
    /\ UNCHANGED <<cKey, cBegan, cNow>>
    /\ table' = table \/ (RowFree(r) /\ table' = [table EXCEPT ![cKey[r]] = PG!Lease(r)])
    /\ seen' = seen \/ (table[cKey[r]] # None /\ seen' = [seen EXCEPT ![r] = table[cKey[r]]])
    /\ \/ RowFree(r) /\ table' = [table EXCEPT ![cKey[r]] = PG!Lease(r)] /\ PG!LockAcquired(r)
       \/ \E place \in LockSteps \cup {"lock"} : PG!Goto(r, place) /\ cAnswer' = cAnswer
       \/ PG!LockFailed(r)
       \/ \E rec \in {table[cKey[r]], seen[r]} \ {None} : PG!LockFound(r, rec)

\* The statements of Lock have that effect.
LEMMA LockEffects ==
    ASSUME PGType, PGSeenInv, NEW r \in Requests,
           PG!Insert(r) \/ PG!Select(r) \/ PG!ReclaimRow(r) \/ PG!ReclaimLease(r)
    PROVE  LockEffect(r)
<1>t. cKey[r] \in Keys /\ seen[r] \in PG!Row \cup {None} /\ seen \in [Requests -> PG!Row \cup {None}]
  BY DEF PGType
<1>1. CASE PG!Insert(r)
  BY <1>1, Zenon DEF PG!Insert, LockEffect, LockSteps, RowFree
<1>2. CASE PG!Select(r)
  BY <1>2, Zenon DEF PG!Select, LockEffect, LockSteps
<1>3. CASE PG!ReclaimRow(r)
  <2>1. seen[r] # None /\ cBegan[r] > seen[r].expiresAt
    BY <1>3, Zenon DEF PG!ReclaimRow, PGSeenInv
  <2>2. PG!RowUnchanged(r) => RowFree(r)
    BY <2>1 DEF PG!RowUnchanged, RowFree
  <2> QED
    BY <1>3, <2>1, <2>2, Zenon DEF PG!ReclaimRow, LockEffect, LockSteps
<1>4. CASE PG!ReclaimLease(r)
  <2>1. seen[r] # None /\ cBegan[r] > seen[r].lockedUntil
    BY <1>4, Zenon DEF PG!ReclaimLease, PGSeenInv
  <2>2. PG!LeaseUnchanged(r) => RowFree(r)
    BY <2>1 DEF PG!LeaseUnchanged, RowFree
  <2> QED
    BY <1>4, <2>1, <2>2, Zenon DEF PG!ReclaimLease, LockEffect, LockSteps
<1> QED
  BY <1>1, <1>2, <1>3, <1>4

\* The kinds of steps.
LEMMA PGCases ==
    ASSUME PGType, PGSeenInv, [PG!Next]_pgVars
    PROVE  \/ \E r \in Requests : \/ PG!Bypass(r) /\ UNCHANGED <<table, seen>>
                                  \/ PG!Arrive(r) /\ UNCHANGED <<table, seen>>
                                  \/ PG!HandlerReturns(r) /\ UNCHANGED <<table, seen>>
                                  \/ PG!Cancel(r) /\ UNCHANGED <<table, seen>>
                                  \/ PG!Lock(r)
                                  \/ LockEffect(r)
                                  \/ PG!Save(r)
                                  \/ PG!Unlock(r)
           \/ PG!Tick /\ UNCHANGED <<table, seen>>
           \/ \E k \in Keys : PG!Delete(k)
           \/ UNCHANGED pgVars
BY LockEffects, Zenon DEF PG!Next, PG!MiddlewareStep, PG!LockStep, PG!Done, PG!vars, PG!reqVars, pgVars

\* Every step keeps the types.
LEMMA PGTypeStep == PGType /\ PGSeenInv /\ [PG!Next]_pgVars => PGType'
<1> SUFFICES ASSUME PGType, PGSeenInv, [PG!Next]_pgVars PROVE PGType'
  OBVIOUS
<1> USE PGConstants DEF PGType, Places, LockSteps, Failures, Refusals, PG!Goto, PG!Reply
<1>1. ASSUME NEW r \in Requests, UNCHANGED <<table, seen>>,
             PG!Bypass(r) \/ PG!Arrive(r) \/ PG!HandlerReturns(r) \/ PG!Cancel(r)
      PROVE  PGType'
  <2>1. CASE PG!Bypass(r)
    BY <1>1, <2>1 DEF PG!Bypass
  <2>2. CASE PG!Arrive(r) \/ PG!Cancel(r)
    BY <1>1, <2>2 DEF PG!Arrive, PG!Cancel
  <2>3. CASE PG!HandlerReturns(r)
    BY <1>1, <2>3 DEF PG!HandlerReturns
  <2> QED
    BY <1>1, <2>1, <2>2, <2>3, Zenon
<1>2. ASSUME NEW r \in Requests, PG!Lock(r) PROVE PGType'
  BY <1>2 DEF PG!Lock
<1>3. ASSUME NEW r \in Requests, LockEffect(r) PROVE PGType'
  <2>1. table' \in [Keys -> PG!Row \cup {None}] /\ seen' \in [Requests -> PG!Row \cup {None}]
    BY <1>3, Rows DEF LockEffect
  <2>2. cKey' = cKey /\ cBegan' = cBegan /\ cNow' = cNow
    BY <1>3 DEF LockEffect
  <2>3. ASSUME NEW rec \in PG!Row, PG!LockFound(r, rec)
        PROVE  /\ cPc' \in [Requests -> Places]
               /\ cAnswer' \in [Requests -> Requests \cup Failures \cup Refusals \cup {"none"}]
    <3>1. rec.response \in Requests \cup {None} /\ rec.status \in {"IN_PROGRESS", "COMPLETED"}
      BY DEF PG!Row
    <3> QED
      BY <2>3, <3>1 DEF PG!LockFound, PG!LockAcquired
  <2>4. /\ cPc' \in [Requests -> Places]
        /\ cAnswer' \in [Requests -> Requests \cup Failures \cup Refusals \cup {"none"}]
    BY <1>3, <2>3 DEF LockEffect, PG!LockAcquired, PG!LockFailed
  <2> QED
    BY <2>1, <2>2, <2>4
<1>4. ASSUME NEW r \in Requests, PG!Save(r) \/ PG!Unlock(r) PROVE PGType'
  <2>1. table' \in [Keys -> PG!Row \cup {None}]
    <3>1. table' \in {table, PG!Completed(r), PG!Released(r)}
      BY <1>4, Zenon DEF PG!Save, PG!Unlock
    <3> QED
      BY <3>1, Rows
  <2> QED
    BY <1>4, <2>1 DEF PG!Save, PG!SaveReturned, PG!Unlock
<1>5. CASE PG!Tick /\ UNCHANGED <<table, seen>>
  BY <1>5 DEF PG!Tick
<1>6. ASSUME NEW k \in Keys, PG!Delete(k) PROVE PGType'
  BY <1>6 DEF PG!Delete, PG!reqVars
<1>7. CASE UNCHANGED pgVars
  BY <1>7 DEF pgVars
<1> QED
  BY <1>1, <1>2, <1>3, <1>4, <1>5, <1>6, <1>7, PGCases, Zenon

\* Every step keeps what was seen.
LEMMA SeenStep == PGType /\ PGSeenInv /\ [PG!Next]_pgVars => PGSeenInv'
<1> SUFFICES ASSUME PGType, PGSeenInv, [PG!Next]_pgVars PROVE PGSeenInv'
  OBVIOUS
<1> USE DEF PGSeenInv
<1>t. /\ cPc \in [Requests -> Places] /\ cBegan \in [Requests -> Nat]
      /\ seen \in [Requests -> PG!Row \cup {None}]
  BY DEF PGType
<1>m. ASSUME NEW r \in Requests, NEW place \in Places \ {"reclaimRow", "reclaimLease"},
             cPc' = [cPc EXCEPT ![r] = place],
             \A q \in Requests \ {r} : seen'[q] = seen[q] /\ cBegan'[q] = cBegan[q]
      PROVE  PGSeenInv'
  BY <1>m, <1>t
<1>1. ASSUME NEW r \in Requests, PG!Insert(r) PROVE PGSeenInv'
  BY <1>1, <1>m, Zenon DEF PG!Insert, PG!LockAcquired, PG!LockFailed, PG!Goto, Places, LockSteps
<1>2. ASSUME NEW r \in Requests, PG!Select(r) PROVE PGSeenInv'
  <2>1. UNCHANGED cBegan /\ \A q \in Requests \ {r} : seen'[q] = seen[q]
    BY <1>2, <1>t, Zenon DEF PG!Select
  <2>2. CASE \E place \in {"lock", "handler", "done"} : cPc' = [cPc EXCEPT ![r] = place]
    BY <1>m, <2>1, <2>2, Zenon DEF Places, LockSteps
  <2>3. CASE /\ table[cKey[r]] # None /\ seen' = [seen EXCEPT ![r] = table[cKey[r]]]
             /\ PG!RowExpired(r, table[cKey[r]]) /\ PG!Goto(r, "reclaimRow")
    BY <2>1, <2>3, <1>t DEF PG!RowExpired, PG!Goto
  <2>4. CASE /\ table[cKey[r]] # None /\ seen' = [seen EXCEPT ![r] = table[cKey[r]]]
             /\ PG!LeaseExpired(r, table[cKey[r]]) /\ PG!Goto(r, "reclaimLease")
    BY <2>1, <2>4, <1>t DEF PG!LeaseExpired, PG!Goto
  <2> QED
    BY <1>2, <2>2, <2>3, <2>4, Zenon DEF PG!Select, PG!LockFound, PG!LockAcquired, PG!LockFailed, PG!Goto
<1>3. ASSUME NEW r \in Requests, PG!ReclaimRow(r) PROVE PGSeenInv'
  <2>1. UNCHANGED <<cBegan, seen>>
    BY <1>3, Zenon DEF PG!ReclaimRow
  <2>2. CASE \E place \in {"handler", "done"} : cPc' = [cPc EXCEPT ![r] = place]
    BY <1>m, <2>1, <2>2 DEF Places, LockSteps
  <2>3. CASE PG!LeaseExpired(r, seen[r]) /\ PG!Goto(r, "reclaimLease")
    <3>1. seen[r] # None
      BY <1>3, Zenon DEF PG!ReclaimRow
    <3> QED
      BY <2>1, <2>3, <3>1, <1>t DEF PG!LeaseExpired, PG!Goto
  <2> QED
    BY <1>3, <2>2, <2>3, Zenon DEF PG!ReclaimRow, PG!LockFound, PG!LockAcquired, PG!Goto
<1>4. ASSUME NEW r \in Requests, PG!ReclaimLease(r) PROVE PGSeenInv'
  <2>1. UNCHANGED <<cBegan, seen>> /\ \E place \in {"handler", "done"} : cPc' = [cPc EXCEPT ![r] = place]
    BY <1>4 DEF PG!ReclaimLease, PG!LockFound, PG!LockAcquired, PG!Goto
  <2> QED
    BY <1>m, <2>1 DEF Places, LockSteps
<1>5. ASSUME NEW r \in Requests, PG!Lock(r) \/ PG!Save(r) \/ PG!Unlock(r) PROVE PGSeenInv'
  <2>1. /\ \E place \in {"insert", "unlock", "done"} : cPc' = [cPc EXCEPT ![r] = place]
        /\ seen' = seen /\ \A q \in Requests \ {r} : cBegan'[q] = cBegan[q]
    BY <1>5, <1>t DEF PG!Lock, PG!Save, PG!SaveReturned, PG!Unlock, PG!Goto
  <2> QED
    BY <1>m, <2>1, Zenon DEF Places, LockSteps
<1>6. CASE PG!MiddlewareStep /\ UNCHANGED <<table, seen>>
  <2>1. ASSUME NEW r \in Requests, PG!Bypass(r) \/ PG!Arrive(r) \/ PG!HandlerReturns(r)
        PROVE  PGSeenInv'
    <3>1. /\ \E place \in {"lock", "save", "unlock", "done"} : cPc' = [cPc EXCEPT ![r] = place]
          /\ seen' = seen /\ cBegan' = cBegan
      BY <1>6, <2>1, Zenon DEF PG!Bypass, PG!Arrive, PG!HandlerReturns, PG!Goto
    <3> QED
      BY <1>m, <3>1 DEF Places, LockSteps
  <2>2. ASSUME NEW r \in Requests, PG!Cancel(r) PROVE PGSeenInv'
    BY <1>6, <2>2 DEF PG!Cancel
  <2>3. CASE PG!Tick
    BY <1>6, <2>3, Zenon DEF PG!Tick
  <2> QED
    BY <1>6, <2>1, <2>2, <2>3, Zenon DEF PG!MiddlewareStep
<1>7. ASSUME NEW k \in Keys, PG!Delete(k) PROVE PGSeenInv'
  BY <1>7 DEF PG!Delete, PG!reqVars
<1>8. CASE UNCHANGED pgVars
  BY <1>8 DEF pgVars
<1> QED
  BY <1>1, <1>2, <1>3, <1>4, <1>5, <1>6, <1>7, <1>8, Zenon
     DEF PG!Next, PG!LockStep, PG!Done, PG!vars, PG!reqVars, pgVars

-----------------------------------------------------------------------------
(* What is replayed                                                        *)

\* Only requests past their handler, or refused, have been answered; a request saves what
\* its own handler wrote.
PGAnswerInv ==
    \A r \in Requests :
        /\ cPc[r] \notin {"save", "unlock", "done"} => cAnswer[r] = "none"
        /\ cPc[r] = "save" => cAnswer[r] = r

\* A completed row of key k holds what the handler of a request with that key wrote.
OwnResponse(row, k) ==
    row # None /\ row.status = "COMPLETED" =>
        row.response \in Requests /\ cKey[row.response] = k /\ cAnswer[row.response] = row.response

\* The rows of the table, the rows that were read, and what was replayed are truthful.
TruthInv ==
    /\ PGAnswerInv
    /\ \A k \in Keys : OwnResponse(table[k], k)
    /\ \A r \in Requests : OwnResponse(seen[r], cKey[r])
    /\ ReplaysTruthful

\* What a step does to the answers: keys are fixed, a request answered with the response of
\* its own handler keeps it, and a new answer is such a response, a failure, a refusal, or
\* that of a completed row.
AnswerStep ==
    /\ cKey' = cKey
    /\ \A q \in Requests :
          \/ cAnswer'[q] = cAnswer[q]
          \/ cAnswer[q] = "none" /\ cAnswer'[q] \in {q} \cup Failures \cup Refusals
          \/ /\ cAnswer[q] = "none"
             /\ \E rec \in {table[cKey[q]], seen[q]} \ {None} :
                   rec.status = "COMPLETED" /\ cAnswer'[q] = rec.response

\* Every step does that.
LEMMA AnswerSteps ==
    ASSUME PGType, PGSeenInv, TruthInv, [PG!Next]_pgVars
    PROVE  AnswerStep /\ PGAnswerInv'
<1>t. /\ cPc \in [Requests -> Places] /\ cKey \in [Requests -> Keys]
      /\ cAnswer \in [Requests -> Requests \cup Failures \cup Refusals \cup {"none"}]
      /\ table \in [Keys -> PG!Row \cup {None}] /\ seen \in [Requests -> PG!Row \cup {None}]
  BY DEF PGType
<1>a. PGAnswerInv
  BY DEF TruthInv
<1>r. ASSUME NEW r \in Requests, NEW a, NEW place \in Places \ {"save"},
             cPc[r] \notin {"save", "unlock", "done"}, cKey' = cKey,
             cPc' = [cPc EXCEPT ![r] = place], cAnswer' = [cAnswer EXCEPT ![r] = a],
             place \notin {"unlock", "done"} => a = "none",
             \/ a \in {r, "none"} \cup Failures \cup Refusals
             \/ \E rec \in {table[cKey[r]], seen[r]} \ {None} :
                   rec.status = "COMPLETED" /\ a = rec.response
      PROVE  AnswerStep /\ PGAnswerInv'
  <2>1. cAnswer[r] = "none"
    BY <1>r, <1>a DEF PGAnswerInv
  <2>2. \A q \in Requests \ {r} : cAnswer'[q] = cAnswer[q] /\ cPc'[q] = cPc[q]
    BY <1>r, <1>t
  <2>3. cAnswer'[r] = a /\ cPc'[r] = place
    BY <1>r, <1>t
  <2>4. AnswerStep
    BY <1>r, <2>1, <2>2, <2>3 DEF AnswerStep
  <2>5. PGAnswerInv'
    BY <1>r, <1>a, <2>2, <2>3 DEF PGAnswerInv
  <2> QED
    BY <2>4, <2>5
<1>m. ASSUME NEW r \in Requests, NEW place \in Places \ {"save"}, cKey' = cKey, cAnswer' = cAnswer,
             cPc' = [cPc EXCEPT ![r] = place],
             cPc[r] \in {"save", "unlock", "done"} => place \in {"unlock", "done"}
      PROVE  AnswerStep /\ PGAnswerInv'
  <2>1. PGAnswerInv'
    BY <1>m, <1>t, <1>a DEF PGAnswerInv
  <2> QED
    BY <1>m, <2>1 DEF AnswerStep
<1>u. ASSUME cPc' = cPc, cKey' = cKey, cAnswer' = cAnswer PROVE AnswerStep /\ PGAnswerInv'
  BY <1>u, <1>a DEF AnswerStep, PGAnswerInv
<1>1. ASSUME NEW r \in Requests, PG!Bypass(r) PROVE AnswerStep /\ PGAnswerInv'
  <2>1. PICK a \in Refusals : PG!Reply(r, a)
    BY <1>1 DEF PG!Bypass, Refusals
  <2> QED
    BY <1>1, <2>1, <1>r, Zenon DEF PG!Bypass, PG!Reply, PG!Goto, Places
<1>2. ASSUME NEW r \in Requests, PG!Arrive(r) \/ PG!Lock(r) PROVE AnswerStep /\ PGAnswerInv'
  BY <1>2, <1>m DEF PG!Arrive, PG!Lock, PG!Goto, Places, LockSteps
<1>3. ASSUME NEW r \in Requests, PG!HandlerReturns(r) PROVE AnswerStep /\ PGAnswerInv'
  <2>1. PICK a \in {r} \cup Failures : PG!Reply(r, a) /\ PG!Goto(r, IF a = r THEN "save" ELSE "unlock")
    BY <1>3 DEF PG!HandlerReturns, Failures
  <2>2. cAnswer[r] = "none" /\ cKey' = cKey
    BY <1>3, <1>a DEF PGAnswerInv, PG!HandlerReturns
  <2>3. AnswerStep
    BY <1>t, <2>1, <2>2 DEF AnswerStep, PG!Reply
  <2>4. PGAnswerInv'
    BY <1>t, <1>a, <2>1 DEF PGAnswerInv, PG!Reply, PG!Goto
  <2> QED
    BY <2>3, <2>4
<1>4. ASSUME NEW r \in Requests, LockEffect(r) PROVE AnswerStep /\ PGAnswerInv'
  <2>1. cPc[r] \notin {"save", "unlock", "done"} /\ cKey' = cKey
    BY <1>4 DEF LockEffect, LockSteps
  <2>2. CASE PG!LockAcquired(r)
    BY <2>1, <2>2, <1>m, Zenon DEF PG!LockAcquired, PG!Goto, Places
  <2>3. ASSUME NEW place \in LockSteps \cup {"lock"}, PG!Goto(r, place), cAnswer' = cAnswer
        PROVE  AnswerStep /\ PGAnswerInv'
    BY <2>1, <2>3, <1>m, Zenon DEF PG!Goto, Places, LockSteps
  <2>4. CASE PG!LockFailed(r)
    BY <2>1, <2>4, <1>r, Zenon DEF PG!LockFailed, PG!Reply, PG!Goto, Places, Refusals
  <2>5. ASSUME NEW rec \in {table[cKey[r]], seen[r]} \ {None}, PG!LockFound(r, rec), ~PG!LockAcquired(r)
        PROVE  AnswerStep /\ PGAnswerInv'
    <3> DEFINE a == IF rec.status = "IN_PROGRESS" THEN "conflict" ELSE rec.response
    <3>1. rec.status \in {"IN_PROGRESS", "COMPLETED"}
      BY <1>t DEF PG!Row
    <3>2. PG!Goto(r, "done") /\ PG!Reply(r, a)
      BY <2>5 DEF PG!LockFound
    <3>3. \/ a \in Refusals
          \/ rec.status = "COMPLETED" /\ a = rec.response
      BY <3>1 DEF Refusals
    <3> HIDE DEF a
    <3> QED
      BY <2>1, <2>5, <3>2, <3>3, <1>r, Zenon DEF PG!Goto, PG!Reply, Places
  <2> QED
    BY <1>4, <2>2, <2>3, <2>4, <2>5, Zenon DEF LockEffect
<1>5. ASSUME NEW r \in Requests, PG!Save(r) \/ PG!Unlock(r) PROVE AnswerStep /\ PGAnswerInv'
  <2>1. cKey' = cKey /\ cAnswer' = cAnswer /\ \E place \in {"unlock", "done"} : PG!Goto(r, place)
    BY <1>5 DEF PG!Save, PG!Unlock, PG!SaveReturned, PG!Goto
  <2> QED
    BY <2>1, <1>m, Zenon DEF PG!Goto, Places
<1>6. ASSUME NEW r \in Requests, PG!Cancel(r) PROVE AnswerStep /\ PGAnswerInv'
  BY <1>6, <1>u DEF PG!Cancel
<1>7. ASSUME NEW k \in Keys, PG!Delete(k) PROVE AnswerStep /\ PGAnswerInv'
  BY <1>7, <1>u DEF PG!Delete, PG!reqVars
<1>8. CASE PG!Tick \/ UNCHANGED pgVars
  BY <1>8, <1>u DEF PG!Tick, pgVars
<1> QED
  BY <1>1, <1>2, <1>3, <1>4, <1>5, <1>6, <1>7, <1>8, PGCases, Zenon

\* What a step does to the rows: one is kept, removed, leased, or completed by a request
\* with its key that is saving; and a row that was read was in the table.
LEMMA PGRowSteps ==
    ASSUME PGType, PGSeenInv, [PG!Next]_pgVars
    PROVE  /\ \A k \in Keys :
                 \/ table'[k] \in {table[k], None}
                 \/ table'[k].status = "IN_PROGRESS"
                 \/ \E r \in Requests : cPc[r] = "save" /\ cKey[r] = k /\ table'[k].response = r
           /\ \A r \in Requests : seen'[r] \in {seen[r], table[cKey[r]]}
<1>t. /\ cKey \in [Requests -> Keys] /\ table \in [Keys -> PG!Row \cup {None}]
      /\ seen \in [Requests -> PG!Row \cup {None}]
  BY DEF PGType
<1> DEFINE Goal == /\ \A k \in Keys :
                        \/ table'[k] \in {table[k], None}
                        \/ table'[k].status = "IN_PROGRESS"
                        \/ \E r \in Requests : cPc[r] = "save" /\ cKey[r] = k /\ table'[k].response = r
                   /\ \A r \in Requests : seen'[r] \in {seen[r], table[cKey[r]]}
<1>1. ASSUME UNCHANGED <<table, seen>> PROVE Goal
  BY <1>1
<1>2. ASSUME NEW r \in Requests, LockEffect(r) PROVE Goal
  <2>1. \A k \in Keys : table'[k] = table[k] \/ table'[k] = PG!Lease(r)
    BY <1>2, <1>t DEF LockEffect
  <2>2. PG!Lease(r).status = "IN_PROGRESS"
    BY DEF PG!Lease
  <2>3. \A q \in Requests : seen'[q] \in {seen[q], table[cKey[q]]}
    BY <1>2, <1>t DEF LockEffect
  <2> QED
    BY <2>1, <2>2, <2>3
<1>3. ASSUME NEW r \in Requests, PG!Save(r) PROVE Goal
  <2>1. cPc[r] = "save" /\ seen' = seen /\ table' \in {table, PG!Completed(r)}
    BY <1>3, Zenon DEF PG!Save
  <2>2. \A k \in Keys : table'[k] = table[k] \/ (k = cKey[r] /\ table'[k].response = r)
    BY <2>1, <1>t DEF PG!Completed
  <2> QED
    BY <2>1, <2>2
<1>4. ASSUME NEW r \in Requests, PG!Unlock(r) PROVE Goal
  BY <1>4, <1>t DEF PG!Unlock, PG!Released
<1>5. ASSUME NEW k \in Keys, PG!Delete(k) PROVE Goal
  BY <1>5, <1>t DEF PG!Delete
<1>6. ASSUME NEW r \in Requests, PG!Lock(r) PROVE UNCHANGED <<table, seen>>
  BY <1>6 DEF PG!Lock
<1>7. ASSUME UNCHANGED pgVars PROVE UNCHANGED <<table, seen>>
  BY <1>7 DEF pgVars
<1> HIDE DEF Goal
<1>8. Goal
  BY <1>1, <1>2, <1>3, <1>4, <1>5, <1>6, <1>7, PGCases, Zenon
<1> QED
  BY <1>8 DEF Goal

\* Every step keeps rows and replays truthful.
LEMMA TruthStep == PGType /\ PGSeenInv /\ TruthInv /\ [PG!Next]_pgVars => TruthInv'
<1> SUFFICES ASSUME PGType, PGSeenInv, TruthInv, [PG!Next]_pgVars PROVE TruthInv'
  OBVIOUS
<1>1. AnswerStep /\ PGAnswerInv'
  BY AnswerSteps
<1>2. PGType' /\ cKey \in [Requests -> Keys]
  BY PGTypeStep DEF PGType
<1>3. cKey' = cKey /\ \A q \in Requests : cAnswer[q] = q => cAnswer'[q] = q
  <2>1. \A q \in Requests : q # "none"
    BY MiddlewareAssumption
  <2> QED
    BY <1>1, <2>1 DEF AnswerStep
<1>k. /\ \A k \in Keys : OwnResponse(table[k], k)
      /\ \A r \in Requests : OwnResponse(seen[r], cKey[r])
  BY DEF TruthInv
<1>4. ASSUME NEW k \in Keys PROVE OwnResponse(table[k], k)'
  <2>1. CASE table'[k] \in {table[k], None} \/ table'[k].status = "IN_PROGRESS"
    BY <2>1, <1>3, <1>k DEF OwnResponse
  <2>2. ASSUME NEW r \in Requests, cPc[r] = "save", cKey[r] = k, table'[k].response = r
        PROVE  OwnResponse(table[k], k)'
    <3>1. cAnswer[r] = r
      BY <2>2 DEF TruthInv, PGAnswerInv
    <3> QED
      BY <2>2, <3>1, <1>3 DEF OwnResponse
  <2> QED
    BY <2>1, <2>2, PGRowSteps
<1>5. ASSUME NEW r \in Requests PROVE OwnResponse(seen[r], cKey[r])'
  <2>1. seen'[r] \in {seen[r], table[cKey[r]]} /\ cKey[r] \in Keys
    BY PGRowSteps, <1>2
  <2> QED
    BY <2>1, <1>3, <1>k DEF OwnResponse
<1>6. ReplaysTruthful'
  <2> SUFFICES ASSUME NEW r \in Requests, cAnswer'[r] \in Requests
               PROVE  cKey'[cAnswer'[r]] = cKey'[r] /\ cAnswer'[cAnswer'[r]] = cAnswer'[r]
    BY DEF ReplaysTruthful, PG!ReplayTruthful
  <2>1. CASE cAnswer'[r] = cAnswer[r]
    BY <2>1, <1>3 DEF TruthInv, ReplaysTruthful, PG!ReplayTruthful
  <2>2. CASE cAnswer'[r] \in {r} \cup Failures \cup Refusals
    <3>1. cAnswer'[r] = r
      BY <2>2, MiddlewareAssumption
    <3> QED
      BY <3>1
  <2>3. ASSUME NEW rec \in {table[cKey[r]], seen[r]} \ {None}, rec.status = "COMPLETED",
               cAnswer'[r] = rec.response
        PROVE  cKey'[cAnswer'[r]] = cKey'[r] /\ cAnswer'[cAnswer'[r]] = cAnswer'[r]
    <3>1. OwnResponse(rec, cKey[r])
      BY <2>3, <1>k, <1>2
    <3> QED
      BY <2>3, <3>1, <1>3 DEF OwnResponse
  <2> QED
    BY <1>1, <2>1, <2>2, <2>3 DEF AnswerStep
<1> QED
  BY <1>1, <1>4, <1>5, <1>6 DEF TruthInv

\* The initial states satisfy the invariants.
LEMMA PGInits == PG!Init => PGType /\ PGSeenInv /\ TruthInv
<1> SUFFICES ASSUME PG!Init PROVE PGType /\ PGSeenInv /\ TruthInv
  OBVIOUS
<1> USE DEF PG!Init, PG!MiddlewareInit
<1>1. PGType
  BY DEF PGType, Places
<1>2. PGSeenInv
  BY DEF PGSeenInv
<1>3. PGAnswerInv /\ ReplaysTruthful
  BY MiddlewareAssumption DEF PGAnswerInv, ReplaysTruthful, PG!ReplayTruthful
<1>4. \A k \in Keys : OwnResponse(table[k], k)
  BY DEF OwnResponse
<1>5. \A r \in Requests : OwnResponse(seen[r], cKey[r])
  BY DEF OwnResponse
<1> QED
  BY <1>1, <1>2, <1>3, <1>4, <1>5 DEF TruthInv

\* Whatever fails, is cancelled or deleted and however many replicas race for a key, what
\* the middleware replays is what a successful handler wrote for that key
\* (middleware.go:112-167, postgres.go:125-268).
THEOREM PGReplaysAreTruthful == PG!Spec => []ReplaysTruthful
<1>1. PGType /\ PGSeenInv /\ TruthInv /\ [PG!Next]_(PG!vars) => (PGType /\ PGSeenInv /\ TruthInv)'
  <2>1. [PG!Next]_(PG!vars) => [PG!Next]_pgVars
    BY DEF PG!vars, PG!reqVars, pgVars
  <2> QED
    BY <2>1, PGTypeStep, SeenStep, TruthStep
<1>2. TruthInv => ReplaysTruthful
  BY DEF TruthInv
<1> QED
  BY <1>1, <1>2, PGInits, PTL DEF PG!Spec

-----------------------------------------------------------------------------
(* One holder of a key                                                     *)

\* A request at work read the clock in the past, and its lock has not expired.
TimeInv ==
    \A r \in Requests : PG!Busy(r) => cBegan[r] <= cNow /\ cNow <= cBegan[r] + pgLockTTL

\* The row of a request that holds its key is its own: its lease, until it is saved.
Held(r, row) ==
    /\ row # None
    /\ row.expiresAt >= cBegan[r] + pgLockTTL
    /\ row.status = "IN_PROGRESS" => row.lockedUntil = cBegan[r] + pgLockTTL
    /\ cPc[r] # "unlock" => row.status = "IN_PROGRESS"

\* Holders have their row, and a key has one holder.
HoldInv ==
    /\ \A r \in Requests : PG!Holding(r) => Held(r, table[cKey[r]])
    /\ \A r, s \in Requests : PG!Holding(r) /\ PG!Holding(s) /\ cKey[r] = cKey[s] => r = s

\* Requests are prompt, and the response outlives the lock.
PromptTTLs == pgPrompt = TRUE /\ pgLockTTL <= pgResponseTTL

\* Every step of prompt requests keeps their time.
LEMMA TimeStep ==
    ASSUME PGType, PGSeenInv, pgPrompt = TRUE, TimeInv, [PG!Next]_pgVars
    PROVE  TimeInv'
<1> USE DEF PG!Busy, PG!Holding, PG!LockSteps, PG!Goto
<1>t. cPc \in [Requests -> Places] /\ cBegan \in [Requests -> Nat] /\ cNow \in Nat /\ pgLockTTL \in Nat
  BY PGAssumption DEF PGType
<1>m. ASSUME NEW r \in Requests, NEW place, cPc' = [cPc EXCEPT ![r] = place],
             cBegan' = cBegan, cNow' = cNow, PG!Busy(r) \/ place \in {"lock", "done"}
      PROVE  TimeInv'
  BY <1>m, <1>t DEF TimeInv
<1>1. ASSUME NEW r \in Requests, PG!Bypass(r) \/ PG!Arrive(r) PROVE TimeInv'
  BY <1>1, <1>m DEF PG!Bypass, PG!Arrive
<1>2. ASSUME NEW r \in Requests, PG!HandlerReturns(r) \/ PG!Save(r) \/ PG!Unlock(r) PROVE TimeInv'
  <2>1. PG!Busy(r) /\ cBegan' = cBegan /\ cNow' = cNow /\ \E place : cPc' = [cPc EXCEPT ![r] = place]
    BY <1>2 DEF PG!HandlerReturns, PG!Save, PG!Unlock, PG!SaveReturned
  <2> QED
    BY <2>1, <1>m, Zenon
<1>3. ASSUME NEW r \in Requests, LockEffect(r) PROVE TimeInv'
  <2>1. PG!Busy(r) /\ cBegan' = cBegan /\ cNow' = cNow
    BY <1>3, Zenon DEF LockEffect, LockSteps
  <2>2. \E place : cPc' = [cPc EXCEPT ![r] = place]
    BY <1>3 DEF LockEffect, PG!LockAcquired, PG!LockFound, PG!LockFailed
  <2> QED
    BY <2>1, <2>2, <1>m, Zenon
<1>4. ASSUME NEW r \in Requests, PG!Lock(r) PROVE TimeInv'
  BY <1>4, <1>t DEF TimeInv, PG!Lock
<1>5. CASE PG!Tick
  BY <1>5, <1>t DEF TimeInv, PG!Tick
<1>6. ASSUME UNCHANGED <<cPc, cBegan, cNow>> PROVE TimeInv'
  BY <1>6 DEF TimeInv
<1>7. ASSUME NEW r \in Requests, PG!Cancel(r) PROVE TimeInv'
  BY <1>6, <1>7 DEF PG!Cancel
<1>8. ASSUME NEW k \in Keys, PG!Delete(k) PROVE TimeInv'
  BY <1>6, <1>8 DEF PG!Delete, PG!reqVars
<1>9. CASE UNCHANGED pgVars
  BY <1>6, <1>9 DEF pgVars
<1> QED
  BY <1>1, <1>2, <1>3, <1>4, <1>5, <1>7, <1>8, <1>9, PGCases, Zenon

\* Nobody holds a key whose row is free.
LEMMA FreeKey ==
    ASSUME PGType, TimeInv, HoldInv, NEW r \in Requests, cPc[r] \in LockSteps, RowFree(r),
           NEW s \in Requests, PG!Holding(s)
    PROVE  cKey[s] # cKey[r]
<1> SUFFICES ASSUME cKey[s] = cKey[r] PROVE FALSE
  OBVIOUS
<1> DEFINE row == table[cKey[s]]
<1>1. row \in PG!Row /\ Held(s, row)
  BY DEF PGType, HoldInv, Held
<1>2. cBegan[r] <= cNow /\ cNow <= cBegan[s] + pgLockTTL
  BY Zenon DEF TimeInv, PG!Busy, LockSteps, PG!LockSteps
<1>3. /\ row.expiresAt \in Nat /\ row.lockedUntil \in Nat
      /\ cBegan[r] \in Nat /\ cBegan[s] \in Nat /\ cNow \in Nat /\ pgLockTTL \in Nat
  BY <1>1, PGAssumption DEF PGType, PG!Row
<1>4. row # None /\ row.expiresAt >= cBegan[s] + pgLockTTL
      /\ (row.status = "IN_PROGRESS" => row.lockedUntil = cBegan[s] + pgLockTTL)
  BY <1>1, Zenon DEF Held
<1>5. \/ cBegan[r] > row.expiresAt
      \/ row.status = "IN_PROGRESS" /\ cBegan[r] > row.lockedUntil
  BY <1>4, Zenon DEF RowFree
<1> HIDE DEF row
<1> QED
  BY <1>2, <1>3, <1>4, <1>5

\* Every step of prompt requests keeps the holders' rows and their keys apart.
LEMMA HoldStep ==
    ASSUME PGType, PGSeenInv, TruthInv, PromptTTLs, TimeInv, HoldInv, [PG!Next]_pgVars
    PROVE  HoldInv'
<1>t. /\ cPc \in [Requests -> Places] /\ cKey \in [Requests -> Keys] /\ cBegan \in [Requests -> Nat]
      /\ cNow \in Nat /\ table \in [Keys -> PG!Row \cup {None}] /\ pgLockTTL \in Nat /\ pgResponseTTL \in Nat
  BY PGAssumption DEF PGType
<1>h. /\ \A s \in Requests : PG!Holding(s) => Held(s, table[cKey[s]])
      /\ \A r, s \in Requests : PG!Holding(r) /\ PG!Holding(s) /\ cKey[r] = cKey[s] => r = s
  BY DEF HoldInv
<1>k. ASSUME cKey' = cKey,
             \A s \in Requests : PG!Holding(s)' => PG!Holding(s) /\ Held(s, table[cKey[s]])'
      PROVE  HoldInv'
  BY <1>k, <1>h, Zenon DEF HoldInv
<1>o. ASSUME NEW r \in Requests, NEW place, cPc' = [cPc EXCEPT ![r] = place], cKey' = cKey,
             \A s \in Requests \ {r} : cBegan'[s] = cBegan[s],
             \A s \in Requests \ {r} : PG!Holding(s) => table'[cKey[s]] = table[cKey[s]],
             NEW s \in Requests \ {r}, PG!Holding(s)'
      PROVE  PG!Holding(s) /\ Held(s, table[cKey[s]])'
  <2>1. cPc'[s] = cPc[s] /\ PG!Holding(s)
    BY <1>o, <1>t DEF PG!Holding
  <2>2. Held(s, table[cKey[s]]) /\ table'[cKey'[s]] = table[cKey[s]] /\ cBegan'[s] = cBegan[s]
    BY <1>o, <1>h, <2>1, Zenon
  <2> QED
    BY <2>1, <2>2 DEF Held
<1>d. ASSUME NEW r \in Requests, NEW place, cPc' = [cPc EXCEPT ![r] = place], cKey' = cKey,
             place \notin {"handler", "save", "unlock"},
             \A s \in Requests \ {r} : cBegan'[s] = cBegan[s],
             \A s \in Requests \ {r} : PG!Holding(s) => table'[cKey[s]] = table[cKey[s]]
      PROVE  HoldInv'
  <2>1. ~PG!Holding(r)'
    BY <1>d, <1>t DEF PG!Holding
  <2> QED
    BY <1>d, <2>1, <1>o, <1>k, Zenon
<1>1. ASSUME NEW r \in Requests, UNCHANGED <<table, seen>>, PG!Bypass(r) \/ PG!Arrive(r) PROVE HoldInv'
  BY <1>1, <1>d DEF PG!Bypass, PG!Arrive, PG!Goto
<1>2. ASSUME NEW r \in Requests, PG!Lock(r) PROVE HoldInv'
  BY <1>2, <1>d, <1>t, Zenon DEF PG!Lock, PG!Goto
<1>3. ASSUME NEW r \in Requests, UNCHANGED <<table, seen>>, PG!HandlerReturns(r) PROVE HoldInv'
  <2>1. PICK place \in {"save", "unlock"} : cPc' = [cPc EXCEPT ![r] = place]
    BY <1>3, Zenon DEF PG!HandlerReturns, PG!Goto
  <2>2. cKey' = cKey /\ cBegan' = cBegan /\ table' = table /\ cPc[r] = "handler"
    BY <1>3 DEF PG!HandlerReturns
  <2>3. PG!Holding(r) /\ Held(r, table[cKey[r]])'
    BY <2>2, <1>h DEF PG!Holding, Held
  <2> QED
    BY <2>1, <2>2, <2>3, <1>o, <1>k, Zenon
<1>4. ASSUME NEW r \in Requests, LockEffect(r) PROVE HoldInv'
  <2>1. /\ cPc[r] \in LockSteps /\ cKey' = cKey /\ cBegan' = cBegan
        /\ table' = table \/ (RowFree(r) /\ table' = [table EXCEPT ![cKey[r]] = PG!Lease(r)])
    BY <1>4, Zenon DEF LockEffect
  <2>2. \A s \in Requests : PG!Holding(s) => table'[cKey[s]] = table[cKey[s]]
    <3>1. \A s \in Requests : RowFree(r) /\ PG!Holding(s) => cKey[s] # cKey[r]
      BY <2>1, FreeKey
    <3> QED
      BY <2>1, <3>1, <1>t
  <2>3. ASSUME NEW place \in LockSteps \cup {"lock", "done"}, PG!Goto(r, place) PROVE HoldInv'
    BY <2>1, <2>2, <2>3, <1>d, Zenon DEF PG!Goto, LockSteps
  <2>4. CASE RowFree(r) /\ table' = [table EXCEPT ![cKey[r]] = PG!Lease(r)] /\ PG!LockAcquired(r)
    <3>1. cPc' = [cPc EXCEPT ![r] = "handler"]
      BY <2>4 DEF PG!LockAcquired, PG!Goto
    <3>2. table'[cKey[r]] = PG!Lease(r) /\ PG!Lease(r) # None
      BY <2>4, <1>t, Rows, PGConstants
    <3>3. Held(r, table[cKey[r]])'
      <4>1. Held(r, PG!Lease(r))'
        BY <2>1, <3>1, <3>2, <1>t DEF Held, PG!Lease, PromptTTLs
      <4> QED
        BY <2>1, <3>2, <4>1 DEF PG!Lease, Held
    <3>4. \A s \in Requests \ {r} : PG!Holding(s)' => PG!Holding(s) /\ Held(s, table[cKey[s]])'
      BY <2>1, <2>2, <3>1, <1>o, Zenon
    <3>5. \A s \in Requests \ {r} : PG!Holding(s)' => cKey'[s] # cKey'[r]
      BY <2>1, <2>4, <3>4, FreeKey
    <3> QED
      BY <2>1, <3>3, <3>4, <3>5, <1>h, Zenon DEF HoldInv
  <2>5. ASSUME NEW rec \in {table[cKey[r]], seen[r]} \ {None}, PG!LockFound(r, rec)
        PROVE  PG!Goto(r, "done")
    <3>1. OwnResponse(rec, cKey[r])
      BY <2>5, <1>t DEF TruthInv
    <3> QED
      BY <2>5, <3>1, PGConstants DEF PG!LockFound, OwnResponse
  <2> QED
    BY <1>4, <2>3, <2>4, <2>5, Zenon DEF LockEffect, PG!LockFailed
<1>5. ASSUME NEW r \in Requests, PG!Save(r) PROVE HoldInv'
  <2>1. /\ cPc[r] = "save" /\ PG!Holding(r) /\ cKey' = cKey /\ cBegan' = cBegan
        /\ table' \in {table, PG!Completed(r)}
    BY <1>5, Zenon DEF PG!Save, PG!Holding
  <2>2. PICK place \in {"unlock", "done"} : cPc' = [cPc EXCEPT ![r] = place]
    BY <1>5 DEF PG!Save, PG!SaveReturned, PG!Goto
  <2>3. \A s \in Requests \ {r} : PG!Holding(s) => table'[cKey[s]] = table[cKey[s]]
    BY <2>1, <1>h, <1>t DEF PG!Completed
  <2>4. CASE place = "done"
    BY <2>1, <2>2, <2>3, <2>4, <1>d, Zenon
  <2>5. CASE place = "unlock"
    <3>1. Held(r, table[cKey[r]]) /\ cBegan[r] <= cNow
      BY <2>1, <1>h, Zenon DEF TimeInv, PG!Busy
    <3>2. cPc'[r] = "unlock"
      BY <2>2, <2>5, <1>t
    <3>3. CASE table' = table
      BY <2>1, <3>1, <3>2, <3>3, <2>3, <2>2, <1>o, <1>k, Zenon DEF Held
    <3>4. CASE table' = PG!Completed(r)
      <4>1. /\ table'[cKey[r]] \in PG!Row
            /\ table'[cKey[r]].expiresAt = cNow + pgResponseTTL /\ table'[cKey[r]].status = "COMPLETED"
        <5>1. table[cKey[r]] # None
          BY <3>1 DEF Held
        <5>2. table'[cKey[r]] = [status |-> "COMPLETED", response |-> r,
                                 lockedUntil |-> table[cKey[r]].lockedUntil,
                                 expiresAt |-> cNow + pgResponseTTL]
          BY <3>4, <5>1, <1>t DEF PG!Completed
        <5>3. table[cKey[r]] \in PG!Row
          BY <5>1, <1>t
        <5>4. table[cKey[r]].lockedUntil \in Nat
          BY <5>3 DEF PG!Row
        <5>5. table'[cKey[r]] \in PG!Row
          BY <5>2, <5>4, <1>t DEF PG!Row
        <5> QED
          BY <5>2, <5>5
      <4>2. Held(r, table[cKey[r]])'
        BY <2>1, <3>1, <3>2, <4>1, <1>t, PGConstants DEF Held, PromptTTLs
      <4> QED
        BY <2>1, <2>2, <2>3, <4>2, <1>o, <1>k, Zenon
    <3> QED
      BY <2>1, <3>3, <3>4
  <2> QED
    BY <2>2, <2>4, <2>5
<1>6. ASSUME NEW r \in Requests, PG!Unlock(r) PROVE HoldInv'
  <2>1. /\ PG!Holding(r) /\ cKey' = cKey /\ cBegan' = cBegan /\ cPc' = [cPc EXCEPT ![r] = "done"]
        /\ table' \in {table, PG!Released(r)}
    BY <1>6 DEF PG!Unlock, PG!Holding, PG!Goto
  <2>2. \A s \in Requests \ {r} : PG!Holding(s) => table'[cKey[s]] = table[cKey[s]]
    BY <2>1, <1>h, <1>t DEF PG!Released
  <2> QED
    BY <2>1, <2>2, <1>d, Zenon
<1>7. ASSUME UNCHANGED <<cPc, cKey, cBegan>>,
             \A s \in Requests : PG!Holding(s) => table'[cKey[s]] = table[cKey[s]]
      PROVE  HoldInv'
  BY <1>7, <1>h, <1>k, Zenon DEF PG!Holding, Held
<1>8. ASSUME NEW k \in Keys, PG!Delete(k) PROVE HoldInv'
  <2>1. \A s \in Requests : PG!Holding(s) => cKey[s] # k
    BY <1>8 DEF PG!Delete, PG!MayDelete, PromptTTLs
  <2> QED
    BY <1>7, <1>8, <2>1, <1>t DEF PG!Delete, PG!reqVars
<1>9. ASSUME NEW r \in Requests, PG!Cancel(r), UNCHANGED <<table, seen>> PROVE HoldInv'
  BY <1>7, <1>9, Zenon DEF PG!Cancel
<1>10. CASE (PG!Tick /\ UNCHANGED <<table, seen>>) \/ UNCHANGED pgVars
  BY <1>7, <1>10, Zenon DEF PG!Tick, pgVars
<1> QED
  BY <1>1, <1>2, <1>3, <1>4, <1>5, <1>6, <1>8, <1>9, <1>10, PGCases, Zenon

\* The inductive invariant of prompt requests.
PGInv == PGType /\ PGSeenInv /\ TruthInv /\ TimeInv /\ HoldInv

\* It holds initially, and every step keeps it.
LEMMA PGInvSteps ==
    ASSUME PromptTTLs
    PROVE  (PG!Init => PGInv) /\ (PGInv /\ [PG!Next]_(PG!vars) => PGInv')
<1>1. PG!Init => TimeInv /\ HoldInv
  BY DEF PG!Init, PG!MiddlewareInit, TimeInv, HoldInv, PG!Busy, PG!Holding, PG!LockSteps
<1>2. [PG!Next]_(PG!vars) => [PG!Next]_pgVars
  BY DEF PG!vars, PG!reqVars, pgVars
<1>3. PGInv /\ [PG!Next]_pgVars => PGInv'
  BY PGTypeStep, SeenStep, TruthStep, TimeStep, HoldStep DEF PGInv, PromptTTLs
<1> QED
  BY <1>1, <1>2, <1>3, PGInits DEF PGInv

\* Of any number of replicas one at a time holds a key, although contexts are cancelled and
\* statements fail with or without effect, as long as requests finish before their lock
\* expires, the service deletes no key that is held, and responses outlive locks
\* (postgres.go:125-215).
THEOREM PGLocksAreExclusive ==
    ASSUME PromptTTLs
    PROVE  PG!Spec => []PGLockExclusive
<1>1. PGInv => PGLockExclusive
  BY DEF PGInv, HoldInv, PGLockExclusive, PG!LockExclusive, PG!Valid
<1> QED
  BY <1>1, PGInvSteps, PTL DEF PG!Spec

\* What a step may do to a completed row: replace it when it has expired, or delete it.
LEMMA KeptStep ==
    ASSUME PGInv, PromptTTLs, [PG!Next]_pgVars, NEW k \in Keys,
           table[k] # None, table[k].status = "COMPLETED", table'[k] # table[k]
    PROVE  cNow > table[k].expiresAt \/ PG!Delete(k)
<1>t. /\ cKey \in [Requests -> Keys] /\ cBegan \in [Requests -> Nat] /\ cNow \in Nat
      /\ table \in [Keys -> PG!Row \cup {None}]
  BY DEF PGInv, PGType
<1>1. ASSUME NEW r \in Requests, LockEffect(r) PROVE cNow > table[k].expiresAt
  <2>1. RowFree(r) /\ k = cKey[r]
    BY <1>1, <1>t DEF LockEffect
  <2>2. cBegan[r] > table[k].expiresAt
    BY <2>1 DEF RowFree
  <2>3. cBegan[r] <= cNow
    BY <1>1, Zenon DEF PGInv, TimeInv, PG!Busy, PG!LockSteps, LockSteps, LockEffect
  <2>4. table[k].expiresAt \in Nat
    BY <1>t DEF PG!Row
  <2> QED
    BY <2>2, <2>3, <2>4, <1>t
<1>2. ASSUME NEW r \in Requests, PG!Save(r) PROVE FALSE
  <2>1. table' = PG!Completed(r) /\ cPc[r] = "save"
    BY <1>2, Zenon DEF PG!Save
  <2>2. k = cKey[r]
    BY <2>1, <1>t DEF PG!Completed
  <2>3. Held(r, table[k])
    BY <2>1, <2>2 DEF PGInv, HoldInv, PG!Holding
  <2> QED
    BY <2>1, <2>3 DEF Held
<1>3. ASSUME NEW r \in Requests, PG!Unlock(r) PROVE FALSE
  BY <1>3, <1>t DEF PG!Unlock, PG!Released
<1>4. ASSUME NEW j \in Keys, PG!Delete(j) PROVE PG!Delete(k)
  <2>1. j = k
    BY <1>4, <1>t DEF PG!Delete
  <2> QED
    BY <1>4, <2>1, Zenon
<1>5. ASSUME NEW r \in Requests, PG!Lock(r) PROVE FALSE
  BY <1>5 DEF PG!Lock
<1>6. ~UNCHANGED <<table, seen>> /\ ~UNCHANGED pgVars
  BY DEF pgVars
<1> QED
  BY <1>1, <1>2, <1>3, <1>4, <1>5, <1>6, PGCases, Zenon DEF PGInv

\* Under the same conditions a stored response is replaced only after it has expired and
\* removed only by Delete (postgres.go:219-268).
THEOREM PGResponsesAreKept ==
    ASSUME PromptTTLs
    PROVE  PG!Spec => PGResponseKept
<1> DEFINE Kept == \A k \in Keys :
                      table[k] # None /\ table[k].status = "COMPLETED" /\ table'[k] # table[k]
                          => \/ cNow > table[k].expiresAt
                             \/ PG!Delete(k)
<1>1. PGInv /\ [PG!Next]_(PG!vars) => [Kept]_(PG!vars)
  <2>1. [PG!Next]_(PG!vars) => [PG!Next]_pgVars
    BY DEF PG!vars, PG!reqVars, pgVars
  <2> QED
    BY <2>1, KeptStep
<1> QED
  BY <1>1, PGInvSteps, PTL DEF PG!Spec, PGResponseKept, PG!ResponseKept
==============================================================================
