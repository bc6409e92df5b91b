---------------------------- MODULE LimiterProofs ----------------------------
(***************************************************************************)
(* Theorems about the rate limiters: the token bucket, the limiter in      *)
(* PostgreSQL and the bucket of the log sampler keep to their limits, for  *)
(* any number of goroutines, keys and replicas and for every               *)
(* configuration.  The token bucket shares with the sliding window the     *)
(* argument about the table of entries: what TableInv says of it, and how  *)
(* each kind of step keeps it.                                             *)
(***************************************************************************)
EXTENDS Limiters, TLAPS

\* A step of one part is a step, or a stutter, of every part, and no behaviour changes
\* its part.
LEMMA LimitersSteps ==
    ASSUME [LimitersNext]_<<part, limiterVars>>
    PROVE  /\ [Shared!Next]_sharedVars /\ [Sampler!Next]_samplerVars
           /\ part' = part
           /\ part = "token" => [Token!Next]_tableVars
           /\ part = "sliding" => [Sliding!Next]_tableVars
BY Zenon DEF LimitersNext, limiterVars

-----------------------------------------------------------------------------
(* The log sampler                                                         *)

\* What has been passed on, and has not drained yet, is missing from the bucket.
SamplerInv ==
    /\ tokens \in Nat /\ age \in Nat /\ passed \in Nat
    /\ passed + Sampler!Refilled <= Sampler!Full

\* The bucket's size, whatever was configured.
LEMMA SamplerConstants == Sampler!Interval \in Nat \ {0} /\ Sampler!Full \in Nat
<1>1. Sampler!Interval \in Nat \ {0} /\ Sampler!Burst \in Nat \ {0}
  BY LimitersAssumption DEF Sampler!Interval, Sampler!Burst
<1> QED
  BY <1>1 DEF Sampler!Full

\* Every step of the sampler keeps SamplerInv.
LEMMA SamplerStep == SamplerInv /\ [Sampler!Next]_samplerVars => SamplerInv'
<1> SUFFICES ASSUME SamplerInv, [Sampler!Next]_samplerVars PROVE SamplerInv'
  OBVIOUS
<1> USE SamplerConstants DEF SamplerInv, Sampler!Refilled
<1>1. CASE Sampler!Handle
  BY <1>1 DEF Sampler!Handle
<1>2. CASE Sampler!Tick
  BY <1>2 DEF Sampler!Tick
<1>3. CASE UNCHANGED samplerVars
  BY <1>3 DEF samplerVars
<1> QED
  BY <1>1, <1>2, <1>3 DEF Sampler!Next, Sampler!Bypass, Sampler!vars, samplerVars

-----------------------------------------------------------------------------
(* The limiter in PostgreSQL                                               *)

\* The row counts at least what was allowed in its window, and no statement asks for
\* more than the limit.
SharedInv ==
    /\ time \in Nat /\ allowed \in Nat
    /\ row \in [count : Nat, start : Nat] \cup {None}
    /\ upsert \in [Replicas -> [n : Nat, at : Nat] \cup {None}]
    /\ \A r \in Replicas : upsert[r] # None => upsert[r].n <= Shared!Limit
    /\ row = None => allowed = 0
    /\ row # None => allowed <= row.count /\ row.count <= Shared!Limit

\* Every step keeps SharedInv, if the window is one that the statement can express.
LEMMA SharedStep ==
    ASSUME Shared!SqlWindow = Shared!Window
    PROVE  SharedInv /\ [Shared!Next]_sharedVars => SharedInv'
<1> SUFFICES ASSUME SharedInv, [Shared!Next]_sharedVars PROVE SharedInv'
  OBVIOUS
<1>c. Shared!Limit \in Nat \ {0} /\ Shared!Window \in Nat \ {0}
  BY LimitersAssumption DEF Shared!Limit, Shared!Window
<1>1. ASSUME NEW r \in Replicas, NEW n \in Amounts \ {0}, Shared!AllowN(r, n) PROVE SharedInv'
  <2>1. n \in Nat /\ n <= Shared!Limit /\ UNCHANGED <<time, row, allowed>>
        /\ upsert' = [upsert EXCEPT ![r] = [n |-> n, at |-> time]]
    BY <1>1, LimitersAssumption, Zenon DEF Shared!AllowN
  <2>2. [n |-> n, at |-> time] \in [n : Nat, at : Nat]
    BY <2>1 DEF SharedInv
  <2> QED
    BY <2>1, <2>2 DEF SharedInv
<1>2. ASSUME NEW r \in Replicas, Shared!Fails(r) PROVE SharedInv'
  BY <1>2 DEF Shared!Fails, SharedInv
<1>3. ASSUME NEW r \in Replicas, NEW answered \in BOOLEAN, Shared!Upsert(r, answered) PROVE SharedInv'
  <2> DEFINE u == upsert[r]
             old == IF row = None \/ u.at >= row.start + Shared!Window THEN 0 ELSE allowed
  <2>1. /\ u # None /\ row' = Shared!Upserted(u) /\ time' = time
        /\ allowed' = (IF answered /\ (Shared!Begins(u) \/ Shared!Fits(u)) THEN old + u.n ELSE old)
        /\ upsert' = [upsert EXCEPT ![r] = None]
    BY <1>3, Zenon DEF Shared!Upsert
  <2>2. u \in [n : Nat, at : Nat] /\ u.n \in Nat /\ u.at \in Nat /\ u.n <= Shared!Limit
    BY <2>1 DEF SharedInv
  <2>3. /\ upsert' \in [Replicas -> [n : Nat, at : Nat] \cup {None}]
        /\ \A q \in Replicas : upsert'[q] # None => upsert'[q].n <= Shared!Limit
    BY <2>1 DEF SharedInv
  <2>4. old \in Nat /\ old <= allowed
    BY DEF SharedInv
  <2>5. CASE Shared!Begins(u)
    <3>1. row' = [count |-> u.n, start |-> u.at]
      BY <2>1, <2>5 DEF Shared!Upserted
    <3>2. old = 0
      BY <2>5 DEF Shared!Begins, Shared!Over
    <3>3. row' \in [count : Nat, start : Nat] /\ row'.count = u.n
      BY <2>2, <3>1
    <3>4. row' # None
      BY <3>3, LimitersAssumption
    <3>5. allowed' \in Nat /\ allowed' <= u.n
      BY <2>1, <2>2, <3>2
    <3> QED
      BY <2>1, <2>2, <2>3, <3>3, <3>4, <3>5 DEF SharedInv
  <2>6. CASE ~Shared!Begins(u) /\ Shared!Fits(u)
    <3>0. row \in [count : Nat, start : Nat] /\ row.count + u.n <= Shared!Limit
      BY <2>6 DEF SharedInv, Shared!Begins, Shared!Fits
    <3>1. row' = [row EXCEPT !.count = @ + u.n]
      BY <2>1, <2>6 DEF Shared!Upserted
    <3>2. row' \in [count : Nat, start : Nat] /\ row'.count = row.count + u.n
      BY <2>2, <3>0, <3>1
    <3>3. row' # None
      BY <3>2, LimitersAssumption
    <3>4. allowed' \in Nat /\ allowed' <= row.count + u.n
      <4>1. allowed <= row.count /\ row.count \in Nat /\ allowed \in Nat
        BY <3>0, <2>6 DEF SharedInv, Shared!Begins
      <4>2. allowed' = old + u.n \/ allowed' = old
        BY <2>1
      <4> HIDE DEF old, u
      <4> QED
        BY <2>2, <2>4, <4>1, <4>2
    <3> QED
      BY <2>1, <2>3, <3>0, <3>2, <3>3, <3>4 DEF SharedInv
  <2>7. CASE ~Shared!Begins(u) /\ ~Shared!Fits(u)
    <3>1. row' = row
      BY <2>1, <2>7 DEF Shared!Upserted
    <3>2. allowed' = old /\ row # None
      BY <2>1, <2>7 DEF Shared!Begins
    <3>3. row.count \in Nat /\ allowed \in Nat
      BY <3>2 DEF SharedInv
    <3> QED
      BY <2>1, <2>3, <2>4, <3>1, <3>2, <3>3 DEF SharedInv
  <2> QED
    BY <2>5, <2>6, <2>7
<1>4. CASE Shared!Reset
  BY <1>4 DEF Shared!Reset, SharedInv
<1>5. CASE Shared!Tick
  BY <1>5 DEF Shared!Tick, SharedInv
<1>6. CASE UNCHANGED sharedVars
  BY <1>6 DEF sharedVars, SharedInv
<1> QED
  BY <1>1, <1>2, <1>3, <1>4, <1>5, <1>6, Zenon DEF Shared!Next

\* However many replicas share a limit, and however late, out of order or unanswered
\* their statements run, they are allowed no more than it in a window that is a whole
\* number of seconds or less than one.
THEOREM SharedLimitIsKept ==
    ASSUME Shared!SqlWindow = Shared!Window
    PROVE  LimitersSpec => []SharedLimitHolds
<1>1. LimitersInit => SharedInv
  BY DEF LimitersInit, Shared!Init, SharedInv
<1>2. SharedInv => SharedLimitHolds
  <2> SUFFICES ASSUME SharedInv, row # None
               PROVE  allowed <= Shared!Limit /\ allowed <= row.count
    BY DEF SharedLimitHolds, Shared!SharedLimitHolds
  <2>1. allowed \in Nat /\ row.count \in Nat /\ Shared!Limit \in Nat
    BY LimitersAssumption DEF SharedInv, Shared!Limit
  <2> QED
    BY <2>1 DEF SharedInv
<1>3. SharedInv /\ [Shared!Next]_sharedVars => SharedInv'
  BY SharedStep
<1> QED
  BY <1>1, <1>2, <1>3, LimitersSteps, PTL DEF LimitersSpec

-----------------------------------------------------------------------------
(* The table of the limiters                                               *)

Held == {call[p].id : p \in Procs}
CallRecord == [at : {"idle", "create", "use"}, key : LimiterKeys \cup {None}, n : Nat, id : Ids \cup {None}]

\* The table with entries from E: what is referred to exists, no two keys share an
\* entry, and a call uses the entry of its own key, the current one unless the key was
\* disturbed.
TableInv(E) ==
    /\ table \in [LimiterKeys -> Ids \cup {None}]
    /\ entry \in [Ids -> E \cup {None}]
    /\ call \in [Procs -> CallRecord]
    /\ sinceGC \in Int
    /\ disturbed \subseteq LimiterKeys
    /\ \A p \in Procs : call[p].at # "idle" => call[p].key # None
    /\ \A p \in Procs : call[p].at = "use" <=> call[p].id # None
    /\ \A p \in Procs : call[p].id # None => entry[call[p].id] # None
    /\ \A k \in LimiterKeys : table[k] # None => entry[table[k]] # None
    /\ \A j, k \in LimiterKeys : table[j] = table[k] /\ table[k] # None => j = k
    /\ \A p \in Procs, k \in LimiterKeys :
         call[p].id # None /\ call[p].id = table[k] => call[p].key = k
    /\ \A p \in Procs :
         call[p].id # None /\ call[p].key \notin disturbed => call[p].id = table[call[p].key]

\* The entries that something refers to, and what becomes of e when the others go.
Live == {table[k] : k \in LimiterKeys} \cup Held
Kept(e) == entry' = [i \in Ids |-> IF i \in Live' THEN e[i] ELSE None]

\* A fresh call, and the table as it is at first.
IdleCall == [at |-> "idle", key |-> None, n |-> 0, id |-> None]

\* What is referred to is kept.
LEMMA KeptEntries ==
    ASSUME NEW e, Kept(e)
    PROVE  /\ \A k \in LimiterKeys : table'[k] \in Ids => entry'[table'[k]] = e[table'[k]]
           /\ \A p \in Procs : call'[p].id \in Ids => entry'[call'[p].id] = e[call'[p].id]
BY DEF Kept, Live, Held

\* The fields of a call.
LEMMA CallFields ==
    ASSUME NEW E, TableInv(E), NEW p \in Procs
    PROVE  /\ call[p] \in CallRecord
           /\ call[p].at \in {"idle", "create", "use"} /\ call[p].n \in Nat
           /\ call[p].key \in LimiterKeys \cup {None}
           /\ call[p].id \in Ids \cup {None}
<1>1. call[p] \in CallRecord
  BY DEF TableInv
<1> QED
  BY <1>1 DEF CallRecord

\* At first the table is empty.
LEMMA TableInit ==
    ASSUME NEW E, table = [k \in LimiterKeys |-> None], entry = [i \in Ids |-> None], sinceGC = 0,
           call = [p \in Procs |-> IdleCall], disturbed = {}
    PROVE  TableInv(E)
<1>1. IdleCall \in CallRecord /\ IdleCall.at = "idle" /\ IdleCall.id = None
  BY DEF IdleCall, CallRecord
<1>2. \A p \in Procs : call[p].at = "idle" /\ call[p].id = None
  BY <1>1, Zenon
<1>3. call \in [Procs -> CallRecord]
  BY <1>1
<1> QED
  BY <1>2, <1>3 DEF TableInv

\* The lookup under the read lock.
LEMMA TableLookup ==
    ASSUME NEW E, TableInv(E), NEW p \in Procs, NEW k \in LimiterKeys, NEW n \in Nat,
           call' = [call EXCEPT ![p] = [at |-> IF table[k] = None THEN "create" ELSE "use",
                                        key |-> k, n |-> n, id |-> table[k]]],
           UNCHANGED <<table, entry, sinceGC, disturbed>>
    PROVE  TableInv(E)'
<1> DEFINE c == [at |-> IF table[k] = None THEN "create" ELSE "use", key |-> k, n |-> n, id |-> table[k]]
<1>1. c \in CallRecord
  <2>1. table[k] \in Ids \cup {None}
    BY DEF TableInv
  <2> QED
    BY <2>1 DEF CallRecord
<1>2. /\ c.at \in {"create", "use"} /\ (c.at = "use" <=> table[k] # None)
      /\ c.key = k /\ c.id = table[k] /\ k # None
  BY LimitersAssumption
<1> HIDE DEF c
<1>3. call' \in [Procs -> CallRecord] /\ call'[p] = c /\ \A q \in Procs \ {p} : call'[q] = call[q]
  BY <1>1 DEF TableInv, c
<1>4. ASSUME NEW q \in Procs
      PROVE  /\ call'[q].at # "idle" => call'[q].key # None
             /\ call'[q].at = "use" <=> call'[q].id # None
             /\ call'[q].id # None => entry[call'[q].id] # None
             /\ \A j \in LimiterKeys : call'[q].id # None /\ call'[q].id = table[j] => call'[q].key = j
             /\ call'[q].id # None /\ call'[q].key \notin disturbed => call'[q].id = table[call'[q].key]
  <2>1. CASE q = p
    BY <1>2, <1>3, <2>1 DEF TableInv
  <2>2. CASE q # p
    BY <1>3, <2>2 DEF TableInv
  <2> QED
    BY <2>1, <2>2
<1> QED
  BY <1>3, <1>4 DEF TableInv

\* What TableInv asks of the next state, call by call.
LEMMA NextTable ==
    ASSUME NEW E,
           table' \in [LimiterKeys -> Ids \cup {None}], entry' \in [Ids -> E \cup {None}],
           call' \in [Procs -> CallRecord], sinceGC' \in Int, disturbed' \subseteq LimiterKeys,
           \A p \in Procs :
             /\ call'[p].at # "idle" => call'[p].key # None
             /\ call'[p].at = "use" <=> call'[p].id # None
             /\ call'[p].id # None => entry'[call'[p].id] # None
             /\ \A k \in LimiterKeys : call'[p].id # None /\ call'[p].id = table'[k] => call'[p].key = k
             /\ call'[p].id # None /\ call'[p].key \notin disturbed' => call'[p].id = table'[call'[p].key],
           \A k \in LimiterKeys : table'[k] # None => entry'[table'[k]] # None,
           \A j, k \in LimiterKeys : table'[j] = table'[k] /\ table'[k] # None => j = k
    PROVE  TableInv(E)'
BY DEF TableInv, CallRecord

\* Entries leave the table, and keys whose entry is in use are disturbed.
LEMMA TableDrop ==
    ASSUME NEW E, TableInv(E), NEW kept \in [LimiterKeys -> Ids \cup {None}],
           \A k \in LimiterKeys : kept[k] \in {table[k], None},
           table' = kept, call' = call, Kept(entry), sinceGC' \in Int,
           disturbed \subseteq disturbed', disturbed' \subseteq LimiterKeys,
           \A k \in LimiterKeys : kept[k] # table[k] /\ table[k] \in Held => k \in disturbed'
    PROVE  /\ TableInv(E)'
           /\ \A k \in LimiterKeys : kept[k] # None => entry'[kept[k]] = entry[table[k]]
<1>1. \A k \in LimiterKeys : kept[k] # None => kept[k] = table[k] /\ entry'[kept[k]] = entry[table[k]]
  BY KeptEntries
<1>2. \A p \in Procs : call[p].id # None => call[p].id \in Ids /\ entry'[call[p].id] = entry[call[p].id]
  BY KeptEntries, CallFields
<1>3. entry' \in [Ids -> E \cup {None}]
  BY DEF Kept, TableInv
<1>4. ASSUME NEW p \in Procs, call[p].id # None, call[p].key \notin disturbed' PROVE call[p].id = kept[call[p].key]
  <2>1. call[p].id = table[call[p].key] /\ call[p].at = "use"
    BY <1>4 DEF TableInv
  <2>2. call[p].key \in LimiterKeys
    BY <2>1, CallFields DEF TableInv
  <2>3. call[p].id \in Held
    BY DEF Held
  <2> QED
    BY <1>4, <2>1, <2>2, <2>3
<1>5. /\ \A p \in Procs : call[p].id # None => entry'[call[p].id] # None
      /\ \A k \in LimiterKeys : kept[k] # None => entry'[kept[k]] # None
  BY <1>1, <1>2 DEF TableInv
<1>6. /\ \A j, k \in LimiterKeys : kept[j] = kept[k] /\ kept[k] # None => j = k
      /\ \A p \in Procs, k \in LimiterKeys :
           call[p].id # None /\ call[p].id = kept[k] => call[p].key = k
  BY <1>1 DEF TableInv
<1> QED
  BY <1>1, <1>3, <1>4, <1>5, <1>6 DEF TableInv

\* Goroutine p has found no entry for its key, and uses id: the entry that is there by
\* now, or else a fresh one, in the table that a collection has left.
Created(E, p, kept, id, new) ==
    /\ kept \in [LimiterKeys -> Ids \cup {None}]
    /\ \A k \in LimiterKeys : kept[k] \in {table[k], None}
    /\ call[p].at = "create" /\ id \in Ids /\ new \in E /\ None \notin E
    /\ IF kept[call[p].key] # None THEN id = kept[call[p].key]
       ELSE id \notin Held \cup {kept[k] : k \in LimiterKeys}
    /\ table' = [kept EXCEPT ![call[p].key] = id]
    /\ call' = [call EXCEPT ![p].at = "use", ![p].id = id]
    /\ Kept(IF kept[call[p].key] # None THEN entry ELSE [entry EXCEPT ![id] = new])
    /\ sinceGC' \in Int
    /\ disturbed \subseteq disturbed' /\ disturbed' \subseteq LimiterKeys
    /\ \A k \in LimiterKeys : kept[k] # table[k] /\ table[k] \in Held => k \in disturbed'

\* The table gets an entry for the key of the call that makes one, or finds one there.
LEMMA TableCreate ==
    ASSUME NEW E, TableInv(E), NEW p \in Procs, NEW kept, NEW id, NEW new,
           Created(E, p, kept, id, new)
    PROVE  /\ TableInv(E)'
           /\ \A k \in LimiterKeys : kept[k] # None => table'[k] = table[k] /\ entry'[table'[k]] = entry[table[k]]
           /\ \A k \in LimiterKeys \ {call[p].key} : kept[k] = None => table'[k] = None
           /\ kept[call[p].key] = None => table'[call[p].key] # None /\ entry'[table'[call[p].key]] = new
           /\ \A i \in Ids : entry'[i] \in {entry[i], new, None}
<1> USE DEF Created
<1> DEFINE key == call[p].key
           e == IF kept[key] # None THEN entry ELSE [entry EXCEPT ![id] = new]
<1>0. key \in LimiterKeys /\ call[p].id = None /\ call[p] \in CallRecord /\ id # None
  BY CallFields, LimitersAssumption, Zenon DEF TableInv
<1>c. /\ call' \in [Procs -> CallRecord]
      /\ call'[p].at = "use" /\ call'[p].id = id /\ call'[p].key = key
      /\ \A q \in Procs \ {p} : call'[q] = call[q]
  <2>1. call \in [Procs -> CallRecord]
    BY DEF TableInv
  <2>2. call' = [call EXCEPT ![p] = [call[p] EXCEPT !.at = "use", !.id = id]]
    BY <2>1, Zenon
  <2>3. /\ [call[p] EXCEPT !.at = "use", !.id = id] \in CallRecord
        /\ [call[p] EXCEPT !.at = "use", !.id = id].at = "use"
        /\ [call[p] EXCEPT !.at = "use", !.id = id].id = id
        /\ [call[p] EXCEPT !.at = "use", !.id = id].key = key
    BY <1>0, Zenon DEF CallRecord
  <2> QED
    BY <2>1, <2>2, <2>3
<1>t. /\ table' \in [LimiterKeys -> Ids \cup {None}] /\ table'[key] = id
      /\ \A k \in LimiterKeys \ {key} : table'[k] = kept[k]
  BY <1>0
<1>e. /\ e \in [Ids -> E \cup {None}] /\ e[id] # None
      /\ kept[key] = None => e[id] = new
      /\ \A i \in Ids \ {id} : e[i] = entry[i]
      /\ kept[key] # None => e = entry
      /\ Kept(e)
  <2>1. entry \in [Ids -> E \cup {None}]
    BY DEF TableInv
  <2>2. CASE kept[key] # None
    <3>1. id = table[key] /\ e = entry
      BY <1>0, <2>2
    <3> QED
      BY <1>0, <2>1, <2>2, <3>1 DEF TableInv
  <2>3. CASE kept[key] = None
    BY <2>1, <2>3
  <2> QED
    BY <2>2, <2>3
<1> HIDE DEF e
<1>1. /\ \A k \in LimiterKeys : table'[k] # None => entry'[table'[k]] = e[table'[k]]
      /\ \A q \in Procs : call'[q].id # None => call'[q].id \in Ids /\ entry'[call'[q].id] = e[call'[q].id]
  <2>1. \A q \in Procs : call'[q].id \in Ids \cup {None}
    BY <1>c DEF CallRecord
  <2>2. /\ \A k \in LimiterKeys : table'[k] \in Ids => entry'[table'[k]] = e[table'[k]]
        /\ \A q \in Procs : call'[q].id \in Ids => entry'[call'[q].id] = e[call'[q].id]
    BY <1>e, KeptEntries, Zenon
  <2> QED
    BY <1>t, <2>1, <2>2, Zenon
<1>2. \A k \in LimiterKeys : kept[k] # None => table'[k] = table[k] /\ entry'[table'[k]] = entry[table[k]]
  <2> SUFFICES ASSUME NEW k \in LimiterKeys, kept[k] # None
               PROVE  table'[k] = table[k] /\ entry'[table'[k]] = entry[table[k]]
    OBVIOUS
  <2>1. kept[k] = table[k] /\ table'[k] = table[k]
    BY <1>t
  <2>2. table[k] # id \/ kept[key] # None
    BY <2>1
  <2>3. e[table[k]] = entry[table[k]]
    BY <1>e, <2>1, <2>2
  <2> QED
    BY <1>1, <2>1, <2>3
<1>3. /\ \A k \in LimiterKeys \ {key} : kept[k] = None => table'[k] = None
      /\ kept[key] = None => table'[key] # None /\ entry'[table'[key]] = new
  BY <1>0, <1>1, <1>t, <1>e
<1>4. entry' \in [Ids -> E \cup {None}] /\ \A i \in Ids : entry'[i] \in {entry[i], new, None}
  <2>1. \A i \in Ids : e[i] \in {entry[i], new}
    BY <1>e
  <2> QED
    BY <1>e, <2>1 DEF Kept
<1>5. ASSUME NEW q \in Procs
      PROVE  /\ call'[q].at # "idle" => call'[q].key # None
             /\ call'[q].at = "use" <=> call'[q].id # None
             /\ call'[q].id # None => entry'[call'[q].id] # None
             /\ \A k \in LimiterKeys : call'[q].id # None /\ call'[q].id = table'[k] => call'[q].key = k
             /\ call'[q].id # None /\ call'[q].key \notin disturbed' => call'[q].id = table'[call'[q].key]
  <2>1. CASE q = p
    <3>1. \A k \in LimiterKeys : id = table'[k] => key = k
      <4> SUFFICES ASSUME NEW k \in LimiterKeys, id = table'[k], key # k PROVE FALSE
        OBVIOUS
      <4>1. id = kept[k] /\ kept[k] = table[k]
        BY <1>0, <1>t
      <4>2. kept[key] # None
        BY <4>1
      <4> QED
        BY <1>0, <4>1, <4>2 DEF TableInv
    <3>2. entry'[id] # None
      BY <1>0, <1>1, <1>c, <1>e
    <3> QED
      BY <1>0, <1>c, <1>t, <2>1, <3>1, <3>2, LimitersAssumption
  <2>2. CASE q # p
    <3>1. call'[q] = call[q] /\ call[q].id \in Held
      BY <1>c, <2>2 DEF Held
    <3>2. call[q].id # None => entry'[call[q].id] # None
      <4> SUFFICES ASSUME call[q].id # None PROVE entry'[call[q].id] # None
        OBVIOUS
      <4>1. entry'[call[q].id] = e[call[q].id] /\ call[q].id \in Ids /\ entry[call[q].id] # None
        BY <1>1, <3>1 DEF TableInv
      <4> QED
        BY <4>1, <1>e
    <3>3. ASSUME NEW k \in LimiterKeys, call[q].id # None, call[q].id = table'[k] PROVE call[q].key = k
      <4>1. call[q].id = kept[k]
        BY <1>t, <3>1, <3>3
      <4> QED
        BY <3>3, <4>1 DEF TableInv
    <3>4. ASSUME call[q].id # None, call[q].key \notin disturbed' PROVE call[q].id = table'[call[q].key]
      <4>1. call[q].id = table[call[q].key] /\ call[q].key \in LimiterKeys
        BY <3>4, CallFields, Zenon DEF TableInv
      <4>2. kept[call[q].key] = table[call[q].key]
        BY <3>1, <3>4, <4>1
      <4> QED
        BY <1>t, <3>4, <4>1, <4>2
    <3>5. (call[q].at # "idle" => call[q].key # None) /\ (call[q].at = "use" <=> call[q].id # None)
      BY DEF TableInv
    <3> QED
      BY <3>1, <3>2, <3>3, <3>4, <3>5, Zenon
  <2> QED
    BY <2>1, <2>2, Zenon
<1>6. /\ \A k \in LimiterKeys : table'[k] # None => entry'[table'[k]] # None
      /\ \A j, k \in LimiterKeys : table'[j] = table'[k] /\ table'[k] # None => j = k
  <2>1. ASSUME NEW k \in LimiterKeys, table'[k] # None PROVE entry'[table'[k]] # None
    <3>1. CASE kept[k] # None
      BY <1>2, <2>1, <3>1 DEF TableInv
    <3>2. CASE kept[k] = None
      BY <1>3, <2>1, <3>2
    <3> QED
      BY <3>1, <3>2
  <2>2. ASSUME NEW j \in LimiterKeys, NEW k \in LimiterKeys, table'[j] = table'[k], table'[k] # None, j # k
        PROVE  FALSE
    <3>1. CASE kept[j] # None /\ kept[k] # None
      BY <1>2, <2>2, <3>1 DEF TableInv
    <3>2. CASE kept[j] = None
      BY <1>t, <2>2, <3>2
    <3>3. CASE kept[k] = None
      BY <1>t, <2>2, <3>3
    <3> QED
      BY <3>1, <3>2, <3>3
  <2> QED
    BY <2>1, <2>2
<1>7. TableInv(E)'
  <2>1. disturbed' \subseteq LimiterKeys /\ sinceGC' \in Int /\ table' \in [LimiterKeys -> Ids \cup {None}]
    BY <1>t
  <2> QED
    BY <1>c, <1>4, <1>5, <1>6, <2>1, NextTable
<1> QED
  BY <1>2, <1>3, <1>4, <1>7

\* A call ends with e in its entry, which may be the table's no more.
LEMMA TableFinish ==
    ASSUME NEW E, TableInv(E), NEW p \in Procs, call[p].at = "use", NEW new \in E, None \notin E,
           call' = [call EXCEPT ![p] = IdleCall],
           UNCHANGED <<table, sinceGC, disturbed>>, Kept([entry EXCEPT ![call[p].id] = new])
    PROVE  /\ TableInv(E)'
           /\ call[p].key \in LimiterKeys
           /\ call[p].key \notin disturbed => /\ table[call[p].key] = call[p].id
                                              /\ entry'[table[call[p].key]] = new
           /\ \A k \in LimiterKeys \ {call[p].key} :
                table[k] # None => entry'[table[k]] = entry[table[k]]
           /\ \A i \in Ids : entry'[i] \in {entry[i], new, None}
<1> DEFINE key == call[p].key
           id == call[p].id
           e == [entry EXCEPT ![id] = new]
<1>0. key \in LimiterKeys /\ id \in Ids
  BY CallFields DEF TableInv
<1>c. /\ call' \in [Procs -> CallRecord] /\ call'[p].at = "idle" /\ call'[p].id = None
      /\ \A q \in Procs \ {p} : call'[q] = call[q]
  <2>1. IdleCall \in CallRecord /\ IdleCall.at = "idle" /\ IdleCall.id = None
    BY DEF IdleCall, CallRecord
  <2>2. call \in [Procs -> CallRecord]
    BY DEF TableInv
  <2> QED
    BY <2>1, <2>2
<1>e. /\ e \in [Ids -> E \cup {None}] /\ e[id] = new
      /\ \A i \in Ids \ {id} : e[i] = entry[i]
      /\ \A i \in Ids : e[i] \in {entry[i], new}
  BY <1>0 DEF TableInv
<1>k. Kept(e)
  OBVIOUS
<1> HIDE DEF e
<1>1. /\ \A k \in LimiterKeys : table[k] # None => entry'[table[k]] = e[table[k]]
      /\ \A q \in Procs : call'[q].id # None => call'[q].id \in Ids /\ entry'[call'[q].id] = e[call'[q].id]
  <2>1. \A q \in Procs : call'[q].id \in Ids \cup {None}
    BY <1>c DEF CallRecord
  <2>2. /\ \A k \in LimiterKeys : table'[k] \in Ids => entry'[table'[k]] = e[table'[k]]
        /\ \A q \in Procs : call'[q].id \in Ids => entry'[call'[q].id] = e[call'[q].id]
    BY <1>k, KeptEntries
  <2> QED
    BY <2>1, <2>2 DEF TableInv
<1>2. entry' \in [Ids -> E \cup {None}] /\ \A i \in Ids : entry'[i] \in {entry[i], new, None}
  BY <1>k, <1>e DEF Kept
<1>3. ASSUME NEW k \in LimiterKeys, table[k] # None
      PROVE  entry'[table[k]] # None /\ (k # key => entry'[table[k]] = entry[table[k]])
  <2>1. table[k] \in Ids /\ entry[table[k]] # None
    BY <1>3 DEF TableInv
  <2>2. table[k] = id => k = key
    BY <1>0 DEF TableInv
  <2> QED
    BY <1>1, <1>3, <1>e, <2>1, <2>2
<1>4. ASSUME NEW q \in Procs, call'[q].id # None PROVE entry'[call'[q].id] # None
  <2>1. call'[q] = call[q] /\ call[q].id \in Ids
    BY <1>c, <1>1, <1>4
  <2>2. entry[call[q].id] # None
    BY <2>1, <1>4 DEF TableInv
  <2> QED
    BY <1>1, <1>4, <1>e, <2>1, <2>2
<1>5. key \notin disturbed => table[key] = id /\ entry'[table[key]] = new
  <2>1. key \notin disturbed => table[key] = id
    BY <1>0 DEF TableInv
  <2> QED
    BY <1>0, <1>1, <1>e, <2>1, LimitersAssumption
<1>6. \A q \in Procs : (call'[q].at = "idle" /\ call'[q].id = None) \/ call'[q] = call[q]
  BY <1>c
<1>7. ASSUME NEW q \in Procs
      PROVE  /\ call'[q].at # "idle" => call'[q].key # None
             /\ call'[q].at = "use" <=> call'[q].id # None
             /\ \A k \in LimiterKeys : call'[q].id # None /\ call'[q].id = table[k] => call'[q].key = k
             /\ call'[q].id # None /\ call'[q].key \notin disturbed => call'[q].id = table[call'[q].key]
  BY <1>6 DEF TableInv
<1>8. TableInv(E)'
  BY <1>c, <1>2, <1>3, <1>4, <1>7 DEF TableInv
<1> QED
  BY <1>0, <1>2, <1>3, <1>5, <1>8

\* Entries grow older.
LEMMA TableTick ==
    ASSUME NEW E, TableInv(E), None \notin E, entry' \in [Ids -> E \cup {None}],
           \A i \in Ids : entry'[i] = None <=> entry[i] = None,
           UNCHANGED <<table, call, disturbed>>, sinceGC' \in Int
    PROVE  TableInv(E)'
<1>1. \A p \in Procs : call[p].id # None => call[p].id \in Ids
  BY CallFields
<1>2. \A k \in LimiterKeys : table[k] # None => table[k] \in Ids
  BY DEF TableInv
<1> QED
  BY <1>1, <1>2 DEF TableInv

-----------------------------------------------------------------------------
(* The token bucket                                                        *)

Bucket == [tokens : Nat, age : Nat]

\* What a key was allowed, and has not drained yet, is missing from its bucket, but for
\* the fraction of a token that a bucket forgets when it is filled up.
BucketInv(k) ==
    IF table[k] = None THEN usage[k] <= Token!RefillRate - 1
    ELSE \/ usage[k] = 0
         \/ usage[k] + entry[table[k]].tokens * Token!RefillRate + entry[table[k]].age
              <= (Token!Capacity + 1) * Token!RefillRate - 1

TokenInv ==
    /\ TableInv(Bucket)
    /\ usage \in [LimiterKeys -> Nat]
    /\ \A i \in Ids : entry[i] # None => entry[i].tokens <= Token!Capacity
    /\ Token!Capacity * Token!RefillRate <= bucketIdle
       => \A k \in LimiterKeys \ disturbed : BucketInv(k)

\* The instance's table is the table.
LEMMA TokenTable ==
    /\ Token!Held = Held /\ Token!Idle = IdleCall
    /\ \A e : Token!Keep(e) <=> Kept(e)
<1>3. Token!Held = Held /\ Token!Idle = IdleCall
  BY Zenon DEF Token!Held, Held, Token!Idle, IdleCall
<1>4. \A e : Token!Keep(e) <=> Kept(e)
  <2>1. /\ Token!Held' = Held'
        /\ Token!Entries(table') \cup Token!Held' = Live'
    BY Zenon DEF Token!Entries, Token!Held, Held, Live
  <2> QED
    BY <2>1, Zenon DEF Token!Keep, Kept
<1> QED
  BY <1>3, <1>4

\* The configuration that NewTokenBucket makes of any arguments.
LEMMA TokenConstants ==
    /\ Token!Capacity \in Nat \ {0} /\ Token!RefillRate \in Nat \ {0}
    /\ Token!Capacity * Token!RefillRate \in Nat
    /\ (Token!Capacity + 1) * Token!RefillRate = Token!Capacity * Token!RefillRate + Token!RefillRate
<1>1. Token!Capacity \in Nat \ {0} /\ Token!RefillRate \in Nat \ {0}
  BY LimitersAssumption DEF Token!Capacity, Token!RefillRate
<1> QED
  BY <1>1

\* Whole parts.
LEMMA Quotient ==
    ASSUME NEW a \in Nat, NEW d \in Nat \ {0}
    PROVE  a \div d \in Nat /\ (a \div d) * d <= a /\ a < (a \div d) * d + d
OBVIOUS

\* A refill adds no more than is due, and caps the bucket.
LEMMA RefilledBucket ==
    ASSUME NEW b \in Bucket, b.tokens <= Token!Capacity
    PROVE  /\ Token!Refilled(b) \in Bucket
           /\ Token!Refilled(b).tokens <= Token!Capacity
           /\ Token!Refilled(b).tokens * Token!RefillRate + Token!Refilled(b).age
                <= b.tokens * Token!RefillRate + b.age
           /\ Token!Refilled(b).tokens * Token!RefillRate + Token!Refilled(b).age
                <= (Token!Capacity + 1) * Token!RefillRate - 1
<1> DEFINE R == Token!RefillRate
           C == Token!Capacity
           q == Token!Refill(b)
           t == b.tokens
           a == b.age
<1>1. C \in Nat \ {0} /\ R \in Nat \ {0} /\ t \in Nat /\ a \in Nat /\ t <= C
  BY TokenConstants DEF Bucket
<1>2. q \in Nat /\ q * R <= a /\ a < q * R + R
  BY <1>1, Quotient, Zenon DEF Token!Refill
<1>3. (t + q) * R = t * R + q * R /\ (C + 1) * R = C * R + R /\ {t * R, q * R, C * R} \subseteq Nat
  <2> HIDE DEF C, R, q, t
  <2> QED
    BY <1>1, <1>2
<1>4. t * R <= C * R
  <2> HIDE DEF C, R, t
  <2> QED
    BY <1>1
<1>5. CASE q = 0
  <2>1. Token!Refilled(b) = b
    BY <1>5 DEF Token!Refilled
  <2>2. a < R
    BY <1>1, <1>2, <1>5
  <2> QED
    BY <1>1, <1>3, <1>4, <2>1, <2>2
<1>6. CASE q # 0 /\ t + q >= C
  <2>1. Token!Refilled(b) = [tokens |-> C, age |-> 0]
    BY <1>6 DEF Token!Refilled
  <2>2. Token!Refilled(b) \in Bucket /\ Token!Refilled(b).tokens = C /\ Token!Refilled(b).age = 0
    BY <1>1, <2>1 DEF Bucket
  <2>3. C * R <= (t + q) * R
    <3> HIDE DEF C, R, q, t
    <3> QED
      BY <1>1, <1>2, <1>6
  <2> HIDE DEF C, R, q, t, a
  <2>4. C * R + 0 <= t * R + a /\ C * R + 0 <= (C + 1) * R - 1
    BY <1>1, <1>2, <1>3, <2>3
  <2> QED
    BY <1>1, <2>2, <2>4 DEF C, R, t, a
<1>7. CASE q # 0 /\ ~(t + q >= C)
  <2>1. Token!Refilled(b) = [tokens |-> t + q, age |-> a - q * R]
    BY <1>7 DEF Token!Refilled
  <2>2. a - q * R \in Nat /\ t + q \in Nat /\ t + q <= C
    <3> HIDE DEF C, R, q, t, a
    <3> QED
      BY <1>1, <1>2, <1>3, <1>7
  <2>3. /\ Token!Refilled(b) \in Bucket /\ Token!Refilled(b).tokens = t + q
        /\ Token!Refilled(b).age = a - q * R
    BY <2>1, <2>2 DEF Bucket
  <2>4. (t + q) * R <= C * R
    <3> HIDE DEF C, R, q, t
    <3> QED
      BY <1>1, <1>2, <2>2
  <2> HIDE DEF C, R, q, t, a
  <2>5. /\ (t + q) * R + (a - q * R) <= t * R + a
        /\ (t + q) * R + (a - q * R) <= (C + 1) * R - 1
    BY <1>1, <1>2, <1>3, <2>4
  <2> QED
    BY <2>2, <2>3, <2>5 DEF C, R, t, a
<1> QED
  BY <1>5, <1>6, <1>7

\* BucketInv of a key whose bucket, and what is known of it, stay the same.
LEMMA BucketKept ==
    ASSUME NEW k \in LimiterKeys, BucketInv(k), usage'[k] = usage[k], table'[k] = table[k],
           table[k] # None => entry'[table[k]] = entry[table[k]]
    PROVE  BucketInv(k)'
BY DEF BucketInv

\* What AllowN leaves of a bucket that has been refilled.
LEMMA BucketTaken ==
    ASSUME NEW r \in Bucket, NEW n \in Nat, n <= r.tokens, r.tokens <= Token!Capacity
    PROVE  LET s == [r EXCEPT !.tokens = @ - n]
           IN  /\ s \in Bucket /\ s.tokens <= Token!Capacity
               /\ n * Token!RefillRate \in Nat
               /\ n * Token!RefillRate + s.tokens * Token!RefillRate + s.age
                    = r.tokens * Token!RefillRate + r.age
<1> DEFINE R == Token!RefillRate
           t == r.tokens
           s == [r EXCEPT !.tokens = @ - n]
<1>1. R \in Nat /\ t \in Nat /\ r.age \in Nat /\ Token!Capacity \in Nat
  BY TokenConstants DEF Bucket
<1>2. t - n \in Nat /\ t - n <= Token!Capacity
  BY <1>1
<1>3. s \in Bucket /\ s.tokens = t - n /\ s.age = r.age
  BY <1>2 DEF Bucket
<1>4. (t - n) * R = t * R - n * R /\ t * R \in Nat /\ n * R \in Nat
  <2> HIDE DEF R, t
  <2> QED
    BY <1>1, <1>2
<1> HIDE DEF s, R, t
<1>5. n * R + (t - n) * R + r.age = t * R + r.age
  BY <1>1, <1>4
<1> QED
  BY <1>2, <1>3, <1>4, <1>5 DEF R, t, s

\* A call that has used its bucket ends.
LEMMA TokenFinish ==
    ASSUME TokenInv, NEW p \in Procs, call[p].at = "use", NEW b \in Bucket, b.tokens <= Token!Capacity,
           NEW u \in Nat, Token!Finish(p, b, u),
           Token!Capacity * Token!RefillRate <= bucketIdle /\ call[p].key \notin disturbed
             /\ BucketInv(call[p].key) /\ call[p].id = table[call[p].key] /\ call[p].id # None
           => u + b.tokens * Token!RefillRate + b.age <= (Token!Capacity + 1) * Token!RefillRate - 1
              \/ u = 0
    PROVE  TokenInv'
<1> DEFINE key == call[p].key
<1>1. /\ call' = [call EXCEPT ![p] = IdleCall]
      /\ UNCHANGED <<table, sinceGC, disturbed>>
      /\ Kept([entry EXCEPT ![call[p].id] = b])
      /\ usage' = IF key \in disturbed THEN usage ELSE [usage EXCEPT ![key] = u]
  BY TokenTable, Zenon DEF Token!Finish
<1>2. TableInv(Bucket) /\ None \notin Bucket
  BY LimitersAssumption DEF TokenInv, Bucket
<1>3. /\ TableInv(Bucket)'
      /\ key \in LimiterKeys
      /\ key \notin disturbed => table[key] = call[p].id /\ entry'[table[key]] = b
      /\ \A k \in LimiterKeys \ {key} : table[k] # None => entry'[table[k]] = entry[table[k]]
      /\ \A i \in Ids : entry'[i] \in {entry[i], b, None}
  BY <1>1, <1>2, TableFinish, Zenon
<1>4. /\ usage' \in [LimiterKeys -> Nat]
      /\ \A k \in LimiterKeys \ {key} : usage'[k] = usage[k]
      /\ key \notin disturbed => usage'[key] = u
  BY <1>1, <1>3 DEF TokenInv
<1>5. \A i \in Ids : entry'[i] # None => entry'[i].tokens <= Token!Capacity
  BY <1>3 DEF TokenInv
<1>6. ASSUME Token!Capacity * Token!RefillRate <= bucketIdle, NEW k \in LimiterKeys \ disturbed
      PROVE  BucketInv(k)'
  <2>0. BucketInv(k)
    BY <1>6 DEF TokenInv
  <2>1. CASE k # key
    BY <1>1, <1>3, <1>4, <2>0, <2>1, BucketKept
  <2>2. CASE k = key
    <3>1. table[key] = call[p].id /\ call[p].id # None /\ entry'[table[key]] = b /\ usage'[key] = u
      BY <1>2, <1>3, <1>4, <1>6, <2>2 DEF TableInv
    <3> QED
      BY <1>1, <1>6, <2>0, <2>2, <3>1 DEF BucketInv
  <2> QED
    BY <2>1, <2>2
<1> QED
  BY <1>1, <1>3, <1>4, <1>5, <1>6 DEF TokenInv

\* AllowN and Remaining.
LEMMA TokenUse ==
    ASSUME TokenInv, NEW p \in Procs, Token!AllowN(p) \/ Token!Remaining(p)
    PROVE  TokenInv'
<1> DEFINE id == call[p].id
           key == call[p].key
           b == entry[id]
           r == Token!Refilled(b)
           n == call[p].n
           R == Token!RefillRate
           bound == (Token!Capacity + 1) * R - 1
<1>1. call[p].at = "use"
  BY DEF Token!AllowN, Token!Remaining
<1>2. id \in Ids /\ key \in LimiterKeys /\ n \in Nat /\ b \in Bucket /\ b.tokens <= Token!Capacity
  <2>1. TableInv(Bucket)
    BY DEF TokenInv
  <2>2. id # None /\ id \in Ids /\ key \in LimiterKeys /\ n \in Nat
    BY <1>1, <2>1, CallFields DEF TableInv
  <2>3. b \in Bucket
    BY <2>1, <2>2 DEF TableInv
  <2>4. b # None
    <3>1. \A q \in Procs : call[q].id # None => entry[call[q].id] # None
      BY <2>1 DEF TableInv
    <3> QED
      BY <2>2, <3>1
  <2> QED
    BY <2>2, <2>3, <2>4 DEF TokenInv
<1>3. usage[key] \in Nat
  BY <1>2 DEF TokenInv
<1>4. /\ r \in Bucket /\ r.tokens <= Token!Capacity
      /\ r.tokens * R + r.age <= b.tokens * R + b.age
      /\ r.tokens * R + r.age <= bound
  BY <1>2, RefilledBucket
<1>5. /\ r.tokens \in Nat /\ r.age \in Nat /\ b.tokens \in Nat /\ b.age \in Nat /\ R \in Nat \ {0}
      /\ r.tokens * R \in Nat /\ b.tokens * R \in Nat /\ bound \in Nat
  <2>1. r.tokens \in Nat /\ r.age \in Nat /\ b.tokens \in Nat /\ b.age \in Nat
    BY <1>2, <1>4 DEF Bucket
  <2>2. R \in Nat \ {0} /\ bound \in Nat
    BY TokenConstants
  <2> HIDE DEF R, bound, r, b
  <2> QED
    BY <2>1, <2>2
<1> HIDE DEF r, R, bound, n
<1>6. BucketInv(key) /\ id = table[key] /\ id # None => usage[key] + r.tokens * R + r.age <= bound
  <2> SUFFICES ASSUME BucketInv(key), id = table[key], id # None
               PROVE  usage[key] + r.tokens * R + r.age <= bound
    OBVIOUS
  <2>1. usage[key] = 0 \/ usage[key] + b.tokens * R + b.age <= bound
    BY DEF BucketInv, R, bound
  <2> DEFINE rR == r.tokens * R
             bR == b.tokens * R
  <2>2. rR \in Nat /\ bR \in Nat /\ rR + r.age <= bR + b.age /\ rR + r.age <= bound
    BY <1>4, <1>5
  <2> HIDE DEF b, rR, bR
  <2>3. usage[key] = 0 \/ usage[key] + bR + b.age <= bound
    BY <2>1 DEF bR
  <2>4. usage[key] + rR + r.age <= bound
    BY <1>3, <1>5, <2>2, <2>3
  <2> QED
    BY <2>4 DEF rR
<1>7. CASE Token!Finish(p, b, usage[key])
  <2>1. BucketInv(key) /\ id = table[key] /\ id # None
        => usage[key] + b.tokens * R + b.age <= bound \/ usage[key] = 0
    BY DEF BucketInv, R, bound
  <2> QED
    BY <1>1, <1>2, <1>3, <1>7, <2>1, TokenFinish DEF R, bound
<1>8. CASE Token!Finish(p, r, usage[key])
  BY <1>1, <1>3, <1>4, <1>6, <1>8, TokenFinish DEF R, bound
<1>9. ASSUME r.tokens >= n, Token!Finish(p, [r EXCEPT !.tokens = @ - n], usage[key] + n * R)
      PROVE  TokenInv'
  <2> DEFINE s == [r EXCEPT !.tokens = @ - n]
  <2>1. n \in Nat /\ n <= r.tokens
    BY <1>2, <1>5, <1>9 DEF n
  <2>2. /\ s \in Bucket /\ s.tokens <= Token!Capacity
        /\ n * R \in Nat
        /\ n * R + s.tokens * R + s.age = r.tokens * R + r.age
    BY <1>4, <2>1, BucketTaken DEF R
  <2>3. usage[key] + n * R \in Nat
    BY <1>3, <2>2
  <2>4. s.tokens * R \in Nat /\ s.age \in Nat
    <3>1. s.tokens \in Nat /\ s.age \in Nat
      BY <2>2 DEF Bucket
    <3> HIDE DEF s
    <3> QED
      BY <1>5, <3>1
  <2>5. Token!Finish(p, s, usage[key] + n * R)
    BY <1>9
  <2> HIDE DEF s
  <2>6. BucketInv(key) /\ id = table[key] /\ id # None
        => (usage[key] + n * R) + s.tokens * R + s.age <= bound
    <3> DEFINE rR == r.tokens * R
               sR == s.tokens * R
               nR == n * R
    <3>1. /\ rR \in Nat /\ sR \in Nat /\ nR \in Nat /\ r.age \in Nat /\ bound \in Nat
          /\ nR + sR + s.age = rR + r.age
      BY <1>5, <2>2, <2>4
    <3> HIDE DEF rR, sR, nR
    <3>2. usage[key] + rR + r.age <= bound => (usage[key] + nR) + sR + s.age <= bound
      BY <1>3, <2>4, <3>1
    <3> QED
      BY <1>6, <3>2 DEF rR, sR, nR
  <2> QED
    BY <1>1, <2>2, <2>3, <2>5, <2>6, TokenFinish DEF R, bound
<1> QED
  BY <1>7, <1>8, <1>9 DEF Token!AllowN, Token!Remaining, r, R, n

-----------------------------------------------------------------------------
(* Collections, of the table of either limiter                             *)

Collected(idle) ==
    [k \in LimiterKeys |->
       IF sinceGC >= gcInterval /\ table[k] # None /\ entry[table[k]].age > idle
       THEN None
       ELSE table[k]]
Orphaned(map) == {k \in LimiterKeys : table[k] # map[k] /\ table[k] \in Held \ {None}}
Disturb(keys, unused) ==
    /\ disturbed' = disturbed \cup keys
    /\ usage' = [k \in LimiterKeys |-> IF k \in keys THEN unused ELSE usage[k]]

\* A collection drops the entries that have been idle, and no others.
LEMMA CollectedTable ==
    ASSUME NEW E, TableInv(E), NEW idle
    PROVE  /\ Collected(idle) \in [LimiterKeys -> Ids \cup {None}]
           /\ \A k \in LimiterKeys : Collected(idle)[k] \in {table[k], None}
           /\ \A k \in LimiterKeys :
                Collected(idle)[k] = None => table[k] = None \/ entry[table[k]].age > idle
<1>1. table \in [LimiterKeys -> Ids \cup {None}]
  BY DEF TableInv
<1> QED
  BY <1>1 DEF Collected

\* The keys that lose an entry in use are disturbed, and the others are not.
LEMMA DisturbedKeys ==
    ASSUME NEW E, TableInv(E), NEW U, usage \in [LimiterKeys -> U], NEW unused \in U,
           NEW keys \in SUBSET LimiterKeys, Disturb(keys, unused)
    PROVE  /\ disturbed \subseteq disturbed' /\ disturbed' \subseteq LimiterKeys
           /\ keys \subseteq disturbed'
           /\ usage' \in [LimiterKeys -> U]
           /\ \A k \in LimiterKeys \ disturbed' : k \notin disturbed /\ usage'[k] = usage[k]
<1>1. disturbed \subseteq LimiterKeys
  BY DEF TableInv
<1> QED
  BY <1>1 DEF Disturb

\* The same for a collection, in the words of TableDrop and TableCreate.
LEMMA OrphanedKeys ==
    ASSUME NEW E, TableInv(E), NEW kept \in [LimiterKeys -> Ids \cup {None}],
           \A k \in LimiterKeys : kept[k] \in {table[k], None}, Orphaned(kept) \subseteq disturbed'
    PROVE  \A k \in LimiterKeys : kept[k] # table[k] /\ table[k] \in Held => k \in disturbed'
BY DEF Orphaned

\* A key without a bucket has drained, a bucket that was idle long enough included.
LEMMA BucketForgotten ==
    ASSUME TokenInv, NEW k \in LimiterKeys, BucketInv(k),
           Token!Capacity * Token!RefillRate <= bucketIdle,
           table[k] = None \/ entry[table[k]].age > bucketIdle
    PROVE  usage[k] \in Nat /\ usage[k] <= Token!RefillRate - 1
<1>1. usage[k] \in Nat
  BY DEF TokenInv
<1>2. CASE table[k] = None
  BY <1>1, <1>2 DEF BucketInv
<1>3. CASE table[k] # None
  <2> DEFINE b == entry[table[k]]
             R == Token!RefillRate
             C == Token!Capacity
             u == usage[k]
  <2>1. b \in Bucket
    BY <1>3 DEF TokenInv, TableInv
  <2>2. /\ C * R \in Nat /\ (C + 1) * R = C * R + R /\ R \in Nat \ {0}
        /\ b.age \in Nat /\ b.tokens \in Nat /\ bucketIdle \in Int
    BY <2>1, TokenConstants, LimitersAssumption DEF Bucket
  <2>3. C * R <= bucketIdle /\ b.age > bucketIdle
        /\ (u = 0 \/ u + b.tokens * R + b.age <= (C + 1) * R - 1)
    BY <1>3 DEF BucketInv
  <2> HIDE DEF b, C, R, u
  <2>4. b.tokens * R \in Nat
    BY <2>2
  <2>5. u \in Nat
    BY <1>1 DEF u
  <2>6. u <= R - 1
    BY <2>2, <2>3, <2>4, <2>5
  <2> QED
    BY <1>1, <2>6 DEF u, R
<1> QED
  BY <1>2, <1>3

\* BucketInv of a key whose bucket was new, or dropped.
LEMMA BucketRenewed ==
    ASSUME NEW k \in LimiterKeys, usage'[k] \in Nat, usage'[k] <= Token!RefillRate - 1,
           table'[k] = None \/ entry'[table'[k]] = Token!NewBucket
    PROVE  BucketInv(k)'
<1> DEFINE R == Token!RefillRate
           C == Token!Capacity
<1>1. /\ C * R \in Nat /\ (C + 1) * R = C * R + R /\ R \in Nat \ {0}
      /\ Token!NewBucket.age = 0 /\ Token!NewBucket.tokens = C
  BY TokenConstants DEF Token!NewBucket
<1>2. usage'[k] + Token!NewBucket.tokens * R + Token!NewBucket.age <= (C + 1) * R - 1
  <2> HIDE DEF C, R
  <2>1. usage'[k] + C * R + 0 <= (C + 1) * R - 1
    BY <1>1 DEF R
  <2> QED
    BY <1>1, <2>1
<1> QED
  BY <1>2 DEF BucketInv

\* The instance's collections are those above.
LEMMA TokenCollections ==
    /\ Token!Collected = Collected(bucketIdle)
    /\ \A map : Token!Orphaned(map) = Orphaned(map)
    /\ \A keys, unused : Token!Disturb(keys, unused) <=> Disturb(keys, unused)
    /\ \A map : Token!Entries(map) = {map[k] : k \in LimiterKeys}
<1>1. Token!Collected = Collected(bucketIdle)
  BY Zenon DEF Token!Collected, Token!Collects, Collected
<1>2. \A map : Token!Orphaned(map) = Orphaned(map)
  BY TokenTable, Zenon DEF Token!Orphaned, Orphaned
<1>3. \A keys, unused : Token!Disturb(keys, unused) <=> Disturb(keys, unused)
  BY Zenon DEF Token!Disturb, Disturb
<1> QED
  BY <1>1, <1>2, <1>3, Zenon DEF Token!Entries

\* The write-locked part of getBucket.
LEMMA TokenCreate ==
    ASSUME TokenInv, NEW p \in Procs, Token!Create(p, Token!NewBucket, 0)
    PROVE  TokenInv'
<1> DEFINE kept == Token!Collected
           key == call[p].key
           id == IF kept[key] # None THEN kept[key]
                 ELSE CHOOSE i \in Token!Free(kept) : TRUE
           new == Token!NewBucket
<1>0. TableInv(Bucket) /\ usage \in [LimiterKeys -> Nat]
  BY DEF TokenInv
<1>1. /\ call[p].at = "create"
      /\ kept[key] = None => Token!Free(kept) # {}
      /\ table' = [kept EXCEPT ![key] = id]
      /\ call' = [call EXCEPT ![p].at = "use", ![p].id = id]
      /\ Kept(IF kept[key] # None THEN entry ELSE [entry EXCEPT ![id] = new])
      /\ sinceGC' \in {0, sinceGC}
      /\ Disturb(Orphaned(kept), 0)
  <2>1. /\ call[p].at = "create"
        /\ kept[key] = None => Token!Free(kept) # {}
        /\ table' = [kept EXCEPT ![key] = id]
        /\ call' = [call EXCEPT ![p].at = "use", ![p].id = id]
        /\ Token!Keep(IF kept[key] # None THEN entry ELSE [entry EXCEPT ![id] = new])
        /\ sinceGC' = IF Token!Collects THEN 0 ELSE sinceGC
        /\ Token!Disturb(Token!Orphaned(kept), 0)
    BY Zenon DEF Token!Create
  <2> HIDE DEF kept, id, new
  <2> QED
    BY <2>1, TokenCollections, TokenTable
<1>2. /\ kept \in [LimiterKeys -> Ids \cup {None}]
      /\ \A k \in LimiterKeys : kept[k] \in {table[k], None}
      /\ \A k \in LimiterKeys : kept[k] = None => table[k] = None \/ entry[table[k]].age > bucketIdle
  <2>1. kept = Collected(bucketIdle)
    BY TokenCollections
  <2> HIDE DEF kept
  <2> QED
    BY <1>0, <2>1, CollectedTable
<1> HIDE DEF kept
<1>3. key \in LimiterKeys /\ call[p].id = None
  BY <1>0, <1>1, CallFields, Zenon DEF TableInv
<1>4. /\ id \in Ids
      /\ IF kept[key] # None THEN id = kept[key] ELSE id \notin Held \cup {kept[k] : k \in LimiterKeys}
  <2>2. CASE kept[key] # None
    BY <1>2, <1>3, <2>2
  <2>3. CASE kept[key] = None
    <3>1. id \in Token!Free(kept)
      BY <1>1, <2>3, Zenon
    <3> QED
      BY <2>3, <3>1, TokenTable, TokenCollections, Zenon DEF Token!Free
  <2> QED
    BY <2>2, <2>3
<1> HIDE DEF id
<1>5. /\ disturbed \subseteq disturbed' /\ disturbed' \subseteq LimiterKeys
      /\ Orphaned(kept) \subseteq disturbed'
      /\ usage' \in [LimiterKeys -> Nat]
      /\ \A k \in LimiterKeys \ disturbed' : k \notin disturbed /\ usage'[k] = usage[k]
  <2>1. Orphaned(kept) \in SUBSET LimiterKeys
    BY DEF Orphaned
  <2> QED
    BY <1>0, <1>1, <2>1, DisturbedKeys, Zenon
<1>6. \A k \in LimiterKeys : kept[k] # table[k] /\ table[k] \in Held => k \in disturbed'
  BY <1>0, <1>2, <1>5, OrphanedKeys
<1>7. new \in Bucket /\ None \notin Bucket /\ new.tokens = Token!Capacity /\ Token!Capacity \in Nat
  BY TokenConstants, LimitersAssumption DEF Bucket, Token!NewBucket
<1>8. sinceGC' \in Int
  BY <1>0, <1>1 DEF TableInv
<1> HIDE DEF new
<1>9. /\ TableInv(Bucket)'
      /\ \A k \in LimiterKeys : kept[k] # None => table'[k] = table[k] /\ entry'[table'[k]] = entry[table[k]]
      /\ \A k \in LimiterKeys \ {key} : kept[k] = None => table'[k] = None
      /\ kept[key] = None => table'[key] # None /\ entry'[table'[key]] = new
      /\ \A i \in Ids : entry'[i] \in {entry[i], new, None}
  <2>1. Created(Bucket, p, kept, id, new)
    BY <1>1, <1>2, <1>4, <1>5, <1>6, <1>7, <1>8 DEF Created
  <2> QED
    BY <1>0, <2>1, TableCreate
<1>10. \A i \in Ids : entry'[i] # None => entry'[i].tokens <= Token!Capacity
  <2>1. \A i \in Ids : entry[i] # None => entry[i].tokens <= Token!Capacity
    BY DEF TokenInv
  <2> QED
    BY <1>7, <1>9, <2>1
<1>11. ASSUME Token!Capacity * Token!RefillRate <= bucketIdle, NEW k \in LimiterKeys \ disturbed'
       PROVE  BucketInv(k)'
  <2>1. BucketInv(k) /\ usage'[k] = usage[k]
    BY <1>5, <1>11 DEF TokenInv
  <2>2. CASE kept[k] # None
    BY <1>9, <2>1, <2>2, BucketKept
  <2>3. CASE kept[k] = None
    <3>1. usage[k] \in Nat /\ usage[k] <= Token!RefillRate - 1
      BY <1>2, <1>11, <2>1, <2>3, BucketForgotten
    <3>2. table'[k] = None \/ entry'[table'[k]] = Token!NewBucket
      BY <1>9, <2>3 DEF new
    <3> QED
      BY <2>1, <3>1, <3>2, BucketRenewed
  <2> QED
    BY <2>2, <2>3
<1> QED
  BY <1>5, <1>9, <1>10, <1>11 DEF TokenInv

\* The map drops buckets, of the keys that are disturbed or of those that have drained.
LEMMA TokenDrop ==
    ASSUME TokenInv, NEW kept \in [LimiterKeys -> Ids \cup {None}],
           \A k \in LimiterKeys : kept[k] \in {table[k], None},
           table' = kept, call' = call, Kept(entry), sinceGC' \in Int,
           disturbed \subseteq disturbed', disturbed' \subseteq LimiterKeys,
           usage' \in [LimiterKeys -> Nat],
           \A k \in LimiterKeys \ disturbed' : usage'[k] = usage[k],
           \A k \in LimiterKeys : kept[k] # table[k] /\ table[k] \in Held => k \in disturbed',
           \A k \in LimiterKeys \ disturbed' :
             kept[k] = None => table[k] = None \/ entry[table[k]].age > bucketIdle
    PROVE  TokenInv'
<1>0. TableInv(Bucket)
  BY DEF TokenInv
<1>1. /\ TableInv(Bucket)'
      /\ \A k \in LimiterKeys : kept[k] # None => entry'[kept[k]] = entry[table[k]]
  BY <1>0, TableDrop
<1>2. \A i \in Ids : entry'[i] \in {entry[i], None}
  BY DEF Kept
<1>3. \A i \in Ids : entry'[i] # None => entry'[i].tokens <= Token!Capacity
  BY <1>2 DEF TokenInv
<1>4. ASSUME Token!Capacity * Token!RefillRate <= bucketIdle, NEW k \in LimiterKeys \ disturbed'
      PROVE  BucketInv(k)'
  <2>1. BucketInv(k) /\ usage'[k] = usage[k]
    BY <1>4 DEF TokenInv
  <2>2. CASE kept[k] # None
    BY <1>1, <2>1, <2>2, BucketKept
  <2>3. CASE kept[k] = None
    <3>1. usage[k] \in Nat /\ usage[k] <= Token!RefillRate - 1
      BY <1>4, <2>1, <2>3, BucketForgotten
    <3> QED
      BY <2>1, <2>3, <3>1, BucketRenewed
  <2> QED
    BY <2>2, <2>3
<1> QED
  BY <1>1, <1>3, <1>4 DEF TokenInv

\* Another key's collection, and Reset.
LEMMA TokenShrinks ==
    ASSUME TokenInv, Token!CreateElsewhere(0) \/ \E k \in LimiterKeys : Token!Reset(k, 0)
    PROVE  TokenInv'
<1>0. TableInv(Bucket) /\ usage \in [LimiterKeys -> Nat]
  BY DEF TokenInv
<1>1. CASE Token!CreateElsewhere(0)
  <2> DEFINE kept == Collected(bucketIdle)
  <2>1. /\ table' = kept /\ call' = call /\ Kept(entry) /\ sinceGC' = 0
        /\ Disturb(Orphaned(kept), 0)
    BY <1>1, TokenCollections, TokenTable, Zenon DEF Token!CreateElsewhere
  <2>2. /\ kept \in [LimiterKeys -> Ids \cup {None}]
        /\ \A k \in LimiterKeys : kept[k] \in {table[k], None}
        /\ \A k \in LimiterKeys : kept[k] = None => table[k] = None \/ entry[table[k]].age > bucketIdle
    BY <1>0, CollectedTable
  <2> HIDE DEF kept
  <2>3. Orphaned(kept) \in SUBSET LimiterKeys
    BY DEF Orphaned
  <2>4. /\ disturbed \subseteq disturbed' /\ disturbed' \subseteq LimiterKeys
        /\ Orphaned(kept) \subseteq disturbed'
        /\ usage' \in [LimiterKeys -> Nat]
        /\ \A k \in LimiterKeys \ disturbed' : k \notin disturbed /\ usage'[k] = usage[k]
    BY <1>0, <2>1, <2>3, DisturbedKeys, Zenon
  <2>5. \A k \in LimiterKeys : kept[k] # table[k] /\ table[k] \in Held => k \in disturbed'
    BY <1>0, <2>2, <2>4, OrphanedKeys
  <2>6. /\ sinceGC' \in Int
        /\ \A k \in LimiterKeys \ disturbed' :
             kept[k] = None => table[k] = None \/ entry[table[k]].age > bucketIdle
        /\ \A k \in LimiterKeys \ disturbed' : usage'[k] = usage[k]
    BY <2>1, <2>2, <2>4
  <2> QED
    BY <2>1, <2>2, <2>4, <2>5, <2>6, TokenDrop
<1>2. ASSUME NEW j \in LimiterKeys, Token!Reset(j, 0) PROVE TokenInv'
  <2> DEFINE kept == [table EXCEPT ![j] = None]
  <2>1. table' = kept /\ call' = call /\ Kept(entry) /\ sinceGC' = sinceGC /\ Disturb({j}, 0)
    BY <1>2, TokenCollections, TokenTable, Zenon DEF Token!Reset
  <2>2. /\ kept \in [LimiterKeys -> Ids \cup {None}]
        /\ \A k \in LimiterKeys : kept[k] \in {table[k], None}
        /\ \A k \in LimiterKeys \ {j} : kept[k] = table[k]
        /\ sinceGC \in Int
    BY <1>0 DEF TableInv
  <2> HIDE DEF kept
  <2>3. /\ disturbed \subseteq disturbed' /\ disturbed' \subseteq LimiterKeys
        /\ {j} \subseteq disturbed'
        /\ usage' \in [LimiterKeys -> Nat]
        /\ \A k \in LimiterKeys \ disturbed' : k \notin disturbed /\ usage'[k] = usage[k]
    BY <1>0, <2>1, DisturbedKeys, Zenon
  <2>4. /\ \A k \in LimiterKeys : kept[k] # table[k] /\ table[k] \in Held => k \in disturbed'
        /\ \A k \in LimiterKeys \ disturbed' :
             kept[k] = None => table[k] = None \/ entry[table[k]].age > bucketIdle
    BY <2>2, <2>3
  <2> QED
    BY <2>1, <2>2, <2>3, <2>4, TokenDrop
<1> QED
  BY <1>1, <1>2

\* The clock moves on: what was allowed drains as fast as the bucket's age grows.
LEMMA TokenTick ==
    ASSUME TokenInv, Token!Tick(Token!OldAge, [k \in LimiterKeys |-> Token!Drained(usage[k])])
    PROVE  TokenInv'
<1> DEFINE R == Token!RefillRate
           C == Token!Capacity
           Aged(b) == [b EXCEPT !.age = Token!UpTo(Token!OldAge, @ + 1)]
<1>0. TableInv(Bucket) /\ usage \in [LimiterKeys -> Nat] /\ None \notin Bucket
  BY LimitersAssumption DEF TokenInv, Bucket
<1>1. /\ entry' = [i \in Ids |-> IF entry[i] = None THEN None ELSE Aged(entry[i])]
      /\ sinceGC' = Token!UpTo(gcInterval, sinceGC + 1)
      /\ usage' = [k \in LimiterKeys |-> Token!Drained(usage[k])]
      /\ UNCHANGED <<table, call, disturbed>>
  BY TokenTable, Zenon DEF Token!Tick
<1>2. Token!OldAge \in Nat
  <2>1. C * R \in Nat /\ bucketIdle \in Int
    BY TokenConstants, LimitersAssumption
  <2> HIDE DEF C, R
  <2>2. Token!OldAge = IF bucketIdle >= C * R THEN bucketIdle + 1 ELSE C * R
    BY DEF Token!OldAge, C, R
  <2> QED
    BY <2>1, <2>2
<1>3. ASSUME NEW b \in Bucket
      PROVE  /\ Aged(b) \in Bucket /\ Aged(b).tokens = b.tokens
             /\ Aged(b).age \in Nat /\ Aged(b).age <= b.age + 1
  BY <1>2 DEF Bucket, Token!UpTo
<1>4. sinceGC' \in Int
  BY <1>0, <1>1, LimitersAssumption DEF TableInv, Token!UpTo
<1>5. /\ entry' \in [Ids -> Bucket \cup {None}]
      /\ \A i \in Ids : entry'[i] = None <=> entry[i] = None
      /\ \A i \in Ids : entry[i] # None => entry[i] \in Bucket /\ entry'[i] = Aged(entry[i])
  <2>1. \A i \in Ids : entry[i] # None => entry[i] \in Bucket
    BY <1>0 DEF TableInv
  <2> HIDE DEF Aged
  <2> QED
    BY <1>0, <1>1, <1>3, <2>1
<1>6. TableInv(Bucket)'
  BY <1>0, <1>1, <1>4, <1>5, TableTick, Zenon
<1>7. /\ usage' \in [LimiterKeys -> Nat]
      /\ \A k \in LimiterKeys : usage'[k] = IF usage[k] = 0 THEN 0 ELSE usage[k] - 1
  BY <1>0, <1>1 DEF Token!Drained
<1>8. \A i \in Ids : entry'[i] # None => entry'[i].tokens <= Token!Capacity
  <2>1. \A i \in Ids : entry[i] # None => entry[i].tokens <= Token!Capacity
    BY DEF TokenInv
  <2> HIDE DEF Aged
  <2> QED
    BY <1>3, <1>5, <2>1
<1>9. ASSUME Token!Capacity * Token!RefillRate <= bucketIdle, NEW k \in LimiterKeys \ disturbed'
      PROVE  BucketInv(k)'
  <2>1. BucketInv(k) /\ usage[k] \in Nat /\ table'[k] = table[k] /\ R \in Nat \ {0}
    BY <1>0, <1>1, <1>9, TokenConstants DEF TokenInv
  <2>2. CASE table[k] = None
    BY <1>7, <2>1, <2>2 DEF BucketInv
  <2>3. CASE table[k] # None
    <3> DEFINE b == entry[table[k]]
               a == entry'[table[k]]
               u == usage[k]
               w == usage'[k]
               bound == (C + 1) * R - 1
    <3>1. table[k] \in Ids /\ b # None
      BY <1>0, <2>3 DEF TableInv
    <3>2. b \in Bucket /\ a = Aged(b)
      BY <1>5, <3>1
    <3>3. a.tokens = b.tokens /\ a.age \in Nat /\ a.age <= b.age + 1 /\ b.age \in Nat /\ b.tokens \in Nat
      BY <1>3, <3>2 DEF Bucket
    <3>4. u = 0 \/ u + b.tokens * R + b.age <= bound
      BY <2>1, <2>3 DEF BucketInv
    <3>5. bound \in Int
      BY TokenConstants
    <3>6. w = (IF u = 0 THEN 0 ELSE u - 1) /\ u \in Nat
      BY <1>7, <2>1
    <3> HIDE DEF a, b, u, w, bound, R
    <3>7. b.tokens * R \in Nat /\ a.tokens * R = b.tokens * R
      <4>1. \A x \in Nat : x * R \in Nat
        BY <2>1
      <4> QED
        BY <3>3, <4>1
    <3>8. w = 0 \/ w + a.tokens * R + a.age <= bound
      BY <3>3, <3>4, <3>5, <3>6, <3>7
    <3> QED
      BY <2>1, <2>3, <3>8 DEF BucketInv, a, w, bound, R
  <2> QED
    BY <2>2, <2>3
<1> QED
  BY <1>6, <1>7, <1>8, <1>9 DEF TokenInv

\* Every step of the token bucket keeps TokenInv.
LEMMA TokenStep == TokenInv /\ [Token!Next]_tableVars => TokenInv'
<1> SUFFICES ASSUME TokenInv, [Token!Next]_tableVars PROVE TokenInv'
  OBVIOUS
<1>1. ASSUME NEW p \in Procs, NEW k \in LimiterKeys, NEW n \in Amounts, Token!Lookup(p, k, n)
      PROVE  TokenInv'
  <2>1. /\ call' = [call EXCEPT ![p] = [at |-> IF table[k] = None THEN "create" ELSE "use",
                                        key |-> k, n |-> n, id |-> table[k]]]
        /\ UNCHANGED <<table, entry, sinceGC, usage, disturbed>>
    BY <1>1, Zenon DEF Token!Lookup
  <2>2. TableInv(Bucket)'
    BY <2>1, LimitersAssumption, TableLookup, Zenon DEF TokenInv
  <2> QED
    BY <2>1, <2>2 DEF TokenInv, BucketInv
<1>2. ASSUME NEW p \in Procs, Token!Create(p, Token!NewBucket, 0) \/ Token!AllowN(p) \/ Token!Remaining(p)
      PROVE  TokenInv'
  BY <1>2, TokenCreate, TokenUse
<1>3. CASE UNCHANGED tableVars
  BY <1>3 DEF tableVars, TokenInv, TableInv, BucketInv
<1> QED
  BY <1>1, <1>2, <1>3, TokenShrinks, TokenTick, Zenon DEF Token!Next

\* What a key is allowed never exceeds a burst and the refill, in any interval and across
\* collections of its bucket, unless it was Reset or its bucket was dropped in use; and
\* the log sampler passes on no more than its burst and its refill.
THEOREM RateIsHeld == LimitersSpec => []RateHolds
<1> DEFINE TInv == part = "token" => TokenInv
<1>1. LimitersInit => TInv /\ SamplerInv
  <2> SUFFICES ASSUME LimitersInit PROVE TInv /\ SamplerInv
    OBVIOUS
  <2>1. SamplerInv
    BY SamplerConstants DEF LimitersInit, Sampler!Init, SamplerInv, Sampler!Refilled
  <2>2. ASSUME part = "token" PROVE TokenInv
    <3>1. /\ table = [k \in LimiterKeys |-> None] /\ entry = [i \in Ids |-> None] /\ sinceGC = 0
          /\ call = [p \in Procs |-> IdleCall] /\ disturbed = {} /\ usage = [k \in LimiterKeys |-> 0]
      BY <2>2, TokenTable, Zenon DEF LimitersInit, Token!Init, Token!TableInit
    <3>2. TableInv(Bucket)
      BY <3>1, TableInit
    <3>3. \A k \in LimiterKeys : BucketInv(k)
      BY <3>1, TokenConstants DEF BucketInv
    <3> QED
      BY <3>1, <3>2, <3>3 DEF TokenInv
  <2> QED
    BY <2>1, <2>2
<1>2. TInv /\ [LimitersNext]_<<part, limiterVars>> => TInv'
  BY LimitersSteps, TokenStep
<1>3. SamplerInv /\ [Sampler!Next]_samplerVars => SamplerInv'
  BY SamplerStep
<1>4. TInv /\ SamplerInv => RateHolds
  <2> SUFFICES ASSUME TInv, SamplerInv PROVE RateHolds
    OBVIOUS
  <2>1. Sampler!SamplingHolds
    BY SamplerConstants DEF SamplerInv, Sampler!SamplingHolds, Sampler!Refilled
  <2>2. ASSUME part = "token", Token!Capacity * Token!RefillRate <= bucketIdle,
               NEW k \in LimiterKeys \ disturbed
        PROVE  usage[k] <= (Token!Capacity + 1) * Token!RefillRate - 1
    <3> DEFINE R == Token!RefillRate
               C == Token!Capacity
               b == entry[table[k]]
               u == usage[k]
    <3>1. TokenInv /\ BucketInv(k) /\ u \in Nat
      BY <2>2 DEF TokenInv
    <3>2. C * R \in Nat /\ (C + 1) * R = C * R + R /\ R \in Nat \ {0}
      BY TokenConstants
    <3>3. CASE table[k] = None
      <4>1. u <= R - 1
        BY <3>1, <3>3 DEF BucketInv
      <4> HIDE DEF R, C, u
      <4>2. u <= (C + 1) * R - 1
        BY <3>1, <3>2, <4>1
      <4> QED
        BY <4>2 DEF R, C, u
    <3>4. CASE table[k] # None
      <4>1. b.tokens \in Nat /\ b.age \in Nat
        BY <3>1, <3>4 DEF TokenInv, TableInv, Bucket
      <4>2. u = 0 \/ u + b.tokens * R + b.age <= (C + 1) * R - 1
        BY <3>1, <3>4, Zenon DEF BucketInv
      <4> HIDE DEF R, C, u, b
      <4>3. b.tokens * R \in Nat
        BY <3>2, <4>1
      <4>4. u <= (C + 1) * R - 1
        BY <3>1, <3>2, <4>1, <4>2, <4>3
      <4> QED
        BY <4>4 DEF R, C, u
    <3> QED
      BY <3>3, <3>4
  <2> QED
    BY <2>1, <2>2 DEF RateHolds, Token!RateHolds
<1> QED
  BY <1>1, <1>2, <1>3, <1>4, LimitersSteps, PTL DEF LimitersSpec

==============================================================================
