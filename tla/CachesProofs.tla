----------------------------- MODULE CachesProofs -----------------------------
(***************************************************************************)
(* Theorems about the default cache, for any number of goroutines, keys    *)
(* and stripes and every capacity, and about the key cache of jwks, for    *)
(* any number of callers, key ids and publications.  Each is proved for    *)
(* the part's own next-state relation and then carried over to the         *)
(* behaviours of ConcurrentCaches.                                         *)
(***************************************************************************)
EXTENDS ConcurrentCaches, FiniteSetTheorems, TLAPS

cachesVars == <<part, sampledVars, jwksVars>>

\* A step of one cache is a step of that cache and a stutter of the other.
LEMMA CachesSteps ==
    ASSUME [ConcurrentNext]_cachesVars
    PROVE  [Sampled!Next]_sampledVars /\ [Issuer!Next]_jwksVars
BY Zenon DEF ConcurrentNext, cachesVars

-----------------------------------------------------------------------------
(* The default cache: types                                                *)

Places == {"idle", "setLock", "setCheck", "swap", "added", "over", "evict", "pick", "take", "taken",
           "deleteLock", "delete", "cleanLock", "recheck", "clean", "removed", "end"}

\* The types, and the locals that a call has set by the time it needs them.
SampledType ==
    /\ sCapacity \in Nat
    /\ data \in [SampledKeys -> {"absent", "live", "expired"}]
    /\ size \in Int
    /\ holder \in [Sampled!Stripes -> Procs \cup {Nil}]
    /\ pc \in [Procs -> Places]
    /\ key \in [Procs -> SampledKeys \cup {Nil}]
    /\ target \in [Procs -> SampledKeys \cup {Nil}]
    /\ after \in [Procs -> {"swap", "end"} \cup {Nil}]
    /\ foiled \in BOOLEAN
    /\ \A p \in Procs : pc[p] # "idle" => key[p] # Nil
    /\ \A p \in Procs : pc[p] \in {"evict", "pick", "take", "taken"} => after[p] \in {"swap", "end"}

\* The initial states have the types.
LEMMA SampledTypeInit == Sampled!Init => SampledType
<1> SUFFICES ASSUME Sampled!Init PROVE SampledType
  OBVIOUS
<1>1. sCapacity \in Nat
  BY CachesAssumption DEF Sampled!Init
<1>2. \A p \in Procs : pc[p] = "idle"
  BY DEF Sampled!Init
<1>3. data \in [SampledKeys -> {"absent", "live", "expired"}] /\ size \in Int
  BY DEF Sampled!Init
<1>7. foiled \in BOOLEAN
  BY Zenon DEF Sampled!Init
<1>6. holder \in [Sampled!Stripes -> Procs \cup {Nil}]
  <2>1. holder = [s \in Sampled!Stripes |-> Nil]
    BY DEF Sampled!Init
  <2> QED
    BY <2>1
<1>5. pc \in [Procs -> Places]
  BY DEF Sampled!Init, Places
<1>4. /\ key \in [Procs -> SampledKeys \cup {Nil}]
      /\ target \in [Procs -> SampledKeys \cup {Nil}]
      /\ after \in [Procs -> {"swap", "end"} \cup {Nil}]
  BY DEF Sampled!Init
<1> QED
  BY <1>1, <1>2, <1>3, <1>4, <1>5, <1>6, <1>7 DEF SampledType

\* What one process does, by the kinds of steps: it only moves, or it moves and
\* changes one more variable.
ProcStep(p) ==
    \/ \E k \in SampledKeys : Sampled!Set(p, k) \/ Sampled!Delete(p, k) \/ Sampled!Get(p, k) \/ Sampled!Sweep(p, k)
    \/ Sampled!SetLock(p) \/ Sampled!SetCheck(p) \/ Sampled!Swap(p) \/ Sampled!Added(p) \/ Sampled!Over(p)
    \/ Sampled!EvictLoop(p) \/ Sampled!Pick(p) \/ Sampled!Take(p) \/ Sampled!Taken(p)
    \/ Sampled!DeleteLock(p) \/ Sampled!CleanLock(p) \/ Sampled!Recheck(p) \/ Sampled!Remove(p)
    \/ Sampled!Removed(p) \/ Sampled!End(p)

\* Every step is a process's, the clock's or a stutter.
LEMMA SampledCases ==
    ASSUME [Sampled!Next]_sampledVars
    PROVE  \/ \E p \in Procs : ProcStep(p)
           \/ \E k \in SampledKeys : Sampled!Expire(k)
           \/ UNCHANGED sampledVars
BY Zenon DEF Sampled!Next, ProcStep

\* Every step keeps the types.
LEMMA SampledTypeStep ==
    SampledType /\ [Sampled!Next]_sampledVars => SampledType'
<1> SUFFICES ASSUME SampledType, [Sampled!Next]_sampledVars PROVE SampledType'
  OBVIOUS
<1> USE DEF SampledType, Places, Sampled!Goto, Sampled!At
<1>1. ASSUME NEW p \in Procs, ProcStep(p) PROVE SampledType'
  <2>1. ASSUME NEW k \in SampledKeys, 
               NEW place \in {"setLock", "swap", "deleteLock", "delete", "cleanLock"},
               Sampled!Begin(p, k, place)
        PROVE  SampledType'
    BY <2>1, CachesAssumption DEF Sampled!Begin
  <2>2. ASSUME NEW k \in SampledKeys,
               Sampled!Set(p, k) \/ Sampled!Delete(p, k) \/ Sampled!Get(p, k) \/ Sampled!Sweep(p, k)
        PROVE  SampledType'
    BY <2>1, <2>2 DEF Sampled!Set, Sampled!Delete, Sampled!Get, Sampled!Sweep
  <2>3. CASE Sampled!SetLock(p) \/ Sampled!DeleteLock(p) \/ Sampled!CleanLock(p)
    BY <2>3 DEF Sampled!SetLock, Sampled!DeleteLock, Sampled!CleanLock, Sampled!Lock
  <2>4. CASE Sampled!SetCheck(p)
    BY <2>4, CachesAssumption DEF Sampled!SetCheck, Sampled!Evict
  <2>5. CASE Sampled!Swap(p)
    BY <2>5 DEF Sampled!Swap
  <2>6. CASE Sampled!Added(p) \/ Sampled!Taken(p) \/ Sampled!Removed(p)
    BY <2>6 DEF Sampled!Added, Sampled!Taken, Sampled!Removed
  <2>7. CASE Sampled!Over(p)
    BY <2>7 DEF Sampled!Over, Sampled!Evict
  <2>8. CASE Sampled!EvictLoop(p)
    BY <2>8 DEF Sampled!EvictLoop
  <2>9. CASE Sampled!Pick(p)
    BY <2>9 DEF Sampled!Pick, Sampled!Candidates, Sampled!Present
  <2>10. CASE Sampled!Take(p)
    BY <2>10 DEF Sampled!Take, Sampled!LoadAndDelete, Sampled!Present
  <2>11. CASE Sampled!Recheck(p)
    BY <2>11 DEF Sampled!Recheck
  <2>12. CASE Sampled!Remove(p)
    <3>1. pc[p] # "idle" /\ \E place \in {"removed", "end"} : pc' = [pc EXCEPT ![p] = place]
      BY <2>12, Zenon DEF Sampled!Remove
    <3>2. data' \in [SampledKeys -> {"absent", "live", "expired"}]
      BY <2>12 DEF Sampled!Remove, Sampled!LoadAndDelete
    <3>3. foiled' \in BOOLEAN /\ UNCHANGED <<sCapacity, size, holder, key, target, after>>
      BY <2>12, Zenon DEF Sampled!Remove, Sampled!LoadAndDelete
    <3> QED
      BY <3>1, <3>2, <3>3
  <2>13. CASE Sampled!End(p)
    BY <2>13 DEF Sampled!End, Sampled!Finish, Sampled!Return
  <2> QED
    BY <1>1, <2>2, <2>3, <2>4, <2>5, <2>6, <2>7, <2>8, <2>9, <2>10, <2>11, <2>12, <2>13, Zenon DEF ProcStep
<1>2. ASSUME NEW k \in SampledKeys, Sampled!Expire(k) PROVE SampledType'
  BY <1>2 DEF Sampled!Expire
<1>3. CASE UNCHANGED sampledVars
  BY <1>3 DEF sampledVars
<1> QED
  BY <1>1, <1>2, <1>3, SampledCases, Zenon

-----------------------------------------------------------------------------
(* The default cache: the counter                                          *)

\* The calls that have stored a new entry and not yet counted it, and those that have
\* removed one and not yet counted that.
Adding == {p \in Procs : pc[p] = "added"}
Removing == {p \in Procs : pc[p] \in {"taken", "removed"}}

\* The sets of SizeTracksMap are finite.
LEMMA SampledFinite ==
    /\ IsFiniteSet(Sampled!Present) /\ IsFiniteSet(Adding) /\ IsFiniteSet(Removing)
    /\ Cardinality(Sampled!Present) \in Nat /\ Cardinality(Adding) \in Nat /\ Cardinality(Removing) \in Nat
<1>1. Sampled!Present \subseteq SampledKeys /\ Adding \subseteq Procs /\ Removing \subseteq Procs
  BY DEF Sampled!Present, Adding, Removing
<1>2. IsFiniteSet(Sampled!Present) /\ IsFiniteSet(Adding) /\ IsFiniteSet(Removing)
  BY <1>1, CachesAssumption, FS_Subset
<1> QED
  BY <1>2, FS_CardinalityType

\* The instance counts as FiniteSets does.
LEMMA SampledCardinality == \A S : Sampled!Cardinality(S) = Cardinality(S)
BY Zenon DEF Cardinality, Sampled!Cardinality

\* SizeTracksMap in their terms, before and after a step.
LEMMA SizeInTerms ==
    /\ Sampled!SizeTracksMap
       <=> Cardinality(Sampled!Present) = size + Cardinality(Adding) - Cardinality(Removing)
    /\ Sampled!SizeTracksMap'
       <=> Cardinality(Sampled!Present') = size' + Cardinality(Adding') - Cardinality(Removing')
<1>1. /\ Adding = {p \in Procs : pc[p] = "added"}
      /\ Removing = {p \in Procs : pc[p] \in {"taken", "removed"}}
      /\ Adding' = {p \in Procs : pc'[p] = "added"}
      /\ Removing' = {p \in Procs : pc'[p] \in {"taken", "removed"}}
  BY Zenon DEF Adding, Removing
<1>2. Sampled!SizeTracksMap
      <=> Cardinality(Sampled!Present) = size + Cardinality(Adding) - Cardinality(Removing)
  BY <1>1, SampledCardinality, Zenon DEF Sampled!SizeTracksMap
<1>3. Sampled!SizeTracksMap'
       <=> Cardinality(Sampled!Present') = size' + Cardinality(Adding') - Cardinality(Removing')
  BY <1>1, SampledCardinality, Zenon DEF Sampled!SizeTracksMap
<1> QED
  BY <1>2, <1>3

\* How a move of one process changes them.
LEMMA Moves ==
    ASSUME SampledType, NEW p \in Procs, NEW place \in Places, pc' = [pc EXCEPT ![p] = place]
    PROVE  /\ place = "added" => Adding' = Adding \cup {p}
           /\ place # "added" => Adding' = Adding \ {p}
           /\ place \in {"taken", "removed"} => Removing' = Removing \cup {p}
           /\ place \notin {"taken", "removed"} => Removing' = Removing \ {p}
BY DEF SampledType, Adding, Removing

\* A move that neither starts nor ends with an adjustment owed.
LEMMA QuietMove ==
    ASSUME SampledType, Sampled!SizeTracksMap, NEW p \in Procs, NEW place \in Places,
           pc' = [pc EXCEPT ![p] = place],
           pc[p] \notin {"added", "taken", "removed"}, place \notin {"added", "taken", "removed"},
           Sampled!Present' = Sampled!Present, size' = size
    PROVE  Sampled!SizeTracksMap'
<1>1. Adding' = Adding /\ Removing' = Removing
  <2>1. p \notin Adding /\ p \notin Removing /\ Adding \ {p} = Adding /\ Removing \ {p} = Removing
    BY DEF Adding, Removing
  <2> QED
    BY <2>1, Moves, Zenon
<1> QED
  BY <1>1, SizeInTerms

\* Each step of one process keeps the counter in step with the map.
LEMMA SizeStepOf ==
    ASSUME SampledType, Sampled!SizeTracksMap, NEW p \in Procs, ProcStep(p)
    PROVE  Sampled!SizeTracksMap'
<1> DEFINE n == Cardinality(Sampled!Present)
           a == Cardinality(Adding)
           r == Cardinality(Removing)
<1>t. size \in Int /\ n \in Nat /\ a \in Nat /\ r \in Nat
  BY SampledFinite DEF SampledType
<1>i. n = size + a - r
  BY SizeInTerms
<1>q. ASSUME NEW n1, NEW a1, NEW r1, Cardinality(Sampled!Present') = n1, Cardinality(Adding') = a1,
             Cardinality(Removing') = r1, n1 = size' + a1 - r1
      PROVE  Sampled!SizeTracksMap'
  BY <1>q, SizeInTerms
<1>1. ASSUME NEW k \in SampledKeys, NEW place \in {"setLock", "swap", "deleteLock", "delete", "cleanLock"},
             Sampled!Begin(p, k, place)
      PROVE  Sampled!SizeTracksMap'
  <2>1. Sampled!Present' = Sampled!Present /\ size' = size /\ pc[p] = "idle" /\ pc' = [pc EXCEPT ![p] = place]
    BY <1>1 DEF Sampled!Begin, Sampled!Present, Sampled!Goto, Sampled!At
  <2> QED
    BY <2>1, QuietMove, Zenon DEF Places
<1>2. ASSUME NEW k \in SampledKeys,
             Sampled!Set(p, k) \/ Sampled!Delete(p, k) \/ Sampled!Get(p, k) \/ Sampled!Sweep(p, k)
      PROVE  Sampled!SizeTracksMap'
  BY <1>1, <1>2 DEF Sampled!Set, Sampled!Delete, Sampled!Get, Sampled!Sweep
<1>3. ASSUME Sampled!SetLock(p) \/ Sampled!DeleteLock(p) \/ Sampled!CleanLock(p) \/ Sampled!SetCheck(p)
             \/ Sampled!Over(p) \/ Sampled!EvictLoop(p) \/ Sampled!Pick(p) \/ Sampled!Recheck(p)
             \/ Sampled!End(p)
      PROVE  Sampled!SizeTracksMap'
  <2>1. /\ data' = data /\ size' = size
        /\ pc[p] \in {"setLock", "deleteLock", "cleanLock", "setCheck", "over", "evict", "pick", "recheck", "end"}
    BY <1>3, Zenon DEF Sampled!SetLock, Sampled!DeleteLock, Sampled!CleanLock, Sampled!SetCheck, Sampled!Over,
                Sampled!EvictLoop, Sampled!Pick, Sampled!Recheck, Sampled!End, Sampled!At
  <2>2. \E place \in {"setCheck", "delete", "recheck", "swap", "evict", "end", "pick", "take", "clean", "idle"} :
           pc' = [pc EXCEPT ![p] = place]
    <3>1. pc[p] \in {"evict", "pick"} => after[p] \in {"swap", "end"}
      BY DEF SampledType
    <3>2. CASE Sampled!EvictLoop(p) \/ Sampled!Pick(p)
      BY <3>1, <3>2 DEF Sampled!EvictLoop, Sampled!Pick, Sampled!At, Sampled!Goto
    <3>3. CASE Sampled!SetCheck(p) \/ Sampled!Over(p) \/ Sampled!Recheck(p) \/ Sampled!End(p)
      BY <3>3 DEF Sampled!SetCheck, Sampled!Over, Sampled!Recheck, Sampled!End, Sampled!Finish, Sampled!Return,
                  Sampled!Evict, Sampled!Goto
    <3>4. CASE Sampled!SetLock(p) \/ Sampled!DeleteLock(p) \/ Sampled!CleanLock(p)
      BY <3>4 DEF Sampled!SetLock, Sampled!DeleteLock, Sampled!CleanLock, Sampled!Goto
    <3> QED
      BY <1>3, <3>2, <3>3, <3>4
  <2>3. Sampled!Present' = Sampled!Present
    BY <2>1 DEF Sampled!Present
  <2> QED
    BY <2>1, <2>2, <2>3, QuietMove, Zenon DEF Places
<1>4. ASSUME NEW k \in SampledKeys, pc[p] \in {"take", "delete", "clean"}, k \in Sampled!Present,
             data' = [data EXCEPT ![k] = "absent"], size' = size,
             NEW place \in {"taken", "removed"}, pc' = [pc EXCEPT ![p] = place]
      PROVE  Sampled!SizeTracksMap'
  <2>1. Sampled!Present' = Sampled!Present \ {k}
    BY <1>4 DEF SampledType, Sampled!Present
  <2>2. Cardinality(Sampled!Present') = n - 1
    BY <2>1, <1>4, SampledFinite, FS_RemoveElement, Zenon
  <2>3. p \notin Adding /\ p \notin Removing /\ Adding \ {p} = Adding /\ Removing \ {p} = Removing
    BY <1>4 DEF Adding, Removing
  <2>4. Adding' = Adding /\ Removing' = Removing \cup {p}
    BY <1>4, <2>3, Moves, Zenon DEF Places
  <2>5. Cardinality(Removing') = r + 1
    BY <2>3, <2>4, SampledFinite, FS_AddElement, Zenon
  <2>6. Cardinality(Adding') = a
    BY <2>4
  <2> QED
    BY <2>2, <2>5, <2>6, <1>4, <1>t, <1>i, <1>q
<1>5. ASSUME pc[p] \in {"taken", "removed"}, data' = data, size' = size - 1,
             NEW place \in {"evict", "end"}, pc' = [pc EXCEPT ![p] = place]
      PROVE  Sampled!SizeTracksMap'
  <2>1. Cardinality(Sampled!Present') = n
    BY <1>5 DEF Sampled!Present
  <2>2. p \notin Adding /\ p \in Removing /\ Adding \ {p} = Adding
    BY <1>5 DEF Adding, Removing
  <2>3. Adding' = Adding /\ Removing' = Removing \ {p}
    BY <1>5, <2>2, Moves, Zenon DEF Places
  <2>4. Cardinality(Removing') = r - 1
    BY <2>2, <2>3, SampledFinite, FS_RemoveElement, Zenon
  <2>5. Cardinality(Adding') = a
    BY <2>3
  <2> QED
    BY <2>1, <2>4, <2>5, <1>5, <1>t, <1>i, <1>q
<1>6. CASE Sampled!Swap(p)
  <2>0. key[p] \in SampledKeys
    BY <1>6 DEF Sampled!Swap, Sampled!At, SampledType
  <2>1. CASE key[p] \in Sampled!Present
    <3>1. Sampled!Present' = Sampled!Present /\ size' = size
      BY <1>6, <2>0, <2>1 DEF Sampled!Swap, Sampled!Present, SampledType
    <3>2. pc[p] = "swap" /\ \E place \in {"over", "end"} : pc' = [pc EXCEPT ![p] = place]
      BY <1>6, <2>1, Zenon DEF Sampled!Swap, Sampled!At, Sampled!Goto
    <3> QED
      BY <3>1, <3>2, QuietMove, Zenon DEF Places
  <2>2. CASE key[p] \notin Sampled!Present
    <3>1. Sampled!Present' = Sampled!Present \cup {key[p]} /\ size' = size
      BY <1>6, <2>0, <2>2 DEF Sampled!Swap, Sampled!Present, SampledType
    <3>2. Cardinality(Sampled!Present') = n + 1
      BY <3>1, <2>2, SampledFinite, FS_AddElement, Zenon
    <3>3. pc[p] = "swap" /\ pc' = [pc EXCEPT ![p] = "added"]
      BY <1>6, <2>2 DEF Sampled!Swap, Sampled!At, Sampled!Goto
    <3>4. p \notin Adding /\ p \notin Removing /\ Adding \ {p} = Adding /\ Removing \ {p} = Removing
      BY <3>3 DEF Adding, Removing
    <3>5. Adding' = Adding \cup {p} /\ Removing' = Removing
      BY <3>3, <3>4, Moves, Zenon DEF Places
    <3>6. Cardinality(Adding') = a + 1 /\ Cardinality(Removing') = r
      BY <3>4, <3>5, SampledFinite, FS_AddElement, Zenon
    <3>7. n + 1 = size' + (a + 1) - r
      BY <3>1, <1>t, <1>i
    <3> QED
      BY <3>2, <3>6, <3>7, <1>q
  <2> QED
    BY <2>1, <2>2
<1>7. CASE Sampled!Added(p)
  <2>1. Cardinality(Sampled!Present') = n /\ size' = size + 1
    BY <1>7 DEF Sampled!Added, Sampled!Present
  <2>2. pc[p] = "added" /\ \E place \in {"over", "end"} : pc' = [pc EXCEPT ![p] = place]
    BY <1>7, Zenon DEF Sampled!Added, Sampled!At, Sampled!Goto
  <2>3. p \in Adding /\ p \notin Removing /\ Removing \ {p} = Removing
    BY <2>2 DEF Adding, Removing
  <2>4. Adding' = Adding \ {p} /\ Removing' = Removing
    BY <2>2, <2>3, Moves, Zenon DEF Places
  <2>5. Cardinality(Adding') = a - 1 /\ Cardinality(Removing') = r
    BY <2>3, <2>4, SampledFinite, FS_RemoveElement, Zenon
  <2> QED
    BY <2>1, <2>5, <1>t, <1>i, <1>q
<1>8. CASE Sampled!Take(p)
  <2>1. CASE Sampled!LoadAndDelete(target[p], TRUE) /\ Sampled!Goto(p, "taken")
    <3>1. target[p] \in Sampled!Present /\ target[p] \in SampledKeys
      BY <2>1 DEF Sampled!LoadAndDelete, Sampled!Present
    <3> QED
      BY <1>4, <1>8, <2>1, <3>1, Zenon DEF Sampled!Take, Sampled!LoadAndDelete, Sampled!At, Sampled!Goto
  <2>2. CASE Sampled!Goto(p, after[p]) /\ UNCHANGED data
    <3>1. pc[p] = "take" /\ size' = size /\ pc' = [pc EXCEPT ![p] = after[p]]
      BY <1>8, <2>2 DEF Sampled!Take, Sampled!At, Sampled!Goto
    <3>2. after[p] \in {"swap", "end"}
      BY <3>1 DEF SampledType
    <3>3. Sampled!Present' = Sampled!Present
      BY <2>2 DEF Sampled!Present
    <3> QED
      BY <3>1, <3>2, <3>3, QuietMove, Zenon DEF Places
  <2> QED
    BY <1>8, <2>1, <2>2, Zenon DEF Sampled!Take
<1>9. CASE Sampled!Taken(p) \/ Sampled!Removed(p)
  BY <1>5, <1>9 DEF Sampled!Taken, Sampled!Removed, Sampled!At, Sampled!Goto
<1>10. CASE Sampled!Remove(p)
  <2>1. CASE Sampled!LoadAndDelete(key[p], FALSE) /\ Sampled!Goto(p, "removed")
    <3>1. key[p] \in Sampled!Present /\ key[p] \in SampledKeys
      BY <2>1 DEF Sampled!LoadAndDelete, Sampled!Present
    <3> QED
      BY <1>4, <1>10, <2>1, <3>1, Zenon DEF Sampled!Remove, Sampled!LoadAndDelete, Sampled!Goto
  <2>2. CASE Sampled!Goto(p, "end") /\ UNCHANGED data
    <3>1. pc[p] \in {"delete", "clean"} /\ size' = size /\ pc' = [pc EXCEPT ![p] = "end"]
      BY <1>10, <2>2 DEF Sampled!Remove, Sampled!Goto
    <3>2. Sampled!Present' = Sampled!Present
      BY <2>2 DEF Sampled!Present
    <3> QED
      BY <3>1, <3>2, QuietMove, Zenon DEF Places
  <2> QED
    BY <1>10, <2>1, <2>2, Zenon DEF Sampled!Remove
<1> QED
  BY <1>2, <1>3, <1>6, <1>7, <1>8, <1>9, <1>10, Zenon DEF ProcStep

\* Every step keeps the counter in step with the map.
LEMMA SizeStep ==
    SampledType /\ Sampled!SizeTracksMap /\ [Sampled!Next]_sampledVars => Sampled!SizeTracksMap'
<1> SUFFICES ASSUME SampledType, Sampled!SizeTracksMap, [Sampled!Next]_sampledVars
             PROVE  Sampled!SizeTracksMap'
  OBVIOUS
<1>1. ASSUME NEW p \in Procs, ProcStep(p) PROVE Sampled!SizeTracksMap'
  BY <1>1, SizeStepOf
<1>2. ASSUME Sampled!Present' = Sampled!Present, size' = size, pc' = pc PROVE Sampled!SizeTracksMap'
  <2>1. Adding' = Adding /\ Removing' = Removing
    BY <1>2 DEF Adding, Removing
  <2> QED
    BY <1>2, <2>1, SizeInTerms
<1>3. ASSUME NEW k \in SampledKeys, Sampled!Expire(k) PROVE Sampled!SizeTracksMap'
  <2>1. Sampled!Present' = Sampled!Present
    BY <1>3 DEF Sampled!Expire, Sampled!Present, SampledType
  <2> QED
    BY <1>2, <1>3, <2>1 DEF Sampled!Expire
<1>4. CASE UNCHANGED sampledVars
  BY <1>2, <1>4 DEF sampledVars, Sampled!Present
<1> QED
  BY <1>1, <1>3, <1>4, SampledCases, Zenon

\* At first there is nothing to count.
LEMMA SizeInit == Sampled!Init => Sampled!SizeTracksMap
<1> SUFFICES ASSUME Sampled!Init PROVE Sampled!SizeTracksMap
  OBVIOUS
<1>1. Sampled!Present = {} /\ Adding = {} /\ Removing = {} /\ size = 0
  BY DEF Sampled!Init, Sampled!Present, Adding, Removing
<1>2. Cardinality(Sampled!Present) = 0 /\ Cardinality(Adding) = 0 /\ Cardinality(Removing) = 0
  BY <1>1, FS_EmptySet
<1> QED
  BY <1>1, <1>2, SizeInTerms

-----------------------------------------------------------------------------
(* The default cache: the capacity                                         *)

\* From here a call under way makes room again if it has to.
Restoring == {"setCheck", "swap", "added", "over", "evict", "pick", "take", "taken"}

\* A call that will: unless what it picked is gone already.
MakesRoom(p) == pc[p] \in Restoring /\ (pc[p] = "take" => target[p] \in Sampled!Present)

\* Too many entries are the business of a call under way, as long as no eviction was
\* foiled.
RoomInv ==
    sCapacity > 0 /\ ~foiled
    => Cardinality(Sampled!Present) <= sCapacity \/ \E p \in Procs : MakesRoom(p)

\* A counter within the capacity means a map within it, or a call that is about to
\* count.
LEMMA CountedWithin ==
    ASSUME SampledType, Sampled!SizeTracksMap, size <= sCapacity
    PROVE  Cardinality(Sampled!Present) <= sCapacity \/ \E q \in Procs : pc[q] = "added"
<1>1. CASE Adding = {}
  <2>1. Cardinality(Adding) = 0
    BY <1>1, FS_EmptySet
  <2>2. size \in Int /\ sCapacity \in Int
    BY DEF SampledType
  <2> QED
    BY <2>1, <2>2, SizeInTerms, SampledFinite
<1>2. CASE Adding # {}
  BY <1>2 DEF Adding
<1> QED
  BY <1>1, <1>2

\* A call that enters or stays in the part that makes room.
LEMMA RoomByMover ==
    ASSUME SampledType, NEW p \in Procs, NEW place \in Restoring \ {"take"}, pc' = [pc EXCEPT ![p] = place]
    PROVE  RoomInv'
<1>1. pc'[p] = place
  BY DEF SampledType
<1>2. MakesRoom(p)'
  BY <1>1 DEF MakesRoom
<1> QED
  BY <1>2 DEF RoomInv

\* A call that was not going to make room does not take it from others.
LEMMA RoomByOthers ==
    ASSUME SampledType, RoomInv, NEW p \in Procs, ~MakesRoom(p),
           \A q \in Procs \ {p} : pc'[q] = pc[q] /\ target'[q] = target[q],
           sCapacity' = sCapacity, foiled' = foiled, Sampled!Present' = Sampled!Present
    PROVE  RoomInv'
<1>1. ASSUME NEW q \in Procs, MakesRoom(q) PROVE MakesRoom(q)'
  BY <1>1 DEF MakesRoom
<1> QED
  BY <1>1 DEF RoomInv

\* The last check of Set, and the end of the loop of evictIfNeeded.
LEMMA RoomByCounter ==
    ASSUME SampledType, Sampled!SizeTracksMap, size <= sCapacity, NEW p \in Procs, pc[p] # "added",
           \A q \in Procs \ {p} : pc'[q] = pc[q],
           sCapacity' = sCapacity, Sampled!Present' = Sampled!Present
    PROVE  RoomInv'
<1>1. CASE Cardinality(Sampled!Present) <= sCapacity
  BY <1>1 DEF RoomInv
<1>2. ASSUME NEW q \in Procs, pc[q] = "added" PROVE RoomInv'
  <2>1. pc'[q] = "added"
    BY <1>2
  <2>2. MakesRoom(q)'
    BY <2>1 DEF MakesRoom, Restoring
  <2> QED
    BY <2>2 DEF RoomInv
<1> QED
  BY <1>1, <1>2, CountedWithin

\* Each step of one process keeps RoomInv.
LEMMA RoomStepOf ==
    ASSUME SampledType, Sampled!SizeTracksMap, RoomInv, NEW p \in Procs, ProcStep(p)
    PROVE  RoomInv'
<1>m. ASSUME NEW place, pc' = [pc EXCEPT ![p] = place] PROVE \A q \in Procs \ {p} : pc'[q] = pc[q]
  BY <1>m DEF SampledType
<1>o. ASSUME pc[p] \notin Restoring, sCapacity' = sCapacity, foiled' = foiled, data' = data,
             \A q \in Procs \ {p} : pc'[q] = pc[q] /\ target'[q] = target[q]
      PROVE  RoomInv'
  <2>1. ~MakesRoom(p)
    BY <1>o DEF MakesRoom
  <2>2. Sampled!Present' = Sampled!Present
    BY <1>o DEF Sampled!Present
  <2> QED
    BY <1>o, <2>1, <2>2, RoomByOthers
<1>1. ASSUME NEW k \in SampledKeys, NEW place, Sampled!Begin(p, k, place) PROVE RoomInv'
  <2>1. pc[p] = "idle" /\ pc' = [pc EXCEPT ![p] = place]
        /\ sCapacity' = sCapacity /\ foiled' = foiled /\ data' = data /\ target' = target
    BY <1>1, Zenon DEF Sampled!Begin, Sampled!Goto, Sampled!At
  <2>2. pc[p] \notin Restoring
    BY <2>1 DEF Restoring
  <2> QED
    BY <2>1, <2>2, <1>m, <1>o
<1>2. ASSUME NEW k \in SampledKeys,
             Sampled!Set(p, k) \/ Sampled!Delete(p, k) \/ Sampled!Get(p, k) \/ Sampled!Sweep(p, k)
      PROVE  RoomInv'
  BY <1>1, <1>2, Zenon DEF Sampled!Set, Sampled!Delete, Sampled!Get, Sampled!Sweep
<1>3. CASE Sampled!SetLock(p)
  BY <1>3, RoomByMover, Zenon DEF Sampled!SetLock, Sampled!Goto, Restoring
<1>4. CASE Sampled!SetCheck(p)
  BY <1>4, RoomByMover DEF Sampled!SetCheck, Sampled!Evict, Sampled!Goto, Restoring
<1>5. CASE Sampled!DeleteLock(p) \/ Sampled!CleanLock(p) \/ Sampled!Recheck(p) \/ Sampled!Removed(p)
  <2>1. /\ \E place : pc' = [pc EXCEPT ![p] = place]
        /\ sCapacity' = sCapacity /\ foiled' = foiled /\ data' = data /\ target' = target
        /\ pc[p] \in {"deleteLock", "cleanLock", "recheck", "removed"}
    BY <1>5, Zenon DEF Sampled!DeleteLock, Sampled!CleanLock, Sampled!Recheck, Sampled!Removed, Sampled!Goto,
                       Sampled!At
  <2>2. pc[p] \notin Restoring
    BY <2>1 DEF Restoring
  <2> QED
    BY <2>1, <2>2, <1>m, <1>o
<1>6. CASE Sampled!End(p)
  <2>1. /\ pc' = [pc EXCEPT ![p] = "idle"] /\ target' = [target EXCEPT ![p] = Nil]
        /\ sCapacity' = sCapacity /\ foiled' = foiled /\ data' = data /\ pc[p] = "end"
    BY <1>6, Zenon DEF Sampled!End, Sampled!Finish, Sampled!Return, Sampled!Goto, Sampled!At
  <2>2. pc[p] \notin Restoring
    BY <2>1 DEF Restoring
  <2>3. \A q \in Procs \ {p} : pc'[q] = pc[q] /\ target'[q] = target[q]
    BY <2>1 DEF SampledType
  <2> QED
    BY <2>1, <2>2, <2>3, <1>o
<1>7. CASE Sampled!Swap(p)
  <2>1. sCapacity' = sCapacity
    BY <1>7 DEF Sampled!Swap
  <2>2. CASE sCapacity > 0
    <3>1. \E place \in {"added", "over"} : pc' = [pc EXCEPT ![p] = place]
      BY <1>7, <2>2, Zenon DEF Sampled!Swap, Sampled!Goto
    <3> QED
      BY <3>1, RoomByMover, Zenon DEF Restoring
  <2>3. CASE ~(sCapacity > 0)
    BY <2>1, <2>3 DEF RoomInv
  <2> QED
    BY <2>2, <2>3
<1>8. CASE Sampled!Added(p)
  <2>1. sCapacity' = sCapacity
    BY <1>8 DEF Sampled!Added
  <2>2. CASE sCapacity > 0
    BY <1>8, <2>2, RoomByMover, Zenon DEF Sampled!Added, Sampled!Goto, Restoring
  <2>3. CASE ~(sCapacity > 0)
    BY <2>1, <2>3 DEF RoomInv
  <2> QED
    BY <2>2, <2>3
<1>9. CASE Sampled!Over(p)
  <2>1. CASE size > sCapacity
    BY <1>9, <2>1, RoomByMover DEF Sampled!Over, Sampled!Evict, Sampled!Goto, Restoring
  <2>2. CASE ~(size > sCapacity)
    <3>1. pc[p] # "added" /\ pc' = [pc EXCEPT ![p] = "end"] /\ sCapacity' = sCapacity /\ data' = data
      BY <1>9, <2>2 DEF Sampled!Over, Sampled!At, Sampled!Goto
    <3>2. size <= sCapacity
      BY <2>2 DEF SampledType
    <3>3. Sampled!Present' = Sampled!Present
      BY <3>1 DEF Sampled!Present
    <3> QED
      BY <3>1, <3>2, <3>3, <1>m, RoomByCounter
  <2> QED
    BY <2>1, <2>2
<1>10. CASE Sampled!EvictLoop(p)
  <2>1. CASE size >= sCapacity
    BY <1>10, <2>1, RoomByMover, Zenon DEF Sampled!EvictLoop, Sampled!Goto, Restoring
  <2>2. CASE ~(size >= sCapacity)
    <3>1. pc[p] # "added" /\ pc' = [pc EXCEPT ![p] = after[p]] /\ sCapacity' = sCapacity /\ data' = data
      BY <1>10, <2>2 DEF Sampled!EvictLoop, Sampled!At, Sampled!Goto
    <3>2. size <= sCapacity
      BY <2>2 DEF SampledType
    <3>3. Sampled!Present' = Sampled!Present
      BY <3>1 DEF Sampled!Present
    <3> QED
      BY <3>1, <3>2, <3>3, <1>m, RoomByCounter
  <2> QED
    BY <2>1, <2>2
<1>11. CASE Sampled!Pick(p)
  <2>0. data' = data /\ sCapacity' = sCapacity
    BY <1>11 DEF Sampled!Pick
  <2>1. Sampled!Present' = Sampled!Present
    BY <2>0 DEF Sampled!Present
  <2>2. CASE Sampled!Candidates(key[p]) = {}
    <3>1. Sampled!Present \subseteq {key[p]}
      BY <2>2 DEF Sampled!Candidates
    <3>2. Cardinality(Sampled!Present) <= 1
      <4>1. IsFiniteSet({key[p]}) /\ Cardinality({key[p]}) = 1
        BY FS_Singleton, Zenon
      <4> QED
        BY <3>1, <4>1, FS_Subset
    <3> QED
      BY <3>2, <2>0, <2>1, SampledFinite DEF RoomInv, SampledType
  <2>3. ASSUME NEW k \in Sampled!Candidates(key[p]), target' = [target EXCEPT ![p] = k], Sampled!Goto(p, "take")
        PROVE  RoomInv'
    <3>1. k \in Sampled!Present
      BY <2>3 DEF Sampled!Candidates
    <3>2. pc'[p] = "take" /\ target'[p] = k
      BY <2>3 DEF Sampled!Goto, SampledType
    <3>3. MakesRoom(p)'
      BY <2>1, <3>1, <3>2 DEF MakesRoom, Restoring
    <3> QED
      BY <3>3 DEF RoomInv
  <2> QED
    BY <1>11, <2>2, <2>3, Zenon DEF Sampled!Pick
<1>12. CASE Sampled!Take(p)
  <2>1. CASE Sampled!Goto(p, "taken")
    BY <2>1, RoomByMover, Zenon DEF Sampled!Goto, Restoring
  <2>2. CASE target[p] \notin Sampled!Present /\ Sampled!Goto(p, after[p]) /\ UNCHANGED <<data, foiled>>
    <3>1. pc[p] = "take" /\ target' = [target EXCEPT ![p] = Nil] /\ sCapacity' = sCapacity
      BY <1>12, Zenon DEF Sampled!Take, Sampled!At
    <3>2. ~MakesRoom(p)
      BY <2>2, <3>1 DEF MakesRoom
    <3>3. \A q \in Procs \ {p} : pc'[q] = pc[q] /\ target'[q] = target[q]
      BY <2>2, <3>1 DEF Sampled!Goto, SampledType
    <3>4. Sampled!Present' = Sampled!Present
      BY <2>2 DEF Sampled!Present
    <3> QED
      BY <2>2, <3>1, <3>2, <3>3, <3>4, RoomByOthers
  <2> QED
    BY <1>12, <2>1, <2>2, Zenon DEF Sampled!Take
<1>13. CASE Sampled!Taken(p)
  BY <1>13, RoomByMover, Zenon DEF Sampled!Taken, Sampled!Goto, Restoring
<1>14. CASE Sampled!Remove(p)
  <2>0. pc[p] \in {"delete", "clean"} /\ sCapacity' = sCapacity /\ target' = target
    BY <1>14 DEF Sampled!Remove
  <2>1. CASE Sampled!LoadAndDelete(key[p], FALSE) /\ Sampled!Goto(p, "removed")
    <3>1. Sampled!Present' = Sampled!Present \ {key[p]}
      BY <2>1 DEF Sampled!LoadAndDelete, Sampled!Present, SampledType
    <3>2. Cardinality(Sampled!Present') <= Cardinality(Sampled!Present) /\ Cardinality(Sampled!Present') \in Nat
      <4>1. Sampled!Present' \subseteq Sampled!Present
        BY <3>1
      <4> QED
        BY <4>1, SampledFinite, FS_Subset, FS_CardinalityType
    <3>3. CASE foiled'
      BY <3>3 DEF RoomInv
    <3>4. CASE ~foiled'
      <4>1. ~foiled /\ \A q \in Procs : target[q] # key[p]
        BY <2>1, <3>4, Zenon DEF Sampled!LoadAndDelete
      <4>2. CASE Cardinality(Sampled!Present) <= sCapacity
        BY <4>2, <3>2, <2>0, SampledFinite DEF RoomInv, SampledType
      <4>3. ASSUME NEW q \in Procs, MakesRoom(q) PROVE RoomInv'
        <5>1. q # p
          BY <2>0, <4>3 DEF MakesRoom, Restoring
        <5>2. pc'[q] = pc[q] /\ target'[q] = target[q] /\ target[q] # key[p]
          BY <5>1, <2>0, <2>1, <4>1, <4>3 DEF Sampled!Goto, SampledType
        <5>3. MakesRoom(q)'
          BY <5>2, <3>1, <4>3 DEF MakesRoom
        <5> QED
          BY <5>3 DEF RoomInv
      <4>4. CASE ~(sCapacity > 0)
        BY <4>4, <2>0 DEF RoomInv
      <4> QED
        BY <4>1, <4>2, <4>3, <4>4 DEF RoomInv
    <3> QED
      BY <3>3, <3>4
  <2>2. CASE Sampled!Goto(p, "end") /\ UNCHANGED <<data, foiled>>
    <3>1. pc[p] \notin Restoring
      BY <2>0 DEF Restoring
    <3>2. \A q \in Procs \ {p} : pc'[q] = pc[q] /\ target'[q] = target[q]
      BY <2>2, <2>0 DEF Sampled!Goto, SampledType
    <3> QED
      BY <2>0, <2>2, <3>1, <3>2, <1>o
  <2> QED
    BY <1>14, <2>1, <2>2, Zenon DEF Sampled!Remove
<1> QED
  BY <1>2, <1>3, <1>4, <1>5, <1>6, <1>7, <1>8, <1>9, <1>10, <1>11, <1>12, <1>13, <1>14, Zenon DEF ProcStep

\* Every step keeps RoomInv.
LEMMA RoomStep ==
    SampledType /\ Sampled!SizeTracksMap /\ RoomInv /\ [Sampled!Next]_sampledVars => RoomInv'
<1> SUFFICES ASSUME SampledType, Sampled!SizeTracksMap, RoomInv, [Sampled!Next]_sampledVars
             PROVE  RoomInv'
  OBVIOUS
<1>1. ASSUME NEW p \in Procs, ProcStep(p) PROVE RoomInv'
  BY <1>1, RoomStepOf
<1>2. ASSUME Sampled!Present' = Sampled!Present, sCapacity' = sCapacity, pc' = pc, target' = target,
             foiled' = foiled
      PROVE  RoomInv'
  <2>1. \A q \in Procs : MakesRoom(q)' <=> MakesRoom(q)
    BY <1>2 DEF MakesRoom
  <2> QED
    BY <1>2, <2>1 DEF RoomInv
<1>3. ASSUME NEW k \in SampledKeys, Sampled!Expire(k) PROVE RoomInv'
  <2>1. Sampled!Present' = Sampled!Present
    BY <1>3 DEF Sampled!Expire, Sampled!Present, SampledType
  <2> QED
    BY <1>2, <1>3, <2>1 DEF Sampled!Expire
<1>4. CASE UNCHANGED sampledVars
  BY <1>2, <1>4 DEF sampledVars, Sampled!Present
<1> QED
  BY <1>1, <1>3, <1>4, SampledCases, Zenon

-----------------------------------------------------------------------------
(* The default cache: the stripe locks                                     *)

\* From here a call of a cache with a capacity holds its key's stripe.
Locked == {"setCheck", "swap", "added", "over", "evict", "pick", "take", "taken",
           "delete", "recheck", "clean", "removed", "end"}

\* The stripe locks protect what a clean-up has seen from being replaced.
StripeInv ==
    sCapacity > 0 => \A p \in Procs : /\ pc[p] \in Locked => holder[StripeOf[key[p]]] = p
                                      /\ pc[p] = "clean" => data[key[p]] # "live"

\* A call that moves on with, or without, the lock it has.
LEMMA StripeByMover ==
    ASSUME SampledType, StripeInv, NEW p \in Procs, NEW place \in Places \ {"clean"},
           pc' = [pc EXCEPT ![p] = place], place \in Locked => pc[p] \in Locked,
           key' = key, holder' = holder, sCapacity' = sCapacity,
           \A k \in SampledKeys : data'[k] = "live" => data[k] = "live"
    PROVE  StripeInv'
<1> SUFFICES ASSUME sCapacity > 0, NEW q \in Procs
             PROVE  /\ pc'[q] \in Locked => holder[StripeOf[key[q]]] = q
                    /\ pc'[q] = "clean" => data'[key[q]] # "live"
  BY DEF StripeInv
<1>1. CASE q = p
  <2>1. pc'[q] = place
    BY <1>1 DEF SampledType
  <2> QED
    BY <1>1, <2>1 DEF StripeInv
<1>2. CASE q # p
  <2>1. pc'[q] = pc[q]
    BY <1>2 DEF SampledType
  <2>2. pc[q] = "clean" => key[q] \in SampledKeys
    BY DEF SampledType
  <2> QED
    BY <2>1, <2>2 DEF StripeInv
<1> QED
  BY <1>1, <1>2

\* A call whose key has just been chosen or whose lock has just been taken.
LEMMA StripeByLocker ==
    ASSUME SampledType, StripeInv, NEW p \in Procs, key[p] \in SampledKeys, Sampled!Lock(p),
           NEW place \in Places \ {"clean"}, pc' = [pc EXCEPT ![p] = place],
           key' = key, sCapacity' = sCapacity, data' = data
    PROVE  StripeInv'
<1> SUFFICES ASSUME sCapacity > 0, NEW q \in Procs
             PROVE  /\ pc'[q] \in Locked => holder'[StripeOf[key[q]]] = q
                    /\ pc'[q] = "clean" => data[key[q]] # "live"
  BY DEF StripeInv
<1>0. /\ StripeOf[key[p]] \in Sampled!Stripes
      /\ holder[StripeOf[key[p]]] = Nil
      /\ holder' = [holder EXCEPT ![StripeOf[key[p]]] = p]
  BY DEF Sampled!Stripes, Sampled!Lock
<1>1. CASE q = p
  <2>1. pc'[q] = place
    BY <1>1 DEF SampledType
  <2> QED
    BY <1>0, <1>1, <2>1 DEF SampledType
<1>2. CASE q # p
  <2>1. pc'[q] = pc[q]
    BY <1>2 DEF SampledType
  <2>2. pc[q] \in Locked => StripeOf[key[q]] # StripeOf[key[p]]
    BY <1>0, CachesAssumption DEF StripeInv
  <2>3. pc[q] \in Locked => StripeOf[key[q]] \in Sampled!Stripes
    BY DEF Sampled!Stripes, SampledType, Locked
  <2> QED
    BY <1>0, <2>1, <2>2, <2>3 DEF StripeInv, SampledType
<1> QED
  BY <1>1, <1>2

\* Each step of one process keeps StripeInv.
LEMMA StripeStepOf ==
    ASSUME SampledType, StripeInv, NEW p \in Procs, ProcStep(p)
    PROVE  StripeInv'
<1>l. pc[p] # "idle" => key[p] \in SampledKeys
  BY DEF SampledType
<1>1. ASSUME NEW k \in SampledKeys, NEW place \in {"setLock", "swap", "deleteLock", "delete", "cleanLock"},
             sCapacity > 0 => place \notin {"swap", "delete"}, Sampled!Begin(p, k, place)
      PROVE  StripeInv'
  <2> SUFFICES ASSUME sCapacity > 0, NEW q \in Procs
               PROVE  /\ pc'[q] \in Locked => holder[StripeOf[key'[q]]] = q
                      /\ pc'[q] = "clean" => data[key'[q]] # "live"
    BY <1>1 DEF StripeInv, Sampled!Begin
  <2>1. CASE q = p
    <3>1. pc'[q] = place
      BY <1>1, <2>1 DEF Sampled!Begin, Sampled!Goto, SampledType
    <3>2. place \notin Locked /\ place # "clean"
      BY <1>1 DEF Locked
    <3> QED
      BY <3>1, <3>2
  <2>2. CASE q # p
    <3>1. pc'[q] = pc[q] /\ key'[q] = key[q]
      BY <1>1, <2>2 DEF Sampled!Begin, Sampled!Goto, SampledType
    <3> QED
      BY <3>1 DEF StripeInv
  <2> QED
    BY <2>1, <2>2
<1>2. ASSUME NEW k \in SampledKeys,
             Sampled!Set(p, k) \/ Sampled!Delete(p, k) \/ Sampled!Get(p, k) \/ Sampled!Sweep(p, k)
      PROVE  StripeInv'
  BY <1>1, <1>2 DEF Sampled!Set, Sampled!Delete, Sampled!Get, Sampled!Sweep
<1>3. CASE Sampled!SetLock(p) \/ Sampled!DeleteLock(p) \/ Sampled!CleanLock(p)
  <2>1. /\ Sampled!Lock(p) /\ key' = key /\ sCapacity' = sCapacity /\ data' = data
        /\ \E place \in {"setCheck", "delete", "recheck"} : pc' = [pc EXCEPT ![p] = place]
    BY <1>3 DEF Sampled!SetLock, Sampled!DeleteLock, Sampled!CleanLock, Sampled!Goto
  <2>2. pc[p] # "idle"
    BY <1>3 DEF Sampled!SetLock, Sampled!DeleteLock, Sampled!CleanLock, Sampled!At
  <2> QED
    BY <1>l, <2>1, <2>2, StripeByLocker, Zenon DEF Places
<1>4. ASSUME pc[p] \in Locked, NEW place \in Places \ {"clean"}, pc' = [pc EXCEPT ![p] = place],
             key' = key, holder' = holder, sCapacity' = sCapacity,
             \A k \in SampledKeys : data'[k] = "live" => data[k] = "live"
      PROVE  StripeInv'
  BY <1>4, StripeByMover, Zenon
<1>5. CASE Sampled!SetCheck(p) \/ Sampled!Added(p) \/ Sampled!Over(p)
  <2>1. /\ key' = key /\ holder' = holder /\ sCapacity' = sCapacity /\ data' = data
        /\ pc[p] \in {"setCheck", "added", "over"}
    BY <1>5, Zenon DEF Sampled!SetCheck, Sampled!Added, Sampled!Over, Sampled!At
  <2>2. \E place \in {"swap", "evict", "over", "end"} : pc' = [pc EXCEPT ![p] = place]
    BY <1>5 DEF Sampled!SetCheck, Sampled!Added, Sampled!Over, Sampled!Evict, Sampled!Goto
  <2> QED
    BY <2>1, <2>2, <1>4, Zenon DEF Locked, Places
<1>6. CASE Sampled!EvictLoop(p) \/ Sampled!Pick(p) \/ Sampled!Taken(p)
  <2>1. /\ key' = key /\ holder' = holder /\ sCapacity' = sCapacity /\ data' = data
        /\ pc[p] \in {"evict", "pick", "taken"}
    BY <1>6, Zenon DEF Sampled!EvictLoop, Sampled!Pick, Sampled!Taken, Sampled!At
  <2>2. after[p] \in {"swap", "end"}
    BY <2>1 DEF SampledType
  <2>3. \E place \in {"pick", "take", "evict", "swap", "end"} : pc' = [pc EXCEPT ![p] = place]
    BY <1>6, <2>2 DEF Sampled!EvictLoop, Sampled!Pick, Sampled!Taken, Sampled!Goto
  <2> QED
    BY <2>1, <2>3, <1>4, Zenon DEF Locked, Places
<1>7. CASE Sampled!Take(p)
  <2>1. key' = key /\ holder' = holder /\ sCapacity' = sCapacity /\ pc[p] = "take"
    BY <1>7, Zenon DEF Sampled!Take, Sampled!At
  <2>2. after[p] \in {"swap", "end"}
    BY <2>1 DEF SampledType
  <2>3. \E place \in {"taken", "swap", "end"} : pc' = [pc EXCEPT ![p] = place]
    BY <1>7, <2>2, Zenon DEF Sampled!Take, Sampled!Goto
  <2>4. \A k \in SampledKeys : data'[k] = "live" => data[k] = "live"
    BY <1>7 DEF Sampled!Take, Sampled!LoadAndDelete, SampledType
  <2> QED
    BY <2>1, <2>3, <2>4, <1>4, Zenon DEF Locked, Places
<1>8. CASE Sampled!Remove(p)
  <2>1. key' = key /\ holder' = holder /\ sCapacity' = sCapacity /\ pc[p] \in {"delete", "clean"}
    BY <1>8, Zenon DEF Sampled!Remove
  <2>2. \E place \in {"removed", "end"} : pc' = [pc EXCEPT ![p] = place]
    BY <1>8, Zenon DEF Sampled!Remove, Sampled!Goto
  <2>3. \A k \in SampledKeys : data'[k] = "live" => data[k] = "live"
    BY <1>8 DEF Sampled!Remove, Sampled!LoadAndDelete, SampledType
  <2> QED
    BY <2>1, <2>2, <2>3, <1>4, Zenon DEF Locked, Places
<1>9. CASE Sampled!Removed(p)
  BY <1>9, <1>4, Zenon DEF Sampled!Removed, Sampled!At, Sampled!Goto, Locked, Places
<1>10. CASE Sampled!Recheck(p)
  <2>0. /\ key' = key /\ holder' = holder /\ sCapacity' = sCapacity /\ data' = data /\ pc[p] = "recheck"
    BY <1>10, Zenon DEF Sampled!Recheck, Sampled!At
  <2>1. CASE data[key[p]] = "expired"
    <3>1. pc' = [pc EXCEPT ![p] = "clean"]
      BY <1>10, <2>1 DEF Sampled!Recheck, Sampled!Goto
    <3>2. pc'[p] = "clean" /\ \A q \in Procs \ {p} : pc'[q] = pc[q]
      BY <3>1 DEF SampledType
    <3>3. pc[p] \in Locked
      BY <2>0 DEF Locked
    <3> QED
      BY <2>0, <2>1, <3>2, <3>3 DEF StripeInv
  <2>2. CASE data[key[p]] # "expired"
    <3>1. pc' = [pc EXCEPT ![p] = "end"]
      BY <1>10, <2>2 DEF Sampled!Recheck, Sampled!Goto
    <3> QED
      BY <2>0, <3>1, <1>4, Zenon DEF Locked, Places
  <2> QED
    BY <2>1, <2>2
<1>11. CASE Sampled!Swap(p)
  <2>0. /\ key' = key /\ holder' = holder /\ sCapacity' = sCapacity /\ pc[p] = "swap"
        /\ data' = [data EXCEPT ![key[p]] = "live"]
    BY <1>11, Zenon DEF Sampled!Swap, Sampled!At
  <2>1. \E place \in {"added", "over", "end"} : pc' = [pc EXCEPT ![p] = place]
    BY <1>11, Zenon DEF Sampled!Swap, Sampled!Goto
  <2>2. pc'[p] # "clean" /\ \A q \in Procs \ {p} : pc'[q] = pc[q]
    BY <2>1 DEF SampledType
  <2> SUFFICES ASSUME sCapacity > 0, NEW q \in Procs
               PROVE  /\ pc'[q] \in Locked => holder[StripeOf[key[q]]] = q
                      /\ pc'[q] = "clean" => data'[key[q]] # "live"
    BY <2>0 DEF StripeInv
  <2>3. holder[StripeOf[key[p]]] = p
    BY <2>0 DEF StripeInv, Locked
  <2>4. CASE q = p
    BY <2>2, <2>3, <2>4
  <2>5. CASE q # p
    <3>1. pc[q] = "clean" => key[q] # key[p] /\ key[q] \in SampledKeys
      BY <2>3, <2>5 DEF StripeInv, Locked, SampledType
    <3> QED
      BY <2>0, <2>2, <2>5, <3>1 DEF StripeInv, SampledType
  <2> QED
    BY <2>4, <2>5
<1>12. CASE Sampled!End(p)
  <2>0. /\ sCapacity' = sCapacity /\ data' = data
        /\ pc' = [pc EXCEPT ![p] = "idle"] /\ key' = [key EXCEPT ![p] = Nil]
        /\ holder' = [s \in Sampled!Stripes |-> IF holder[s] = p THEN Nil ELSE holder[s]]
    BY <1>12, Zenon DEF Sampled!End, Sampled!Finish, Sampled!Return, Sampled!Goto
  <2> SUFFICES ASSUME sCapacity > 0, NEW q \in Procs
               PROVE  /\ pc'[q] \in Locked => holder'[StripeOf[key'[q]]] = q
                      /\ pc'[q] = "clean" => data[key'[q]] # "live"
    BY <2>0 DEF StripeInv
  <2>1. CASE q = p
    <3>1. pc'[q] = "idle"
      BY <2>0, <2>1 DEF SampledType
    <3> QED
      BY <3>1 DEF Locked
  <2>2. CASE q # p
    <3>1. pc'[q] = pc[q] /\ key'[q] = key[q]
      BY <2>0, <2>2 DEF SampledType
    <3>2. pc[q] \in Locked => StripeOf[key[q]] \in Sampled!Stripes
      BY DEF Sampled!Stripes, SampledType, Locked
    <3> QED
      BY <2>0, <2>2, <3>1, <3>2 DEF StripeInv
  <2> QED
    BY <2>1, <2>2
<1> QED
  BY <1>2, <1>3, <1>5, <1>6, <1>7, <1>8, <1>9, <1>10, <1>11, <1>12, Zenon DEF ProcStep

\* Every step keeps StripeInv.
LEMMA StripeStep ==
    SampledType /\ StripeInv /\ [Sampled!Next]_sampledVars => StripeInv'
<1> SUFFICES ASSUME SampledType, StripeInv, [Sampled!Next]_sampledVars PROVE StripeInv'
  OBVIOUS
<1>1. ASSUME NEW p \in Procs, ProcStep(p) PROVE StripeInv'
  BY <1>1, StripeStepOf
<1>2. ASSUME NEW k \in SampledKeys, Sampled!Expire(k) PROVE StripeInv'
  <2>1. \A p \in Procs : pc[p] = "clean" => key[p] \in SampledKeys
    BY DEF SampledType
  <2> QED
    BY <1>2, <2>1 DEF Sampled!Expire, StripeInv, SampledType
<1>3. CASE UNCHANGED sampledVars
  BY <1>3 DEF sampledVars, StripeInv
<1> QED
  BY <1>1, <1>2, <1>3, SampledCases, Zenon

\* A live entry leaves a cache with a capacity by a Delete or an eviction only.
LEMMA SparesLive ==
    ASSUME SampledType, StripeInv, [Sampled!Next]_sampledVars, sCapacity > 0,
           NEW k \in SampledKeys, data[k] = "live", data'[k] = "absent"
    PROVE  Sampled!Intended(k)
<1>0. data'[k] # data[k]
  OBVIOUS
<1>1. ASSUME NEW p \in Procs, ProcStep(p) PROVE Sampled!Intended(k)
  <2>1. ASSUME data' = data PROVE FALSE
    BY <2>1, <1>0
  <2>2. CASE Sampled!Swap(p)
    BY <2>2 DEF Sampled!Swap, SampledType
  <2>3. CASE Sampled!Take(p)
    BY <2>3 DEF Sampled!Take, Sampled!LoadAndDelete, Sampled!Intended, Sampled!At, SampledType
  <2>4. CASE Sampled!Remove(p)
    BY <2>4 DEF Sampled!Remove, Sampled!LoadAndDelete, Sampled!Intended, StripeInv, SampledType
  <2> QED
    BY <1>1, <2>1, <2>2, <2>3, <2>4, Zenon
       DEF ProcStep, Sampled!Set, Sampled!Delete, Sampled!Get, Sampled!Sweep, Sampled!Begin, Sampled!SetLock,
           Sampled!SetCheck, Sampled!Added, Sampled!Over, Sampled!EvictLoop, Sampled!Pick, Sampled!Taken,
           Sampled!DeleteLock, Sampled!CleanLock, Sampled!Recheck, Sampled!Removed, Sampled!End
<1>2. ASSUME NEW j \in SampledKeys, Sampled!Expire(j) PROVE FALSE
  BY <1>2 DEF Sampled!Expire, SampledType
<1>3. CASE UNCHANGED sampledVars
  BY <1>0, <1>3 DEF sampledVars
<1> QED
  BY <1>1, <1>2, <1>3, SampledCases, Zenon

-----------------------------------------------------------------------------
(* The default cache: theorems                                             *)

SampledInv == SampledType /\ Sampled!SizeTracksMap /\ RoomInv /\ StripeInv

\* The initial states satisfy the invariant.
LEMMA SampledInit == Sampled!Init => SampledInv
<1> SUFFICES ASSUME Sampled!Init PROVE SampledInv
  OBVIOUS
<1>1. SampledType /\ Sampled!SizeTracksMap
  BY SampledTypeInit, SizeInit
<1>2. RoomInv
  <2>1. Sampled!Present = {}
    BY DEF Sampled!Init, Sampled!Present
  <2>2. Cardinality(Sampled!Present) = 0
    BY <2>1, FS_EmptySet
  <2> QED
    BY <1>1, <2>2 DEF RoomInv, SampledType
<1>3. StripeInv
  BY DEF Sampled!Init, StripeInv, Locked
<1> QED
  BY <1>1, <1>2, <1>3 DEF SampledInv

\* Every step keeps the invariant.
LEMMA SampledStep == SampledInv /\ [Sampled!Next]_sampledVars => SampledInv'
BY SampledTypeStep, SizeStep, RoomStep, StripeStep, Zenon DEF SampledInv

\* The counter of the default cache differs from the number of its entries by exactly
\* the adjustments that calls still owe, for any number of goroutines.
THEOREM SizeTracksTheMap == ConcurrentSpec => []Sampled!SizeTracksMap
<1>1. ConcurrentInit => SampledInv
  BY SampledInit DEF ConcurrentInit
<1>2. SampledInv => Sampled!SizeTracksMap
  BY DEF SampledInv
<1> QED
  BY <1>1, <1>2, SampledStep, CachesSteps, PTL DEF ConcurrentSpec, cachesVars

\* Once no call is under way the default cache is within its capacity, unless an
\* eviction was foiled: however many Sets raced on however many stripes.
THEOREM CapacityIsRestored == ConcurrentSpec => []CapacityRestored
<1>1. ConcurrentInit => SampledInv
  BY SampledInit DEF ConcurrentInit
<1>2. SampledInv => CapacityRestored
  <2> SUFFICES ASSUME SampledInv, sCapacity > 0, \A p \in Procs : pc[p] = "idle", ~foiled
               PROVE  Cardinality(Sampled!Present) <= sCapacity
    BY SampledCardinality DEF CapacityRestored, Sampled!CapacityRestored
  <2>1. \A p \in Procs : ~MakesRoom(p)
    BY DEF MakesRoom, Restoring
  <2> QED
    BY <2>1 DEF SampledInv, RoomInv
<1> QED
  BY <1>1, <1>2, SampledStep, CachesSteps, PTL DEF ConcurrentSpec, cachesVars

\* With a capacity, what Get and the sweeper remove has expired, even if it was
\* replaced after they had found it: the stripe's lock keeps a Set out meanwhile.
THEOREM CleanUpsSpareLive == ConcurrentSpec => BoundedCleanUpSparesLive
<1>1. ConcurrentInit => SampledInv
  BY SampledInit DEF ConcurrentInit
<1>2. SampledInv /\ [Sampled!Next]_sampledVars
      => [sCapacity > 0 => \A k \in SampledKeys :
                             data[k] = "live" /\ data'[k] = "absent" => Sampled!Intended(k)]_sampledVars
  BY SparesLive DEF SampledInv
<1> QED
  BY <1>1, <1>2, SampledStep, CachesSteps, PTL
     DEF ConcurrentSpec, cachesVars, BoundedCleanUpSparesLive, Sampled!BoundedCleanUpSparesLive, Sampled!vars, sampledVars

-----------------------------------------------------------------------------
(* The key cache of jwks                                                   *)

Answers == [how : {"none", "cached", "fetched", "stale", "other", "error"}, lag : 0 .. cacheTTL]

\* An answer that KeysFresh allows.
FreshEnough(a) == a.how \in {"cached", "fetched"} => a.lag < cacheTTL

\* The types that the argument needs.
JwksTypeOK ==
    /\ published \in [Kids -> Nat]
    /\ superseded \in [Kids -> 0 .. cacheTTL]
    /\ keyCache \in [Kids -> Nat]
    /\ age \in 0 .. cacheTTL
    /\ at \in [Callers -> {"idle", "lock", "fetch"}]
    /\ kid \in [Callers -> Kids]
    /\ told \in [Callers -> Answers]
    /\ body \in [Kids -> Nat] \cup {Nil}

\* What is cached was replaced after the last fetch, if at all.
KeyCacheInv ==
    \A k \in Kids : keyCache[k] # 0 /\ published[k] \notin {0, keyCache[k]} => superseded[k] <= age

\* Whoever fetches holds the lock.
WriterInv == \A c \in Callers : at[c] = "fetch" => writer = c

\* What the issuer changed after it answered a fetch, it has changed just now: time
\* stands still while the lock is held.
BodyInv ==
    body # Nil => /\ writer # Nil
                   /\ \A k \in Kids : body[k] # published[k] => superseded[k] = 0

JwksInv == JwksTypeOK /\ KeyCacheInv /\ WriterInv /\ BodyInv /\ Issuer!KeysFresh

\* The initial states satisfy the invariant.
LEMMA JwksInit ==
    ASSUME cacheTTL \in Nat \ {0}
    PROVE  Issuer!Init => JwksInv
<1> SUFFICES ASSUME Issuer!Init PROVE JwksInv
  OBVIOUS
<1>0. Issuer!NoAnswer \in Answers
  BY DEF Issuer!NoAnswer, Answers
<1>1. JwksTypeOK
  BY <1>0 DEF Issuer!Init, JwksTypeOK
<1>2. KeyCacheInv /\ WriterInv /\ BodyInv /\ Issuer!KeysFresh
  BY DEF Issuer!Init, KeyCacheInv, WriterInv, BodyInv, Issuer!KeysFresh, Issuer!NoAnswer
<1> QED
  BY <1>1, <1>2 DEF JwksInv

\* A key from a cache that satisfies KeyCacheInv lags behind by no more than its age.
LEMMA LagBounded ==
    ASSUME cacheTTL \in Nat \ {0}, JwksTypeOK, NEW keys \in [Kids -> Nat], NEW k \in Kids, keys[k] # 0,
           NEW a \in 0 .. cacheTTL,
           published[k] \notin {0, keys[k]} => superseded[k] <= a
    PROVE  Issuer!Lag(k, keys) \in 0 .. cacheTTL /\ Issuer!Lag(k, keys) <= a
BY DEF Issuer!Lag, JwksTypeOK

\* A caller that is told something fresh enough, or refused, leaves KeysFresh true.
LEMMA ToldFresh ==
    ASSUME JwksTypeOK, Issuer!KeysFresh, NEW c \in Callers, NEW a \in Answers, FreshEnough(a),
           told' = [told EXCEPT ![c] = a]
    PROVE  Issuer!KeysFresh' /\ told' \in [Callers -> Answers]
BY DEF JwksTypeOK, Issuer!KeysFresh, FreshEnough

\* Nothing that is told without a key is too old.
LEMMA RefusalFresh ==
    ASSUME cacheTTL \in Nat \ {0}, NEW how \in {"none", "other", "error"}
    PROVE  [how |-> how, lag |-> 0] \in Answers /\ FreshEnough([how |-> how, lag |-> 0])
BY DEF Answers, FreshEnough

\* A key that lags behind too little to matter.
LEMMA AnswerFresh ==
    ASSUME cacheTTL \in Nat \ {0}, NEW how \in {"cached", "fetched", "stale"},
           NEW lag \in 0 .. cacheTTL, how # "stale" => lag < cacheTTL
    PROVE  [how |-> how, lag |-> lag] \in Answers /\ FreshEnough([how |-> how, lag |-> lag])
BY DEF Answers, FreshEnough

\* Every step keeps the invariant.
LEMMA JwksNext ==
    ASSUME cacheTTL \in Nat \ {0}, Nil \notin Callers, Nil \notin [Kids -> Nat]
    PROVE  JwksInv /\ [Issuer!Next]_jwksVars => JwksInv'
<1> SUFFICES ASSUME JwksInv, [Issuer!Next]_jwksVars PROVE JwksInv'
  OBVIOUS
<1>i. JwksTypeOK /\ KeyCacheInv /\ WriterInv /\ BodyInv /\ Issuer!KeysFresh
  BY DEF JwksInv
<1>1. ASSUME NEW c \in Callers, Issuer!GetCachedKey(c) PROVE JwksInv'
  <2>1. PICK k \in Kids : kid' = [kid EXCEPT ![c] = k]
    BY <1>1, Zenon DEF Issuer!GetCachedKey
  <2>2. kid'[c] = k /\ kid' \in [Callers -> Kids]
    BY <1>i, <2>1 DEF JwksTypeOK
  <2>3. Issuer!KeysFresh' /\ told' \in [Callers -> Answers]
    <3>1. CASE Issuer!Fresh(k)
      <4>1. Issuer!Lag(k, keyCache) \in 0 .. cacheTTL /\ Issuer!Lag(k, keyCache) <= age
        BY <1>i, <3>1, LagBounded DEF Issuer!Fresh, KeyCacheInv, JwksTypeOK
      <4>2. Issuer!Lag(k, keyCache) < cacheTTL
        BY <1>i, <3>1, <4>1 DEF Issuer!Fresh, JwksTypeOK
      <4>3. told' = [told EXCEPT ![c] = [how |-> "cached", lag |-> Issuer!Lag(k, keyCache)]]
        BY <1>1, <2>2, <3>1 DEF Issuer!GetCachedKey
      <4> QED
        BY <1>i, <4>1, <4>2, <4>3, ToldFresh, AnswerFresh, Zenon
    <3>2. CASE ~Issuer!Fresh(k)
      <4>1. told' = [told EXCEPT ![c] = [how |-> "none", lag |-> 0]]
        BY <1>1, <2>2, <3>2 DEF Issuer!GetCachedKey, Issuer!NoAnswer
      <4> QED
        BY <1>i, <4>1, ToldFresh, RefusalFresh, Zenon
    <3> QED
      BY <3>1, <3>2
  <2> QED
    BY <1>1, <1>i, <2>2, <2>3 DEF Issuer!GetCachedKey, JwksInv, JwksTypeOK, KeyCacheInv, WriterInv, BodyInv
<1>2. ASSUME NEW c \in Callers, Issuer!Lock(c) PROVE JwksInv'
  <2>k. kid[c] \in Kids
    BY <1>i DEF JwksTypeOK
  <2>1. Issuer!KeysFresh' /\ told' \in [Callers -> Answers]
    <3>1. CASE Issuer!Fresh(kid[c]) /\ Issuer!Tell(c, "cached", keyCache)
      <4>1. Issuer!Lag(kid[c], keyCache) \in 0 .. cacheTTL /\ Issuer!Lag(kid[c], keyCache) <= age
        BY <1>i, <2>k, <3>1, LagBounded DEF Issuer!Fresh, KeyCacheInv, JwksTypeOK
      <4>2. Issuer!Lag(kid[c], keyCache) < cacheTTL
        BY <1>i, <3>1, <4>1 DEF Issuer!Fresh, JwksTypeOK
      <4> QED
        BY <1>i, <3>1, <4>1, <4>2, ToldFresh, AnswerFresh, Zenon DEF Issuer!Tell
    <3>2. CASE Issuer!Refuse(c, "error")
      BY <1>i, <3>2, ToldFresh, RefusalFresh, Zenon DEF Issuer!Refuse
    <3>3. CASE UNCHANGED told
      BY <1>i, <3>3 DEF Issuer!KeysFresh, JwksTypeOK
    <3> QED
      BY <1>2, <3>1, <3>2, <3>3, Zenon DEF Issuer!Lock
  <2>2. body' = body /\ (body # Nil => writer # Nil) /\ writer = Nil
    BY <1>2, <1>i DEF Issuer!Lock, BodyInv
  <2> QED
    BY <1>2, <1>i, <2>1, <2>2 DEF Issuer!Lock, Issuer!Tell, Issuer!Refuse, JwksInv, JwksTypeOK, KeyCacheInv, WriterInv, BodyInv
<1>3. ASSUME NEW c \in Callers, Issuer!Respond(c) PROVE JwksInv'
  <2>1. writer = c
    BY <1>3, <1>i DEF Issuer!Respond, WriterInv
  <2>2. BodyInv'
    BY <1>3, <2>1 DEF Issuer!Respond, BodyInv
  <2> QED
    BY <1>3, <1>i, <2>2 DEF Issuer!Respond, JwksInv, JwksTypeOK, KeyCacheInv, WriterInv, Issuer!KeysFresh
<1>4. ASSUME NEW c \in Callers, Issuer!FetchFails(c) PROVE JwksInv'
  <2>1. Issuer!KeysFresh' /\ told' \in [Callers -> Answers]
    <3>1. CASE Issuer!Tell(c, "stale", keyCache)
      <4>1. Issuer!Lag(kid[c], keyCache) \in 0 .. cacheTTL
        BY <1>i DEF Issuer!Lag, JwksTypeOK
      <4> QED
        BY <1>i, <3>1, <4>1, ToldFresh, AnswerFresh, Zenon DEF Issuer!Tell
    <3>2. CASE Issuer!Refuse(c, "error")
      BY <1>i, <3>2, ToldFresh, RefusalFresh, Zenon DEF Issuer!Refuse
    <3> QED
      BY <1>4, <3>1, <3>2 DEF Issuer!FetchFails
  <2>2. at' = [at EXCEPT ![c] = "idle"] /\ WriterInv'
    <3>1. at' = [at EXCEPT ![c] = "idle"]
      BY <1>4 DEF Issuer!FetchFails, Issuer!Tell, Issuer!Refuse
    <3> QED
      BY <1>4, <1>i, <3>1 DEF Issuer!FetchFails, WriterInv, JwksTypeOK
  <2> QED
    BY <1>4, <1>i, <2>1, <2>2 DEF Issuer!FetchFails, JwksInv, JwksTypeOK, KeyCacheInv, BodyInv
<1>5. ASSUME NEW c \in Callers, Issuer!FetchSucceeds(c) PROVE JwksInv'
  <2> DEFINE merged == [k \in Kids |-> IF body[k] # 0 THEN body[k] ELSE keyCache[k]]
  <2>1. /\ body \in [Kids -> Nat] /\ merged \in [Kids -> Nat] /\ kid[c] \in Kids
        /\ keyCache' = merged /\ age' = 0 /\ writer' = Nil /\ body' = Nil
        /\ UNCHANGED <<published, superseded, kid>>
    BY <1>5, <1>i DEF Issuer!FetchSucceeds, JwksTypeOK
  <2>2. \A k \in Kids : merged[k] # 0 /\ published[k] \notin {0, merged[k]} => superseded[k] = 0
    BY <1>5, <1>i, <2>1 DEF Issuer!FetchSucceeds, BodyInv
  <2>3. \/ merged[kid[c]] # 0 /\ Issuer!Tell(c, "fetched", merged)
        \/ \E how \in {"other", "error"} : Issuer!Refuse(c, how)
    BY <1>5 DEF Issuer!FetchSucceeds
  <2> HIDE DEF merged
  <2>4. Issuer!KeysFresh' /\ told' \in [Callers -> Answers]
    <3>1. CASE merged[kid[c]] # 0 /\ Issuer!Tell(c, "fetched", merged)
      <4>1. Issuer!Lag(kid[c], merged) = 0
        BY <2>1, <2>2, <3>1 DEF Issuer!Lag
      <4>2. Issuer!Lag(kid[c], merged) \in 0 .. cacheTTL /\ Issuer!Lag(kid[c], merged) < cacheTTL
        BY <4>1
      <4> QED
        BY <1>i, <3>1, <4>2, ToldFresh, AnswerFresh, Zenon DEF Issuer!Tell
    <3>2. CASE \E how \in {"other", "error"} : Issuer!Refuse(c, how)
      BY <1>i, <3>2, ToldFresh, RefusalFresh, Zenon DEF Issuer!Refuse
    <3> QED
      BY <2>3, <3>1, <3>2
  <2>5. at' = [at EXCEPT ![c] = "idle"] /\ WriterInv'
    <3>1. at' = [at EXCEPT ![c] = "idle"]
      BY <2>3 DEF Issuer!Tell, Issuer!Refuse
    <3> QED
      BY <1>5, <1>i, <2>1, <3>1 DEF Issuer!FetchSucceeds, WriterInv, JwksTypeOK
  <2>6. KeyCacheInv'
    BY <1>i, <2>1, <2>2 DEF KeyCacheInv, JwksTypeOK
  <2> QED
    BY <1>i, <2>1, <2>4, <2>5, <2>6 DEF JwksInv, JwksTypeOK, BodyInv
<1>6. ASSUME NEW k \in Kids, Issuer!Rotate(k) PROVE JwksInv'
  <2>1. published' \in [Kids -> Nat] /\ superseded' = [superseded EXCEPT ![k] = 0]
    BY <1>6, <1>i DEF Issuer!Rotate, JwksTypeOK
  <2>2. \A j \in Kids \ {k} : published'[j] = published[j] /\ superseded'[j] = superseded[j]
    BY <1>6, <1>i DEF Issuer!Rotate, JwksTypeOK
  <2>3. superseded'[k] = 0 /\ superseded' \in [Kids -> 0 .. cacheTTL]
    BY <1>i, <2>1 DEF JwksTypeOK
  <2>4. UNCHANGED <<keyCache, age, writer, at, kid, body, told>>
    BY <1>6 DEF Issuer!Rotate
  <2>5. KeyCacheInv'
    BY <1>i, <2>2, <2>3, <2>4 DEF KeyCacheInv, JwksTypeOK
  <2>6. BodyInv'
    BY <1>i, <2>2, <2>3, <2>4 DEF BodyInv
  <2> QED
    BY <1>i, <2>1, <2>3, <2>4, <2>5, <2>6 DEF JwksInv, JwksTypeOK, WriterInv, Issuer!KeysFresh
<1>7. ASSUME Issuer!Tick PROVE JwksInv'
  <2>1. body = Nil
    BY <1>7, <1>i DEF Issuer!Tick, BodyInv
  <2>2. UNCHANGED <<published, keyCache, writer, at, kid, body, told>>
    BY <1>7 DEF Issuer!Tick
  <2>3. age' \in 0 .. cacheTTL /\ superseded' \in [Kids -> 0 .. cacheTTL]
    BY <1>7, <1>i DEF Issuer!Tick, JwksTypeOK
  <2>4. \A k \in Kids : superseded[k] <= age => superseded'[k] <= age'
    BY <1>7, <1>i DEF Issuer!Tick, JwksTypeOK
  <2>5. KeyCacheInv'
    BY <1>i, <2>2, <2>4 DEF KeyCacheInv
  <2> QED
    BY <1>i, <2>1, <2>2, <2>3, <2>5 DEF JwksInv, JwksTypeOK, WriterInv, BodyInv, Issuer!KeysFresh
<1>8. ASSUME UNCHANGED jwksVars PROVE JwksInv'
  BY <1>i, <1>8 DEF jwksVars, JwksInv, JwksTypeOK, KeyCacheInv, WriterInv, BodyInv, Issuer!KeysFresh
<1> QED
  BY <1>1, <1>2, <1>3, <1>4, <1>5, <1>6, <1>7, <1>8 DEF Issuer!Next, Issuer!Step

\* A key that the issuer has replaced is given out for less than cacheTTL unless the
\* call's own fetch failed, for any number of callers and keys.
THEOREM KeysAreFresh == ConcurrentSpec => []KeysFresh
<1>1. ConcurrentInit => JwksInv
  BY JwksInit, CachesAssumption DEF ConcurrentInit
<1>2. JwksInv /\ [Issuer!Next]_jwksVars => JwksInv'
  BY JwksNext, CachesAssumption
<1>3. JwksInv => KeysFresh
  BY DEF JwksInv, KeysFresh
<1> QED
  BY <1>1, <1>2, <1>3, CachesSteps, PTL DEF ConcurrentSpec, cachesVars
=============================================================================
