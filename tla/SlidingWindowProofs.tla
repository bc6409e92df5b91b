------------------------- MODULE SlidingWindowProofs -------------------------
(***************************************************************************)
(* The sliding window keeps to its limit, for any number of goroutines and *)
(* keys and for every configuration in which an idle entry is kept for as  *)
(* long as its counts matter.  The table of entries is that of             *)
(* LimiterProofs; what is added here is the arithmetic of the weighted     *)
(* count and how it changes as the window moves.                           *)
(***************************************************************************)
EXTENDS LimiterProofs

WindowEntry == [age : Nat, curr : Nat, prev : Nat]
Usage == [curr : Nat, prev : Nat]
NoUsage == [curr |-> 0, prev |-> 0]

\* An entry's counts are those of the clock's current and previous window, wherever the
\* entry has got stuck.
Agree(e, u) ==
    /\ e.age < Sliding!Window => u.curr = e.curr /\ u.prev = e.prev
    /\ e.age >= Sliding!Window => u.curr = 0
    /\ Sliding!Window <= e.age /\ e.age < 2 * Sliding!Window => u.prev = e.curr
    /\ 2 * Sliding!Window <= e.age => u.prev = 0

\* Windows are aligned with the clock.
Aligned(e) ==
    /\ e.age < Sliding!Window => e.age = phase
    /\ Sliding!Window <= e.age /\ e.age < 2 * Sliding!Window => e.age = Sliding!Window + phase

WithinLimit(u) ==
    /\ u.curr <= Sliding!Limit
    /\ u.curr + Sliding!Weighted(u.prev) <= Sliding!Limit + 1

\* A key's use is within the limit, and its entry knows it.
Counted(k) ==
    /\ WithinLimit(usage[k])
    /\ IF table[k] = None THEN usage[k] = NoUsage ELSE Agree(entry[table[k]], usage[k])

SlidingInv ==
    /\ TableInv(WindowEntry)
    /\ phase \in 0 .. Sliding!Window - 1
    /\ usage \in [LimiterKeys -> Usage]
    /\ \A i \in Ids : entry[i] # None => Aligned(entry[i])
    /\ \A k \in LimiterKeys \ disturbed : Counted(k)

\* The instance's table is the table, and its collections are those above.
LEMMA SlidingTable ==
    /\ Sliding!Held = Held /\ Sliding!Idle = IdleCall
    /\ \A e : Sliding!Keep(e) <=> Kept(e)
    /\ Sliding!Collected = Collected(slidingIdle)
    /\ \A map : Sliding!Orphaned(map) = Orphaned(map)
    /\ \A keys, unused : Sliding!Disturb(keys, unused) <=> Disturb(keys, unused)
    /\ \A map : Sliding!Entries(map) = {map[k] : k \in LimiterKeys}
<1>3. Sliding!Held = Held /\ Sliding!Idle = IdleCall
  BY Zenon DEF Sliding!Held, Held, Sliding!Idle, IdleCall
<1>4. \A e : Sliding!Keep(e) <=> Kept(e)
  <2>1. /\ Sliding!Held' = Held'
        /\ Sliding!Entries(table') \cup Sliding!Held' = Live'
    BY Zenon DEF Sliding!Entries, Sliding!Held, Held, Live
  <2> QED
    BY <2>1, Zenon DEF Sliding!Keep, Kept
<1>5. Sliding!Collected = Collected(slidingIdle)
  BY Zenon DEF Sliding!Collected, Sliding!Collects, Collected
<1>6. \A map : Sliding!Orphaned(map) = Orphaned(map)
  BY <1>3, Zenon DEF Sliding!Orphaned, Orphaned
<1>7. \A keys, unused : Sliding!Disturb(keys, unused) <=> Disturb(keys, unused)
  BY Zenon DEF Sliding!Disturb, Disturb
<1> QED
  BY <1>3, <1>4, <1>5, <1>6, <1>7, Zenon DEF Sliding!Entries

\* The configuration that NewSlidingWindow makes of any arguments.
LEMMA SlidingConstants == Sliding!Limit \in Nat \ {0} /\ Sliding!Window \in Nat \ {0}
BY LimitersAssumption DEF Sliding!Limit, Sliding!Window

\* A product of numbers grows with the second.
LEMMA Products ==
    ASSUME NEW a \in Nat, NEW m \in Nat, NEW n \in Nat, m <= n
    PROVE  a * m \in Nat /\ a * n \in Nat /\ a * m <= a * n
OBVIOUS

\* A quotient grows with what is divided.
LEMMA Quotients ==
    ASSUME NEW a \in Nat, NEW b \in Nat, NEW d \in Nat \ {0}, a <= b
    PROVE  a \div d <= b \div d
<1> DEFINE x == a \div d
           y == b \div d
<1>1. x \in Nat /\ y \in Nat /\ x * d <= a /\ b < y * d + d
  BY Quotient
<1>2. x * d < (y + 1) * d
  <2> HIDE DEF x, y
  <2>1. (y + 1) * d = y * d + d /\ x * d \in Nat /\ y * d \in Nat
    BY <1>1
  <2> QED
    BY <1>1, <2>1
<1>3. ASSUME ~(x <= y) PROVE FALSE
  <2> HIDE DEF x, y
  <2>1. y + 1 <= x /\ y + 1 \in Nat
    BY <1>1, <1>3
  <2>2. d * (y + 1) <= d * x
    BY <1>1, <2>1, Products
  <2> QED
    BY <1>1, <1>2, <2>2
<1> QED
  BY <1>3

\* What is left of n when q of W has gone is no more than when p has, nor than n.
LEMMA WeightedPart ==
    ASSUME NEW W \in Nat \ {0}, NEW p \in 0 .. W - 1, NEW q \in p .. W - 1, NEW n \in Nat
    PROVE  /\ (n * (W - p)) \div W \in Nat /\ (n * (W - p)) \div W <= n
           /\ (n * (W - q)) \div W <= (n * (W - p)) \div W
<1> DEFINE left == W - p
           later == W - q
           w == (n * left) \div W
<1>1. left \in Nat /\ left <= W /\ later \in Nat /\ later <= left
  OBVIOUS
<1> HIDE DEF left, later
<1>2. /\ n * left \in Nat /\ n * W \in Nat /\ n * left <= n * W
      /\ n * later \in Nat /\ n * later <= n * left
  BY <1>1, Products
<1>3. w \in Nat /\ w * W <= n * left
  BY <1>2, Quotient
<1>4. w <= n
  <2> HIDE DEF w
  <2> SUFFICES ASSUME ~(w <= n) PROVE FALSE
    OBVIOUS
  <2>1. n + 1 <= w /\ n + 1 \in Nat
    BY <1>3
  <2>2. W * (n + 1) <= W * w
    BY <1>3, <2>1, Products
  <2>3. W * (n + 1) = n * W + W /\ W * w = w * W
    BY <1>3
  <2> QED
    BY <1>2, <1>3, <2>2, <2>3
<1>5. (n * later) \div W <= w
  BY <1>2, Quotients
<1> QED
  BY <1>3, <1>4, <1>5 DEF left, later

\* The weight of the previous window is between none and all of it.
LEMMA WeightedUse ==
    ASSUME phase \in 0 .. Sliding!Window - 1, NEW prev \in Nat
    PROVE  Sliding!Weighted(prev) \in Nat /\ Sliding!Weighted(prev) <= prev
<1>1. phase \in phase .. Sliding!Window - 1
  BY SlidingConstants
<1> QED
  BY <1>1, SlidingConstants, WeightedPart DEF Sliding!Weighted


\* Counted, of a key whose entry, and what is known of it, stay the same.
LEMMA CountedKept ==
    ASSUME NEW k \in LimiterKeys, Counted(k), usage'[k] = usage[k], table'[k] = table[k], phase' = phase,
           table[k] # None => entry'[table[k]] = entry[table[k]]
    PROVE  Counted(k)'
BY DEF Counted, WithinLimit, Agree, Sliding!Weighted, Sliding!Window, Sliding!Limit

\* An entry that is brought up to date counts the current and the previous window.
LEMMA AdvancedEntry ==
    ASSUME phase \in 0 .. Sliding!Window - 1, NEW e \in WindowEntry, Aligned(e)
    PROVE  LET a == Sliding!Advance(e)
           IN  /\ a \in WindowEntry /\ a.age = phase
               /\ \A u : Agree(e, u) => u.curr = a.curr /\ u.prev = a.prev
<1> DEFINE W == Sliding!Window
           a == Sliding!Advance(e)
<1>0. W \in Nat \ {0} /\ phase \in Nat /\ e.age \in Nat /\ e.curr \in Nat /\ e.prev \in Nat
  BY SlidingConstants DEF WindowEntry
<1>1. CASE e.age < W
  <2>1. a = e /\ e.age = phase
    BY <1>1 DEF Sliding!Advance, Aligned
  <2> QED
    BY <1>1, <2>1 DEF Agree
<1>2. CASE ~(e.age < W) /\ e.age < 2 * W
  <2>1. a = [age |-> phase, curr |-> 0, prev |-> e.curr]
    BY <1>2 DEF Sliding!Advance
  <2> QED
    BY <1>0, <1>2, <2>1 DEF Agree, WindowEntry
<1>3. CASE ~(e.age < W) /\ ~(e.age < 2 * W)
  <2>1. a = [age |-> phase, curr |-> 0, prev |-> 0]
    BY <1>3 DEF Sliding!Advance
  <2> QED
    BY <1>0, <1>3, <2>1 DEF Agree, WindowEntry
<1> QED
  BY <1>1, <1>2, <1>3

\* A call that has used its entry ends.
LEMMA SlidingFinish ==
    ASSUME SlidingInv, NEW p \in Procs, call[p].at = "use", phase' = phase,
           NEW e \in WindowEntry, Aligned(e), NEW u \in Usage, Sliding!Finish(p, e, u),
           call[p].key \notin disturbed /\ Counted(call[p].key) /\ call[p].id = table[call[p].key]
             /\ call[p].id # None
           => WithinLimit(u) /\ Agree(e, u)
    PROVE  SlidingInv'
<1> DEFINE key == call[p].key
<1>1. /\ call' = [call EXCEPT ![p] = IdleCall]
      /\ UNCHANGED <<table, sinceGC, disturbed>>
      /\ Kept([entry EXCEPT ![call[p].id] = e])
      /\ usage' = IF key \in disturbed THEN usage ELSE [usage EXCEPT ![key] = u]
  BY SlidingTable, Zenon DEF Sliding!Finish
<1>2. TableInv(WindowEntry) /\ None \notin WindowEntry
  BY LimitersAssumption DEF SlidingInv, WindowEntry
<1>3. /\ TableInv(WindowEntry)'
      /\ key \in LimiterKeys
      /\ key \notin disturbed => table[key] = call[p].id /\ entry'[table[key]] = e
      /\ \A k \in LimiterKeys \ {key} : table[k] # None => entry'[table[k]] = entry[table[k]]
      /\ \A i \in Ids : entry'[i] \in {entry[i], e, None}
  BY <1>1, <1>2, TableFinish, Zenon
<1>4. /\ usage' \in [LimiterKeys -> Usage]
      /\ \A k \in LimiterKeys \ {key} : usage'[k] = usage[k]
      /\ key \notin disturbed => usage'[key] = u
  BY <1>1, <1>3 DEF SlidingInv
<1>5. \A i \in Ids : entry'[i] # None => Aligned(entry'[i])
  BY <1>3 DEF SlidingInv
<1>6. ASSUME NEW k \in LimiterKeys \ disturbed PROVE Counted(k)'
  <2>0. Counted(k)
    BY DEF SlidingInv
  <2>1. CASE k # key
    BY <1>1, <1>3, <1>4, <2>0, <2>1, CountedKept
  <2>2. CASE k = key
    <3>1. table[key] = call[p].id /\ call[p].id # None /\ entry'[table[key]] = e /\ usage'[key] = u
      BY <1>2, <1>3, <1>4, <1>6, <2>2 DEF TableInv
    <3>2. WithinLimit(u) /\ Agree(e, u)
      BY <1>6, <2>0, <2>2, <3>1
    <3> QED
      BY <1>1, <2>2, <3>1, <3>2 DEF Counted, WithinLimit, Agree, Sliding!Weighted, Sliding!Window, Sliding!Limit
  <2> QED
    BY <2>1, <2>2
<1>7. (\A i \in Ids : entry[i] # None => Aligned(entry[i]))'
  BY <1>5 DEF Aligned, Sliding!Window
<1> QED
  BY <1>1, <1>3, <1>4, <1>6, <1>7 DEF SlidingInv, Sliding!Window

\* AllowN: the estimate, wherever its rounding went, leaves room for what is allowed.
LEMMA EstimatedUse ==
    ASSUME phase \in 0 .. Sliding!Window - 1, NEW e \in WindowEntry, NEW n \in Nat,
           NEW est \in Sliding!Estimates(e), est + n <= Sliding!Limit
    PROVE  e.curr + n <= Sliding!Limit /\ (e.curr + n) + Sliding!Weighted(e.prev) <= Sliding!Limit + 1
<1> DEFINE W == Sliding!Window
           w == Sliding!Weighted(e.prev)
<1>1. e.curr \in Nat /\ e.prev \in Nat /\ W \in Nat \ {0} /\ Sliding!Limit \in Nat /\ phase \in 0 .. W - 1
  BY SlidingConstants DEF WindowEntry
<1>2. w \in Nat
  BY <1>1, WeightedUse
<1>3. \/ est = e.curr + w
      \/ est = e.curr + (w - 1) /\ e.prev > 0 /\ w * W = e.prev * (W - phase)
  BY DEF Sliding!Estimates
<1>4. ASSUME e.prev > 0, w * W = e.prev * (W - phase) PROVE w >= 1
  <2> HIDE DEF w, W
  <2>1. W - phase \in Nat \ {0}
    BY <1>1
  <2>2. e.prev * 1 <= e.prev * (W - phase)
    BY <1>1, <2>1, Products
  <2> QED
    BY <1>1, <1>2, <1>4, <2>2
<1> HIDE DEF w, W
<1>5. e.curr + n <= Sliding!Limit /\ (e.curr + n) + w <= Sliding!Limit + 1
  BY <1>1, <1>2, <1>3, <1>4
<1> QED
  BY <1>5 DEF w

\* AllowN and Remaining.
LEMMA SlidingUse ==
    ASSUME SlidingInv, NEW p \in Procs, Sliding!AllowN(p) \/ Sliding!Remaining(p)
    PROVE  SlidingInv'
<1> DEFINE id == call[p].id
           key == call[p].key
           n == call[p].n
           a == Sliding!Advance(entry[id])
           used == usage[key]
<1>1. call[p].at = "use" /\ phase' = phase
  BY DEF Sliding!AllowN, Sliding!Remaining
<1>2. id \in Ids /\ key \in LimiterKeys /\ n \in Nat /\ entry[id] \in WindowEntry /\ Aligned(entry[id])
  <2>1. TableInv(WindowEntry)
    BY DEF SlidingInv
  <2>2. id # None /\ id \in Ids /\ key \in LimiterKeys /\ n \in Nat
    BY <1>1, <2>1, CallFields DEF TableInv
  <2>3. entry[id] \in WindowEntry /\ entry[id] # None
    BY <2>1, <2>2 DEF TableInv
  <2> QED
    BY <2>2, <2>3 DEF SlidingInv
<1>3. used \in Usage /\ phase \in 0 .. Sliding!Window - 1 /\ Sliding!Window \in Nat \ {0}
  BY <1>2, SlidingConstants DEF SlidingInv
<1>4. /\ a \in WindowEntry /\ a.age = phase
      /\ Agree(entry[id], used) => used.curr = a.curr /\ used.prev = a.prev
  BY <1>2, <1>3, AdvancedEntry
<1>5. Counted(key) /\ id = table[key] /\ id # None
      => used.curr = a.curr /\ used.prev = a.prev /\ WithinLimit(used)
  BY <1>4 DEF Counted
<1> HIDE DEF a
<1>6. CASE Sliding!Finish(p, a, used)
  <2>1. Aligned(a)
    BY <1>3, <1>4 DEF Aligned
  <2>2. used.curr = a.curr /\ used.prev = a.prev => Agree(a, used)
    BY <1>3, <1>4 DEF Agree
  <2> QED
    BY <1>1, <1>3, <1>4, <1>5, <1>6, <2>1, <2>2, SlidingFinish
<1>7. ASSUME NEW est \in Sliding!Estimates(a), est + n <= Sliding!Limit,
             Sliding!Finish(p, [a EXCEPT !.curr = @ + n], [used EXCEPT !.curr = @ + n])
      PROVE  SlidingInv'
  <2> DEFINE b == [a EXCEPT !.curr = @ + n]
             u == [used EXCEPT !.curr = @ + n]
  <2>1. /\ b \in WindowEntry /\ b.age = phase /\ b.curr = a.curr + n /\ b.prev = a.prev
        /\ u \in Usage /\ u.curr = used.curr + n /\ u.prev = used.prev
    BY <1>2, <1>3, <1>4 DEF WindowEntry, Usage
  <2>2. a.curr + n <= Sliding!Limit /\ (a.curr + n) + Sliding!Weighted(a.prev) <= Sliding!Limit + 1
    BY <1>2, <1>3, <1>4, <1>7, EstimatedUse
  <2>3. Sliding!Finish(p, b, u)
    BY <1>7
  <2> HIDE DEF b, u
  <2>4. Aligned(b)
    BY <1>3, <2>1 DEF Aligned
  <2>5. ASSUME used.curr = a.curr, used.prev = a.prev PROVE WithinLimit(u) /\ Agree(b, u)
    <3>1. u.curr = a.curr + n /\ u.prev = a.prev
      BY <2>1, <2>5
    <3>2. WithinLimit(u)
      BY <2>2, <3>1 DEF WithinLimit
    <3>3. Agree(b, u)
      BY <1>3, <2>1, <3>1, SlidingConstants DEF Agree
    <3> QED
      BY <3>2, <3>3
  <2> QED
    BY <1>1, <1>5, <2>1, <2>3, <2>4, <2>5, SlidingFinish
<1> QED
  BY <1>6, <1>7 DEF Sliding!AllowN, Sliding!Remaining, a

\* A key without an entry has not been used in the last two windows, one whose entry was
\* idle long enough included.
LEMMA CountForgotten ==
    ASSUME SlidingInv, NEW k \in LimiterKeys, Counted(k), 2 * Sliding!Window - 1 <= slidingIdle,
           table[k] = None \/ entry[table[k]].age > slidingIdle
    PROVE  usage[k] = NoUsage
<1>1. CASE table[k] = None
  BY <1>1 DEF Counted
<1>2. CASE table[k] # None
  <2>1. entry[table[k]] \in WindowEntry /\ usage[k] \in Usage
    BY <1>2 DEF SlidingInv, TableInv
  <2>2. entry[table[k]].age \in Nat /\ Sliding!Window \in Nat \ {0} /\ slidingIdle \in Int
    BY <2>1, SlidingConstants, LimitersAssumption DEF WindowEntry
  <2>3. entry[table[k]].age >= 2 * Sliding!Window /\ entry[table[k]].age >= Sliding!Window
    BY <1>2, <2>2
  <2>4. usage[k].curr = 0 /\ usage[k].prev = 0
    BY <1>2, <2>2, <2>3 DEF Counted, Agree
  <2> QED
    BY <2>1, <2>4 DEF Usage, NoUsage
<1> QED
  BY <1>1, <1>2

\* Counted, of a key whose entry is new, or dropped.
LEMMA CountRenewed ==
    ASSUME phase \in 0 .. Sliding!Window - 1, phase' = phase,
           NEW k \in LimiterKeys, usage'[k] = NoUsage,
           table'[k] = None \/ entry'[table'[k]] = Sliding!NewEntry
    PROVE  Counted(k)'
<1>1. /\ NoUsage.curr = 0 /\ NoUsage.prev = 0
      /\ Sliding!NewEntry.age = phase /\ Sliding!NewEntry.curr = 0 /\ Sliding!NewEntry.prev = 0
  BY DEF NoUsage, Sliding!NewEntry
<1>2. Sliding!Weighted(0) \in Nat /\ Sliding!Weighted(0) <= 0 /\ Sliding!Limit \in Nat
  BY WeightedUse, SlidingConstants
<1>3. WithinLimit(NoUsage)
  BY <1>1, <1>2 DEF WithinLimit
<1>4. Agree(Sliding!NewEntry, NoUsage)
  BY <1>1, SlidingConstants DEF Agree
<1>5. WithinLimit(usage[k])'
  BY <1>3 DEF WithinLimit, Sliding!Weighted, Sliding!Window, Sliding!Limit
<1>6. table'[k] # None => Agree(entry[table[k]], usage[k])'
  BY <1>4 DEF Agree, Sliding!Window
<1> QED
  BY <1>5, <1>6 DEF Counted, NoUsage

\* The write-locked part of getEntry.
LEMMA SlidingCreate ==
    ASSUME SlidingInv, NEW p \in Procs, Sliding!Create(p, Sliding!NewEntry, Sliding!Unused), phase' = phase,
           2 * Sliding!Window - 1 <= slidingIdle
    PROVE  SlidingInv'
<1> DEFINE kept == Sliding!Collected
           key == call[p].key
           id == IF kept[key] # None THEN kept[key]
                 ELSE CHOOSE i \in Sliding!Free(kept) : TRUE
           new == Sliding!NewEntry
<1>0. TableInv(WindowEntry) /\ usage \in [LimiterKeys -> Usage] /\ NoUsage \in Usage
  BY DEF SlidingInv, NoUsage, Usage
<1>1. /\ call[p].at = "create"
      /\ kept[key] = None => Sliding!Free(kept) # {}
      /\ table' = [kept EXCEPT ![key] = id]
      /\ call' = [call EXCEPT ![p].at = "use", ![p].id = id]
      /\ Kept(IF kept[key] # None THEN entry ELSE [entry EXCEPT ![id] = new])
      /\ sinceGC' \in {0, sinceGC}
      /\ Disturb(Orphaned(kept), NoUsage)
  <2>1. /\ call[p].at = "create"
        /\ kept[key] = None => Sliding!Free(kept) # {}
        /\ table' = [kept EXCEPT ![key] = id]
        /\ call' = [call EXCEPT ![p].at = "use", ![p].id = id]
        /\ Sliding!Keep(IF kept[key] # None THEN entry ELSE [entry EXCEPT ![id] = new])
        /\ sinceGC' = IF Sliding!Collects THEN 0 ELSE sinceGC
        /\ Sliding!Disturb(Sliding!Orphaned(kept), NoUsage)
    BY Zenon DEF Sliding!Create, Sliding!Unused, NoUsage
  <2> HIDE DEF kept, id, new
  <2> QED
    BY <2>1, SlidingTable
<1>2. /\ kept \in [LimiterKeys -> Ids \cup {None}]
      /\ \A k \in LimiterKeys : kept[k] \in {table[k], None}
      /\ \A k \in LimiterKeys : kept[k] = None => table[k] = None \/ entry[table[k]].age > slidingIdle
  <2>1. kept = Collected(slidingIdle)
    BY SlidingTable
  <2> HIDE DEF kept
  <2> QED
    BY <1>0, <2>1, CollectedTable
<1> HIDE DEF kept
<1>3. key \in LimiterKeys /\ call[p].id = None
  BY <1>0, <1>1, CallFields, Zenon DEF TableInv
<1>4. /\ id \in Ids
      /\ IF kept[key] # None THEN id = kept[key] ELSE id \notin Held \cup {kept[k] : k \in LimiterKeys}
  <2>2. CASE kept[key] # None
    BY <1>2, <1>3, <2>2
  <2>3. CASE kept[key] = None
    <3>1. id \in Sliding!Free(kept)
      BY <1>1, <2>3, Zenon
    <3> QED
      BY <2>3, <3>1, SlidingTable DEF Sliding!Free
  <2> QED
    BY <2>2, <2>3
<1> HIDE DEF id
<1>5. /\ disturbed \subseteq disturbed' /\ disturbed' \subseteq LimiterKeys
      /\ Orphaned(kept) \subseteq disturbed'
      /\ usage' \in [LimiterKeys -> Usage]
      /\ \A k \in LimiterKeys \ disturbed' : k \notin disturbed /\ usage'[k] = usage[k]
  <2>1. Orphaned(kept) \in SUBSET LimiterKeys
    BY DEF Orphaned
  <2> QED
    BY <1>0, <1>1, <2>1, DisturbedKeys, Zenon
<1>6. \A k \in LimiterKeys : kept[k] # table[k] /\ table[k] \in Held => k \in disturbed'
  BY <1>0, <1>2, <1>5, OrphanedKeys
<1>7. new \in WindowEntry /\ None \notin WindowEntry /\ Aligned(new)
  <2>1. phase \in 0 .. Sliding!Window - 1 /\ Sliding!Window \in Nat
    BY SlidingConstants DEF SlidingInv
  <2> QED
    BY <2>1, LimitersAssumption DEF WindowEntry, Sliding!NewEntry, Aligned
<1>8. sinceGC' \in Int
  BY <1>0, <1>1 DEF TableInv
<1> HIDE DEF new
<1>9. /\ TableInv(WindowEntry)'
      /\ \A k \in LimiterKeys : kept[k] # None => table'[k] = table[k] /\ entry'[table'[k]] = entry[table[k]]
      /\ \A k \in LimiterKeys \ {key} : kept[k] = None => table'[k] = None
      /\ kept[key] = None => table'[key] # None /\ entry'[table'[key]] = new
      /\ \A i \in Ids : entry'[i] \in {entry[i], new, None}
  <2>1. Created(WindowEntry, p, kept, id, new)
    BY <1>1, <1>2, <1>4, <1>5, <1>6, <1>7, <1>8 DEF Created
  <2> QED
    BY <1>0, <2>1, TableCreate
<1>10. (\A i \in Ids : entry[i] # None => Aligned(entry[i]))'
  <2>1. \A i \in Ids : entry'[i] # None => Aligned(entry'[i])
    BY <1>7, <1>9 DEF SlidingInv
  <2> QED
    BY <2>1 DEF Aligned, Sliding!Window
<1>11. ASSUME NEW k \in LimiterKeys \ disturbed' PROVE Counted(k)'
  <2>1. Counted(k) /\ usage'[k] = usage[k] /\ phase \in 0 .. Sliding!Window - 1
    BY <1>5, <1>11 DEF SlidingInv
  <2>2. CASE kept[k] # None
    BY <1>9, <2>1, <2>2, CountedKept
  <2>3. CASE kept[k] = None
    <3>1. usage[k] = NoUsage
      BY <1>2, <2>1, <2>3, CountForgotten
    <3>2. table'[k] = None \/ entry'[table'[k]] = Sliding!NewEntry
      BY <1>9, <2>3 DEF new
    <3> QED
      BY <2>1, <3>1, <3>2, CountRenewed
  <2> QED
    BY <2>2, <2>3
<1>12. (phase \in 0 .. Sliding!Window - 1)'
  BY DEF SlidingInv, Sliding!Window
<1> QED
  BY <1>5, <1>9, <1>10, <1>11, <1>12 DEF SlidingInv

\* The map drops entries, of the keys that are disturbed or of those that were idle.
LEMMA SlidingDrop ==
    ASSUME SlidingInv, phase' = phase, 2 * Sliding!Window - 1 <= slidingIdle,
           NEW kept \in [LimiterKeys -> Ids \cup {None}],
           \A k \in LimiterKeys : kept[k] \in {table[k], None},
           table' = kept, call' = call, Kept(entry), sinceGC' \in Int,
           disturbed \subseteq disturbed', disturbed' \subseteq LimiterKeys,
           usage' \in [LimiterKeys -> Usage],
           \A k \in LimiterKeys \ disturbed' : usage'[k] = usage[k],
           \A k \in LimiterKeys : kept[k] # table[k] /\ table[k] \in Held => k \in disturbed',
           \A k \in LimiterKeys \ disturbed' :
             kept[k] = None => table[k] = None \/ entry[table[k]].age > slidingIdle
    PROVE  SlidingInv'
<1>0. TableInv(WindowEntry)
  BY DEF SlidingInv
<1>1. /\ TableInv(WindowEntry)'
      /\ \A k \in LimiterKeys : kept[k] # None => entry'[kept[k]] = entry[table[k]]
  BY <1>0, TableDrop
<1>2. \A i \in Ids : entry'[i] \in {entry[i], None}
  BY DEF Kept
<1>3. (\A i \in Ids : entry[i] # None => Aligned(entry[i]))'
  <2>1. \A i \in Ids : entry'[i] # None => Aligned(entry'[i])
    BY <1>2 DEF SlidingInv
  <2> QED
    BY <2>1 DEF Aligned, Sliding!Window
<1>4. ASSUME NEW k \in LimiterKeys \ disturbed' PROVE Counted(k)'
  <2>1. Counted(k) /\ usage'[k] = usage[k] /\ phase \in 0 .. Sliding!Window - 1
    BY <1>4 DEF SlidingInv
  <2>2. CASE kept[k] # None
    BY <1>1, <2>1, <2>2, CountedKept
  <2>3. CASE kept[k] = None
    <3>1. usage[k] = NoUsage
      BY <1>4, <2>1, <2>3, CountForgotten
    <3> QED
      BY <2>1, <2>3, <3>1, CountRenewed
  <2> QED
    BY <2>2, <2>3
<1>5. (phase \in 0 .. Sliding!Window - 1)'
  BY DEF SlidingInv, Sliding!Window
<1> QED
  BY <1>1, <1>3, <1>4, <1>5 DEF SlidingInv

\* Another key's collection, and Reset.
LEMMA SlidingShrinks ==
    ASSUME SlidingInv, phase' = phase, 2 * Sliding!Window - 1 <= slidingIdle,
           Sliding!CreateElsewhere(NoUsage) \/ \E k \in LimiterKeys : Sliding!Reset(k, NoUsage)
    PROVE  SlidingInv'
<1>0. TableInv(WindowEntry) /\ usage \in [LimiterKeys -> Usage] /\ NoUsage \in Usage
  BY DEF SlidingInv, NoUsage, Usage
<1>1. CASE Sliding!CreateElsewhere(NoUsage)
  <2> DEFINE kept == Collected(slidingIdle)
  <2>1. /\ table' = kept /\ call' = call /\ Kept(entry) /\ sinceGC' = 0
        /\ Disturb(Orphaned(kept), NoUsage)
    BY <1>1, SlidingTable, Zenon DEF Sliding!CreateElsewhere
  <2>2. /\ kept \in [LimiterKeys -> Ids \cup {None}]
        /\ \A k \in LimiterKeys : kept[k] \in {table[k], None}
        /\ \A k \in LimiterKeys : kept[k] = None => table[k] = None \/ entry[table[k]].age > slidingIdle
    BY <1>0, CollectedTable
  <2> HIDE DEF kept
  <2>3. Orphaned(kept) \in SUBSET LimiterKeys
    BY DEF Orphaned
  <2>4. /\ disturbed \subseteq disturbed' /\ disturbed' \subseteq LimiterKeys
        /\ Orphaned(kept) \subseteq disturbed'
        /\ usage' \in [LimiterKeys -> Usage]
        /\ \A k \in LimiterKeys \ disturbed' : k \notin disturbed /\ usage'[k] = usage[k]
    BY <1>0, <2>1, <2>3, DisturbedKeys, Zenon
  <2>5. \A k \in LimiterKeys : kept[k] # table[k] /\ table[k] \in Held => k \in disturbed'
    BY <1>0, <2>2, <2>4, OrphanedKeys
  <2>6. /\ sinceGC' \in Int
        /\ \A k \in LimiterKeys \ disturbed' :
             kept[k] = None => table[k] = None \/ entry[table[k]].age > slidingIdle
        /\ \A k \in LimiterKeys \ disturbed' : usage'[k] = usage[k]
    BY <2>1, <2>2, <2>4
  <2> QED
    BY <2>1, <2>2, <2>4, <2>5, <2>6, SlidingDrop
<1>2. ASSUME NEW j \in LimiterKeys, Sliding!Reset(j, NoUsage) PROVE SlidingInv'
  <2> DEFINE kept == [table EXCEPT ![j] = None]
  <2>1. table' = kept /\ call' = call /\ Kept(entry) /\ sinceGC' = sinceGC /\ Disturb({j}, NoUsage)
    BY <1>2, SlidingTable, Zenon DEF Sliding!Reset
  <2>2. /\ kept \in [LimiterKeys -> Ids \cup {None}]
        /\ \A k \in LimiterKeys : kept[k] \in {table[k], None}
        /\ \A k \in LimiterKeys \ {j} : kept[k] = table[k]
        /\ sinceGC \in Int
    BY <1>0 DEF TableInv
  <2> HIDE DEF kept
  <2>3. /\ disturbed \subseteq disturbed' /\ disturbed' \subseteq LimiterKeys
        /\ {j} \subseteq disturbed'
        /\ usage' \in [LimiterKeys -> Usage]
        /\ \A k \in LimiterKeys \ disturbed' : k \notin disturbed /\ usage'[k] = usage[k]
    BY <1>0, <2>1, DisturbedKeys, Zenon
  <2>4. /\ \A k \in LimiterKeys : kept[k] # table[k] /\ table[k] \in Held => k \in disturbed'
        /\ \A k \in LimiterKeys \ disturbed' :
             kept[k] = None => table[k] = None \/ entry[table[k]].age > slidingIdle
    BY <2>2, <2>3
  <2> QED
    BY <2>1, <2>2, <2>3, <2>4, SlidingDrop
<1> QED
  BY <1>1, <1>2
\* The clock's place in its window.
LEMMA NextPhase ==
    ASSUME NEW W \in Nat \ {0}, NEW p \in 0 .. W - 1
    PROVE  /\ p + 1 < W => (p + 1) % W = p + 1
           /\ p + 1 >= W => p + 1 = W /\ (p + 1) % W = 0
<1>1. p + 1 >= W => p + 1 = W
  OBVIOUS
<1>2. p + 1 < W => (p + 1) % W = p + 1
  OBVIOUS
<1>3. W % W = 0
  OBVIOUS
<1> QED
  BY <1>1, <1>2, <1>3

\* The age x of an entry becomes y as the clock, at p, moves on: the entry gets stuck in
\* its window exactly as the clock leaves it.
LEMMA NextAge ==
    ASSUME NEW W \in Nat \ {0}, NEW p \in 0 .. W - 1, NEW old \in Nat, 2 * W <= old, NEW x \in Nat,
           x < W => x = p, W <= x /\ x < 2 * W => x = W + p,
           NEW y, y = IF x + 1 > old THEN old ELSE x + 1
    PROVE  /\ y \in Nat
           /\ p + 1 < W => /\ (y < W <=> x < W) /\ (y < 2 * W <=> x < 2 * W)
                           /\ y < W => y = p + 1
                           /\ W <= y /\ y < 2 * W => y = W + (p + 1)
           /\ p + 1 >= W => y >= W /\ (y < 2 * W <=> x < W) /\ (y < 2 * W => y = W)
<1>1. y \in Nat
  OBVIOUS
<1>2. CASE x < W
  BY <1>2
<1>3. CASE W <= x /\ x < 2 * W
  BY <1>3
<1>4. CASE 2 * W <= x
  <2>1. 2 * W <= y
    BY <1>4
  <2> QED
    BY <1>4, <2>1
<1> QED
  BY <1>1, <1>2, <1>3, <1>4

\* The weight of what was used, when the clock has moved on.
LEMMA NextWeight ==
    ASSUME phase \in 0 .. Sliding!Window - 1, phase' = (phase + 1) % Sliding!Window
    PROVE  /\ phase' \in 0 .. Sliding!Window - 1
           /\ \A n \in Nat :
                LET w == (n * (Sliding!Window - phase')) \div Sliding!Window
                IN  w \in Nat /\ w <= n /\ (phase + 1 < Sliding!Window => w <= Sliding!Weighted(n))
<1> DEFINE W == Sliding!Window
<1>1. W \in Nat \ {0}
  BY SlidingConstants
<1>2. /\ phase \in 0 .. W - 1 /\ phase' = (phase + 1) % W
      /\ \A n : Sliding!Weighted(n) = (n * (W - phase)) \div W
  BY DEF Sliding!Weighted
<1> HIDE DEF W
<1>3. /\ phase + 1 < W => phase' = phase + 1
      /\ phase + 1 >= W => phase' = 0
  BY <1>1, <1>2, NextPhase
<1>4. phase' \in 0 .. W - 1 /\ phase' \in phase' .. W - 1
  BY <1>1, <1>2, <1>3
<1>5. phase + 1 < W => phase' \in phase .. W - 1
  BY <1>1, <1>2, <1>3
<1>6. ASSUME NEW n \in Nat
      PROVE  /\ (n * (W - phase')) \div W \in Nat /\ (n * (W - phase')) \div W <= n
             /\ phase + 1 < W => (n * (W - phase')) \div W <= Sliding!Weighted(n)
  <2>1. (n * (W - phase')) \div W \in Nat /\ (n * (W - phase')) \div W <= n
    BY <1>1, <1>4, WeightedPart
  <2>2. phase + 1 < W => (n * (W - phase')) \div W <= (n * (W - phase)) \div W
    BY <1>1, <1>2, <1>5, WeightedPart, Zenon
  <2> QED
    BY <1>2, <2>1, <2>2
<1> QED
  BY <1>4, <1>6 DEF W


\* The clock moves on: an entry gets stuck in its window exactly as the clock leaves it.
LEMMA SlidingTick ==
    ASSUME SlidingInv, phase' = (phase + 1) % Sliding!Window,
           Sliding!Tick(Sliding!OldAge, [k \in LimiterKeys |-> Sliding!Receded(usage[k])])
    PROVE  SlidingInv'
<1> DEFINE W == Sliding!Window
           Aged(e) == [e EXCEPT !.age = Sliding!UpTo(Sliding!OldAge, @ + 1)]
<1>0. TableInv(WindowEntry) /\ usage \in [LimiterKeys -> Usage] /\ None \notin WindowEntry
  BY LimitersAssumption DEF SlidingInv, WindowEntry
<1>1. /\ entry' = [i \in Ids |-> IF entry[i] = None THEN None ELSE Aged(entry[i])]
      /\ sinceGC' = Sliding!UpTo(gcInterval, sinceGC + 1)
      /\ usage' = [k \in LimiterKeys |-> Sliding!Receded(usage[k])]
      /\ UNCHANGED <<table, call, disturbed>>
  BY SlidingTable, Zenon DEF Sliding!Tick
<1>2. W \in Nat \ {0} /\ phase \in 0 .. W - 1 /\ phase \in Nat /\ phase' = (phase + 1) % W
  BY SlidingConstants DEF SlidingInv
<1>4. Sliding!OldAge \in Nat /\ Sliding!OldAge >= 2 * W
  <2>1. slidingIdle \in Int
    BY LimitersAssumption
  <2>2. Sliding!OldAge = IF slidingIdle >= 2 * W THEN slidingIdle + 1 ELSE 2 * W
    BY DEF Sliding!OldAge
  <2> HIDE DEF W
  <2> QED
    BY <1>2, <2>1, <2>2
<1>5. ASSUME NEW e \in WindowEntry
      PROVE  /\ Aged(e) \in WindowEntry /\ Aged(e).curr = e.curr /\ Aged(e).prev = e.prev
             /\ Aged(e).age = IF e.age + 1 > Sliding!OldAge THEN Sliding!OldAge ELSE e.age + 1
  BY <1>4 DEF WindowEntry, Sliding!UpTo
<1>6. sinceGC' \in Int
  BY <1>0, <1>1, LimitersAssumption DEF TableInv, Sliding!UpTo
<1>7. /\ entry' \in [Ids -> WindowEntry \cup {None}]
      /\ \A i \in Ids : entry'[i] = None <=> entry[i] = None
      /\ \A i \in Ids : entry[i] # None => entry[i] \in WindowEntry /\ entry'[i] = Aged(entry[i])
  <2>1. \A i \in Ids : entry[i] # None => entry[i] \in WindowEntry
    BY <1>0 DEF TableInv
  <2> HIDE DEF Aged
  <2> QED
    BY <1>0, <1>1, <1>5, <2>1
<1>8. TableInv(WindowEntry)'
  BY <1>0, <1>1, <1>6, <1>7, TableTick, Zenon
<1>9. /\ usage' \in [LimiterKeys -> Usage]
      /\ \A k \in LimiterKeys :
           /\ phase + 1 < W => usage'[k] = usage[k]
           /\ phase + 1 >= W => usage'[k].curr = 0 /\ usage'[k].prev = usage[k].curr
  <2>1. ASSUME NEW u \in Usage
        PROVE  /\ Sliding!Receded(u) \in Usage
               /\ phase + 1 < W => Sliding!Receded(u) = u
               /\ phase + 1 >= W => Sliding!Receded(u).curr = 0 /\ Sliding!Receded(u).prev = u.curr
    <3>1. u.curr \in Nat
      BY DEF Usage
    <3>2. CASE phase + 1 < W
      <4>1. Sliding!Receded(u) = u
        BY <3>2 DEF Sliding!Receded
      <4> QED
        BY <1>2, <3>2, <4>1
    <3>3. CASE ~(phase + 1 < W)
      <4>1. Sliding!Receded(u) = [curr |-> 0, prev |-> u.curr]
        BY <3>3 DEF Sliding!Receded
      <4>2. [curr |-> 0, prev |-> u.curr] \in Usage
        BY <3>1 DEF Usage
      <4> QED
        BY <3>3, <4>1, <4>2
    <3> QED
      BY <3>2, <3>3
  <2> HIDE DEF W
  <2> QED
    BY <1>0, <1>1, <2>1
<1> HIDE DEF W, Aged
<1>3. /\ phase + 1 < W => phase' = phase + 1
      /\ phase + 1 >= W => phase' = 0
      /\ phase + 1 < W \/ phase + 1 >= W
  BY <1>2, NextPhase
<1>10. ASSUME NEW e \in WindowEntry, Aligned(e)
       PROVE  LET x == e.age
                  y == Aged(e).age
              IN  /\ phase + 1 < W => /\ (y < W <=> x < W) /\ (y < 2 * W <=> x < 2 * W)
                                      /\ y < W => y = phase + 1
                                      /\ W <= y /\ y < 2 * W => y = W + (phase + 1)
                  /\ phase + 1 >= W => y >= W /\ (y < 2 * W <=> x < W) /\ (y < 2 * W => y = W)
                  /\ x \in Nat /\ y \in Nat
  <2>1. e.age \in Nat
    BY DEF WindowEntry
  <2>2. /\ e.age < W => e.age = phase
        /\ W <= e.age /\ e.age < 2 * W => e.age = W + phase
    BY <1>10 DEF Aligned, W
  <2>3. Aged(e).age = IF e.age + 1 > Sliding!OldAge THEN Sliding!OldAge ELSE e.age + 1
    BY <1>5
  <2> QED
    BY <1>2, <1>4, <2>1, <2>2, <2>3, NextAge
<1>11. (\A i \in Ids : entry[i] # None => Aligned(entry[i]))'
  <2>1. ASSUME NEW i \in Ids, entry'[i] # None
        PROVE  /\ entry'[i].age < W => entry'[i].age = phase'
               /\ W <= entry'[i].age /\ entry'[i].age < 2 * W => entry'[i].age = W + phase'
    <3>1. entry[i] \in WindowEntry /\ entry'[i] = Aged(entry[i]) /\ Aligned(entry[i])
      BY <1>7, <2>1 DEF SlidingInv
    <3> DEFINE y == Aged(entry[i]).age
    <3>2. CASE phase + 1 < W
      <4>1. /\ y < W => y = phase + 1
            /\ W <= y /\ y < 2 * W => y = W + (phase + 1)
        BY <1>10, <3>1, <3>2
      <4> QED
        BY <1>3, <3>1, <3>2, <4>1
    <3>3. CASE phase + 1 >= W
      <4>1. y >= W /\ (y < 2 * W => y = W) /\ y \in Nat
        BY <1>10, <3>1, <3>3
      <4> HIDE DEF y
      <4>2. ~(y < W) /\ (y < 2 * W => y = W + 0)
        BY <1>2, <4>1
      <4> QED
        BY <1>3, <3>1, <3>3, <4>2 DEF y
    <3> QED
      BY <1>3, <3>2, <3>3
  <2> QED
    BY <2>1 DEF Aligned, W, Sliding!Window
<1>12. ASSUME NEW k \in LimiterKeys \ disturbed' PROVE Counted(k)'
  <2> DEFINE u == usage[k]
             v == usage'[k]
  <2>1. /\ Counted(k) /\ u \in Usage /\ v \in Usage /\ table'[k] = table[k]
    BY <1>0, <1>1, <1>9 DEF SlidingInv
  <2>n. /\ u.curr \in Nat /\ u.prev \in Nat /\ v.curr \in Nat /\ v.prev \in Nat
        /\ Sliding!Limit \in Nat
    BY <2>1, SlidingConstants DEF Usage
  <2>2. /\ phase + 1 < W => v = u
        /\ phase + 1 >= W => v.curr = 0 /\ v.prev = u.curr
    BY <1>9
  <2>w. WithinLimit(usage[k])'
    <3> DEFINE x == (v.prev * (W - phase')) \div W
               y == Sliding!Weighted(u.prev)
               L == Sliding!Limit
    <3>1. u.curr <= L /\ u.curr + y <= L + 1
      BY <2>1 DEF Counted, WithinLimit
    <3>2. y \in Nat
      BY <1>2, <2>n, WeightedUse DEF W
    <3>3. x \in Nat /\ x <= v.prev /\ (phase + 1 < W => x <= Sliding!Weighted(v.prev))
      BY <1>2, <2>n, NextWeight, Zenon DEF W
    <3> HIDE DEF x, y, L
    <3>4. v.curr <= L /\ v.curr + x <= L + 1
      <4>1. CASE phase + 1 < W
        <5>1. v = u /\ x <= y
          BY <2>2, <3>3, <4>1 DEF y
        <5> QED
          BY <2>n, <3>1, <3>2, <3>3, <5>1 DEF L
      <4>2. CASE phase + 1 >= W
        <5>1. v.curr = 0 /\ x <= u.curr
          BY <2>2, <3>3, <4>2
        <5> QED
          BY <2>n, <3>1, <3>3, <5>1 DEF L
      <4> QED
        BY <1>3, <4>1, <4>2
    <3> QED
      BY <3>4 DEF x, L, WithinLimit, Sliding!Weighted, W, Sliding!Window, Sliding!Limit
  <2>3. CASE table[k] = None
    <3>0. u = NoUsage
      BY <2>1, <2>3 DEF Counted
    <3>1. u.curr = 0 /\ u.prev = 0
      BY <3>0 DEF NoUsage
    <3>2. v.curr = 0 /\ v.prev = 0
      BY <1>3, <2>2, <3>1
    <3>3. v = NoUsage
      BY <2>1, <3>2 DEF NoUsage, Usage
    <3> QED
      BY <2>1, <2>3, <2>w, <3>3 DEF Counted, NoUsage
  <2>4. CASE table[k] # None
    <3> DEFINE e == entry[table[k]]
               a == entry'[table[k]]
    <3>1. e \in WindowEntry /\ a = Aged(e) /\ Aligned(e)
      <4>1. table[k] \in Ids /\ e # None
        BY <1>0, <2>4 DEF TableInv
      <4> QED
        BY <1>7, <4>1 DEF SlidingInv
    <3>2. a.curr = e.curr /\ a.prev = e.prev /\ a.age \in Nat /\ e.age \in Nat
      BY <1>5, <1>10, <3>1
    <3>3. Agree(e, u)
      BY <2>1, <2>4 DEF Counted
    <3>4. /\ e.age < W => u.curr = e.curr /\ u.prev = e.prev
          /\ e.age >= W => u.curr = 0
          /\ W <= e.age /\ e.age < 2 * W => u.prev = e.curr
          /\ 2 * W <= e.age => u.prev = 0
      BY <3>3 DEF Agree, W
    <3>5. /\ phase + 1 < W => (a.age < W <=> e.age < W) /\ (a.age < 2 * W <=> e.age < 2 * W)
          /\ phase + 1 >= W => a.age >= W /\ (a.age < 2 * W <=> e.age < W)
      BY <1>10, <3>1
    <3> HIDE DEF e, a, u, v
    <3>6. /\ a.age < W => v.curr = a.curr /\ v.prev = a.prev
          /\ a.age >= W => v.curr = 0
          /\ W <= a.age /\ a.age < 2 * W => v.prev = a.curr
          /\ 2 * W <= a.age => v.prev = 0
      <4>1. CASE phase + 1 < W
        <5>1. /\ v = u /\ (a.age < W <=> e.age < W) /\ (a.age >= W <=> e.age >= W)
              /\ (W <= a.age <=> W <= e.age)
              /\ (a.age < 2 * W <=> e.age < 2 * W) /\ (2 * W <= a.age <=> 2 * W <= e.age)
          BY <1>2, <2>2, <3>2, <3>5, <4>1
        <5> QED
          BY <3>2, <3>4, <5>1
      <4>2. CASE phase + 1 >= W
        <5>1. /\ v.curr = 0 /\ v.prev = u.curr /\ ~(a.age < W)
              /\ (a.age < 2 * W => e.age < W) /\ (2 * W <= a.age => e.age >= W)
          BY <1>2, <2>2, <3>2, <3>5, <4>2
        <5> QED
          BY <3>2, <3>4, <5>1
      <4> QED
        BY <1>3, <4>1, <4>2
    <3>7. Agree(a, v)
      BY <3>6 DEF Agree, W
    <3>8. Agree(entry[table[k]], usage[k])'
      BY <2>1, <3>7 DEF a, v, Agree, Sliding!Window
    <3> QED
      BY <2>1, <2>4, <2>w, <3>8 DEF Counted
  <2> QED
    BY <2>3, <2>4
<1>13. (phase \in 0 .. Sliding!Window - 1)'
  <2>1. phase' \in 0 .. Sliding!Window - 1
    BY <1>2, NextWeight DEF W
  <2> QED
    BY <2>1 DEF Sliding!Window
<1> QED
  BY <1>8, <1>9, <1>11, <1>12, <1>13 DEF SlidingInv

\* A step that changes neither entries nor use keeps the counts.
LEMMA CountsKept ==
    ASSUME SlidingInv, TableInv(WindowEntry)', UNCHANGED <<table, entry, usage, disturbed, phase>>
    PROVE  SlidingInv'
<1>1. (phase \in 0 .. Sliding!Window - 1)' /\ (usage \in [LimiterKeys -> Usage])'
  BY DEF SlidingInv, Sliding!Window, Usage
<1>2. (\A i \in Ids : entry[i] # None => Aligned(entry[i]))'
  BY DEF SlidingInv, Aligned, Sliding!Window
<1>3. (\A k \in LimiterKeys \ disturbed : Counted(k))'
  BY CountedKept DEF SlidingInv
<1> QED
  BY <1>1, <1>2, <1>3 DEF SlidingInv

\* Every step of the sliding window keeps SlidingInv, if the idle timeout outlasts two
\* windows, as the one of NewSlidingWindow does.
LEMMA SlidingStep ==
    ASSUME 2 * Sliding!Window - 1 <= slidingIdle
    PROVE  SlidingInv /\ [Sliding!Next]_tableVars => SlidingInv'
<1> SUFFICES ASSUME SlidingInv, [Sliding!Next]_tableVars PROVE SlidingInv'
  OBVIOUS
<1>0. Sliding!Unused = NoUsage
  BY Zenon DEF Sliding!Unused, NoUsage
<1>1. ASSUME NEW p \in Procs, NEW k \in LimiterKeys, NEW n \in Amounts, Sliding!Lookup(p, k, n), phase' = phase
      PROVE  SlidingInv'
  <2>1. /\ call' = [call EXCEPT ![p] = [at |-> IF table[k] = None THEN "create" ELSE "use",
                                        key |-> k, n |-> n, id |-> table[k]]]
        /\ UNCHANGED <<table, entry, sinceGC, usage, disturbed>>
    BY <1>1, Zenon DEF Sliding!Lookup
  <2>2. TableInv(WindowEntry)'
    BY <2>1, LimitersAssumption, TableLookup, Zenon DEF SlidingInv
  <2> QED
    BY <1>1, <2>1, <2>2, CountsKept
<1>2. ASSUME NEW p \in Procs, \/ Sliding!Create(p, Sliding!NewEntry, Sliding!Unused) /\ phase' = phase
                              \/ Sliding!AllowN(p) \/ Sliding!Remaining(p)
      PROVE  SlidingInv'
  BY <1>2, SlidingCreate, SlidingUse
<1>3. ASSUME phase' = phase, \/ Sliding!CreateElsewhere(Sliding!Unused)
                             \/ \E k \in LimiterKeys : Sliding!Reset(k, Sliding!Unused)
      PROVE  SlidingInv'
  BY <1>0, <1>3, SlidingShrinks
<1>4. CASE UNCHANGED tableVars
  <2>1. UNCHANGED <<table, entry, sinceGC, call, usage, disturbed, phase>>
    BY <1>4 DEF tableVars
  <2>2. TableInv(WindowEntry)'
    BY <2>1 DEF SlidingInv, TableInv, CallRecord
  <2> QED
    BY <2>1, <2>2, CountsKept
<1> QED
  BY <1>1, <1>2, <1>3, <1>4, SlidingTick, Zenon DEF Sliding!Next

\* No aligned window allows a key more than the limit, and the current window and the
\* weighted previous one together no more than one above it, whatever calls, collections
\* and roundings interleave, unless the key was Reset or its entry was dropped in use:
\* for every limit and window, if the idle timeout outlasts two windows.
THEOREM WindowIsHeld ==
    ASSUME 2 * Sliding!Window - 1 <= slidingIdle
    PROVE  LimitersSpec => []WindowHolds
<1> DEFINE SInv == part = "sliding" => SlidingInv
<1>1. LimitersInit => SInv
  <2> SUFFICES ASSUME LimitersInit, part = "sliding" PROVE SlidingInv
    OBVIOUS
  <2>1. /\ table = [k \in LimiterKeys |-> None] /\ entry = [i \in Ids |-> None] /\ sinceGC = 0
        /\ call = [p \in Procs |-> IdleCall] /\ disturbed = {} /\ usage = [k \in LimiterKeys |-> NoUsage]
        /\ phase = 0
    BY SlidingTable, Zenon DEF LimitersInit, Sliding!Init, Sliding!TableInit, Sliding!Unused, NoUsage
  <2>2. TableInv(WindowEntry)
    BY <2>1, TableInit
  <2>3. phase \in 0 .. Sliding!Window - 1
    BY <2>1, SlidingConstants
  <2>4. usage \in [LimiterKeys -> Usage]
    BY <2>1 DEF Usage, NoUsage
  <2>5. \A k \in LimiterKeys : Counted(k)
    <3>1. Sliding!Weighted(0) \in Nat /\ Sliding!Weighted(0) <= 0 /\ Sliding!Limit \in Nat
      BY <2>3, WeightedUse, SlidingConstants
    <3> QED
      BY <2>1, <3>1 DEF Counted, WithinLimit, NoUsage
  <2> QED
    BY <2>1, <2>2, <2>3, <2>4, <2>5 DEF SlidingInv
<1>2. SInv /\ [LimitersNext]_<<part, limiterVars>> => SInv'
  BY LimitersSteps, SlidingStep
<1>3. SInv => WindowHolds
  BY DEF SlidingInv, Counted, WithinLimit, WindowHolds, Sliding!WindowHolds
<1> QED
  BY <1>1, <1>2, <1>3, PTL DEF LimitersSpec
==============================================================================
