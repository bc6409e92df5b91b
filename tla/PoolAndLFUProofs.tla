-------------------------- MODULE PoolAndLFUProofs --------------------------
(***************************************************************************)
(* Proofs about the bounded structures and the service that rests on one   *)
(* of them: the worker pool, for any number of tasks, workers and stoppers *)
(* and any queue size; the shutdown manager, for any set of hooks; the     *)
(* example service, whose hooks shut the pool down; and the LFU cache,     *)
(* which keeps to its capacity and evicts a least used item, for every set *)
(* of keys, capacity and bound on the frequencies.  The cache's invariant  *)
(* comes first, its theorems, with the library's facts about               *)
(* cardinalities, last.                                                    *)
(***************************************************************************)
EXTENDS Microservice, LFUCache, TLAPS

-----------------------------------------------------------------------------
(* The LFU cache: the invariant                                            *)

\* The types the argument needs; the history variable plays no part in it.
Types ==
    /\ items \subseteq Keys
    /\ freq \in [Keys -> 0..MaxFreq]
    /\ freqBuckets \in [1..MaxFreq -> Seq(Keys)]
    /\ minFreq \in 0 .. MaxFreq + 1

\* minFreq is at most every frequency.  It may be on an empty bucket, but not
\* when the cache is full, which is when evictMinFreq looks.
MinFreqInv ==
    /\ \A k \in items : minFreq <= freq[k]
    /\ Cardinality(items) >= Capacity => \E k \in items : freq[k] = minFreq

NoDuplicates(list) == \A i, j \in DOMAIN list : list[i] = list[j] => i = j
ListElements(list) == {list[i] : i \in DOMAIN list}

\* BucketsMatchItems, as a statement about the elements of the buckets.
BucketSets ==
    /\ \A k \in items : freq[k] \in 1..MaxFreq
    /\ \A f \in 1..MaxFreq : /\ NoDuplicates(freqBuckets[f])
                             /\ ListElements(freqBuckets[f]) = {k \in items : freq[k] = f}

LFUInv == Types /\ BucketSets /\ MinFreqInv /\ CapacityHolds

\* What the proofs use about the number of items; it follows from the finiteness of Keys.
Counting ==
    /\ Cardinality({}) = 0
    /\ \A S \in SUBSET Keys : Cardinality(S) \in Nat
    /\ \A S \in SUBSET Keys : \A k \in S : Cardinality(S \ {k}) = Cardinality(S) - 1
    /\ \A S \in SUBSET Keys : \A k \in Keys \ S : Cardinality(S \union {k}) = Cardinality(S) + 1

\* lfuList.remove takes out exactly the node it is given.
LEMMA WithoutFacts ==
    ASSUME NEW S, NEW list \in Seq(S), NoDuplicates(list), NEW k \in ListElements(list)
    PROVE  /\ Without(list, k) \in Seq(S)
           /\ NoDuplicates(Without(list, k))
           /\ ListElements(Without(list, k)) = ListElements(list) \ {k}
           /\ Without(list, k) = <<>> => ListElements(list) = {k}
           /\ Without(list, k) # <<>> => \E j \in ListElements(list) : j # k
<1> DEFINE pos == CHOOSE i \in DOMAIN list : list[i] = k
           w == Without(list, k)
<1>1. pos \in DOMAIN list /\ list[pos] = k
  BY DEF ListElements
<1>2. Len(list) \in Nat /\ DOMAIN list = 1..Len(list) /\ pos \in 1..Len(list)
  BY <1>1
<1>3. w = [i \in 1 .. Len(list) - 1 |-> IF i < pos THEN list[i] ELSE list[i + 1]]
  BY DEF Without
<1> HIDE DEF pos, w
<1>4. \A i \in 1 .. Len(list) - 1 : w[i] \in S
  BY <1>2, <1>3
<1>5. w \in Seq(S) /\ Len(w) = Len(list) - 1 /\ DOMAIN w = 1 .. Len(list) - 1
  <2>1. Len(list) - 1 \in Nat
    BY <1>2
  <2> QED
    BY <1>3, <1>4, <2>1
<1>6. NoDuplicates(w)
  <2> SUFFICES ASSUME NEW i \in DOMAIN w, NEW j \in DOMAIN w, w[i] = w[j] PROVE i = j
    BY DEF NoDuplicates
  <2> DEFINE Old(n) == IF n < pos THEN n ELSE n + 1
  <2>1. \A n \in 1 .. Len(list) - 1 : Old(n) \in 1..Len(list) /\ w[n] = list[Old(n)]
    BY <1>2, <1>3
  <2>2. i \in 1 .. Len(list) - 1 /\ j \in 1 .. Len(list) - 1
    BY <1>5
  <2>3. Old(i) = Old(j)
    <3> HIDE DEF Old
    <3> QED
      BY <1>2, <2>1, <2>2 DEF NoDuplicates
  <2> QED
    BY <1>2, <2>2, <2>3
<1>7. ListElements(w) \subseteq ListElements(list) \ {k}
  BY <1>1, <1>2, <1>3, <1>5 DEF ListElements, NoDuplicates
<1>8. ASSUME NEW x \in ListElements(list), x # k PROVE x \in ListElements(w)
  <2>1. PICK i \in 1..Len(list) : list[i] = x
    BY <1>2 DEF ListElements
  <2>2. i # pos
    BY <1>1, <1>8, <2>1
  <2>3. CASE i < pos
    <3>1. i \in 1 .. Len(list) - 1 /\ w[i] = list[i]
      BY <1>2, <1>3, <2>1, <2>3
    <3> QED
      BY <1>5, <2>1, <3>1 DEF ListElements
  <2>4. CASE i > pos
    <3>1. i - 1 \in 1 .. Len(list) - 1 /\ w[i - 1] = list[i]
      BY <1>2, <1>3, <2>4
    <3> QED
      BY <1>5, <2>1, <3>1 DEF ListElements
  <2> QED
    BY <1>2, <2>2, <2>3, <2>4
<1>9. w = <<>> => ListElements(list) = {k}
  <2> SUFFICES ASSUME DOMAIN w = {} PROVE ListElements(list) = {k}
    OBVIOUS
  <2>1. Len(list) = 1
    <3>1. ASSUME Len(list) # 1 PROVE 1 \in 1 .. Len(list) - 1
      BY <1>2, <3>1
    <3> QED
      BY <1>5, <3>1
  <2>2. \A i \in DOMAIN list : i = pos
    BY <1>2, <2>1
  <2> QED
    BY <1>1, <2>2 DEF ListElements
<1>10. w # <<>> => \E j \in ListElements(list) : j # k
  <2> SUFFICES ASSUME w # <<>> PROVE \E j \in ListElements(list) : j # k
    OBVIOUS
  <2>1. 1 \in DOMAIN w
    BY <1>5
  <2> QED
    BY <1>7, <2>1, Zenon DEF ListElements
<1> QED
  BY <1>5, <1>6, <1>7, <1>8, <1>9, <1>10 DEF w

\* popTail takes out exactly the last node.
LEMMA PopTailFacts ==
    ASSUME NEW S, NEW list \in Seq(S), NoDuplicates(list), list # <<>>
    PROVE  LET rest == SubSeq(list, 1, Len(list) - 1)
               last == list[Len(list)]
           IN  /\ rest \in Seq(S)
               /\ NoDuplicates(rest)
               /\ last \in ListElements(list)
               /\ ListElements(rest) = ListElements(list) \ {last}
<1> DEFINE rest == SubSeq(list, 1, Len(list) - 1)
           last == list[Len(list)]
<1>1. Len(list) \in Nat \ {0} /\ DOMAIN list = 1..Len(list)
  OBVIOUS
<1>2. rest = [i \in 1 .. Len(list) - 1 |-> list[i]] /\ rest \in Seq(S)
      /\ DOMAIN rest = 1 .. Len(list) - 1
  BY <1>1
<1> HIDE DEF rest
<1>3. NoDuplicates(rest)
  BY <1>1, <1>2 DEF NoDuplicates
<1>4. last \in ListElements(list)
  BY <1>1 DEF ListElements
<1>5. ListElements(rest) = ListElements(list) \ {last}
  BY <1>1, <1>2 DEF ListElements, NoDuplicates
<1> QED
  BY <1>2, <1>3, <1>4, <1>5 DEF rest

\* pushFront adds exactly the node it is given.
LEMMA PushFrontFacts ==
    ASSUME NEW S, NEW list \in Seq(S), NoDuplicates(list), NEW k \in S \ ListElements(list)
    PROVE  /\ <<k>> \o list \in Seq(S)
           /\ NoDuplicates(<<k>> \o list)
           /\ ListElements(<<k>> \o list) = ListElements(list) \union {k}
<1> DEFINE p == <<k>> \o list
<1>1. p \in Seq(S) /\ Len(p) = Len(list) + 1 /\ DOMAIN p = 1 .. Len(list) + 1
      /\ Len(list) \in Nat /\ DOMAIN list = 1..Len(list)
  OBVIOUS
<1>2. p[1] = k /\ \A i \in 1..Len(list) : p[i + 1] = list[i]
  BY <1>1
<1>3. \A i \in 2 .. Len(list) + 1 : i - 1 \in 1..Len(list) /\ p[i] = list[i - 1]
  BY <1>1, <1>2
<1> HIDE DEF p
<1>4. NoDuplicates(p)
  <2> SUFFICES ASSUME NEW i \in DOMAIN p, NEW j \in DOMAIN p, p[i] = p[j] PROVE i = j
    BY DEF NoDuplicates
  <2>1. CASE i = 1 \/ j = 1
    <3>1. \A n \in DOMAIN p : n # 1 => p[n] # k
      <4>1. \A n \in DOMAIN list : list[n] # k
        BY DEF ListElements
      <4>2. \A n \in DOMAIN p : n # 1 => n \in 2 .. Len(list) + 1
        BY <1>1
      <4> QED
        BY <1>1, <1>3, <4>1, <4>2
    <3> QED
      BY <1>2, <2>1, <3>1
  <2>2. CASE i # 1 /\ j # 1
    <3>1. i \in 2 .. Len(list) + 1 /\ j \in 2 .. Len(list) + 1
      BY <1>1, <2>2
    <3>2. i - 1 = j - 1
      BY <1>1, <1>3, <3>1 DEF NoDuplicates
    <3> QED
      BY <3>1, <3>2
  <2> QED
    BY <2>1, <2>2
<1>5. ListElements(p) = ListElements(list) \union {k}
  <2>1. ASSUME NEW i \in DOMAIN p PROVE p[i] \in ListElements(list) \union {k}
    <3>1. CASE i = 1
      BY <1>2, <3>1
    <3>2. CASE i # 1
      <4>1. i \in 2 .. Len(list) + 1
        BY <1>1, <3>2
      <4> QED
        BY <1>1, <1>3, <4>1 DEF ListElements
    <3> QED
      BY <3>1, <3>2
  <2>2. k \in ListElements(p)
    BY <1>1, <1>2 DEF ListElements
  <2>3. ASSUME NEW i \in DOMAIN list PROVE list[i] \in ListElements(p)
    BY <1>1, <1>2, <2>3 DEF ListElements
  <2> QED
    BY <2>1, <2>2, <2>3 DEF ListElements
<1> QED
  BY <1>1, <1>4, <1>5 DEF p

\* What the state knows of the item k: its bucket holds it, no other does.
LEMMA BucketOf ==
    ASSUME Types, BucketSets, NEW k \in items
    PROVE  /\ k \in Keys
           /\ freq[k] \in 1..MaxFreq
           /\ Bucket(freq[k]) = freqBuckets[freq[k]]
           /\ k \in ListElements(freqBuckets[freq[k]])
           /\ \A f \in 1..MaxFreq : f # freq[k] => k \notin ListElements(freqBuckets[f])
<1>1. k \in Keys /\ freq[k] \in 1..MaxFreq /\ DOMAIN freqBuckets = 1..MaxFreq
  BY DEF Types, BucketSets
<1> QED
  BY <1>1 DEF BucketSets, Bucket

\* A node leaves its bucket and minFreq follows: below every other item, and on
\* a non-empty bucket unless the node was the last at minFreq.
LEMMA MinFreqFollows ==
    ASSUME Types, BucketSets, MinFreqInv, NEW k \in items
    PROVE  /\ MinFreqWithout(k) \in 0 .. MaxFreq + 1
           /\ MinFreqWithout(k) <= freq[k] + 1
           /\ \A j \in items \ {k} : MinFreqWithout(k) <= freq[j]
           /\ \/ MinFreqWithout(k) = freq[k] + 1
              \/ MinFreqWithout(k) = minFreq /\ freq[k] # minFreq
              \/ \E j \in items \ {k} : freq[j] = MinFreqWithout(k)
<1>0. \A j \in items : freq[j] \in 1..MaxFreq /\ minFreq <= freq[j]
  BY DEF BucketSets, MinFreqInv
<1>1. freq[k] \in 1..MaxFreq /\ minFreq \in 0 .. MaxFreq + 1 /\ MaxFreq \in Nat
      /\ minFreq <= freq[k]
  BY <1>0, LFUAssumption DEF Types
<1>2. freqBuckets[freq[k]] \in Seq(Keys) /\ NoDuplicates(freqBuckets[freq[k]])
      /\ ListElements(freqBuckets[freq[k]]) = {j \in items : freq[j] = freq[k]}
  BY <1>1 DEF Types, BucketSets
<1>3. /\ Without(Bucket(freq[k]), k) = <<>> => \A j \in items : freq[j] = freq[k] => j = k
      /\ Without(Bucket(freq[k]), k) # <<>> => \E j \in items \ {k} : freq[j] = freq[k]
  BY <1>2, BucketOf, WithoutFacts
<1>4. CASE freq[k] = minFreq /\ Without(Bucket(freq[k]), k) = <<>>
  <2>1. MinFreqWithout(k) = minFreq + 1
    BY <1>4 DEF MinFreqWithout
  <2>2. \A j \in items \ {k} : freq[j] # minFreq
    BY <1>3, <1>4
  <2> QED
    BY <1>0, <1>1, <1>4, <2>1, <2>2
<1>5. CASE ~(freq[k] = minFreq /\ Without(Bucket(freq[k]), k) = <<>>)
  <2>1. MinFreqWithout(k) = minFreq
    BY <1>5 DEF MinFreqWithout
  <2> QED
    BY <1>0, <1>1, <1>3, <1>5, <2>1
<1> QED
  BY <1>4, <1>5

\* Using an item keeps the invariant.
LEMMA IncrementKeeps ==
    ASSUME LFUInv, NEW k \in items, IncrementFreq(k), UNCHANGED items
    PROVE  LFUInv'
<1> DEFINE f == freq[k]
<1>1. /\ k \in Keys /\ f \in 1..MaxFreq /\ f + 1 \in 1..MaxFreq /\ f # f + 1
      /\ freq \in [Keys -> 0..MaxFreq] /\ freqBuckets \in [1..MaxFreq -> Seq(Keys)]
      /\ MaxFreq \in Nat
  BY BucketOf, LFUAssumption DEF LFUInv, Types, IncrementFreq
<1>2. /\ freq' = [freq EXCEPT ![k] = f + 1]
      /\ freqBuckets' = [freqBuckets EXCEPT ![f] = Without(freqBuckets[f], k),
                                            ![f + 1] = <<k>> \o freqBuckets[f + 1]]
      /\ minFreq' = MinFreqWithout(k)
      /\ items' = items
  BY <1>1 DEF IncrementFreq
<1>3. /\ freqBuckets'[f] \in Seq(Keys)
      /\ NoDuplicates(freqBuckets'[f])
      /\ ListElements(freqBuckets'[f]) = ListElements(freqBuckets[f]) \ {k}
  <2>1. freqBuckets'[f] = Without(freqBuckets[f], k)
    BY <1>1, <1>2
  <2>2. k \in ListElements(freqBuckets[f]) /\ NoDuplicates(freqBuckets[f])
    BY <1>1, BucketOf DEF LFUInv, BucketSets
  <2> QED
    BY <1>1, <2>1, <2>2, WithoutFacts
<1>4. /\ freqBuckets'[f + 1] \in Seq(Keys)
      /\ NoDuplicates(freqBuckets'[f + 1])
      /\ ListElements(freqBuckets'[f + 1]) = ListElements(freqBuckets[f + 1]) \union {k}
  <2>1. freqBuckets'[f + 1] = <<k>> \o freqBuckets[f + 1]
    BY <1>1, <1>2
  <2>2. k \notin ListElements(freqBuckets[f + 1]) /\ NoDuplicates(freqBuckets[f + 1])
    BY <1>1, BucketOf DEF LFUInv, BucketSets
  <2> QED
    BY <1>1, <2>1, <2>2, PushFrontFacts
<1>5. \A g \in 1..MaxFreq : g # f /\ g # f + 1 => freqBuckets'[g] = freqBuckets[g]
  BY <1>1, <1>2
<1>6. freq'[k] = f + 1 /\ \A j \in Keys : j # k => freq'[j] = freq[j]
  BY <1>1, <1>2
<1> DEFINE m == MinFreqWithout(k)
<1>7. /\ m \in 0 .. MaxFreq + 1 /\ m <= f + 1
      /\ \A j \in items \ {k} : m <= freq[j]
      /\ \/ m = f + 1
         \/ m = minFreq /\ f # minFreq
         \/ \E j \in items \ {k} : freq[j] = m
  BY MinFreqFollows DEF LFUInv
<1>8. items \subseteq Keys /\ \A j \in items : freq[j] \in 1..MaxFreq
  BY DEF LFUInv, Types, BucketSets
<1> HIDE DEF f, m
<1>9. Types'
  <2>1. freqBuckets' \in [1..MaxFreq -> Seq(Keys)]
    <3>1. freqBuckets' = [g \in 1..MaxFreq |-> freqBuckets'[g]]
      BY <1>1, <1>2, Zenon
    <3>2. \A g \in 1..MaxFreq : freqBuckets'[g] \in Seq(Keys)
      BY <1>1, <1>3, <1>4, <1>5, Zenon
    <3> QED
      BY <3>1, <3>2
  <2>2. freq' \in [Keys -> 0..MaxFreq]
    BY <1>1, <1>2
  <2> QED
    BY <1>2, <1>7, <1>8, <2>1, <2>2 DEF Types, m
<1>10. BucketSets'
  <2>1. \A j \in items' : freq'[j] \in 1..MaxFreq
    BY <1>1, <1>2, <1>6, <1>8
  <2>2. ASSUME NEW g \in 1..MaxFreq
        PROVE  NoDuplicates(freqBuckets'[g])
               /\ ListElements(freqBuckets'[g]) = {j \in items' : freq'[j] = g}
    <3>1. NoDuplicates(freqBuckets[g]) /\ ListElements(freqBuckets[g]) = {j \in items : freq[j] = g}
      BY DEF LFUInv, BucketSets
    <3>2. CASE g = f
      BY <1>1, <1>2, <1>3, <1>6, <1>8, <3>1, <3>2
    <3>3. CASE g = f + 1
      BY <1>1, <1>2, <1>4, <1>6, <1>8, <3>1, <3>3, ZenonT(60)
    <3>4. CASE g # f /\ g # f + 1
      <4>1. freqBuckets'[g] = freqBuckets[g]
        BY <1>5, <3>4
      <4>2. {j \in items' : freq'[j] = g} = {j \in items : freq[j] = g}
        BY <1>2, <1>6, <1>8, <3>4 DEF f
      <4> QED
        BY <3>1, <4>1, <4>2
    <3> QED
      BY <3>2, <3>3, <3>4
  <2> QED
    BY <2>1, <2>2 DEF BucketSets
<1>11. MinFreqInv'
  <2>1. \A j \in items' : minFreq' <= freq'[j]
    BY <1>2, <1>6, <1>7, <1>8 DEF m
  <2>2. ASSUME Cardinality(items) >= Capacity PROVE \E j \in items : freq'[j] = minFreq'
    <3>1. PICK j \in items : freq[j] = minFreq
      BY <2>2 DEF LFUInv, MinFreqInv
    <3>2. CASE m = minFreq /\ f # minFreq
      BY <1>2, <1>6, <1>8, <3>1, <3>2 DEF m, f
    <3> QED
      BY <1>2, <1>6, <1>7, <1>8, <3>2 DEF m
  <2> QED
    BY <1>2, <2>1, <2>2 DEF MinFreqInv
<1>12. CapacityHolds'
  BY <1>2 DEF LFUInv, CapacityHolds
<1> QED
  BY <1>9, <1>10, <1>11, <1>12 DEF LFUInv

\* Deleting an item, or finding it expired, keeps the invariant: afterwards the
\* cache is not full.
LEMMA RemoveKeeps ==
    ASSUME Counting, LFUInv, NEW k \in items, RemoveItem(k)
    PROVE  LFUInv'
<1> DEFINE f == freq[k]
<1>1. /\ k \in Keys /\ f \in 1..MaxFreq /\ MaxFreq \in Nat
      /\ freq \in [Keys -> 0..MaxFreq] /\ freqBuckets \in [1..MaxFreq -> Seq(Keys)]
  BY BucketOf, LFUAssumption DEF LFUInv, Types
<1>2. /\ freq' = [freq EXCEPT ![k] = 0]
      /\ freqBuckets' = [freqBuckets EXCEPT ![f] = Without(freqBuckets[f], k)]
      /\ minFreq' = MinFreqWithout(k)
      /\ items' = items \ {k}
  BY <1>1 DEF RemoveItem
<1>3. /\ freqBuckets'[f] \in Seq(Keys)
      /\ NoDuplicates(freqBuckets'[f])
      /\ ListElements(freqBuckets'[f]) = ListElements(freqBuckets[f]) \ {k}
  <2>1. freqBuckets'[f] = Without(freqBuckets[f], k)
    BY <1>1, <1>2
  <2>2. k \in ListElements(freqBuckets[f]) /\ NoDuplicates(freqBuckets[f])
    BY <1>1, BucketOf DEF LFUInv, BucketSets
  <2> QED
    BY <1>1, <2>1, <2>2, WithoutFacts
<1>4. \A g \in 1..MaxFreq : g # f => freqBuckets'[g] = freqBuckets[g]
  BY <1>1, <1>2
<1>5. \A j \in Keys : j # k => freq'[j] = freq[j]
  BY <1>1, <1>2
<1>6. MinFreqWithout(k) \in 0 .. MaxFreq + 1 /\ \A j \in items \ {k} : MinFreqWithout(k) <= freq[j]
  BY MinFreqFollows DEF LFUInv
<1>7. items \subseteq Keys /\ \A j \in items : freq[j] \in 1..MaxFreq
  BY DEF LFUInv, Types, BucketSets
<1>8. Types'
  <2>1. freqBuckets' \in [1..MaxFreq -> Seq(Keys)]
    <3>1. freqBuckets' = [g \in 1..MaxFreq |-> freqBuckets'[g]]
      BY <1>1, <1>2, Zenon
    <3>2. \A g \in 1..MaxFreq : freqBuckets'[g] \in Seq(Keys)
      BY <1>1, <1>3, <1>4, Zenon
    <3> QED
      BY <3>1, <3>2
  <2> QED
    BY <1>1, <1>2, <1>6, <1>7, <2>1 DEF Types
<1>9. BucketSets'
  <2>1. \A j \in items' : freq'[j] \in 1..MaxFreq
    BY <1>2, <1>5, <1>7
  <2>2. ASSUME NEW g \in 1..MaxFreq
        PROVE  NoDuplicates(freqBuckets'[g])
               /\ ListElements(freqBuckets'[g]) = {j \in items' : freq'[j] = g}
    <3>1. NoDuplicates(freqBuckets[g]) /\ ListElements(freqBuckets[g]) = {j \in items : freq[j] = g}
      BY DEF LFUInv, BucketSets
    <3>2. CASE g = f
      BY <1>2, <1>3, <1>5, <1>7, <3>1, <3>2
    <3>3. CASE g # f
      BY <1>2, <1>4, <1>5, <1>7, <3>1, <3>3
    <3> QED
      BY <3>2, <3>3
  <2> QED
    BY <2>1, <2>2 DEF BucketSets
<1>10. /\ Cardinality(items') = Cardinality(items) - 1
       /\ Cardinality(items) \in Nat /\ Cardinality(items') \in Nat
  <2>1. items \in SUBSET Keys /\ items' \in SUBSET Keys
    BY <1>2, <1>7
  <2> QED
    BY <1>2, <2>1 DEF Counting
<1>11. Capacity \in Nat /\ Cardinality(items') < Capacity
  BY <1>10, LFUAssumption DEF LFUInv, CapacityHolds, Capacity
<1>12. MinFreqInv'
  <2>1. \A j \in items' : minFreq' <= freq'[j]
    BY <1>2, <1>5, <1>6, <1>7
  <2> QED
    BY <1>10, <1>11, <2>1 DEF MinFreqInv, Capacity
<1>13. CapacityHolds'
  BY <1>10, <1>11 DEF CapacityHolds, Capacity
<1> QED
  BY <1>8, <1>9, <1>12, <1>13 DEF LFUInv

\* A full cache always has a victim, and it is a least used item.
LEMMA VictimFacts ==
    ASSUME Counting, LFUInv
    PROVE  \/ Victims = {} /\ Cardinality(items) < Capacity
           \/ /\ Cardinality(items) = Capacity
              /\ minFreq \in 1..MaxFreq
              /\ freqBuckets[minFreq] # <<>>
              /\ LET v == freqBuckets[minFreq][Len(freqBuckets[minFreq])]
                 IN  Victims = {v} /\ v \in items /\ freq[v] = minFreq
<1>0. Cardinality(items) \in Nat /\ Capacity \in Nat /\ Cardinality(items) <= Capacity
  BY LFUAssumption DEF Counting, LFUInv, Types, CapacityHolds, Capacity
<1>1. CASE Cardinality(items) < Capacity
  <2>1. ~(Cardinality(items) >= Capacity)
    BY <1>0, <1>1
  <2> QED
    BY <1>1, <2>1 DEF Victims
<1>2. CASE Cardinality(items) = Capacity
  <2>1. PICK k \in items : freq[k] = minFreq
    BY <1>0, <1>2 DEF LFUInv, MinFreqInv
  <2>2. minFreq \in 1..MaxFreq /\ Bucket(minFreq) = freqBuckets[minFreq]
        /\ k \in ListElements(freqBuckets[minFreq])
    BY <2>1, BucketOf DEF LFUInv
  <2> DEFINE list == freqBuckets[minFreq]
             v == list[Len(list)]
  <2>3. list \in Seq(Keys) /\ NoDuplicates(list) /\ ListElements(list) = {j \in items : freq[j] = minFreq}
    BY <2>2 DEF LFUInv, Types, BucketSets
  <2>4. list # <<>>
    BY <2>2 DEF ListElements
  <2>5. v \in ListElements(list)
    BY <2>3, <2>4, PopTailFacts
  <2>6. Victims = {v}
    BY <1>0, <1>2, <2>2, <2>4 DEF Victims
  <2> QED
    BY <1>2, <2>2, <2>3, <2>4, <2>5, <2>6
<1> QED
  BY <1>0, <1>1, <1>2

\* Inserting an item keeps the invariant: minFreq becomes 1, where the new item is.
LEMMA InsertKeeps ==
    ASSUME Counting, LFUInv, NEW k \in Keys, Insert(k)
    PROVE  LFUInv'
<1> DEFINE Pop(list) == IF Victims = {} THEN list ELSE SubSeq(list, 1, Len(list) - 1)
           Room(g) == IF g = minFreq THEN Pop(freqBuckets[g]) ELSE freqBuckets[g]
           kept == items \ Victims
<1>1. /\ k \notin items /\ items' = kept \union {k} /\ minFreq' = 1
      /\ freq' = [j \in Keys |-> IF j = k THEN 1 ELSE IF j \in Victims THEN 0 ELSE freq[j]]
      /\ freqBuckets' = [g \in 1..MaxFreq |-> IF g = 1 THEN <<k>> \o Room(g) ELSE Room(g)]
  BY DEF Insert, LFUInv, Types
<1>2. /\ items \subseteq Keys /\ freq \in [Keys -> 0..MaxFreq]
      /\ freqBuckets \in [1..MaxFreq -> Seq(Keys)]
      /\ \A j \in items : freq[j] \in 1..MaxFreq
      /\ MaxFreq \in Nat /\ 1 \in 1..MaxFreq
  BY LFUAssumption DEF LFUInv, Types, BucketSets
<1>3. \A g \in 1..MaxFreq : /\ Room(g) \in Seq(Keys)
                            /\ NoDuplicates(Room(g))
                            /\ ListElements(Room(g)) = {j \in kept : freq[j] = g}
  <2> SUFFICES ASSUME NEW g \in 1..MaxFreq
               PROVE  /\ Room(g) \in Seq(Keys)
                      /\ NoDuplicates(Room(g))
                      /\ ListElements(Room(g)) = {j \in kept : freq[j] = g}
    OBVIOUS
  <2>1. /\ freqBuckets[g] \in Seq(Keys) /\ NoDuplicates(freqBuckets[g])
        /\ ListElements(freqBuckets[g]) = {j \in items : freq[j] = g}
    BY <1>2 DEF LFUInv, BucketSets
  <2>2. CASE Victims = {}
    BY <2>1, <2>2
  <2>3. CASE Victims # {} /\ g # minFreq
    <3>1. \A v \in Victims : freq[v] # g
      BY <2>3, VictimFacts
    <3> QED
      BY <2>1, <2>3, <3>1
  <2>4. CASE Victims # {} /\ g = minFreq
    <3> DEFINE v == freqBuckets[g][Len(freqBuckets[g])]
    <3>1. freqBuckets[g] # <<>> /\ Victims = {v}
      BY <2>4, VictimFacts
    <3>2. Room(g) = SubSeq(freqBuckets[g], 1, Len(freqBuckets[g]) - 1)
      BY <2>4
    <3>3. /\ Room(g) \in Seq(Keys) /\ NoDuplicates(Room(g))
          /\ ListElements(Room(g)) = ListElements(freqBuckets[g]) \ {v}
      BY <2>1, <3>1, <3>2, PopTailFacts, Zenon
    <3> HIDE DEF v, Room
    <3> QED
      BY <2>1, <3>1, <3>3
  <2> QED
    BY <2>2, <2>3, <2>4
<1> HIDE DEF Room
<1>4. k \notin ListElements(Room(1)) /\ kept \subseteq Keys
  BY <1>1, <1>2, <1>3
<1>5. /\ <<k>> \o Room(1) \in Seq(Keys)
      /\ NoDuplicates(<<k>> \o Room(1))
      /\ ListElements(<<k>> \o Room(1)) = ListElements(Room(1)) \union {k}
  BY <1>2, <1>3, <1>4, PushFrontFacts
<1>6. /\ freq'[k] = 1 /\ freq' \in [Keys -> 0..MaxFreq]
      /\ \A j \in kept : freq'[j] = freq[j]
  BY <1>1, <1>2
<1>7. Types'
  <2>1. freqBuckets' \in [1..MaxFreq -> Seq(Keys)]
    BY <1>1, <1>3, <1>5, Zenon
  <2> QED
    BY <1>1, <1>2, <1>4, <1>6, <2>1 DEF Types
<1>8. BucketSets'
  <2>1. \A j \in items' : freq'[j] \in 1..MaxFreq
    BY <1>1, <1>2, <1>6
  <2>2. ASSUME NEW g \in 1..MaxFreq
        PROVE  NoDuplicates(freqBuckets'[g])
               /\ ListElements(freqBuckets'[g]) = {j \in items' : freq'[j] = g}
    <3>1. CASE g = 1
      <4>1. freqBuckets'[g] = <<k>> \o Room(1)
        BY <1>1, <3>1
      <4>2. {j \in items' : freq'[j] = g} = {j \in kept : freq[j] = 1} \union {k}
        BY <1>1, <1>6, <3>1
      <4> QED
        BY <1>2, <1>3, <1>5, <4>1, <4>2, Zenon
    <3>2. CASE g # 1
      <4>1. freqBuckets'[g] = Room(g)
        BY <1>1, <3>2
      <4>2. {j \in items' : freq'[j] = g} = {j \in kept : freq[j] = g}
        BY <1>1, <1>6, <3>2, Zenon
      <4> QED
        BY <1>3, <4>1, <4>2
    <3> QED
      BY <3>1, <3>2
  <2> QED
    BY <2>1, <2>2 DEF BucketSets
<1>9. MinFreqInv'
  <2>1. \A j \in items' : minFreq' <= freq'[j]
    BY <1>1, <1>2, <1>6
  <2>2. k \in items' /\ freq'[k] = minFreq'
    BY <1>1, <1>6
  <2> QED
    BY <2>1, <2>2 DEF MinFreqInv
<1>10. CapacityHolds'
  <2>1. Cardinality(items) \in Nat /\ Capacity \in Nat /\ kept \in SUBSET Keys
    BY <1>2, LFUAssumption DEF Counting, Capacity
  <2>2. Cardinality(kept) < Capacity /\ Cardinality(kept) \in Nat
    <3>1. CASE Victims = {} /\ Cardinality(items) < Capacity
      BY <2>1, <3>1
    <3>2. ASSUME NEW v \in items, Victims = {v}, Cardinality(items) = Capacity
          PROVE  Cardinality(kept) < Capacity /\ Cardinality(kept) \in Nat
      <4>1. kept = items \ {v} /\ items \in SUBSET Keys
        BY <1>2, <3>2
      <4>2. Cardinality(kept) = Cardinality(items) - 1 /\ Cardinality(kept) \in Nat
        BY <2>1, <4>1 DEF Counting
      <4> QED
        BY <2>1, <3>2, <4>2
    <3> QED
      BY <3>1, <3>2, VictimFacts, Zenon
  <2>3. k \notin kept
    BY <1>1
  <2> HIDE DEF kept
  <2>4. Cardinality(items') = Cardinality(kept) + 1
    BY <1>1, <2>1, <2>3 DEF Counting
  <2>5. Cardinality(items') <= Capacity
    BY <2>1, <2>2, <2>4
  <2> QED
    BY <2>5 DEF CapacityHolds, Capacity
<1> QED
  BY <1>7, <1>8, <1>9, <1>10 DEF LFUInv

\* The invariant holds of the empty cache.
LEMMA InitInv == Counting /\ LFUInit => LFUInv
<1> SUFFICES ASSUME Counting, LFUInit PROVE LFUInv
  OBVIOUS
<1>1. Cardinality(items) = 0 /\ items = {}
  BY DEF Counting, LFUInit
<1>2. Types
  BY LFUAssumption DEF LFUInit, Types
<1>3. BucketSets
  BY DEF LFUInit, BucketSets, NoDuplicates, ListElements
<1>4. Capacity \in Nat \ {0}
  BY LFUAssumption DEF Capacity
<1>5. MinFreqInv
  BY <1>1, <1>4 DEF MinFreqInv
<1>6. CapacityHolds
  BY <1>1, <1>4 DEF CapacityHolds
<1> QED
  BY <1>2, <1>3, <1>5, <1>6 DEF LFUInv

\* Every method, and the clock, keeps the invariant.
LEMMA NextInv == Counting /\ LFUInv /\ [LFUNext]_lfuVars => LFUInv'
<1> SUFFICES ASSUME Counting, LFUInv, [LFUNext]_lfuVars PROVE LFUInv'
  OBVIOUS
<1>1. ASSUME NEW k \in Keys, Hit(k) PROVE LFUInv'
  BY <1>1, IncrementKeeps DEF Hit
<1>2. ASSUME NEW k \in Keys, FoundExpired(k) \/ Delete(k) PROVE LFUInv'
  BY <1>2, RemoveKeeps DEF FoundExpired, Delete
<1>3. ASSUME NEW k \in Keys, Update(k) PROVE LFUInv'
  BY <1>3, IncrementKeeps DEF Update
<1>4. ASSUME NEW k \in Keys, Insert(k) PROVE LFUInv'
  BY <1>4, InsertKeeps
<1>5. ASSUME UNCHANGED <<items, freq, freqBuckets, minFreq>> PROVE LFUInv'
  BY <1>5 DEF LFUInv, Types, BucketSets, MinFreqInv, CapacityHolds
<1>6. ASSUME NEW k \in Keys, Miss(k) \/ Expire(k) PROVE LFUInv'
  BY <1>5, <1>6 DEF Miss, Expire, lfuVars
<1> QED
  BY <1>1, <1>2, <1>3, <1>4, <1>5, <1>6 DEF LFUNext, Get, Set, lfuVars

-----------------------------------------------------------------------------
(* The worker pool                                                         *)

-----------------------------------------------------------------------------
(* The inductive invariant, one conjunct per idea                          *)

\* mu: the calls that hold the read lock are those between RLock and RUnlock.
LockInv == \A t \in Tasks : t \in readers <=> call[t] \in {"poll", "send"}

\* Stop: closed is closed before isClosed is set, isClosed is set and tasks is
\* closed in one critical section, and no read lock is held from then on.
CloseInv ==
    /\ isClosed <=> tasksClosed
    /\ tasksClosed => closed
    /\ tasksClosed => readers = {}
    /\ once = "done" <=> tasksClosed
    /\ once = "new" => ~closed

\* sync.Once: one stopper at a time is inside Do, and only before it is done.
OnceInv ==
    /\ \A s \in Stoppers : stop[s] \in {"close", "announce", "lock"} => once = "running"
    /\ \A r, s \in Stoppers :
          /\ stop[r] \in {"close", "announce", "lock"}
          /\ stop[s] \in {"close", "announce", "lock"}
          => r = s
    /\ \A s \in Stoppers : stop[s] = "close" => ~closed
    /\ \A s \in Stoppers : stop[s] \in {"announce", "lock"} => closed
    /\ \A s \in Stoppers : stop[s] \in {"wait", "returned"} => once = "done"

\* No call has panicked on the tasks channel.
SendInv == \A t \in Tasks : call[t] # "panic"

\* A call begun on a closed pool cannot get past the poll of p.closed.
LateInv == \A t \in late : closed /\ call[t] \notin {"idle", "send", "ok"}

\* No task is in the channel twice.
Distinct(q) == \A i, j \in DOMAIN q : q[i] = q[j] => i = j

\* Where a task can be, and how often it was started when it is there.
TaskInv ==
    /\ Distinct(queue)
    /\ \A t \in Tasks : call[t] = "ok" <=> t \in Queued \/ t \in RunningTasks \/ t \in finished
    /\ \A t \in Tasks : t \in Queued \/ call[t] # "ok" => runs[t] = 0
    /\ \A w \in Workers : running[w] # None =>
          runs[running[w]] = 1 /\ running[w] \notin finished
    /\ \A v, w \in Workers : running[v] = running[w] => v = w \/ running[v] = None
    /\ \A t \in finished : runs[t] = 1

\* A worker leaves only an empty closed channel, and StopWait only when all
\* workers have left.
ExitInv ==
    /\ \A w \in exited : running[w] = None /\ tasksClosed /\ queue = <<>>
    /\ \A s \in Stoppers : stop[s] = "returned" => exited = Workers

IInv ==
    /\ TypeOK
    /\ LockInv
    /\ CloseInv
    /\ OnceInv
    /\ SendInv
    /\ LateInv

USE DEF Kinds, Returned, CallStates, StopStates

\* The new pool (New, workerpool.go) satisfies the invariant of locks and channels.
LEMMA InitIInv == Init => IInv
  <1> SUFFICES ASSUME Init PROVE IInv
    OBVIOUS
  <1>1. TypeOK
    <2>1. runs \in [Tasks -> Nat] /\ queue \in Seq(Tasks) /\ Len(queue) <= QueueSize
      BY PoolAssumption DEF Init
    <2>2. QED
      BY <2>1, Zenon DEF Init, TypeOK
  <1>2. LockInv /\ CloseInv /\ SendInv /\ LateInv
    BY DEF Init, LockInv, CloseInv, SendInv, LateInv
  <1>3. OnceInv
    BY DEF Init, OnceInv
  <1>4. QED
    BY <1>1, <1>2, <1>3 DEF IInv

\* Every step of a call, a worker or a stopper keeps the state well typed.
LEMMA NextTypeOK == TypeOK /\ [Next]_vars => TypeOK'
  <1> SUFFICES ASSUME TypeOK, [Next]_vars PROVE TypeOK'
    OBVIOUS
  <1> USE PoolAssumption DEF TypeOK
  <1>1. ASSUME NEW t \in Tasks, NEW k \in Kinds, NEW p \in Callers(t), Begin(t, k, p)
        PROVE  TypeOK'
    <2>1. p \in Tasks \cup {None}
      BY DEF Callers, RunningTasks
    <2>2. QED
      BY <1>1, <2>1 DEF Begin, muVars, workVars, stopVars
  <1>2. ASSUME NEW t \in Tasks, ExpireContext(t) PROVE TypeOK'
    BY <1>2 DEF ExpireContext, muVars, workVars, stopVars
  <1>3. ASSUME NEW t \in Tasks, AcquireRead(t) PROVE TypeOK'
    <2>1. call' \in [Tasks -> CallStates]
      <3>1. PICK c \in {"ErrPoolClosed", "poll"} : call' = [call EXCEPT ![t] = c]
        BY <1>3, Zenon DEF AcquireRead
      <3>2. QED
        BY <3>1
    <2>2. readers' \subseteq Tasks
      <3>1. readers' = readers \/ readers' = readers \cup {t}
        BY <1>3, Zenon DEF AcquireRead
      <3>2. QED
        BY <3>1
    <2>3. QED
      BY <1>3, <2>1, <2>2 DEF AcquireRead, workVars, stopVars
  <1>4. ASSUME NEW t \in Tasks, PollClosed(t) PROVE TypeOK'
    BY <1>4, ZenonT(30) DEF PollClosed, Return, workVars, stopVars
  <1>5. ASSUME NEW t \in Tasks, Send(t) PROVE TypeOK'
    <2>1. queue' \in Seq(Tasks) /\ Len(queue') <= QueueSize
      <3>1. CASE tasksClosed
        BY <1>5, <3>1 DEF Send
      <3>2. CASE ~tasksClosed
        <4>1. queue' = Append(queue, t) /\ Len(queue) < QueueSize
          BY <1>5, <3>2 DEF Send, SendReady
        <4>2. Append(queue, t) \in Seq(Tasks) /\ Len(Append(queue, t)) = Len(queue) + 1
          OBVIOUS
        <4>3. Len(queue) \in Nat
          OBVIOUS
        <4>4. QED
          BY <4>1, <4>2, <4>3
      <3>3. QED
        BY <3>1, <3>2
    <2>2. QED
      BY <1>5, <2>1, ZenonT(30) DEF Send, Return, workVars, stopVars
  <1>6. ASSUME NEW t \in Tasks, GiveUp(t) PROVE TypeOK'
    BY <1>6, ZenonT(30) DEF GiveUp, Return, workVars, stopVars
  <1>7. ASSUME NEW w \in Workers, Receive(w) PROVE TypeOK'
    <2>1. /\ Head(queue) \in Tasks
          /\ Tail(queue) \in Seq(Tasks) /\ Len(Tail(queue)) <= QueueSize
      BY <1>7 DEF Receive
    <2>2. QED
      BY <1>7, <2>1 DEF Receive, callVars, muVars, stopVars
  <1>8. ASSUME NEW w \in Workers, FinishTask(w) PROVE TypeOK'
    BY <1>8 DEF FinishTask, callVars, muVars, stopVars
  <1>9. ASSUME NEW w \in Workers, WorkerExit(w) PROVE TypeOK'
    BY <1>9 DEF WorkerExit, callVars, muVars, stopVars
  <1>10. ASSUME NEW s \in Stoppers, CallStop(s) PROVE TypeOK'
    BY <1>10, ZenonT(30) DEF CallStop, callVars, muVars, workVars
  <1>11. ASSUME NEW s \in Stoppers, StopStep(s) PROVE TypeOK'
    BY <1>11, ZenonT(30) DEF StopStep, CloseSignal, LockAnnounce, CloseTasks, OnceDone, WaitReturns,
                 callVars, muVars, workVars
  <1>12. CASE UNCHANGED vars
    BY <1>12 DEF vars, callVars, muVars, workVars, stopVars
  <1>13. QED
    BY <1>1, <1>2, <1>3, <1>4, <1>5, <1>6, <1>7, <1>8, <1>9, <1>10, <1>11, <1>12, ZenonT(30)
       DEF Next, CallStep, WorkStep, Done

\* Every step preserves the part of the invariant about the lock, the channels
\* and sync.Once.
LEMMA NextIInv == IInv /\ [Next]_vars => IInv'
  <1> SUFFICES ASSUME IInv, [Next]_vars PROVE IInv'
    OBVIOUS
  <1>0. TypeOK'
    BY NextTypeOK DEF IInv
  <1> DEFINE Preserved == LockInv' /\ CloseInv' /\ OnceInv' /\ SendInv' /\ LateInv'
  <1>t. /\ call \in [Tasks -> CallStates]
        /\ readers \subseteq Tasks /\ late \subseteq Tasks
        /\ isClosed \in BOOLEAN /\ closed \in BOOLEAN /\ tasksClosed \in BOOLEAN
        /\ once \in {"new", "running", "done"}
        /\ stop \in [Stoppers -> StopStates]
    BY DEF IInv, TypeOK
  <1> USE <1>t DEF IInv, LockInv, CloseInv, OnceInv, SendInv, LateInv
  <1>1. ASSUME NEW t \in Tasks, NEW k \in Kinds, NEW p \in Callers(t), Begin(t, k, p)
        PROVE  Preserved
    BY <1>1 DEF Begin, IsClosed, muVars, workVars, stopVars
  <1>2. ASSUME NEW t \in Tasks, ExpireContext(t) PROVE Preserved
    BY <1>2 DEF ExpireContext, muVars, workVars, stopVars
  <1>3. ASSUME NEW t \in Tasks, AcquireRead(t) PROVE Preserved
    <2>1. CASE isClosed
      BY <1>3, <2>1 DEF AcquireRead, stopVars
    <2>2. CASE ~isClosed
      BY <1>3, <2>2 DEF AcquireRead, stopVars
    <2>3. QED
      BY <2>1, <2>2
  <1>4. ASSUME NEW t \in Tasks, PollClosed(t) PROVE Preserved
    <2>1. CASE closed
      BY <1>4, <2>1 DEF PollClosed, Return, stopVars
    <2>2. CASE ~closed
      BY <1>4, <2>2 DEF PollClosed, stopVars
    <2>3. QED
      BY <2>1, <2>2
  <1>5. ASSUME NEW t \in Tasks, Send(t) PROVE Preserved
    BY <1>5 DEF Send, Return, workVars, stopVars
  <1>6. ASSUME NEW t \in Tasks, GiveUp(t) PROVE Preserved
    BY <1>6 DEF GiveUp, Return, workVars, stopVars
  <1>7. ASSUME NEW w \in Workers, WorkStep(w) PROVE Preserved
    BY <1>7 DEF WorkStep, Receive, FinishTask, WorkerExit, callVars, muVars, stopVars
  <1>8. ASSUME NEW s \in Stoppers, CallStop(s) PROVE Preserved
    BY <1>8 DEF CallStop, callVars, muVars, workVars
  <1>9. ASSUME NEW s \in Stoppers, CloseSignal(s) PROVE Preserved
    BY <1>9 DEF CloseSignal, callVars, muVars, workVars
  <1>10. ASSUME NEW s \in Stoppers, LockAnnounce(s) PROVE Preserved
    BY <1>10 DEF LockAnnounce, callVars, workVars
  <1>11. ASSUME NEW s \in Stoppers, CloseTasks(s) PROVE Preserved
    BY <1>11 DEF CloseTasks, callVars, workVars
  <1>12. ASSUME NEW s \in Stoppers, OnceDone(s) PROVE Preserved
    BY <1>12 DEF OnceDone, callVars, muVars, workVars
  <1>13. ASSUME NEW s \in Stoppers, WaitReturns(s) PROVE Preserved
    BY <1>13 DEF WaitReturns, callVars, muVars, workVars
  <1>14. ASSUME UNCHANGED vars PROVE Preserved
    BY <1>14 DEF vars, callVars, muVars, workVars, stopVars
  <1>15. Preserved
    <2> HIDE DEF Preserved, IInv, LockInv, CloseInv, OnceInv, SendInv, LateInv
    <2> QED
      BY <1>1, <1>2, <1>3, <1>4, <1>5, <1>6, <1>7, <1>8, <1>9, <1>10, <1>11, <1>12, <1>13, <1>14
         DEF Next, CallStep, StopStep, Done
  <1>16. QED
    BY <1>0, <1>15 DEF IInv

-----------------------------------------------------------------------------
(* The channel buffer                                                      *)

\* A send on the tasks channel adds the sent task and keeps the buffer free of
\* duplicates.
LEMMA ElementsAppend ==
  ASSUME NEW q \in Seq(Tasks), NEW t \in Tasks
  PROVE  /\ Elements(Append(q, t)) = Elements(q) \cup {t}
         /\ Distinct(q) /\ t \notin Elements(q) => Distinct(Append(q, t))
  <1>1. /\ DOMAIN q = 1..Len(q) /\ Len(q) \in Nat
        /\ DOMAIN Append(q, t) = 1..(Len(q) + 1)
        /\ \A i \in 1..Len(q) : Append(q, t)[i] = q[i]
        /\ Append(q, t)[Len(q) + 1] = t
    OBVIOUS
  <1>2. 1..(Len(q) + 1) = 1..Len(q) \cup {Len(q) + 1}
    BY <1>1
  <1>3. QED
    BY <1>1, <1>2 DEF Elements, Distinct

\* A receive from the tasks channel removes the received task, and only it.
LEMMA ElementsTail ==
  ASSUME NEW q \in Seq(Tasks), q # <<>>
  PROVE  /\ Head(q) \in Elements(q)
         /\ Elements(q) = Elements(Tail(q)) \cup {Head(q)}
         /\ Distinct(q) => Distinct(Tail(q)) /\ Head(q) \notin Elements(Tail(q))
  <1>1. /\ Len(q) \in Nat \ {0}
        /\ DOMAIN q = 1..Len(q)
        /\ DOMAIN Tail(q) = 1..(Len(q) - 1)
        /\ \A i \in 1..(Len(q) - 1) : Tail(q)[i] = q[i + 1]
        /\ Head(q) = q[1]
    OBVIOUS
  <1>2. \A i \in 1..Len(q) : i = 1 \/ (i - 1 \in 1..(Len(q) - 1) /\ i = (i - 1) + 1)
    BY <1>1
  <1>3. \A i \in 1..(Len(q) - 1) : i + 1 \in 1..Len(q) /\ i + 1 # 1
    BY <1>1
  <1>4. Elements(q) = Elements(Tail(q)) \cup {Head(q)}
    <2>1. ASSUME NEW i \in 1..Len(q) PROVE q[i] \in Elements(Tail(q)) \cup {Head(q)}
      <3>1. CASE i = 1
        BY <1>1, <3>1
      <3>2. CASE i # 1
        <4>1. i - 1 \in DOMAIN Tail(q)
          BY <1>1, <3>2
        <4>2. Tail(q)[i - 1] = q[i]
          BY <1>1, <1>2, <3>2, <4>1
        <4>3. QED
          BY <4>1, <4>2, ZenonT(30) DEF Elements
      <3>3. QED
        BY <3>1, <3>2
    <2>2. ASSUME NEW i \in 1..(Len(q) - 1) PROVE Tail(q)[i] \in Elements(q)
      BY <1>1, <1>3 DEF Elements
    <2>3. Head(q) \in Elements(q)
      BY <1>1 DEF Elements
    <2>4. QED
      BY <1>1, <2>1, <2>2, <2>3 DEF Elements
  <1>5. ASSUME Distinct(q) PROVE Distinct(Tail(q)) /\ Head(q) \notin Elements(Tail(q))
    BY <1>1, <1>3, <1>5 DEF Distinct, Elements
  <1>6. QED
    BY <1>1, <1>4, <1>5 DEF Elements

-----------------------------------------------------------------------------
(* Where the tasks are                                                     *)

\* In a new pool no task has been submitted and no worker has left.
LEMMA InitTaskInv == Init => TaskInv /\ ExitInv
  BY PoolAssumption DEF Init, TaskInv, ExitInv, Distinct, Queued, Elements, RunningTasks

\* Every step keeps each accepted task in exactly one place: the buffer, a
\* worker or the set of finished tasks.
LEMMA NextTaskInv == IInv /\ TaskInv /\ ExitInv /\ [Next]_vars => TaskInv' /\ ExitInv'
  <1> SUFFICES ASSUME IInv, TaskInv, ExitInv, [Next]_vars PROVE TaskInv' /\ ExitInv'
    OBVIOUS
  <1> DEFINE Preserved == TaskInv' /\ ExitInv'
  <1>0. TypeOK /\ TypeOK'
    BY NextTypeOK DEF IInv
  <1>t. /\ call \in [Tasks -> CallStates] /\ stop \in [Stoppers -> StopStates]
        /\ running \in [Workers -> Tasks \cup {None}]
    BY <1>0 DEF TypeOK
  <1>a. ASSUME UNCHANGED <<queue, running, runs, finished>>,
               \A u \in Tasks : call'[u] = "ok" <=> call[u] = "ok"
        PROVE  TaskInv'
    BY <1>a DEF TaskInv, Queued, RunningTasks
  <1>b. ASSUME UNCHANGED <<queue, running, exited>>, tasksClosed => tasksClosed',
               \A s \in Stoppers : stop'[s] = "returned" => stop[s] = "returned" \/ exited = Workers
        PROVE  ExitInv'
    BY <1>b DEF ExitInv
  <1>1. ASSUME NEW t \in Tasks, call[t] # "ok", NEW c, c # "ok", call' = [call EXCEPT ![t] = c],
               UNCHANGED <<queue, workVars, tasksClosed, stopVars>>
        PROVE  Preserved
    <2>1. \A u \in Tasks : call'[u] = "ok" <=> call[u] = "ok"
      BY <1>t, <1>1
    <2>2. UNCHANGED <<queue, running, exited, runs, finished, tasksClosed, stop>>
      BY <1>1 DEF workVars, stopVars
    <2>3. QED
      BY <1>a, <1>b, <2>1, <2>2
  <1>2. ASSUME NEW t \in Tasks, NEW k \in Kinds, NEW p \in Callers(t), Begin(t, k, p)
        PROVE  Preserved
    <2>1. PICK c \in {"ctxErr", "rlock"} : call[t] # "ok" /\ call' = [call EXCEPT ![t] = c]
      BY <1>2, Zenon DEF Begin
    <2>2. UNCHANGED <<queue, workVars, tasksClosed, stopVars>>
      BY <1>2, Zenon DEF Begin
    <2>3. QED
      BY <1>1, <2>1, <2>2, Zenon
  <1>3. ASSUME NEW t \in Tasks, ExpireContext(t) PROVE Preserved
    <2>1. UNCHANGED <<call, queue, tasksClosed, running, exited, runs, finished, stop>>
      BY <1>3, Zenon DEF ExpireContext, workVars, stopVars
    <2>2. QED
      BY <1>a, <1>b, <2>1
  <1>4. ASSUME NEW t \in Tasks, AcquireRead(t) \/ PollClosed(t) PROVE Preserved
    <2>1. UNCHANGED <<queue, workVars, tasksClosed, stopVars>>
      BY <1>4, Zenon DEF AcquireRead, PollClosed
    <2>2. call[t] # "ok"
      BY <1>4 DEF AcquireRead, PollClosed
    <2>3. PICK c \in {"ErrPoolClosed", "poll", "send"} : call' = [call EXCEPT ![t] = c]
      BY <1>4 DEF AcquireRead, PollClosed, Return
    <2>4. QED
      BY <1>1, <2>1, <2>2, <2>3, Zenon
  <1>5. ASSUME NEW t \in Tasks, GiveUp(t) PROVE Preserved
    <2>1. UNCHANGED <<queue, workVars, tasksClosed, stopVars>>
      BY <1>5, Zenon DEF GiveUp
    <2>2. call[t] # "ok"
      BY <1>5, Zenon DEF GiveUp
    <2>3. PICK c \in {"ErrQueueFull", "ctxErr", "ErrPoolClosed"} : call' = [call EXCEPT ![t] = c]
      BY <1>5 DEF GiveUp, Return
    <2>4. QED
      BY <1>1, <2>1, <2>2, <2>3, Zenon
  <1>6. ASSUME NEW t \in Tasks, Send(t) PROVE Preserved
    <2>1. ~tasksClosed /\ t \notin Queued
      BY <1>0, <1>6 DEF IInv, LockInv, CloseInv, TaskInv, Send, TypeOK
    <2>2. /\ queue' = Append(queue, t)
          /\ call' = [call EXCEPT ![t] = "ok"]
          /\ UNCHANGED <<tasksClosed, workVars, stopVars>>
      BY <1>6, <2>1 DEF Send, Return
    <2>3. Queued' = Queued \cup {t} /\ Distinct(queue')
      BY <1>0, <2>1, <2>2, ElementsAppend DEF Queued, TypeOK, TaskInv
    <2>4. TaskInv'
      BY <1>0, <1>6, <2>2, <2>3 DEF TaskInv, Send, RunningTasks, TypeOK, workVars
    <2>5. ExitInv'
      BY <2>1, <2>2 DEF ExitInv, workVars, stopVars
    <2>6. QED
      BY <2>4, <2>5
  <1>7. ASSUME NEW w \in Workers, Receive(w) PROVE Preserved
    <2> DEFINE h == Head(queue)
    <2>1. /\ h \in Tasks /\ h \in Queued
          /\ Queued = Queued' \cup {h} /\ h \notin Queued'
          /\ Distinct(queue')
      <3>1. queue \in Seq(Tasks) /\ queue # <<>> /\ queue' = Tail(queue) /\ Distinct(queue)
        BY <1>0, <1>7 DEF Receive, TypeOK, TaskInv
      <3>2. h \in Tasks
        BY <3>1
      <3>3. QED
        BY <3>1, <3>2, ElementsTail DEF Queued
    <2>2. runs[h] = 0 /\ h \notin finished /\ \A v \in Workers : running[v] # h
      BY <1>0, <2>1, PoolAssumption DEF TaskInv, TypeOK
    <2>3. /\ running' = [running EXCEPT ![w] = h]
          /\ runs' = [runs EXCEPT ![h] = 1]
          /\ running[w] = None
          /\ UNCHANGED <<call, finished, exited, tasksClosed, stop>>
      BY <1>0, <1>7, <2>1, <2>2 DEF Receive, callVars, stopVars, TypeOK
    <2> HIDE DEF h
    <2>4. RunningTasks' = RunningTasks \cup {h}
      BY <1>0, <2>1, <2>3, PoolAssumption DEF RunningTasks, TypeOK
    <2>5. TaskInv'
      BY <1>0, <2>1, <2>2, <2>3, <2>4, PoolAssumption DEF TaskInv, TypeOK
    <2>6. ExitInv'
      BY <1>7, <2>3 DEF ExitInv, Receive
    <2>7. QED
      BY <2>5, <2>6
  <1>8. ASSUME NEW w \in Workers, FinishTask(w) PROVE Preserved
    <2>1. RunningTasks = RunningTasks' \cup {running[w]} /\ running[w] \notin RunningTasks'
      BY <1>0, <1>8, PoolAssumption DEF FinishTask, RunningTasks, TypeOK, TaskInv
    <2>2. TaskInv'
      BY <1>0, <1>8, <2>1, PoolAssumption, SMTT(60) DEF FinishTask, TaskInv, Queued, TypeOK, callVars
    <2>3. ExitInv'
      BY <1>0, <1>8 DEF FinishTask, ExitInv, TypeOK, stopVars
    <2>4. QED
      BY <2>2, <2>3
  <1>9. ASSUME NEW w \in Workers, WorkerExit(w) PROVE Preserved
    <2>1. UNCHANGED <<call, queue, running, runs, finished>>
      BY <1>9, Zenon DEF WorkerExit, callVars
    <2>2. ExitInv'
      BY <1>t, <1>9, <2>1 DEF WorkerExit, ExitInv, stopVars
    <2>3. QED
      BY <1>a, <2>1, <2>2
  <1>10. ASSUME NEW s \in Stoppers, CallStop(s) \/ StopStep(s) PROVE Preserved
    <2>1. UNCHANGED <<call, queue, running, exited, runs, finished>>
      BY <1>10 DEF CallStop, StopStep, CloseSignal, LockAnnounce, CloseTasks, OnceDone,
                   WaitReturns, callVars, workVars
    <2>2. tasksClosed => tasksClosed'
      BY <1>10, Zenon DEF CallStop, StopStep, CloseSignal, LockAnnounce, CloseTasks, OnceDone, WaitReturns
    <2>3. \A u \in Stoppers : stop'[u] = "returned" => stop[u] = "returned" \/ exited = Workers
      BY <1>t, <1>10
         DEF CallStop, StopStep, CloseSignal, LockAnnounce, CloseTasks, OnceDone, WaitReturns
    <2>4. QED
      BY <1>a, <1>b, <2>1, <2>2, <2>3, Zenon
  <1>11. ASSUME UNCHANGED vars PROVE Preserved
    <2>1. UNCHANGED <<call, queue, tasksClosed, running, exited, runs, finished, stop>>
      BY <1>11 DEF vars, callVars, workVars, stopVars
    <2>2. QED
      BY <1>a, <1>b, <2>1
  <1>12. QED
    BY <1>2, <1>3, <1>4, <1>5, <1>6, <1>7, <1>8, <1>9, <1>10, <1>11, Zenon
       DEF Next, CallStep, WorkStep, Done

-----------------------------------------------------------------------------
(* The theorems                                                            *)

\* The whole inductive invariant holds in every reachable state; the theorems
\* below are its consequences.
THEOREM Invariance == Spec => [](IInv /\ TaskInv /\ ExitInv)
  <1>1. Init => IInv /\ TaskInv /\ ExitInv
    BY InitIInv, InitTaskInv
  <1>2. (IInv /\ TaskInv /\ ExitInv) /\ [Next]_vars => (IInv /\ TaskInv /\ ExitInv)'
    BY NextIInv, NextTaskInv
  <1>3. QED
    BY <1>1, <1>2, PTL DEF Spec

\* Every reachable state of the pool is well typed.
THEOREM TypeCorrect == Spec => []TypeOK
  BY Invariance, PTL DEF IInv

\* No call of Submit or SubmitContext ever sends on the closed tasks channel
\* and Stop never closes a channel twice (workerpool.go:159-162, 194-196).
THEOREM ChannelSafety == Spec => []NoChannelPanic
  <1>1. IInv => NoChannelPanic
    BY DEF IInv, CloseInv, OnceInv, SendInv, NoChannelPanic
  <1>2. QED
    BY <1>1, Invariance, PTL

\* A task whose submission returned nil is queued, running or finished, and
\* no rejected task is (workerpool.go:163-236, 121-127).
THEOREM TasksConserved == Spec => []NoTaskLost
  <1>1. IInv /\ TaskInv => NoTaskLost
    BY PoolAssumption DEF IInv, TypeOK, TaskInv, NoTaskLost, Accepted, Queued, Elements, RunningTasks
  <1>2. QED
    BY <1>1, Invariance, PTL

\* A task is never started twice (workerpool.go:121-127).
THEOREM TasksRunOnce == Spec => []RunsAtMostOnce
  <1>1. ASSUME IInv, TaskInv PROVE RunsAtMostOnce
    <2>1. ASSUME NEW t \in Tasks PROVE runs[t] <= 1
      <3>1. runs[t] = 0 \/ t \in RunningTasks \/ t \in finished
        BY <1>1, Zenon DEF TaskInv
      <3>2. t \in RunningTasks => runs[t] = 1
        BY <1>1 DEF TaskInv, RunningTasks
      <3>3. t \in finished => runs[t] = 1
        BY <1>1, Zenon DEF TaskInv
      <3>4. QED
        BY <3>1, <3>2, <3>3
    <2>2. \A t \in Queued : t \in Tasks
      BY <1>1 DEF IInv, TypeOK, Queued, Elements
    <2>3. QED
      BY <1>1, <2>1, <2>2, ZenonT(30) DEF TaskInv, RunsAtMostOnce
  <1>2. QED
    BY <1>1, Invariance, PTL

\* When StopWait or Drain returns every accepted task has been executed and no
\* call is left that could still be accepted (workerpool.go:250-260).
THEOREM DrainIsComplete == Spec => []DrainComplete
  <1>1. ASSUME IInv, TaskInv, ExitInv PROVE DrainComplete
    <2> SUFFICES ASSUME NEW s \in Stoppers, stop[s] = "returned"
                 PROVE  /\ Accepted \subseteq finished
                        /\ \A t \in Tasks : call[t] \notin {"poll", "send"}
      BY DEF DrainComplete
    <2>1. PICK w \in Workers : w \in exited
      BY <1>1, PoolAssumption DEF ExitInv
    <2>2. queue = <<>> /\ tasksClosed
      BY <1>1, <2>1 DEF ExitInv
    <2>3. Queued = {} /\ RunningTasks = {}
      BY <1>1, <2>2 DEF ExitInv, Queued, Elements, RunningTasks
    <2>4. QED
      BY <1>1, <2>2, <2>3 DEF TaskInv, Accepted, IInv, CloseInv, LockInv
  <1>2. QED
    BY <1>1, Invariance, PTL

\* A call begun when IsClosed answers true is never accepted
\* (workerpool.go:262-275 with 171-181 and 207-219).
THEOREM LateCallsRejected == Spec => []ClosedPoolRejects
  <1>1. IInv => ClosedPoolRejects
    BY DEF IInv, LateInv, ClosedPoolRejects
  <1>2. QED
    BY <1>1, Invariance, PTL

-----------------------------------------------------------------------------
(* The shutdown manager                                                    *)

\* Where an error is on its way: from the hook that failed, through the channel, into
\* the error that Execute returns.  The channel is closed only when every goroutine has
\* counted itself done, so none of them sends afterwards.
ShutInv ==
    /\ hooks \subseteq Hooks /\ snapshot \subseteq Hooks
    /\ hook \in [Hooks -> {"none", "running", "send", "sent", "done"}]
    /\ execute \in {"idle", "select", "returned", "late", "lateReturned"}
    /\ execute = "idle" => snapshot = {} /\ errs = {} /\ done # TRUE
    /\ \A h \in Hooks : h \in snapshot <=> hook[h] # "none"
    /\ failed = errs \union reported \union {h \in Hooks : hook[h] = "send"}
    /\ execute \in {"idle", "select"} => reported = {}
    /\ done = TRUE => \A h \in snapshot : hook[h] = "done"
    /\ errsClosed = TRUE => execute = "returned"
    /\ execute = "returned" => errs = {} /\ \A h \in snapshot : hook[h] = "done"

\* Every step of the manager and of the hooks keeps ShutInv.
LEMMA ShutStep == ShutInv /\ [ShutdownNext]_shutdownVars => ShutInv'
<1> SUFFICES ASSUME ShutInv, [ShutdownNext]_shutdownVars PROVE ShutInv'
  OBVIOUS
<1> USE DEF ShutInv
<1>1. ASSUME NEW h \in Hooks, Register(h) PROVE ShutInv'
  BY <1>1, Zenon DEF Register
<1>2. CASE Start
  BY <1>2, Zenon DEF Start
<1>3. CASE Deadline
  BY <1>3, Zenon DEF Deadline
<1>4. ASSUME NEW h \in Hooks, HookReturns(h) PROVE ShutInv'
  BY <1>4, Zenon DEF HookReturns
<1>5. ASSUME NEW h \in Hooks, SendError(h) PROVE ShutInv'
  <2>1. errsClosed # TRUE
    BY <1>5, Zenon DEF SendError
  <2>2. hook' = [hook EXCEPT ![h] = "sent"] /\ errs' = errs \union {h}
    BY <1>5, <2>1, Zenon DEF SendError
  <2> QED
    BY <1>5, <2>1, <2>2, Zenon DEF SendError
<1>6. ASSUME NEW h \in Hooks, HookDone(h) PROVE ShutInv'
  BY <1>6, Zenon DEF HookDone
<1>7. CASE CloseDone
  BY <1>7 DEF CloseDone, AllDone
<1>8. CASE SelectDone
  BY <1>8 DEF SelectDone
<1>9. CASE SelectDeadline
  BY <1>9 DEF SelectDeadline
<1>10. CASE Drain
  BY <1>10, Zenon DEF Drain
<1>11. CASE UNCHANGED shutdownVars
  BY <1>11, Zenon DEF shutdownVars
<1> QED
  BY <1>1, <1>2, <1>3, <1>4, <1>5, <1>6, <1>7, <1>8, <1>9, <1>10, <1>11, Zenon
     DEF ShutdownNext, HookStep, ExecuteStep

\* An Execute that reports no deadline has seen every hook end and joins the errors of
\* exactly those that failed, for any set of hooks.
THEOREM ReportsAreComplete == ShutdownSpec => []ReportComplete
<1>1. ShutdownInit => ShutInv
  BY Zenon DEF ShutdownInit, ShutInv
<1>2. ShutInv => ReportComplete
  BY DEF ShutInv, ReportComplete
<1> QED
  BY <1>1, <1>2, ShutStep, PTL DEF ShutdownSpec

-----------------------------------------------------------------------------
(* The example service                                                     *)

\* What handleCreateTask and the hook workerpool do to the pool are steps of its callers
\* and stoppers; nothing else in the service touches it.
LEMMA ServiceUsesPool ==
    ASSUME [ServiceNext]_serviceVars
    PROVE  [Next]_vars
<1>1. ASSUME NEW t \in Tasks, CreateTask(t) PROVE Next
  <2>1. None \in Callers(t) /\ "Submit" \in Kinds
    BY DEF Callers
  <2>2. Begin(t, "Submit", None)
    BY <1>1 DEF CreateTask
  <2> QED
    BY <2>1, <2>2, Zenon DEF Next
<1>2. ASSUME PoolStep \/ StopWait PROVE Next
  BY <1>2, Zenon DEF PoolStep, StopWait, Next
<1>3. ASSUME UNCHANGED serviceVars PROVE UNCHANGED vars
  BY <1>3 DEF serviceVars
<1> QED
  BY <1>1, <1>2, <1>3, Zenon DEF ServiceNext, ServiceStep, Gone, RegisterHook, Listen, Signal, Respond, StopWaitReturns,
     CloseCache, CloseListener, ServerReturns, ManagerStep, Exit

\* A call that has returned, and a StopWait that has, stay so.
LEMMA PoolReturnsLast ==
    ASSUME TypeOK, [Next]_vars
    PROVE  /\ \A t \in Tasks : call[t] = "ok" => call'[t] = "ok"
           /\ \A s \in Stoppers : stop[s] = "returned" => stop'[s] = "returned"
<1> USE DEF TypeOK
<1>1. ASSUME NEW t \in Tasks, NEW k, NEW p, Begin(t, k, p) \/ ExpireContext(t)
      PROVE  (\A u \in Tasks : call[u] = "ok" => call'[u] = "ok") /\ stop' = stop
  BY <1>1 DEF Begin, ExpireContext, stopVars
<1>2. ASSUME NEW t \in Tasks, CallStep(t)
      PROVE  (\A u \in Tasks : call[u] = "ok" => call'[u] = "ok") /\ stop' = stop
  BY <1>2 DEF CallStep, AcquireRead, PollClosed, Send, GiveUp, Return, stopVars
<1>3. ASSUME NEW w \in Workers, WorkStep(w) PROVE call' = call /\ stop' = stop
  BY <1>3 DEF WorkStep, Receive, FinishTask, WorkerExit, callVars, stopVars
<1>4. ASSUME NEW s \in Stoppers, CallStop(s) \/ StopStep(s)
      PROVE  call' = call /\ \A r \in Stoppers : stop[r] = "returned" => stop'[r] = "returned"
  BY <1>4 DEF CallStop, StopStep, CloseSignal, LockAnnounce, CloseTasks, OnceDone, WaitReturns, callVars
<1>5. ASSUME Done \/ UNCHANGED vars PROVE call' = call /\ stop' = stop
  BY <1>5 DEF Done, vars, callVars, stopVars
<1> QED
  BY <1>1, <1>2, <1>3, <1>4, <1>5, Zenon DEF Next

\* The hook has returned nil.
Settled(h) == h \notin failed /\ hook[h] \in {"sent", "done"}

\* Only a hook's own return settles it.
LEMMA ReturnSettles ==
    ASSUME ShutInv, [ShutdownNext]_shutdownVars, NEW h \in Hooks, Settled(h)'
    PROVE  Settled(h) \/ (hook[h] = "running" /\ hook'[h] = "sent")
<1> USE DEF ShutInv, Settled
<1>1. ASSUME NEW k \in Hooks, HookReturns(k) PROVE Settled(h) \/ (hook[h] = "running" /\ hook'[h] = "sent")
  BY <1>1 DEF HookReturns
<1>2. ASSUME NEW k \in Hooks, HookStep(k) PROVE Settled(h)
  BY <1>2 DEF HookStep, SendError, HookDone
<1>3. ASSUME \/ Deadline \/ ExecuteStep \/ UNCHANGED shutdownVars
             \/ \E k \in Hooks : Register(k)
      PROVE  Settled(h)
  BY <1>3, Zenon DEF Register, Deadline, ExecuteStep, CloseDone, SelectDone, SelectDeadline, Drain, shutdownVars
<1>4. ~Start
  BY DEF Start
<1> QED
  BY <1>1, <1>2, <1>3, <1>4, Zenon DEF ShutdownNext

\* All three hooks run; one that returned nil has done its work, and a client was told
\* 201 only about an accepted task.
HooksInv ==
    /\ execute # "idle" => snapshot = HookNames
    /\ client \in [Tasks -> {"none", "waiting", "201", "503"}]
    /\ \A t \in Tasks : client[t] = "201" => call[t] = "ok"
    /\ Settled("http_server") => server = "shutdown" /\ Active = {}
    /\ Settled("workerpool") => \E s \in Stoppers : stop[s] = "returned"

\* What the service does with the manager are steps of the manager, and the signal finds
\* all hooks registered.
LEMMA ServiceUsesManager ==
    ASSUME [ServiceNext]_serviceVars
    PROVE  /\ [ShutdownNext]_shutdownVars
           /\ snapshot' = HookNames \/ (snapshot' = snapshot /\ (execute = "idle" => execute' = "idle"))
<1> USE ServiceAssumption
<1>1. ASSUME NEW h \in HookNames, RegisterHook(h)
      PROVE  Register(h) /\ execute' = execute /\ snapshot' = snapshot
  BY <1>1, Zenon DEF RegisterHook, Register
<1>2. ASSUME Signal PROVE Start /\ snapshot' = HookNames
  BY <1>2 DEF Signal, Start
<1>3. ASSUME ManagerStep
      PROVE  /\ Deadline \/ ExecuteStep \/ \E h \in HookNames : HookStep(h)
             /\ snapshot' = snapshot /\ (execute = "idle" => execute' = "idle")
  BY <1>3 DEF ManagerStep, Deadline, ExecuteStep, HookStep, CloseDone, SelectDone, SelectDeadline, Drain,
     SendError, HookDone
<1>4. ASSUME StopWaitReturns \/ CloseCache \/ ServerReturns
      PROVE  (\E h \in HookNames : HookReturns(h)) /\ execute' = execute /\ snapshot' = snapshot
  BY <1>4, Zenon DEF StopWaitReturns, CloseCache, ServerReturns, Succeeds, Fails, HookNames, HookReturns
<1>5. ASSUME \/ Listen \/ PoolStep \/ StopWait \/ CloseListener \/ Exit \/ Gone \/ UNCHANGED serviceVars
             \/ \E t \in Tasks : CreateTask(t) \/ Respond(t)
      PROVE  UNCHANGED shutdownVars /\ execute' = execute /\ snapshot' = snapshot
  BY <1>5, Zenon DEF Listen, PoolStep, StopWait, CloseListener, Exit, Gone, CreateTask, Respond, serviceVars, shutdownVars
<1> QED
  BY <1>1, <1>2, <1>3, <1>4, <1>5, Zenon DEF ServiceNext, ServiceStep, ShutdownNext

\* A hook returns nil where the service says so.
LEMMA ServiceSettles ==
    ASSUME ShutInv, [ServiceNext]_serviceVars,
           NEW h \in HookNames, hook[h] = "running", hook'[h] = "sent"
    PROVE  \/ h = "workerpool" /\ StopWaitReturns
           \/ h = "cache" /\ CloseCache
           \/ h = "http_server" /\ server = "shutdown" /\ server' = server
                              /\ ((Active = {} /\ client' = client) \/ h \in failed')
<1> USE ServiceAssumption DEF ShutInv
<1>1. ASSUME NEW k \in HookNames, HookReturns(k) PROVE k = h
  BY <1>1 DEF HookReturns
<1>2. ASSUME ServerReturns PROVE h = "http_server" /\ server = "shutdown" /\ server' = server
                                   /\ ((Active = {} /\ client' = client) \/ h \in failed')
  BY <1>1, <1>2 DEF ServerReturns, Succeeds, Fails, HookNames, mainVars
<1>3. ASSUME StopWaitReturns PROVE h = "workerpool"
  BY <1>1, <1>3 DEF StopWaitReturns, Succeeds, HookNames
<1>4. ASSUME CloseCache PROVE h = "cache"
  BY <1>1, <1>4 DEF CloseCache, Succeeds, HookNames
<1>5. ASSUME \/ Listen \/ PoolStep \/ StopWait \/ CloseListener \/ Exit \/ Gone \/ UNCHANGED serviceVars
             \/ \E t \in Tasks : CreateTask(t) \/ Respond(t)
      PROVE  hook' = hook
  BY <1>5, Zenon DEF Listen, PoolStep, StopWait, CloseListener, Exit, Gone, CreateTask, Respond, serviceVars, shutdownVars
<1>6. ASSUME Signal \/ \E k \in HookNames : RegisterHook(k) PROVE hook'[h] # "sent"
  BY <1>6 DEF Signal, RegisterHook, Start, Register
<1>7. ASSUME ManagerStep PROVE hook'[h] # "sent"
  BY <1>7 DEF ManagerStep, Deadline, ExecuteStep, HookStep, CloseDone,
     SelectDone, SelectDeadline, Drain, SendError, HookDone
<1> QED
  BY <1>2, <1>3, <1>4, <1>5, <1>6, <1>7, Zenon DEF ServiceNext, ServiceStep

\* HooksInv is inductive.
LEMMA HooksKeep ==
    ASSUME TypeOK, ShutInv, HooksInv, [ServiceNext]_serviceVars
    PROVE  HooksInv'
<1>1. [Next]_vars /\ \A h \in HookNames :
                        Settled(h)' => Settled(h) \/ (hook[h] = "running" /\ hook'[h] = "sent")
  BY ServiceUsesPool, ServiceUsesManager, ReturnSettles, ServiceAssumption, Zenon
<1>2. /\ \A t \in Tasks : call[t] = "ok" => call'[t] = "ok"
      /\ \A s \in Stoppers : stop[s] = "returned" => stop'[s] = "returned"
  BY <1>1, PoolReturnsLast, Zenon
<1>3. "http_server" \in HookNames /\ "workerpool" \in HookNames
  BY DEF HookNames
<1>4. \/ \E t \in Tasks : CreateTask(t) \/ Respond(t)
      \/ client' = client /\ (server' = server \/ server = "new" \/ server' = "shutdown")
  BY Zenon DEF ServiceNext, ServiceStep, RegisterHook, Listen, Signal, PoolStep, StopWait, StopWaitReturns, CloseCache,
     CloseListener, ServerReturns, ManagerStep, Exit, Gone, serviceVars, mainVars
<1>5. ASSUME NEW t \in Tasks, CreateTask(t) \/ Respond(t)
      PROVE  /\ client' \in [Tasks -> {"none", "waiting", "201", "503"}]
             /\ \A u \in Tasks : client'[u] = "201" => call'[u] = "ok"
             /\ Active' \subseteq Active \/ server # "shutdown"
             /\ server' = server
  BY <1>2, <1>5, Zenon DEF HooksInv, CreateTask, Respond, Active
<1>6. /\ client' \in [Tasks -> {"none", "waiting", "201", "503"}]
      /\ \A u \in Tasks : client'[u] = "201" => call'[u] = "ok"
  BY <1>2, <1>4, <1>5, Zenon DEF HooksInv
<1>7. server = "shutdown" => server' = "shutdown" /\ Active' \subseteq Active
  BY <1>4, <1>5 DEF Active
<1>8. ASSUME Settled("http_server")' PROVE server' = "shutdown" /\ Active' = {}
  <2>1. CASE Settled("http_server")
    BY <2>1, <1>7 DEF HooksInv
  <2>2. CASE hook["http_server"] = "running" /\ hook'["http_server"] = "sent"
    BY <1>3, <1>7, <1>8, <2>2, ServiceSettles DEF Settled
  <2> QED
    BY <1>1, <1>3, <1>8, <2>1, <2>2
<1>9. ASSUME Settled("workerpool")' PROVE \E s \in Stoppers : stop'[s] = "returned"
  <2>1. CASE Settled("workerpool")
    BY <2>1, <1>2 DEF HooksInv
  <2>2. CASE hook["workerpool"] = "running" /\ hook'["workerpool"] = "sent"
    BY <1>2, <1>3, <2>2, ServiceSettles DEF StopWaitReturns
  <2> QED
    BY <1>1, <1>3, <1>9, <2>1, <2>2
<1>10. execute' # "idle" => snapshot' = HookNames
  BY ServiceUsesManager DEF HooksInv
<1> QED
  BY <1>6, <1>8, <1>9, <1>10, Zenon DEF HooksInv

\* For any number of requests, workers and queue places: when main exits without a
\* shutdown error every request it took was answered, and every task whose client was
\* told 201 has been executed, although the hooks close the server and the pool side by
\* side (main.go:302-309, 645-656, 669-682).
THEOREM ConfirmedTasksRun == ServiceSpec => []QueuedTasksRun
<1> DEFINE PoolInv == IInv /\ TaskInv /\ ExitInv
<1>1. ServiceInit => Init /\ ShutInv /\ HooksInv
  BY ServiceAssumption, Zenon DEF ServiceInit, ShutdownInit, ShutInv, HooksInv, Settled, HookNames
<1>2. [ServiceNext]_serviceVars => [Next]_vars
  BY ServiceUsesPool
<1>3. ServiceSpec => []PoolInv /\ []DrainComplete
  BY <1>1, <1>2, Invariance, DrainIsComplete, PTL DEF ServiceSpec, Spec
<1>4. PoolInv /\ ShutInv /\ HooksInv /\ [ServiceNext]_serviceVars => (ShutInv /\ HooksInv)'
  <2> SUFFICES ASSUME PoolInv, ShutInv, HooksInv, [ServiceNext]_serviceVars PROVE ShutInv' /\ HooksInv'
    OBVIOUS
  <2>1. TypeOK
    BY DEF IInv
  <2>2. ShutInv'
    BY ServiceUsesManager, ShutStep
  <2> QED
    BY <2>1, <2>2, HooksKeep
<1>5. DrainComplete /\ ShutInv /\ HooksInv => QueuedTasksRun
  <2> SUFFICES ASSUME DrainComplete, ShutInv, HooksInv, execute = "returned", reported = {}
               PROVE  Active = {} /\ \A t \in Tasks : client[t] = "201" => t \in finished
    BY DEF QueuedTasksRun
  <2>1. Settled("http_server") /\ Settled("workerpool")
    BY ServiceAssumption DEF ShutInv, HooksInv, Settled, HookNames
  <2>2. PICK s \in Stoppers : stop[s] = "returned"
    BY <2>1 DEF HooksInv
  <2> QED
    BY <2>1, <2>2 DEF HooksInv, DrainComplete, Accepted
<1> HIDE DEF PoolInv
<1> QED
  BY <1>1, <1>3, <1>4, <1>5, PTL DEF ServiceSpec

-----------------------------------------------------------------------------
(* The LFU cache: the theorems                                             *)

INSTANCE FiniteSetTheorems

\* The set of keys is finite, so its subsets can be counted.
LEMMA LFUCounting == Counting
<1>1. ASSUME NEW S \in SUBSET Keys PROVE IsFiniteSet(S) /\ Cardinality(S) \in Nat
  BY LFUAssumption, FS_Subset, FS_CardinalityType
<1>2. ASSUME NEW S \in SUBSET Keys, NEW k \in S PROVE Cardinality(S \ {k}) = Cardinality(S) - 1
  BY <1>1, FS_RemoveElement
<1>3. ASSUME NEW S \in SUBSET Keys, NEW k \in Keys \ S PROVE Cardinality(S \union {k}) = Cardinality(S) + 1
  BY <1>1, FS_AddElement
<1> QED
  BY <1>1, <1>2, <1>3, FS_EmptySet, Zenon DEF Counting

\* The inductive invariant: minFreq bounds the frequencies from below and is on a
\* non-empty bucket whenever the cache is full.
THEOREM LFUInvariance == LFUSpec => []LFUInv
  BY LFUCounting, InitInv, NextInv, PTL DEF LFUSpec

\* The LFU cache never holds more items than its capacity: Set of a new key into a
\* full cache always finds an item to evict.
THEOREM LFUIsBounded == LFUSpec => []CapacityHolds
<1>1. LFUInv => CapacityHolds
  BY DEF LFUInv
<1> QED
  BY <1>1, LFUInvariance, PTL

\* Map and frequency buckets agree after any sequence of calls and expirations.
THEOREM BucketsAgree == LFUSpec => []BucketsMatchItems
<1>1. LFUInv => BucketsMatchItems
  <2> SUFFICES ASSUME LFUInv PROVE BucketsMatchItems
    OBVIOUS
  <2>1. \A k \in items : freq[k] \in 1..MaxFreq /\ k \in ListElements(freqBuckets[freq[k]])
    BY BucketOf DEF LFUInv
  <2>2. \A f \in 1..MaxFreq : \A i \in DOMAIN freqBuckets[f] :
          freqBuckets[f][i] \in items /\ freq[freqBuckets[f][i]] = f
    BY DEF LFUInv, BucketSets, ListElements
  <2>3. \A f \in 1..MaxFreq : NoDuplicates(freqBuckets[f])
    BY DEF LFUInv, BucketSets
  <2> QED
    BY <2>1, <2>2, <2>3 DEF BucketsMatchItems, ListElements, NoDuplicates
<1> QED
  BY <1>1, LFUInvariance, PTL

\* What an insertion evicts is one of the least frequently used items.
THEOREM LeastUsedIsEvicted == LFUSpec => EvictsLeastUsed
<1> DEFINE Least == \A v \in Keys : Evicts(v) => \A k \in items : freq[v] <= freq[k]
<1>1. LFUInv /\ [LFUNext]_lfuVars => [Least]_lfuVars
  <2> SUFFICES ASSUME LFUInv, LFUNext, NEW v \in Keys, Evicts(v) PROVE \A k \in items : freq[v] <= freq[k]
    OBVIOUS
  <2>1. PICK k \in Keys : k \in items' /\ k \notin items
    BY DEF Evicts
  <2>2. PICK j \in Keys : Insert(j)
    BY <2>1 DEF LFUNext, Get, Set, Miss, Hit, FoundExpired, Update, Delete, Expire, RemoveItem, lfuVars
  <2>3. v \in Victims
    BY <2>2 DEF Insert, Evicts
  <2>4. freq[v] = minFreq
    BY <2>3, VictimFacts, LFUCounting, Zenon
  <2> QED
    BY <2>4 DEF LFUInv, MinFreqInv
<1> QED
  BY <1>1, LFUInvariance, PTL DEF LFUSpec, EvictsLeastUsed
=============================================================================
