------------------------------ MODULE LFUCache ------------------------------
(***************************************************************************)
(* The least-frequently-used cache, cache/lfu.go.  Every method runs under *)
(* one mutex and is one step.  A bucket's linked list is a sequence with   *)
(* its head first; pointers are followed in ListCache only.                *)
(* Values are left out.  Of an expiration only matters whether the clock   *)
(* has passed it; whether an item has a TTL shows when it expires.         *)
(***************************************************************************)
EXTENDS Naturals, Sequences, FiniteSets

CONSTANTS
    Keys,
    capacity,   \* as passed to newLFUBackend; 0 means the default
    MaxFreq     \* bound on the frequencies TLC explores; the code has none

ASSUME LFUAssumption ==
    IsFiniteSet(Keys) /\ capacity \in Nat /\ MaxFreq \in Nat \ {0, 1}

VARIABLES
    items,        \* the keys of the map
    freq,         \* the frequency in a key's node, 0 without a node
    expired,      \* the items whose expiration has passed
    freqBuckets,
    minFreq,
    touched       \* history: the items, most recently used first

lfuVars == <<items, freq, expired, freqBuckets, minFreq, touched>>

Capacity == IF capacity <= 0 THEN 128 ELSE capacity

LFUInit ==
    /\ items = {}
    /\ freq = [k \in Keys |-> 0]
    /\ expired = {}
    /\ freqBuckets = [f \in 1..MaxFreq |-> <<>>]
    /\ minFreq = 0
    /\ touched = <<>>

\* A bucket that was never created is as good as an empty one.
Bucket(f) == IF f \in DOMAIN freqBuckets THEN freqBuckets[f] ELSE <<>>

\* lfuList.remove: the list without the node of k.
Without(list, k) ==
    LET at == CHOOSE i \in DOMAIN list : list[i] = k
    IN  [i \in 1 .. Len(list) - 1 |-> IF i < at THEN list[i] ELSE list[i + 1]]

\* minFreq after the node of k has left its bucket.
MinFreqWithout(k) ==
    IF freq[k] = minFreq /\ Without(Bucket(freq[k]), k) = <<>>
    THEN minFreq + 1
    ELSE minFreq

IncrementFreq_PushBack(k) ==
    /\ freq[k] < MaxFreq
    /\ freqBuckets' = [freqBuckets EXCEPT ![freq[k]] = Without(@, k),
                                          ![freq[k] + 1] = Append(@, k)]
    /\ minFreq' = MinFreqWithout(k)
    /\ freq' = [freq EXCEPT ![k] = @ + 1]
    /\ touched' = <<k>> \o Without(touched, k)
IncrementFreq(k) ==
    /\ freq[k] < MaxFreq   \* the bound
    /\ freqBuckets' = [freqBuckets EXCEPT ![freq[k]] = Without(@, k),
                                          ![freq[k] + 1] = <<k>> \o @]
    /\ minFreq' = MinFreqWithout(k)
    /\ freq' = [freq EXCEPT ![k] = @ + 1]
    /\ touched' = <<k>> \o Without(touched, k)

\* removeNode, and the key taken out of the map.
RemoveItem(k) ==
    /\ freqBuckets' = [freqBuckets EXCEPT ![freq[k]] = Without(@, k)]
    /\ minFreq' = MinFreqWithout(k)
    /\ items' = items \ {k}
    /\ freq' = [freq EXCEPT ![k] = 0]
    /\ expired' = expired \ {k}
    /\ touched' = Without(touched, k)

Miss(k) == k \notin items /\ UNCHANGED lfuVars

Hit(k) ==
    /\ k \in items
    /\ k \notin expired
    /\ IncrementFreq(k)
    /\ UNCHANGED <<items, expired>>

\* An expired item is removed by the Get that finds it.
FoundExpired(k) == k \in items /\ k \in expired /\ RemoveItem(k)

Get(k) == Miss(k) \/ Hit(k) \/ FoundExpired(k)

\* Set of a key that is there, expired or not.
Update(k) ==
    /\ k \in items
    /\ IncrementFreq(k)
    /\ expired' = expired \ {k}
    /\ UNCHANGED items

\* evictMinFreq: the node popTail removes, if the bucket of minFreq has any.
Victims == LET list == Bucket(minFreq)
           IN  IF Cardinality(items) >= Capacity /\ list # <<>>
               THEN {list[Len(list)]}
               ELSE {}

Insert_KeepsMinFreq(k) ==
    LET evicted(list) == IF Victims = {} THEN list ELSE SubSeq(list, 1, Len(list) - 1)
    IN  /\ k \notin items
        /\ items' = (items \ Victims) \union {k}
        /\ freqBuckets' =
             [f \in DOMAIN freqBuckets |->
                LET list == IF f = minFreq THEN evicted(freqBuckets[f]) ELSE freqBuckets[f]
                IN  IF f = 1 THEN <<k>> \o list ELSE list]
        /\ minFreq' = IF minFreq = 0 THEN 1 ELSE minFreq
        /\ freq' = [j \in Keys |-> IF j = k THEN 1 ELSE IF j \in Victims THEN 0 ELSE freq[j]]
        /\ expired' = expired \ Victims
        /\ touched' = <<k>> \o (IF Victims = {} THEN touched
                                ELSE Without(touched, CHOOSE v \in Victims : TRUE))
\* Set of a new key: make room, then put the node at the head of bucket 1.
Insert(k) ==
    LET evicted(list) == IF Victims = {} THEN list ELSE SubSeq(list, 1, Len(list) - 1)
    IN  /\ k \notin items
        /\ items' = (items \ Victims) \union {k}
        /\ freqBuckets' =
             [f \in DOMAIN freqBuckets |->
                LET list == IF f = minFreq THEN evicted(freqBuckets[f]) ELSE freqBuckets[f]
                IN  IF f = 1 THEN <<k>> \o list ELSE list]
        /\ minFreq' = 1
        /\ freq' = [j \in Keys |-> IF j = k THEN 1 ELSE IF j \in Victims THEN 0 ELSE freq[j]]
        /\ expired' = expired \ Victims
        /\ touched' = <<k>> \o (IF Victims = {} THEN touched
                                ELSE Without(touched, CHOOSE v \in Victims : TRUE))

Set(k) == Update(k) \/ Insert(k)

Delete(k) == k \in items /\ RemoveItem(k)

\* The clock passes the expiration of an item.
Expire(k) ==
    /\ k \in items
    /\ expired' = expired \union {k}
    /\ UNCHANGED <<items, freq, freqBuckets, minFreq, touched>>

LFUNext == \E k \in Keys : Get(k) \/ Set(k) \/ Delete(k) \/ Expire(k)

LFUSpec == LFUInit /\ [][LFUNext]_lfuVars

-----------------------------------------------------------------------------

\* The cache never holds more than its capacity.  It would if evictMinFreq found
\* the bucket of minFreq empty while the cache is full: then it evicts nothing.
CapacityHolds == Cardinality(items) <= Capacity

\* Map and buckets agree: an item's node is in the list of its frequency, once,
\* and the lists hold nothing else.
BucketsMatchItems ==
    /\ \A k \in items : freq[k] \in 1..MaxFreq
                        /\ \E i \in DOMAIN freqBuckets[freq[k]] : freqBuckets[freq[k]][i] = k
    /\ \A f \in 1..MaxFreq : \A i, j \in DOMAIN freqBuckets[f] :
         /\ freqBuckets[f][i] \in items /\ freq[freqBuckets[f][i]] = f
         /\ freqBuckets[f][i] = freqBuckets[f][j] => i = j

\* The item evicted by the insertion of another.
Evicts(v) == v \in items /\ v \notin items' /\ \E k \in Keys : k \in items' /\ k \notin items

\* An item evicted to make room is one of the least frequently used: minFreq was
\* the least frequency, although removals may leave it on an empty bucket.
EvictsLeastUsed == [][\A v \in Keys : Evicts(v) => \A k \in items : freq[v] <= freq[k]]_lfuVars

\* Among equally frequent items the least recently used one is evicted.
TiesByRecency ==
    [][\A v \in Keys : Evicts(v) =>
         \A i, j \in DOMAIN touched :
           touched[i] = v /\ freq[touched[j]] = freq[v] => j <= i]_lfuVars
=============================================================================
