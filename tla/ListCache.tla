----------------------------- MODULE ListCache ------------------------------
(***************************************************************************)
(* The LRU and FIFO caches, cache/lru.go and cache/fifo.go: a map to nodes *)
(* of a doubly linked list, pointer by pointer.  The two files differ only *)
(* in that a use moves a node to the front of the LRU list.  Every method  *)
(* runs under one mutex and is one step.  Nodes come from a pool one larger*)
(* than the cache can hold; a node nothing points to is garbage.  Of an    *)
(* expiration only matters whether the clock has passed it; whether an item*)
(* was stored with a TTL shows when it expires.                            *)
(***************************************************************************)
EXTENDS Naturals, Sequences, FiniteSets

CONSTANTS Keys, Capacity, Nil

VARIABLES
    policy,   \* TypedCache.policy, which selects the backend
    items,    \* key -> its node, or Nil
    node,     \* what a node holds: its key, and whether it has expired
    list      \* the pointers: head, tail, and next and prev of each node

vars == <<policy, items, node, list>>

Nodes == 1 .. Capacity + 1

Blank == [key |-> Nil, expired |-> FALSE]

Init ==
    /\ policy \in {"EvictionLRU", "EvictionFIFO"}
    /\ items = [k \in Keys |-> Nil]
    /\ node = [n \in Nodes |-> Blank]
    /\ list = [head |-> Nil, tail |-> Nil,
               next |-> [n \in Nodes |-> Nil], prev |-> [n \in Nodes |-> Nil]]

AddToFront(l, n) ==
    [head |-> n,
     tail |-> IF l.tail = Nil THEN n ELSE l.tail,
     next |-> [l.next EXCEPT ![n] = l.head],
     prev |-> [m \in Nodes |-> IF m = l.head THEN n ELSE IF m = n THEN Nil ELSE l.prev[m]]]

RemoveNode(l, n) ==
    LET p == l.prev[n]
        x == l.next[n]
    IN  [head |-> IF p = Nil THEN x ELSE l.head,
         tail |-> IF x = Nil THEN p ELSE l.tail,
         next |-> [m \in Nodes |-> IF m = n THEN Nil ELSE IF m = p THEN x ELSE l.next[m]],
         prev |-> [m \in Nodes |-> IF m = n THEN Nil ELSE IF m = x THEN p ELSE l.prev[m]]]

MoveToFront_Never(l, n) == l
MoveToFront(l, n) == IF l.head = n THEN l ELSE AddToFront(RemoveNode(l, n), n)

\* A hit, or a Set of a key that is there, in each backend.
UseLRU(n) == policy = "EvictionLRU" /\ list' = MoveToFront(list, n)
UseFIFO(n) == policy = "EvictionFIFO" /\ UNCHANGED list
Use(n) == UseLRU(n) \/ UseFIFO(n)

\* removeNode, and the key taken out of the map.
Drop(k) ==
    /\ list' = RemoveNode(list, items[k])
    /\ items' = [items EXCEPT ![k] = Nil]
    /\ node' = [node EXCEPT ![items[k]] = Blank]

Hit(k) ==
    /\ items[k] # Nil
    /\ ~node[items[k]].expired
    /\ Use(items[k])
    /\ UNCHANGED <<items, node>>

\* An expired item is removed by the Get that finds it.
FoundExpired(k) == items[k] # Nil /\ node[items[k]].expired /\ Drop(k)

Get(k) == Hit(k) \/ FoundExpired(k)

\* Set of a key that is there, expired or not.
Update(k) ==
    /\ items[k] # Nil
    /\ node' = [node EXCEPT ![items[k]].expired = FALSE]
    /\ Use(items[k])
    /\ UNCHANGED items

\* evictOldest takes the tail, if there is one.
Evicted == IF Cardinality({k \in Keys : items[k] # Nil}) >= Capacity /\ list.tail # Nil
           THEN {list.tail}
           ELSE {}

\* A node that neither the map nor the list refers to.
Fresh == CHOOSE n \in Nodes :
           /\ n \notin {list.head, list.tail}
           /\ \A m \in Nodes : list.next[m] # n /\ list.prev[m] # n
           /\ \A k \in Keys : items[k] # n

\* Set of a new key.
Insert(k) ==
    LET room == IF Evicted = {} THEN list ELSE RemoveNode(list, list.tail)
        evictedKeys == {node[n].key : n \in Evicted}
    IN  /\ items[k] = Nil
        /\ list' = AddToFront(room, Fresh)
        /\ items' = [j \in Keys |-> IF j = k THEN Fresh
                                    ELSE IF j \in evictedKeys THEN Nil ELSE items[j]]
        /\ node' = [n \in Nodes |-> IF n = Fresh THEN [key |-> k, expired |-> FALSE]
                                    ELSE IF n \in Evicted THEN Blank ELSE node[n]]

Set(k) == Update(k) \/ Insert(k)

Delete(k) == items[k] # Nil /\ Drop(k)

\* The clock passes the expiration of an item.
Expire(k) ==
    /\ items[k] # Nil
    /\ node' = [node EXCEPT ![items[k]].expired = TRUE]
    /\ UNCHANGED <<items, list>>

Next == (\E k \in Keys : Get(k) \/ Set(k) \/ Delete(k) \/ Expire(k)) /\ UNCHANGED policy

Spec == Init /\ [][Next]_vars

-----------------------------------------------------------------------------

\* The nodes in the order of the next pointers.
Chain ==
    LET at[i \in Nodes] ==
          IF i = 1 THEN list.head
          ELSE LET m == at[i - 1] IN IF m = Nil THEN Nil ELSE list.next[m]
        length == Cardinality({i \in Nodes : at[i] # Nil})
    IN  [i \in 1..length |-> at[i]]

\* The refinement mapping to OrderedCache.
Order == LET chain == Chain IN [i \in DOMAIN chain |-> node[chain[i]].key]
Expired == {k \in Keys : items[k] # Nil /\ node[items[k]].expired}
=============================================================================
