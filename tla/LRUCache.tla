------------------------------ MODULE LRUCache ------------------------------
(***************************************************************************)
(* LRUCache (backend/src/core/cache/LRUCache.hpp).  Every operation holds   *)
(* mutex_ from its first statement to its last, so each is one step.        *)
(* lru_list_ is a sequence of entries, most recently used first; map_ is    *)
(* the set of keys it holds, an iterator being found by its key: that the   *)
(* two structures never disagree is what Coherent says, not assumed.        *)
(***************************************************************************)
EXTENDS Naturals, Sequences, FiniteSets

CONSTANTS
    Key, Value, NoValue,
    Capacity,  \* the constructor's argument, 0 included
    MaxLookups \* bound on hit_count_ + miss_count_ (uint64_t), for TLC

ASSUME CapacityAssumption == Capacity \in Nat
ASSUME NoValueAssumption == NoValue \notin Value

VARIABLES
    list,   \* lru_list_
    map,    \* keys of map_
    hits, misses,
    reply   \* the last operation and what it returned

vars == <<list, map, hits, misses, reply>>

Room == IF Capacity > 0 THEN Capacity ELSE 1

Init == list = <<>> /\ map = {} /\ hits = 0 /\ misses = 0 /\ reply = [op |-> "clear"]

-----------------------------------------------------------------------------
Position(k) == CHOOSE i \in DOMAIN list : list[i].key = k

\* splice(begin(), list, it): entry i moves to the front, the rest keep order
ToFront(s, i) == [j \in 1..Len(s) |-> IF j = 1 THEN s[i]
                                      ELSE IF j <= i THEN s[j - 1] ELSE s[j]]

PromoteNothingMutant(s, i) == s

Promote(s, i) == ToFront(s, i)

GetMissUncountedMutant(k) ==
    /\ k \notin map
    /\ reply' = [op |-> "get", key |-> k, value |-> NoValue]
    /\ UNCHANGED <<list, map, hits, misses>>

GetMissDownMutant(k) ==
    /\ k \notin map
    /\ misses' = misses - 1
    /\ reply' = [op |-> "get", key |-> k, value |-> NoValue]
    /\ UNCHANGED <<list, map, hits>>

GetMiss(k) ==
    /\ k \notin map
    /\ misses' = misses + 1
    /\ reply' = [op |-> "get", key |-> k, value |-> NoValue]
    /\ UNCHANGED <<list, map, hits>>

GetHit(k) ==
    /\ k \in map
    /\ hits' = hits + 1
    /\ list' = Promote(list, Position(k))
    /\ reply' = [op |-> "get", key |-> k, value |-> list[Position(k)].value]
    /\ UNCHANGED <<map, misses>>

Get(k) == hits + misses < MaxLookups /\ (GetMiss(k) \/ GetHit(k))

PutExistingKeepsOldMutant(k, v) ==
    /\ k \in map
    /\ list' = ToFront(list, Position(k))
    /\ UNCHANGED map

PutExisting(k, v) ==
    /\ k \in map
    /\ list' = ToFront([list EXCEPT ![Position(k)].value = v], Position(k))
    /\ UNCHANGED map

FullLateMutant == Cardinality(map) > Room

Full == Cardinality(map) >= Room

\* at capacity the last entry is dropped, and its key from the map
Kept == IF Full THEN SubSeq(list, 1, Len(list) - 1) ELSE list

LeftNotErasedMutant == map

Left == IF Full THEN map \ {list[Len(list)].key} ELSE map

PutNew(k, v) ==
    /\ k \notin map
    /\ list' = <<[key |-> k, value |-> v]>> \o Kept
    /\ map' = Left \cup {k}

Put(k, v) == /\ PutExisting(k, v) \/ PutNew(k, v)
             /\ reply' = [op |-> "put", key |-> k, value |-> v]
             /\ UNCHANGED <<hits, misses>>

Clear ==
    /\ list' = <<>> /\ map' = {} /\ hits' = 0 /\ misses' = 0
    /\ reply' = [op |-> "clear"]

Next == \/ \E k \in Key : Get(k) \/ \E v \in Value : Put(k, v)
        \/ Clear

Spec == Init /\ [][Next]_vars

-----------------------------------------------------------------------------
(* Types of the list, the map, the counters and the last reply.             *)
TypeOK ==
    /\ list \in Seq([key: Key, value: Value])
    /\ map \subseteq Key
    /\ hits \in Nat /\ misses \in Nat
    /\ reply \in {[op |-> "clear"]}
                  \cup [op: {"get"}, key: Key, value: Value \cup {NoValue}]
                  \cup [op: {"put"}, key: Key, value: Value]

(* The map points at exactly the entries of the list, each key once: no     *)
(* dangling iterator (get and put dereference it->second unchecked) and no  *)
(* entry that can never be found or evicted again.                          *)
Coherent ==
    /\ map = {list[i].key : i \in DOMAIN list}
    /\ \A i, j \in DOMAIN list : list[i].key = list[j].key => i = j

(* back() and pop_back() are only reached with an entry to drop, and the    *)
(* cache never outgrows its capacity, 0 counting as 1.                      *)
Bounded == Len(list) <= Room

Held == [k \in map |-> list[Position(k)].value]

C == INSTANCE CacheContract WITH held <- Held

(* The linked list and the hash map together are a map that forgets.        *)
ImplementsContract == C!Spec
=============================================================================
