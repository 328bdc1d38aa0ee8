---------------------------- MODULE CacheContract ----------------------------
(***************************************************************************)
(* What a route cache promises (docs/ALGORITHMS.md "LRU Cache"): a lookup   *)
(* answers what was last stored under the key or nothing at all, a store is *)
(* found by the next lookup, and nothing is dropped before the cache is     *)
(* full, and then one key per store.                                        *)
(***************************************************************************)
EXTENDS Naturals, FiniteSets

CONSTANTS Key, Value, NoValue, Room

VARIABLES
    held,  \* what the cache still knows
    reply  \* the last call and its answer: callers see nothing else

vars == <<held, reply>>

Init == held = <<>> /\ reply = [op |-> "clear"]

Get(k) ==
    /\ reply' = [op |-> "get", key |-> k,
                 value |-> IF k \in DOMAIN held THEN held[k] ELSE NoValue]
    /\ UNCHANGED held

Put(k, v) ==
    LET after == [x \in DOMAIN held \cup {k} |-> IF x = k THEN v ELSE held[x]]
    IN  /\ \/ /\ k \in DOMAIN held \/ Cardinality(DOMAIN held) < Room
              /\ held' = after
           \/ /\ k \notin DOMAIN held /\ Cardinality(DOMAIN held) = Room
              /\ \E out \in DOMAIN held :
                    held' = [x \in DOMAIN after \ {out} |-> after[x]]
        /\ reply' = [op |-> "put", key |-> k, value |-> v]

Clear == held' = <<>> /\ reply' = [op |-> "clear"]

Next == \/ \E k \in Key : Get(k) \/ \E v \in Value : Put(k, v)
        \/ Clear

Spec == Init /\ [][Next]_vars
=============================================================================
