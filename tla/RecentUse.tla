------------------------------ MODULE RecentUse ------------------------------
(***************************************************************************)
(* The cache with the history of its uses: lastUse[k] is the moment of the  *)
(* last get that hit k or put of k.  The cache does not see the history.    *)
(***************************************************************************)
EXTENDS LRUCache

CONSTANT MaxUses \* bound on the moments, for TLC

VARIABLES now, lastUse

usedVars == <<list, map, hits, misses, reply, now, lastUse>>

UsedInit == Init /\ now = 0 /\ lastUse = [k \in Key |-> 0]

Use(k) == now' = now + 1 /\ lastUse' = [lastUse EXCEPT ![k] = now + 1]

UsedGet(k) == /\ Get(k)
              /\ IF k \in map THEN Use(k) ELSE UNCHANGED <<now, lastUse>>

UsedPut(k, v) == Put(k, v) /\ Use(k)

UsedClear == Clear /\ UNCHANGED <<now, lastUse>>

UsedNext ==
    /\ now < MaxUses
    /\ \/ \E k \in Key : UsedGet(k) \/ \E v \in Value : UsedPut(k, v)
       \/ UsedClear

UsedSpec == UsedInit /\ [][UsedNext]_usedVars

(* docs/ALGORITHMS.md "Eviction Policy": the entry dropped is the one that  *)
(* has gone unused longest, hits and updates counting as uses.              *)
EvictsLeastRecent ==
    [][\A out \in map \ map' :
          map' # {} => \A k \in map : lastUse[out] <= lastUse[k]]_usedVars
=============================================================================
