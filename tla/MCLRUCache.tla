----------------------------- MODULE MCLRUCache -----------------------------
(***************************************************************************)
(* LRUCache on a few keys and values, with the history of RecentUse.        *)
(***************************************************************************)
EXTENDS RecentUse, TLC

Symmetry == Permutations(Key) \cup Permutations(Value)
=============================================================================
