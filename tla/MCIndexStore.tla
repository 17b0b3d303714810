---------------------------- MODULE MCIndexStore ----------------------------
(* TLC instance of IndexStore: the sets and symmetries of its runs. *)
EXTENDS IndexStore, TLC

StoreSymmetry == Permutations(Builders) \cup Permutations(Generations)
=============================================================================
