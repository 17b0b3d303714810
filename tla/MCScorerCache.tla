---------------------------- MODULE MCScorerCache ---------------------------
(* TLC instance of ScorerCache. *)
EXTENDS ScorerCache, TLC

ScorerSymmetry == Permutations(Threads)
=============================================================================
