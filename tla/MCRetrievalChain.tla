-------------------------- MODULE MCRetrievalChain --------------------------
(* TLC instance of RetrievalChain: the requests of MCSelection. *)
EXTENDS RetrievalChain, MCSelection

MCBlockLength == [a \in MCItems |->
    CASE a = L1 -> 3 [] a = L2 -> 5 [] a = L3 -> 1 [] a = M -> 4
      [] a = T1 -> 2 [] a = T2 -> 6 [] OTHER -> 2]
MCPromptItems == {-1, 2}
=============================================================================
