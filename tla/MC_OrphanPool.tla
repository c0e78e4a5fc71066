--------------------------- MODULE MC_OrphanPool ---------------------------
(* An orphan tree hanging off main-chain block M: P at height 1, its two  *)
(* children C1 and C2 at height 2, D on C1 at height 3, and Q at height 2  *)
(* whose parent X is unknown.                                             *)
EXTENDS OrphanPool

CONSTANTS M, X, P, C1, C2, D, Q

MCBlocks == {P, C1, C2, D, Q}
MCMainChain == {M}
MCParent == [b \in MCBlocks |->
                CASE b = P -> M [] b = C1 -> P [] b = C2 -> P [] b = D -> C1 [] b = Q -> X]
MCHeight == [b \in MCBlocks |->
                CASE b = P -> 1 [] b = C1 -> 2 [] b = C2 -> 2 [] b = D -> 3 [] b = Q -> 2]
MCHorizons == {1, 2}
MCCapacities == {1, 3}
====
