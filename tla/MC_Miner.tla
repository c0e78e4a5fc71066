------------------------------ MODULE MC_Miner ------------------------------
(* A miner that mines on the tip only, stops at height 3 or after two     *)
(* blocks, and submits only headers of difficulty 2 or more; the chain is *)
(* built by others up to the stop height, and the environment fails at    *)
(* most two gRPC calls.                                                    *)
EXTENDS Miner

MCMineUntilHeight == 3
MCMaxBlocks == 2
MCMinDiff == 2
MCDifficulties == {1, 2}
MCMaxHeight == 3
MCMaxFaults == 2
=============================================================================
