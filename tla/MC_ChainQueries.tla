--------------------------- MODULE MC_ChainQueries ---------------------------
(* The reads of ChainQueries over the block tree of MC_ChainStorage.       *)
EXTENDS MC_ChainStorage, ChainQueries
=============================================================================
