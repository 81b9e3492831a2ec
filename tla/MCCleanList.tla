---------------------------- MODULE MCCleanList ----------------------------
(* The clean list of a bank with four blocks and one node per block.       *)
EXTENDS CleanList, TLC

MCBlocks == {"b1", "b2", "b3", "b4"}
MCNumNodes == 4
=============================================================================
