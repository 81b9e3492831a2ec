------------------------ MODULE MCValidChunksHeap ------------------------
(* A heap of five blocks, so that the heap has three levels and a father   *)
(* with one child and one with two, and counts from 0 to 2.                *)
EXTENDS ValidChunksHeap, TLC
=============================================================================
