---------------------------- MODULE MCSataReset ----------------------------
(***************************************************************************)
(* SataReset with a queue of two entries that is full from two on.         *)
(***************************************************************************)
EXTENDS SataReset
=============================================================================
