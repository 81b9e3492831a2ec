----------------------------- MODULE MCSataHost -----------------------------
(***************************************************************************)
(* SataHost with a queue of four entries that is full from three on.       *)
(***************************************************************************)
EXTENDS SataHost
=============================================================================
