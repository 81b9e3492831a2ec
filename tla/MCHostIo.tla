------------------------------ MODULE MCHostIo ------------------------------
(* The requests: whole chunks, parts of one, of two, and of two pages; a    *)
(* page at once is cold.                                                   *)
EXTENDS HostIo

MCRequests == {<<0, 6>>, <<1, 4>>, <<3, 1>>, <<4, 2>>, <<5, 4>>}
=============================================================================
