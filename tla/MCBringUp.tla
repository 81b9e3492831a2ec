----------------------------- MODULE MCBringUp -----------------------------
(* Values for the constants: a bad block on each chip, one of them in the  *)
(* block that format erases first, and old contents of page 0 that can be  *)
(* read as a list.                                                         *)
EXTENDS BringUp

L(p) == [chip |-> "L", blk |-> p]
H(p) == [chip |-> "H", blk |-> p]

MCFactory == 0 :> {H(7)} @@ 1 :> {L(4), H(3)}

MCOldPages == {Blank, Corrupt, ListPage(<<H(0)>>)}
=============================================================================
