--------------------------- MODULE MCFlashDriver ---------------------------
(* Values for the constants: the sectors of a page differ, and so do those *)
(* of the flash, of the buffers and of what the FTL writes.                *)
EXTENDS FlashDriver

MCParts == {<<0, 3>>, <<1, 1>>}
MCCopies == {<<0, 1>>}
MCFills == {[i \in Sectors |-> 9 - i]}

MCInitial ==
    {[mem |-> [b \in Buffers |-> [i \in Sectors |-> 4 + i]],
      flash |-> [b \in Banks |-> [r \in Rows |-> [i \in Sectors |-> 1 + i]]],
      page |-> [b \in Banks |-> Blank]]}
=============================================================================
