--------------------------- MODULE CleanListFifo ---------------------------
(***************************************************************************)
(* What the clean list of one bank promises its callers: a first-in        *)
(* first-out queue of erased blocks.  Rotating through the erased blocks   *)
(* in the order they were erased is what spreads the wear.                 *)
(***************************************************************************)
EXTENDS Sequences

CONSTANTS Blocks,   \* the log blocks of the bank
          None      \* what "returned" holds before the first pop

VARIABLES queue,    \* the erased blocks, oldest first
          returned  \* the block the last pop returned

fifoVars == <<queue, returned>>

FifoInit == queue = <<>> /\ returned = None

FifoPush == \E b \in Blocks : /\ queue' = Append(queue, b)
                              /\ UNCHANGED returned

FifoPop == /\ queue # <<>>
           /\ returned' = queue[1]
           /\ queue' = Tail(queue)

FifoNext == FifoPush \/ FifoPop

FifoSpec == FifoInit /\ [][FifoNext]_fifoVars
=============================================================================
