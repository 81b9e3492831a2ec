---------------------------- MODULE LogBankTrim ----------------------------
(***************************************************************************)
(* The bank with the host's trims (trimRange in ftl.c).  A trim runs       *)
(* between two writes, like a write.                                       *)
(*                                                                         *)
(* The address of an encoded chunk or of one in the cold DRAM buffer has   *)
(* bit 31 set, and trimRange does not mask it before it derives the bank:  *)
(* what it then changes lies outside the tables.  TrimFlash and TrimHot    *)
(* are the trims whose effect the source defines.                          *)
(*                                                                         *)
(* A trim of a chunk in the hot buffer leaves a hole that the flush is not *)
(* told of.  The flush then stores an address for the chunk INVALID: in    *)
(* the table of the log blocks (LOG_BMT), which lies before the map of the *)
(* chunks (dram_layout.h:38-40, 85).  From then on get_log_vbn (log.c:37)  *)
(* takes the log blocks at its end, 16 of the last bank, for other blocks  *)
(* of the flash, which are read, programmed and erased in their stead.     *)
(* What the bank is described by, its blocks, then says nothing of the     *)
(* flash: after such a store anything may happen (Astray).                 *)
(***************************************************************************)
EXTENDS LogBank

CONSTANT TableBlks     \* the log blocks of this bank with an entry in the last 32 bytes
                       \* of LOG_BMT: 496..511 in bank 15, none in the others
VARIABLE astray        \* the blocks whose entry in LOG_BMT was overwritten

Intact == astray = {}

\* A chunk in flash: its block is told, the collector's count is not.
TrimFlash(c) == /\ map[c].at = "FlashWLog"
                /\ heap' = Decremented(map[c].blk, 1)
                /\ UNCHANGED hot

\* A chunk in the hot DRAM buffer: its slot is cleared, allChunksInLogAreValid
\* is not.
TrimHot(c) == /\ map[c].at = "DRAMHotLog"
              /\ hot' = [hot EXCEPT !.chunk[map[c].slot] = None]
              /\ UNCHANGED heap

Trim(c) == /\ pc = "idle"
           /\ TrimFlash(c) \/ TrimHot(c)
           /\ map' = [map EXCEPT ![c] = Invalid]
           /\ latest' = [latest EXCEPT ![c] = {}]
           /\ UNCHANGED <<cold, clean, gc, lists, precached, programs, pc, frames>>

BankNext == Next \/ \E c \in Chunks : Trim(c)

\* The flush of a buffer with a hole that the flush is not told of.
UnseenHole == \E s \in (IF hot.recycled THEN 0..(R - 1) ELSE Slots) : hot.chunk[s] = None
FlushUnaware == pc = "flushHot" /\ hot.allValid /\ UnseenHole

\* An address over two entries of the table; the offset of the trimmed chunk in its
\* page, which the cleared slot still has, says which.
Overwrite == \E X \in SUBSET TableBlks : astray' = astray \cup X

BankStep == /\ BankNext
            /\ IF FlushUnaware THEN Overwrite ELSE UNCHANGED astray
\* The same in another bank: the table is one.
OtherBankFlush == pc = "idle" /\ Overwrite /\ UNCHANGED vars

Astray == ~Intact /\ ~Intact'

TrimNext == (Intact /\ (BankStep \/ OtherBankFlush)) \/ Astray
TrimSpec == Init /\ Intact /\ [][TrimNext]_<<vars, astray>>
=============================================================================
