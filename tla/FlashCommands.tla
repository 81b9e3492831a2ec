--------------------------- MODULE FlashCommands ---------------------------
(***************************************************************************)
(* What the commands of the flash controller do to memory and flash, as    *)
(* the comments of include/flash.h describe them and flash_wrapper.c uses   *)
(* them.  Sectors are the unit of data: a page is a function from its       *)
(* sectors to values, an address is a buffer and an offset into it.  The    *)
(* options of a command (planes, ECC, which side starts the transfer) are   *)
(* left out, and so is what goes wrong on the flash itself.                 *)
(***************************************************************************)
EXTENDS Integers, Sequences, FiniteSets

CONSTANTS
    NumBanks,         \* NUM_BANKS
    NumVblks,         \* VBLKS_PER_BANK
    PagesPerVblk,     \* PAGES_PER_VBLK
    SectorsPerPage,   \* SECTORS_PER_PAGE
    NumBuffers,       \* page buffers of the FTL: LOG_BUF, GC_BUF, TEMP_BUF...
    Values,           \* what a sector may hold besides 0xFF
    Erased            \* 0xFF in every byte

ASSUME FlashAssumption ==
    /\ NumBanks \in Nat \ {0} /\ NumVblks \in Nat \ {0}
    /\ PagesPerVblk \in Nat \ {0} /\ SectorsPerPage \in Nat \ {0}
    /\ NumBuffers \in Nat /\ Erased \notin Values

Banks == 0..(NumBanks - 1)
Rows == 0..(NumVblks * PagesPerVblk - 1)
Sectors == 0..(SectorsPerPage - 1)
Contents == Values \cup {Erased}
Pages == [Sectors -> Contents]

\* COPY_BUF(bank), which only the controller touches, follows the FTL's own.
COPY_BUF(bank) == NumBuffers + bank
Buffers == 0..(NumBuffers + NumBanks - 1)

NoRow == -1       \* FCP_ROW after a reset
NoBank == -1

ReadCmds == {"COL_ROW_READ_OUT"}
FirstIn == {"COL_ROW_IN", "COL_ROW_IN_PROG"}
MoreIn == {"IN", "IN_PROG"}
ProgCmds == {"COL_ROW_IN_PROG", "IN_PROG"}
CopyCmds == {"COPYBACK", "MODIFY_COPYBACK"}
IdleCmds == {"GENERIC", "WAIT"}
Cmds == ReadCmds \cup FirstIn \cup MoreIn \cup CopyCmds \cup {"ERASE"} \cup IdleCmds

\* The registers as they are copied to the Waiting Room: fcp_t without the
\* option and the row registers of the other banks.
Commands == [cmd : Cmds, bank : Banks, buf : Buffers, off : Int, cnt : Int, col : Int,
             row : Rows \cup {NoRow}, dstRow : Rows, dstCol : Int]

\* The buffers a command moves data from or to.
BuffersOf(c) ==
    CASE c.cmd \in ReadCmds \cup FirstIn \cup MoreIn -> {c.buf}
      [] c.cmd = "COPYBACK" -> {COPY_BUF(c.bank)}
      [] c.cmd = "MODIFY_COPYBACK" -> {c.buf, COPY_BUF(c.bank)}
      [] OTHER -> {}

\* Sector i of the page is at DMA_ADDR + COL * BYTES_PER_SECTOR and on.
Covers(c, col, i) == i \in col..(col + c.cnt - 1)
InBuffer(c, i) == (c.off + i) \in Sectors

\* flash -> DRAM
ReadOut(c, s) ==
    [s EXCEPT !.mem[c.buf] = [i \in Sectors |->
        IF Covers(c, c.col, i - c.off) /\ (i - c.off) \in Sectors
        THEN s.flash[c.bank][c.row][i - c.off] ELSE @[i]]]

\* The page register of the bank after [DRAM -> flash].
Filled(c, col, old, s) ==
    [i \in Sectors |-> IF Covers(c, col, i) /\ InBuffer(c, i) THEN s.mem[c.buf][c.off + i] ELSE old[i]]

Blank == [i \in Sectors |-> Erased]

\* A sector whose bits are all ones is not programmed.
Programmed(old, reg) == [i \in Sectors |-> IF reg[i] = Erased THEN old[i] ELSE reg[i]]

In(c, s) ==
    LET reg == Filled(c, c.col, IF c.cmd \in FirstIn THEN Blank ELSE s.page[c.bank], s)
    IN  [s EXCEPT !.page[c.bank] = reg,
                  !.flash[c.bank][c.row] = IF c.cmd \in ProgCmds THEN Programmed(@, reg) ELSE @]

\* The page goes through the copy buffer of the bank, and MODIFY_COPYBACK
\* takes the sectors from DST_COL on from DRAM.
Copy(c, s) ==
    LET old == s.flash[c.bank][c.row]
        new == IF c.cmd = "COPYBACK" THEN old ELSE Filled(c, c.dstCol, old, s)
    IN  [s EXCEPT !.flash[c.bank][c.dstRow] = Programmed(@, new), !.mem[COPY_BUF(c.bank)] = old]

VblkOf(row) == row \div PagesPerVblk

Erase(c, s) ==
    [s EXCEPT !.flash[c.bank] = [r \in Rows |-> IF VblkOf(r) = VblkOf(c.row) THEN Blank ELSE @[r]]]

\* State s with command c executed.
Apply(c, s) ==
    IF c.cmd \in IdleCmds \/ c.row = NoRow THEN s
    ELSE CASE c.cmd \in ReadCmds -> ReadOut(c, s)
           [] c.cmd \in FirstIn \cup MoreIn -> In(c, s)
           [] c.cmd \in CopyCmds -> Copy(c, s)
           [] OTHER -> Erase(c, s)
=============================================================================
