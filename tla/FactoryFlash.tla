---------------------------- MODULE FactoryFlash ----------------------------
(***************************************************************************)
(* What the flash holds before the FTL writes to it: the factory's marks   *)
(* of the initial bad blocks, and in block 0 of each bank the list of them *)
(* with the firmware.  The installer (Installer) and the firmware when it  *)
(* starts (StartUp) share nothing else.                                    *)
(*                                                                         *)
(* A bank is two chips, "L" and "H"; block v of the firmware is blocks     *)
(* 2v and 2v + 1 of both.                                                  *)
(***************************************************************************)
EXTENDS Integers, Sequences, FiniteSets, SequencesExt

CONSTANTS
    NumBanks,        \* banks of the flash (NUM_BANKS)
    NumVblks,        \* blocks of a bank (VBLKS_PER_BANK)
    FirstVblk,       \* the block before the log blocks (180)
    LogBlks,         \* log blocks of a bank (LOG_BLK_PER_BANK)
    ScanListItems,   \* entries a scan list has room for (SCAN_LIST_ITEMS)
    Factory,         \* the blocks of each bank that the factory marked bad
    OldPages         \* what page 0 of a bank may hold before an installation

Banks == 0..NumBanks-1
Chips == {"L", "H"}
Pblks == 0..2*NumVblks-1
VblkOf(p) == p \div 2

\* An entry of a scan list: bit 15 tells the chip.
Entries == [chip : Chips, blk : Nat]
Marks == [chip : Chips, blk : Pblks \ {0}]

\* The scan list page of a bank: blank, not readable, or the words of a list
\* whose count is its length.
Lists == Seq(Entries)
Blank == [kind |-> "blank", list |-> <<>>]
Corrupt == [kind |-> "corrupt", list |-> <<>>]
ListPage(l) == [kind |-> "list", list |-> l]
ScanPages == [kind : {"blank", "corrupt", "list"}, list : Lists]

ASSUME SizeAssumption ==
    /\ NumBanks \in Nat \ {0} /\ NumVblks \in Nat /\ LogBlks \in Nat /\ ScanListItems \in Nat
    /\ FirstVblk \in 1..NumVblks-1
ASSUME FactoryAssumption == Factory \in [Banks -> SUBSET Marks]
ASSUME OldPagesAssumption ==
    /\ OldPages \subseteq ScanPages
    /\ \A page \in OldPages : page.kind # "list" => page \in {Blank, Corrupt}

\* No old list names block 0 on both chips: an installer that took it would
\* not erase block 0 at all.
ZeroListed(l) == {c \in Chips : [chip |-> c, blk |-> 0] \in Range(l)}
ASSUME OldZeroAssumption == \A page \in OldPages : ZeroListed(page.list) # Chips

VARIABLES
    marks,    \* the factory's marks that are still there, for each bank
    page0,    \* the scan list page of each bank
    stamp,    \* banks whose block 0 has the stamp
    image     \* banks whose block 0 has the whole firmware image

flash == <<marks, page0, stamp, image>>

FlashInit ==
    /\ marks = Factory
    /\ page0 \in [Banks -> OldPages]
    /\ stamp = {} /\ image = {}

\* Erases block p of a bank on the given chips; with them the marks go.
\* Half of block 0 left as it was makes its pages unreadable.
EraseBlock(bank, p, chips) ==
    /\ marks' = [marks EXCEPT ![bank] = {m \in @ : m.blk # p \/ m.chip \notin chips}]
    /\ IF p = 0 /\ chips # {}
       THEN /\ page0' = [page0 EXCEPT ![bank] =
                            IF chips = Chips \/ @.kind = "blank" THEN Blank ELSE Corrupt]
            /\ stamp' = stamp \ {bank} /\ image' = image \ {bank}
       ELSE UNCHANGED <<page0, stamp, image>>

\* Erases block v of the firmware's: both blocks of both chips.
EraseVblk(bank, v) ==
    /\ marks' = [marks EXCEPT ![bank] = {m \in @ : VblkOf(m.blk) # v}]
    /\ UNCHANGED <<page0, stamp, image>>
=============================================================================
