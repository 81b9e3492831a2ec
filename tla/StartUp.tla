------------------------------- MODULE StartUp -------------------------------
(***************************************************************************)
(* The firmware when it starts: ftl_open reads the scan list of each bank  *)
(* into the bitmap of bad blocks, format erases blocks from FirstVblk on   *)
(* and assigns the good ones to the log blocks, and initLog fills the      *)
(* lists of clean blocks.  Everything it knows is in memory, so it starts  *)
(* over after a power failure, whatever it had done.                       *)
(***************************************************************************)
EXTENDS FactoryFlash

CONSTANTS MaxEraseFails    \* bound: erasures that fail in one run of the model

VARIABLES
    phase,    \* what the firmware does: "off", "lists", "first", "next", "check", "ready"
    bank,     \* the bank it does it for
    bad,      \* the bitmap of bad blocks (BAD_BLK_BMP)
    flag,     \* g_bsp_isr_flag: the block whose erasure failed
    vblock, lbn,    \* format's loop
    bmt,      \* the log block map (LOG_BMT)
    clean, hot, cold,    \* the clean list and the open log blocks of each bank
    eraseFails           \* counts the erasures that failed

firmware == <<phase, bank, bad, flag, vblock, lbn, bmt, clean, hot, cold>>

Phases == {"off", "lists", "first", "next", "check", "ready"}
Vblks == 0..NumVblks-1
Lbns == 0..LogBlks-1
INVALID == NumVblks
Candidates == FirstVblk+1..NumVblks-1

Unmapped == [b \in Banks |-> [l \in Lbns |-> INVALID]]

StartUpInit ==
    /\ phase = "off" /\ bank = 0
    /\ bad = [b \in Banks |-> {}] /\ flag = [b \in Banks |-> INVALID]
    /\ vblock = FirstVblk /\ lbn = 0 /\ bmt = Unmapped
    /\ clean = [b \in Banks |-> <<>>] /\ hot = [b \in Banks |-> INVALID] /\ cold = [b \in Banks |-> INVALID]
    /\ eraseFails = 0

----------------------------------------------------------------------------
(* build_bad_blk_list.                                                     *)

\* The list of a page is taken when it can be read, its count has room and
\* every entry is a block of the bank other than 0.
Accepted(page) ==
    /\ page.kind = "list" /\ Len(page.list) <= ScanListItems
    /\ \A i \in DOMAIN page.list : page.list[i].blk \in Pblks \ {0}

\* Faulty variant: the bit of the high chip stays in the entry.
LowChipOnly(page) ==
    IF Accepted(page) THEN {{e.blk : e \in {f \in Range(page.list) : f.chip = "L"}}}
    ELSE {{}}

\* What the search for a block goes through: the entries without their chip,
\* or, of a list that is not taken, the word of its count alone.
SearchedWords(page) ==
    IF Accepted(page) THEN {{e.blk : e \in Range(page.list)}}
    ELSE CASE page.kind = "blank" -> {{}}                        \* 0xFFFF
           [] page.kind = "corrupt" -> {{w} : w \in Pblks}
           [] page.kind = "list" -> {{Len(page.list)}}

BadVblks(words) == {VblkOf(p) : p \in words} \ {0}

\* The power goes, and may come again: memory holds nothing of the run before.
Power(next) ==
    /\ phase' = next /\ bank' = 0
    /\ bad' = [b \in Banks |-> {}] /\ flag' = [b \in Banks |-> INVALID]
    /\ vblock' = FirstVblk /\ lbn' = 0 /\ bmt' = Unmapped
    /\ clean' = [b \in Banks |-> <<>>] /\ hot' = [b \in Banks |-> INVALID] /\ cold' = [b \in Banks |-> INVALID]

LastOf(b) == b = NumBanks - 1

\* ftl_open clears the map of the log blocks before format fills it.
build_bad_blk_list ==
    /\ phase = "lists"
    /\ \E words \in SearchedWords(page0[bank]) : bad' = [bad EXCEPT ![bank] = BadVblks(words) \cap Vblks]
    /\ IF LastOf(bank) THEN phase' = "first" /\ bank' = 0 /\ bmt' = Unmapped
       ELSE bank' = bank + 1 /\ UNCHANGED <<phase, bmt>>
    /\ UNCHANGED <<flag, vblock, lbn, clean, hot, cold, eraseFails, flash>>

----------------------------------------------------------------------------
(* format.                                                                 *)

\* Faulty variant: no block is known to be bad.
NoBlockBad(b, v) == FALSE

is_bad_block(b, v) == v \in bad[b]

\* nand_block_erase_sync returns when the bank is idle; ftl_isr has then left
\* the block in the flag if the erasure failed.
nand_block_erase_sync(b, v) ==
    \/ EraseVblk(b, v) /\ UNCHANGED <<flag, eraseFails>>
    \/ /\ eraseFails < MaxEraseFails /\ eraseFails' = eraseFails + 1
       /\ flag' = [flag EXCEPT ![b] = v]
       /\ UNCHANGED flash

\* The first block of a bank is erased without a look at the bitmap, and the
\* flag cleared whatever came of it.
EraseFirst ==
    /\ phase = "first"
    /\ \E ok \in BOOLEAN :
          IF ok THEN EraseVblk(bank, FirstVblk) /\ UNCHANGED eraseFails
          ELSE eraseFails < MaxEraseFails /\ eraseFails' = eraseFails + 1 /\ UNCHANGED flash
    /\ flag' = [flag EXCEPT ![bank] = INVALID]
    /\ vblock' = FirstVblk /\ lbn' = 0 /\ phase' = "next"
    /\ UNCHANGED <<bank, bad, bmt, clean, hot, cold>>

\* initLog pushes every log block to the clean list and pops two, whether
\* they are invalid or not.
init_metadata_sram ==
    /\ clean' = [b \in Banks |-> SubSeq([i \in 1..LogBlks |-> i - 1], 3, LogBlks)]
    /\ hot' = [b \in Banks |-> 0] /\ cold' = [b \in Banks |-> 1]

\* The remaining log blocks stay invalid.
EndBank ==
    IF LastOf(bank)
    THEN phase' = "ready" /\ bank' = bank /\ init_metadata_sram
    ELSE phase' = "first" /\ bank' = bank + 1 /\ UNCHANGED <<clean, hot, cold>>

\* Faulty variant: only the count of log blocks ends the loop.
EraseUnbounded ==
    /\ phase = "next"
    /\ IF lbn = LogBlks
       THEN EndBank /\ UNCHANGED <<vblock, flag, eraseFails, flash>>
       ELSE /\ vblock' = vblock + 1
            /\ UNCHANGED <<bank, clean, hot, cold>>
            /\ IF is_bad_block(bank, vblock + 1)
               THEN UNCHANGED <<phase, flag, eraseFails, flash>>
               ELSE nand_block_erase_sync(bank, vblock + 1) /\ phase' = "check"
    /\ UNCHANGED <<bad, lbn, bmt>>

\* One block of format's loop, which ends with the log blocks or the blocks.
EraseNext ==
    /\ phase = "next"
    /\ IF lbn = LogBlks \/ vblock + 1 >= NumVblks
       THEN EndBank /\ UNCHANGED <<vblock, flag, eraseFails, flash>>
       ELSE /\ vblock' = vblock + 1
            /\ UNCHANGED <<bank, clean, hot, cold>>
            /\ IF is_bad_block(bank, vblock + 1)
               THEN UNCHANGED <<phase, flag, eraseFails, flash>>
               ELSE nand_block_erase_sync(bank, vblock + 1) /\ phase' = "check"
    /\ UNCHANGED <<bad, lbn, bmt>>

\* Faulty variant: the log block is assigned whatever the flag says.
AssignUnchecked ==
    /\ phase = "check"
    /\ bmt' = [bmt EXCEPT ![bank][lbn] = vblock] /\ lbn' = lbn + 1
    /\ bad' = IF flag[bank] # INVALID THEN [bad EXCEPT ![bank] = @ \cup {flag[bank]}] ELSE bad
    /\ flag' = [flag EXCEPT ![bank] = INVALID]
    /\ phase' = "next"
    /\ UNCHANGED <<bank, vblock, clean, hot, cold, eraseFails, flash>>

\* A block that could not be erased becomes bad, another one takes its place.
CheckErased ==
    /\ phase = "check"
    /\ IF flag[bank] # INVALID
       THEN /\ bad' = [bad EXCEPT ![bank] = @ \cup {flag[bank]}]
            /\ flag' = [flag EXCEPT ![bank] = INVALID]
            /\ UNCHANGED <<bmt, lbn>>
       ELSE bmt' = [bmt EXCEPT ![bank][lbn] = vblock] /\ lbn' = lbn + 1 /\ UNCHANGED <<bad, flag>>
    /\ phase' = "next"
    /\ UNCHANGED <<bank, vblock, clean, hot, cold, eraseFails, flash>>

StartUpNext == build_bad_blk_list \/ EraseFirst \/ EraseNext \/ CheckErased
=============================================================================
