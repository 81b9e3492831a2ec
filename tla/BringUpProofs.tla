---------------------------- MODULE BringUpProofs ----------------------------
(***************************************************************************)
(* Proofs about BringUp, for every size of the flash and all marks of the   *)
(* factory: the types, that no initial bad block is erased, that the log    *)
(* blocks are good and distinct, and that a stamp comes after its list.     *)
(***************************************************************************)
EXTENDS BringUp, FiniteSetTheorems, TLAPS

----------------------------------------------------------------------------
(* Sizes, and the sequences of marks.                                      *)

LEMMA SizeLemma ==
    /\ 0 \in Banks /\ NumBanks - 1 \in Banks /\ Banks \subseteq Nat /\ Vblks \subseteq Nat /\ Lbns \subseteq Nat
    /\ 0 \in Pblks /\ Pblks \subseteq Nat /\ NumVblks \in Nat /\ LogBlks \in Nat /\ FirstVblk \in Nat \ {0}
    /\ FirstVblk \in Vblks /\ 0 \in Lbns /\ 1 \in Lbns
    /\ INVALID \notin Vblks /\ INVALID = NumVblks /\ Candidates \subseteq Vblks
BY SizeAssumption, BringUpAssumption DEF Banks, Vblks, Lbns, Pblks, INVALID, Candidates

LEMMA MarksLemma ==
    ASSUME NEW S \in SUBSET Marks
    PROVE  /\ IsFiniteSet(S) /\ Cardinality(S) \in Nat
           /\ SetToSeq(S) \in Seq(Marks) /\ Len(SetToSeq(S)) = Cardinality(S) /\ Range(SetToSeq(S)) = S
<1>1. IsFiniteSet(Marks)
  <2>. DEFINE code == [m \in Marks |-> IF m.chip = "L" THEN 2 * m.blk ELSE 2 * m.blk + 1]
              n == 4 * NumVblks
  <2>1. n \in Int /\ IsFiniteSet(0..n)
    BY SizeAssumption, FS_Interval
  <2>2. \A m \in Marks : m.blk \in 0..2*NumVblks-1 /\ m.chip \in {"L", "H"}
    BY DEF Marks, Pblks, Chips
  <2>3. code \in [Marks -> 0..n]
    BY <2>2, SizeAssumption
  <2>4. \A a, b \in Marks : code[a] = code[b] => a = b
    <3>. SUFFICES ASSUME NEW a \in Marks, NEW b \in Marks, code[a] = code[b] PROVE a.chip = b.chip /\ a.blk = b.blk
      BY DEF Marks
    <3>1. a.blk \in Int /\ b.blk \in Int
      BY <2>2
    <3>2. QED
      BY <2>2, <3>1
  <2>. HIDE DEF code, n
  <2>5. code \in Injection(Marks, 0..n)
    BY <2>3, <2>4 DEF Injection, IsInjective
  <2>6. QED
    BY <2>1, <2>5, FS_Injection
<1>2. IsFiniteSet(S) /\ Cardinality(S) \in Nat /\ ExistsBijection(1..Cardinality(S), S)
  BY <1>1, FS_Subset, FS_CardinalityType
<1>3. \E f \in [1..Cardinality(S) -> S] : IsInjective(f) /\ Range(f) = S
  BY <1>2 DEF ExistsBijection, Bijection, Injection, Surjection, IsInjective, Range
<1>4. SetToSeq(S) \in [1..Cardinality(S) -> S] /\ IsInjective(SetToSeq(S))
  BY <1>3 DEF SetToSeq
<1>5. SetToSeq(S) \in Seq(Marks) /\ Len(SetToSeq(S)) = Cardinality(S)
  BY <1>2, <1>4
<1>6. Range(SetToSeq(S)) = S
  <2>. DEFINE f == SetToSeq(S)
              n == Cardinality(S)
  <2>1. f \in Injection(1..n, S)
    BY <1>4 DEF Injection, IsInjective
  <2>2. IsFiniteSet(1..n) /\ Cardinality(1..n) = n
    BY <1>2, FS_Interval
  <2>3. f \in Surjection(1..n, S)
    BY <1>2, <2>1, <2>2, FS_Injection
  <2>4. QED
    BY <1>4, <2>3 DEF Surjection, Range
<1>7. QED
  BY <1>2, <1>4, <1>5, <1>6

----------------------------------------------------------------------------
(* The inductive invariants.                                               *)

\* What format has done with a bank.
Started(b) == phase \in {"next", "check"} /\ b = bank
Finished(b) == phase = "ready" \/ (phase \in {"first", "next", "check"} /\ b < bank)
Untouched(b) == phase \in {"off", "lists"} \/ (phase \in {"first", "next", "check"} /\ b > bank) \/ (phase = "first" /\ b = bank)

Targets(b) == {bmt[b][l] : l \in Assigned(b)}

\* The blocks it looked at so far.
Seen == IF phase = "check" THEN vblock - 1 ELSE vblock

\* Log blocks are assigned in order, to blocks in increasing order.
BlocksGood(b) ==
    \A l \in Assigned(b) :
        /\ bmt[b][l] \in Candidates \ bad[b]
        /\ 0..l \subseteq Assigned(b)
        /\ \A k \in Assigned(b) : bmt[b][k] = bmt[b][l] => k = l

\* Every block that was looked at is bad or assigned.
MapGood(b) ==
    /\ BlocksGood(b)
    /\ Untouched(b) => Assigned(b) = {}
    /\ Started(b) => /\ \A l \in Lbns : l \in Assigned(b) <=> l < lbn
                     /\ \A l \in Assigned(b) : bmt[b][l] <= Seen
                     /\ \A v \in Candidates : v <= Seen => v \in bad[b] \cup Targets(b)
    /\ Finished(b) => Assigned(b) = Lbns \/ Candidates \subseteq bad[b] \cup Targets(b)

\* The block whose erasure is looked at next is a good one, and the flag is
\* for it or for none.
FormatInv ==
    /\ \A b \in Banks : MapGood(b) /\ (flag[b] # INVALID => phase = "check" /\ b = bank /\ flag[b] = vblock)
    /\ phase = "check" => vblock \in Candidates \ bad[bank] /\ lbn < LogBlks
    /\ phase \in {"next", "check"} => vblock >= FirstVblk

----------------------------------------------------------------------------
(* The types.                                                              *)

InstallerTypes ==
    /\ up \in BOOLEAN /\ loaded \in BOOLEAN /\ list \in [Banks -> Lists] /\ strong \in BOOLEAN
    /\ DOMAIN files \subseteq Banks /\ \A b \in DOMAIN files : files[b] \in Lists
    /\ job \in Jobs /\ fails \in Nat

FlashTypes ==
    /\ marks \in [Banks -> SUBSET Marks] /\ page0 \in [Banks -> ScanPages]
    /\ stamp \subseteq Banks /\ image \subseteq Banks

FirmwareTypes ==
    /\ phase \in Phases /\ bank \in Banks
    /\ bad \in [Banks -> SUBSET Vblks] /\ flag \in [Banks -> Vblks \cup {INVALID}]
    /\ vblock \in Vblks /\ lbn \in 0..LogBlks
    /\ bmt \in [Banks -> [Lbns -> Vblks \cup {INVALID}]]
    /\ clean \in [Banks -> Seq(Lbns)]
    /\ hot \in [Banks -> Lbns \cup {INVALID}] /\ cold \in [Banks -> Lbns \cup {INVALID}]
    /\ eraseFails \in Nat

LEMMA TypesLemma ==
    TypeOK <=> /\ InstallerTypes /\ FlashTypes /\ FirmwareTypes /\ runs \in Nat
               /\ mode \in {"factory", "normal"} /\ excused \in BOOLEAN
BY DEF TypeOK, InstallerTypes, FlashTypes, FirmwareTypes

LEMMA PagesLemma ==
    /\ Blank \in ScanPages /\ Corrupt \in ScanPages /\ <<>> \in Lists
    /\ \A l \in Lists : ListPage(l) \in ScanPages
    /\ \A l \in Seq(Marks) : l \in Lists
    /\ \A p \in ScanPages : p.list \in Lists
<1>1. Marks \subseteq Entries
  BY SizeLemma DEF Marks, Entries
<1>2. \A l \in Seq(Marks) : l \in Lists
  BY <1>1 DEF Lists
<1>3. QED
  BY <1>2 DEF Blank, Corrupt, ListPage, ScanPages, Lists

LEMMA EraseBlockTypes ==
    ASSUME FlashTypes, NEW b \in Banks, NEW p \in Pblks, NEW chips \in SUBSET Chips, EraseBlock(b, p, chips)
    PROVE  FlashTypes'
<1>1. marks' \in [Banks -> SUBSET Marks]
  BY DEF EraseBlock, FlashTypes
<1>2. CASE p = 0 /\ chips # {}
  BY <1>1, <1>2, PagesLemma DEF EraseBlock, FlashTypes
<1>3. CASE ~(p = 0 /\ chips # {})
  BY <1>1, <1>3 DEF EraseBlock, FlashTypes
<1>4. QED
  BY <1>2, <1>3

LEMMA EraseVblkTypes ==
    ASSUME FlashTypes, NEW b \in Banks, NEW v, EraseVblk(b, v)
    PROVE  FlashTypes' /\ UNCHANGED <<page0, stamp, image>>
BY DEF EraseVblk, FlashTypes

LEMMA JobLemma ==
    ASSUME job \in Jobs
    PROVE  /\ \A at \in Steps : Job(at, 0) \in Jobs /\ NextBank(at) \in Jobs
           /\ job.bank \in Banks /\ job.blk \in Pblks /\ Menu \in Jobs
<1>1. job.bank \in Banks /\ job.blk \in Pblks
  BY DEF Jobs
<1>2. ~LastBank => job.bank + 1 \in Banks
  BY <1>1, SizeAssumption DEF LastBank, Banks
<1>3. \A at \in Steps : Job(at, 0) \in Jobs
  BY SizeLemma DEF Job, Jobs
<1>4. ASSUME NEW at \in Steps PROVE NextBank(at) \in Jobs
  <2>1. CASE LastBank
    <3>1. NextBank(at) = [job EXCEPT !.at = at, !.bank = 0]
      BY <2>1 DEF NextBank
    <3>2. QED
      BY <3>1, SizeLemma DEF Jobs
  <2>2. CASE ~LastBank
    <3>1. NextBank(at) = [job EXCEPT !.at = job.at, !.bank = job.bank + 1]
      BY <2>2 DEF NextBank
    <3>2. QED
      BY <1>2, <2>2, <3>1 DEF Jobs
  <2>3. QED
    BY <2>1, <2>2
<1>5. Menu \in Jobs
  BY <1>3 DEF Menu, Steps
<1>6. QED
  BY <1>1, <1>3, <1>4, <1>5

LEMMA InitTypes == Init => TypeOK
<1>. SUFFICES ASSUME Init PROVE TypeOK
  OBVIOUS
<1>1. FlashTypes
  BY FactoryAssumption, OldPagesAssumption DEF Init, FlashInit, FlashTypes
<1>2. InstallerTypes
  <2>1. Menu \in Jobs
    BY SizeLemma DEF Menu, Job, Jobs, Steps
  <2>2. QED
    BY <2>1, PagesLemma DEF Init, InstallerInit, Fresh, InstallerTypes, NoFiles
<1>3. FirmwareTypes
  BY SizeLemma, BringUpAssumption DEF Init, StartUpInit, FirmwareTypes, Unmapped, Phases
<1>4. QED
  BY <1>1, <1>2, <1>3, TypesLemma DEF Init

LEMMA InstallerStepTypes ==
    ASSUME InstallerTypes, FlashTypes, InstallerNext
    PROVE  InstallerTypes' /\ FlashTypes'
<1>. USE DEF InstallerTypes, FlashTypes
<1>0. job.bank \in Banks /\ job.blk \in Pblks /\ 0 \in Pblks /\ 0 \in Banks
  BY JobLemma, SizeLemma
<1>1. CASE init
  BY <1>1 DEF init, reset_fctrl, flash
<1>2. CASE scan_bad_blks
  <2>1. \A b \in Banks : list[b] \o Found(b) \in Lists
    BY MarksLemma, PagesLemma DEF Found, Lists
  <2>2. list' \in [Banks -> Lists]
    BY <1>2, <2>1 DEF scan_bad_blks
  <2>3. QED
    BY <1>2, <2>2 DEF scan_bad_blks, flash
<1>3. CASE save_scan
  <2>1. PICK n \in 0..NumBanks :
          /\ files' = [b \in 0..n-1 |-> list[b]]
          /\ UNCHANGED job \/ job' = Job("exit", 0)
          /\ UNCHANGED <<up, loaded, list, strong, fails, flash>>
    BY <1>3 DEF save_scan
  <2>2. 0..n-1 \subseteq Banks
    BY SizeAssumption DEF Banks
  <2>3. DOMAIN files' \subseteq Banks /\ \A b \in DOMAIN files' : files'[b] \in Lists
    BY <2>1, <2>2
  <2>4. job' \in Jobs
    BY <2>1, JobLemma DEF Steps
  <2>5. QED
    BY <2>1, <2>3, <2>4 DEF flash
<1>4. CASE load_scan_list_from_file
  BY <1>4 DEF load_scan_list_from_file, flash
<1>5. CASE load_scan_list_from_nand
  <2>1. \A b \in Banks : Reads(b).list \in Lists
    BY PagesLemma DEF Reads
  <2>2. list' \in [Banks -> Lists]
    BY <1>5, <2>1 DEF load_scan_list_from_nand
  <2>3. QED
    BY <1>5, <2>2 DEF load_scan_list_from_nand, flash
<1>6. CASE erase_all
  BY <1>6, JobLemma DEF erase_all, flash, Steps
<1>7. CASE install
  BY <1>7, JobLemma DEF install, flash, Steps
<1>8. CASE EraseAllStep
  <2>1. FlashTypes'
    <3>1. EraseBlock(job.bank, job.blk, Chips \ Listed(job.bank, job.blk))
      BY <1>8 DEF EraseAllStep, Erase
    <3>2. Chips \ Listed(job.bank, job.blk) \in SUBSET Chips
      OBVIOUS
    <3>3. QED
      BY <1>0, <3>1, <3>2, EraseBlockTypes
  <2>2. job' \in Jobs
    <3>1. ~LastBank => job.bank + 1 \in Banks
      BY <1>0, SizeAssumption DEF LastBank, Banks
    <3>2. job.blk # 2 * NumVblks - 1 => job.blk + 1 \in Pblks
      BY <1>0, SizeAssumption DEF Pblks
    <3>3. Menu \in Jobs
      BY JobLemma
    <3>4. CASE ~LastBank
      BY <1>8, <3>1, <3>4 DEF EraseAllStep, Jobs
    <3>5. CASE LastBank /\ job.blk = 2 * NumVblks - 1
      BY <1>8, <3>3, <3>5 DEF EraseAllStep
    <3>6. CASE LastBank /\ job.blk # 2 * NumVblks - 1
      <4>1. job' = [job EXCEPT !.bank = 0, !.blk = job.blk + 1]
        BY <1>8, <3>6 DEF EraseAllStep
      <4>2. QED
        BY <1>0, <3>2, <3>6, <4>1 DEF Jobs
    <3>7. QED
      BY <3>4, <3>5, <3>6
  <2>3. QED
    BY <1>8, <2>1, <2>2 DEF EraseAllStep
<1>9. CASE EraseZero
  <2>1. FlashTypes'
    <3>1. EraseBlock(job.bank, 0, Chips \ Listed(job.bank, 0))
      BY <1>9 DEF EraseZero, Erase
    <3>2. Chips \ Listed(job.bank, 0) \in SUBSET Chips
      OBVIOUS
    <3>3. QED
      BY <1>0, <3>1, <3>2, EraseBlockTypes
  <2>2. QED
    BY <1>9, <2>1, JobLemma DEF EraseZero, Steps
<1>10. CASE WriteList
  <2>1. job' \in Jobs
    BY <1>10, JobLemma DEF WriteList, Steps
  <2>2. page0' \in [Banks -> ScanPages] /\ fails' \in Nat
    <3>1. list[job.bank] \in Lists
      BY <1>0
    <3>2. PICK ok \in BOOLEAN : Writes(ok)
            /\ page0' = [page0 EXCEPT ![job.bank] = IF ok /\ page0[job.bank] = Blank THEN ListPage(list[job.bank]) ELSE Corrupt]
      BY <1>10 DEF WriteList
    <3>3. fails' \in Nat
      BY <3>2 DEF Writes
    <3>4. (IF ok /\ page0[job.bank] = Blank THEN ListPage(list[job.bank]) ELSE Corrupt) \in ScanPages
      BY <3>1, PagesLemma
    <3>5. QED
      BY <3>2, <3>3, <3>4
  <2>3. QED
    BY <1>10, <2>1, <2>2 DEF WriteList, reset_fctrl
<1>11. CASE VerifyLists
  BY <1>11, JobLemma DEF VerifyLists, Steps, flash
<1>12. CASE WriteDummies
  <2>1. job' \in Jobs /\ fails' \in Nat
    <3>1. PICK ok \in BOOLEAN : Writes(ok) /\ job' = IF ok THEN NextBank("stamps") ELSE Menu
      BY <1>12 DEF WriteDummies
    <3>2. fails' \in Nat
      BY <3>1 DEF Writes
    <3>3. NextBank("stamps") \in Jobs /\ Menu \in Jobs
      BY JobLemma DEF Steps
    <3>4. QED
      BY <3>1, <3>2, <3>3
  <2>2. QED
    BY <1>12, <2>1 DEF WriteDummies, flash
<1>13. CASE WriteStamp
  <2>1. PICK ok \in BOOLEAN :
          /\ Writes(ok)
          /\ stamp' = IF ok THEN stamp \cup {job.bank} ELSE stamp
          /\ job' = IF LastBank /\ ~(job.ok /\ ok) THEN Menu ELSE [NextBank("images") EXCEPT !.ok = job.ok /\ ok]
    BY <1>13 DEF WriteStamp
  <2>2. job' \in Jobs
    <3>1. NextBank("images") \in Jobs /\ Menu \in Jobs /\ job.ok \in BOOLEAN
      BY JobLemma DEF Steps, Jobs
    <3>2. [NextBank("images") EXCEPT !.ok = job.ok /\ ok] \in Jobs
      BY <3>1 DEF Jobs
    <3>3. QED
      BY <2>1, <3>1, <3>2
  <2>3. stamp' \subseteq Banks /\ fails' \in Nat
    BY <1>0, <2>1 DEF Writes
  <2>4. QED
    BY <1>13, <2>2, <2>3 DEF WriteStamp, reset_fctrl
<1>14. CASE WriteImage
  <2>1. job' \in Jobs /\ fails' \in Nat /\ strong' \in BOOLEAN
    <3>1. PICK ok \in BOOLEAN :
            /\ Writes(ok)
            /\ job' = IF ok THEN NextBank("exit") ELSE Menu
            /\ strong' = FALSE \/ UNCHANGED strong
      BY <1>14 DEF WriteImage, reset_fctrl
    <3>2. fails' \in Nat
      BY <3>1 DEF Writes
    <3>3. NextBank("exit") \in Jobs /\ Menu \in Jobs
      BY JobLemma DEF Steps
    <3>4. QED
      BY <3>1, <3>2, <3>3
  <2>2. image' \subseteq Banks
    BY <1>0, <1>14 DEF WriteImage
  <2>3. QED
    BY <1>14, <2>1, <2>2 DEF WriteImage
<1>15. QED
  BY <1>1, <1>2, <1>3, <1>4, <1>5, <1>6, <1>7, <1>8, <1>9, <1>10, <1>11, <1>12, <1>13, <1>14 DEF InstallerNext

LEMMA StartTypes ==
    ASSUME InstallerTypes, StartInstaller, NEW next \in {"off", "lists"}, Power(next), UNCHANGED eraseFails, FirmwareTypes
    PROVE  InstallerTypes' /\ FirmwareTypes'
<1>1. InstallerTypes'
  <2>1. Menu \in Jobs
    BY SizeLemma DEF Menu, Job, Jobs, Steps
  <2>2. QED
    BY <2>1, PagesLemma DEF StartInstaller, InstallerTypes, reset_fctrl
<1>2. FirmwareTypes'
  BY SizeLemma DEF Power, FirmwareTypes, Unmapped, Phases
<1>3. QED
  BY <1>1, <1>2

LEMMA EndBankTypes ==
    ASSUME FirmwareTypes, EndBank
    PROVE  /\ phase' \in Phases /\ bank' \in Banks /\ clean' \in [Banks -> Seq(Lbns)]
           /\ hot' \in [Banks -> Lbns \cup {INVALID}] /\ cold' \in [Banks -> Lbns \cup {INVALID}]
<1>. USE DEF FirmwareTypes
<1>1. CASE LastOf(bank)
  <2>. DEFINE all == [i \in 1..LogBlks |-> i - 1]
  <2>1. all \in Seq(Lbns) /\ Len(all) = LogBlks
    <3>1. LogBlks \in Nat /\ \A i \in 1..LogBlks : i - 1 \in Lbns
      BY SizeAssumption DEF Lbns
    <3>2. all \in [1..LogBlks -> Lbns]
      BY <3>1
    <3>3. QED
      BY <3>1, <3>2
  <2>2. LogBlks \in Nat /\ LogBlks >= 2
    BY SizeAssumption, BringUpAssumption
  <2>. HIDE DEF all
  <2>3. SubSeq(all, 3, LogBlks) \in Seq(Lbns)
    BY <2>1, <2>2
  <2>4. clean' = [b \in Banks |-> SubSeq(all, 3, LogBlks)]
    BY <1>1 DEF EndBank, init_metadata_sram, all
  <2>5. QED
    BY <1>1, <2>3, <2>4, SizeLemma DEF EndBank, init_metadata_sram, Phases
<1>2. CASE ~LastOf(bank)
  <2>1. bank + 1 \in Banks
    BY <1>2, SizeAssumption DEF LastOf, Banks
  <2>2. QED
    BY <1>2, <2>1 DEF EndBank, Phases
<1>3. QED
  BY <1>1, <1>2

LEMMA StartUpStepTypes ==
    ASSUME FlashTypes, FirmwareTypes, FormatInv, StartUpNext
    PROVE  FlashTypes' /\ FirmwareTypes' /\ UNCHANGED <<page0, stamp, image>>
<1>. USE DEF FirmwareTypes
<1>1. CASE build_bad_blk_list
  <2>1. PICK words : bad' = [bad EXCEPT ![bank] = BadVblks(words) \cap Vblks]
    BY <1>1 DEF build_bad_blk_list
  <2>2. bad' \in [Banks -> SUBSET Vblks]
    BY <2>1
  <2>3. phase' \in Phases /\ bank' \in Banks /\ bmt' \in [Banks -> [Lbns -> Vblks \cup {INVALID}]]
    <3>1. ~LastOf(bank) => bank + 1 \in Banks
      BY SizeAssumption DEF LastOf, Banks
    <3>2. QED
      BY <1>1, <3>1, SizeLemma DEF build_bad_blk_list, Phases, Unmapped
  <2>4. QED
    BY <1>1, <2>2, <2>3 DEF build_bad_blk_list, flash, FlashTypes
<1>2. CASE EraseFirst
  <2>1. /\ flag' = [flag EXCEPT ![bank] = INVALID]
        /\ vblock' = FirstVblk /\ lbn' = 0 /\ phase' = "next"
        /\ UNCHANGED <<bank, bad, bmt, clean, hot, cold>> /\ eraseFails' \in Nat
    BY <1>2 DEF EraseFirst
  <2>2. FlashTypes' /\ UNCHANGED <<page0, stamp, image>>
    <3>1. EraseVblk(bank, FirstVblk) \/ UNCHANGED flash
      BY <1>2 DEF EraseFirst
    <3>2. QED
      BY <3>1, EraseVblkTypes DEF flash, FlashTypes
  <2>3. FirmwareTypes'
    BY <2>1, SizeLemma DEF Phases
  <2>4. QED
    BY <2>2, <2>3
<1>3. CASE EraseNext
  <2>1. CASE lbn = LogBlks \/ vblock + 1 >= NumVblks
    <3>1. EndBank /\ UNCHANGED <<vblock, flag, eraseFails, flash, bad, lbn, bmt>>
      BY <1>3, <2>1 DEF EraseNext
    <3>2. QED
      BY <3>1, EndBankTypes DEF flash, FlashTypes
  <2>2. CASE ~(lbn = LogBlks \/ vblock + 1 >= NumVblks)
    <3>1. vblock' = vblock + 1 /\ vblock' \in Vblks /\ UNCHANGED <<bank, clean, hot, cold, bad, lbn, bmt>>
      BY <1>3, <2>2, SizeAssumption DEF EraseNext, Vblks
    <3>2. CASE is_bad_block(bank, vblock + 1)
      BY <1>3, <2>2, <3>1, <3>2 DEF EraseNext, flash, FlashTypes
    <3>3. CASE ~is_bad_block(bank, vblock + 1)
      <4>1. nand_block_erase_sync(bank, vblock + 1) /\ phase' = "check"
        BY <1>3, <2>2, <3>3 DEF EraseNext
      <4>2. FlashTypes' /\ UNCHANGED <<page0, stamp, image>>
        <5>1. EraseVblk(bank, vblock + 1) \/ UNCHANGED flash
          BY <4>1 DEF nand_block_erase_sync
        <5>2. QED
          BY <5>1, EraseVblkTypes DEF flash, FlashTypes
      <4>3. flag' \in [Banks -> Vblks \cup {INVALID}] /\ eraseFails' \in Nat
        <5>1. CASE UNCHANGED <<flag, eraseFails>>
          BY <5>1
        <5>2. CASE flag' = [flag EXCEPT ![bank] = vblock + 1] /\ eraseFails' = eraseFails + 1
          BY <3>1, <5>2
        <5>3. QED
          BY <4>1, <5>1, <5>2 DEF nand_block_erase_sync
      <4>4. QED
        BY <3>1, <4>1, <4>2, <4>3 DEF Phases
    <3>4. QED
      BY <3>2, <3>3
  <2>3. QED
    BY <2>1, <2>2
<1>4. CASE CheckErased
  <2>1. lbn < LogBlks /\ lbn + 1 \in 0..LogBlks /\ lbn \in Lbns
    BY <1>4, SizeAssumption DEF FormatInv, CheckErased, Lbns
  <2>2. /\ phase' = "next" /\ UNCHANGED <<bank, vblock, clean, hot, cold, eraseFails, flash>>
    BY <1>4 DEF CheckErased
  <2>3. bad' \in [Banks -> SUBSET Vblks] /\ flag' \in [Banks -> Vblks \cup {INVALID}]
    <3>1. CASE flag[bank] # INVALID
      <4>1. bad' = [bad EXCEPT ![bank] = bad[bank] \cup {flag[bank]}] /\ flag' = [flag EXCEPT ![bank] = INVALID]
        BY <1>4, <3>1 DEF CheckErased
      <4>2. flag[bank] \in Vblks
        BY <3>1
      <4>3. QED
        BY <4>1, <4>2
    <3>2. CASE flag[bank] = INVALID
      BY <1>4, <3>2 DEF CheckErased
    <3>3. QED
      BY <3>1, <3>2
  <2>4. lbn' \in 0..LogBlks /\ bmt' \in [Banks -> [Lbns -> Vblks \cup {INVALID}]]
    <3>1. CASE flag[bank] # INVALID
      BY <1>4, <3>1 DEF CheckErased
    <3>2. CASE flag[bank] = INVALID
      <4>1. bmt' = [bmt EXCEPT ![bank] = [bmt[bank] EXCEPT ![lbn] = vblock]] /\ lbn' = lbn + 1
        BY <1>4, <3>2 DEF CheckErased
      <4>2. [bmt[bank] EXCEPT ![lbn] = vblock] \in [Lbns -> Vblks \cup {INVALID}]
        BY <2>1
      <4>3. QED
        BY <2>1, <4>1, <4>2
    <3>3. QED
      BY <3>1, <3>2
  <2>5. QED
    BY <2>2, <2>3, <2>4 DEF Phases, flash, FlashTypes
<1>5. QED
  BY <1>1, <1>2, <1>3, <1>4 DEF StartUpNext

LEMMA NextTypes == TypeOK /\ FormatInv /\ [Next]_vars => TypeOK'
<1>. SUFFICES ASSUME TypeOK, FormatInv, [Next]_vars PROVE TypeOK'
  OBVIOUS
<1>1. /\ InstallerTypes /\ FlashTypes /\ FirmwareTypes
      /\ runs \in Nat /\ mode \in {"factory", "normal"} /\ excused \in BOOLEAN
  BY TypesLemma
<1>2. InstallerTypes' /\ FlashTypes' /\ FirmwareTypes' /\ runs' \in Nat
      /\ mode' \in {"factory", "normal"} /\ excused' \in BOOLEAN
  <2>1. CASE InFactory
    <3>1. InstallerTypes' /\ FlashTypes'
      BY <1>1, <2>1, InstallerStepTypes DEF InFactory
    <3>2. UNCHANGED <<firmware, eraseFails, mode, runs>> /\ excused' \in BOOLEAN
      BY <2>1 DEF InFactory
    <3>3. FirmwareTypes'
      BY <1>1, <3>2 DEF firmware, FirmwareTypes
    <3>4. QED
      BY <1>1, <3>1, <3>2, <3>3
  <2>2. CASE InNormal
    <3>1. FlashTypes' /\ FirmwareTypes'
      BY <1>1, <2>2, StartUpStepTypes DEF InNormal
    <3>2. UNCHANGED <<installer, fails, mode, runs>> /\ excused' \in BOOLEAN
      BY <2>2 DEF InNormal
    <3>3. InstallerTypes'
      BY <1>1, <3>2 DEF installer, InstallerTypes
    <3>4. QED
      BY <1>1, <3>1, <3>2, <3>3
  <2>3. CASE ToFactory \/ ToNormal
    <3>1. InstallerTypes' /\ FirmwareTypes'
      BY <1>1, <2>3, StartTypes DEF ToFactory, ToNormal, Restart
    <3>2. UNCHANGED <<flash, excused>> /\ runs' = runs + 1 /\ mode' \in {"factory", "normal"}
      BY <2>3 DEF ToFactory, ToNormal, Restart
    <3>3. FlashTypes'
      BY <1>1, <3>2 DEF flash, FlashTypes
    <3>4. QED
      BY <1>1, <3>1, <3>2, <3>3
  <2>4. CASE UNCHANGED vars
    <3>1. UNCHANGED <<flash, installer, fails, firmware, eraseFails, mode, runs, excused>>
      BY <2>4 DEF vars
    <3>2. InstallerTypes'
      BY <1>1, <3>1 DEF installer, InstallerTypes
    <3>3. FlashTypes'
      BY <1>1, <3>1 DEF flash, FlashTypes
    <3>4. FirmwareTypes'
      BY <1>1, <3>1 DEF firmware, FirmwareTypes
    <3>5. QED
      BY <1>1, <3>1, <3>2, <3>3, <3>4
  <2>5. QED
    BY <2>1, <2>2, <2>3, <2>4 DEF Next
<1>3. QED
  BY <1>2 DEF TypeOK, InstallerTypes, FlashTypes, FirmwareTypes

----------------------------------------------------------------------------
(* The log blocks.                                                         *)

\* A bank whose part of the map stays, and whose turn it does not become.
LEMMA SameBank ==
    ASSUME NEW b \in Banks, MapGood(b), bmt'[b] = bmt[b], bad'[b] = bad[b],
           ~Started(b)', Untouched(b)' => Untouched(b), Finished(b)' => Finished(b)
    PROVE  MapGood(b)'
<1>1. Assigned(b)' = Assigned(b) /\ Targets(b)' = Targets(b)
  BY DEF Assigned, Targets
<1>2. BlocksGood(b)'
  BY <1>1 DEF MapGood, BlocksGood
<1>3. QED
  BY <1>1, <1>2 DEF MapGood

LEMMA NothingAssigned ==
    ASSUME \A b \in Banks : Assigned(b)' = {} /\ flag'[b] = INVALID /\ Untouched(b)' /\ ~Started(b)' /\ ~Finished(b)',
           phase' \notin {"next", "check"}
    PROVE  FormatInv'
<1>1. \A b \in Banks : BlocksGood(b)'
  BY DEF BlocksGood
<1>2. \A b \in Banks : MapGood(b)'
  BY <1>1 DEF MapGood
<1>3. QED
  BY <1>2 DEF FormatInv

LEMMA FormatFirst ==
    ASSUME FirmwareTypes, FormatInv, phase = "first", flag' = [flag EXCEPT ![bank] = INVALID],
           vblock' = FirstVblk, lbn' = 0, phase' = "next", UNCHANGED <<bank, bad, bmt>>
    PROVE  FormatInv'
<1>. USE DEF FirmwareTypes
<1>1. \A b \in Banks : flag'[b] = INVALID
  BY DEF FormatInv
<1>2. ASSUME NEW b \in Banks, b # bank PROVE MapGood(b)'
  BY <1>2, SameBank DEF FormatInv, Started, Untouched, Finished
<1>3. ASSUME NEW b \in Banks, b = bank PROVE MapGood(b)'
  <2>1. Assigned(b) = {} /\ Assigned(b)' = {} /\ b = bank'
    BY <1>3 DEF FormatInv, MapGood, Untouched, Assigned
  <2>2. ~Untouched(b)' /\ ~Finished(b)' /\ Seen' = FirstVblk
    BY <1>3, SizeLemma DEF Untouched, Finished, Seen
  <2>3. \A l \in Lbns : ~(l < lbn')
    BY DEF Lbns
  <2>4. \A v \in Candidates : ~(v <= FirstVblk)
    BY SizeAssumption DEF Candidates
  <2>5. QED
    BY <2>1, <2>2, <2>3, <2>4 DEF MapGood, BlocksGood
<1>4. QED
  BY <1>1, <1>2, <1>3, SizeLemma DEF FormatInv

LEMMA FormatEndBank ==
    ASSUME FirmwareTypes, FormatInv, phase = "next", lbn = LogBlks \/ vblock + 1 >= NumVblks,
           EndBank, UNCHANGED <<vblock, flag, bad, lbn, bmt>>
    PROVE  FormatInv'
<1>. USE DEF FirmwareTypes
<1>0. bank \in Int /\ \A b \in Banks : b \in Int
  BY SizeLemma
<1>1. \A b \in Banks : flag'[b] = INVALID
  BY DEF FormatInv
<1>2. phase' \in {"ready", "first"} /\ ~(phase' \in {"next", "check"})
  BY DEF EndBank
<1>3. Assigned(bank) = Lbns \/ Candidates \subseteq bad[bank] \cup Targets(bank)
  <2>1. /\ \A l \in Lbns : l \in Assigned(bank) <=> l < lbn
        /\ \A v \in Candidates : v <= vblock => v \in bad[bank] \cup Targets(bank)
    BY DEF FormatInv, MapGood, Started, Seen
  <2>2. CASE lbn = LogBlks
    <3>1. \A l \in Lbns : l < LogBlks
      BY SizeAssumption DEF Lbns
    <3>2. QED
      BY <2>1, <2>2, <3>1 DEF Assigned
  <2>3. CASE vblock + 1 >= NumVblks
    <3>1. \A v \in Candidates : v <= vblock
      BY <2>3, SizeAssumption DEF Candidates, Vblks
    <3>2. QED
      BY <2>1, <3>1
  <2>4. QED
    BY <2>2, <2>3
<1>4. ASSUME NEW b \in Banks, b # bank PROVE MapGood(b)'
  <2>1. ~Started(b)'
    BY <1>2 DEF Started
  <2>2. (Untouched(b)' => Untouched(b)) /\ (Finished(b)' => Finished(b))
    <3>1. CASE LastOf(bank)
      <4>1. b < bank
        BY <1>4, <3>1, SizeAssumption DEF LastOf, Banks
      <4>2. QED
        BY <3>1, <4>1 DEF EndBank, Untouched, Finished
    <3>2. CASE ~LastOf(bank)
      <4>1. phase' = "first" /\ bank' = bank + 1
        BY <3>2 DEF EndBank
      <4>2. b < bank + 1 => b < bank
        BY <1>0, <1>4
      <4>3. (b > bank + 1 \/ b = bank + 1) => b > bank
        BY <1>0
      <4>4. QED
        BY <4>1, <4>2, <4>3 DEF Untouched, Finished
    <3>3. QED
      BY <3>1, <3>2
  <2>3. QED
    BY <2>1, <2>2, SameBank DEF FormatInv
<1>5. ASSUME NEW b \in Banks, b = bank PROVE MapGood(b)'
  <2>1. ~Started(b)' /\ ~Untouched(b)'
    <3>1. phase' = "ready" \/ (phase' = "first" /\ bank' = bank + 1)
      BY DEF EndBank
    <3>2. ~(b > bank + 1) /\ b # bank + 1
      BY <1>0, <1>5
    <3>3. QED
      BY <3>1, <3>2 DEF Started, Untouched
  <2>2. Assigned(b)' = Assigned(b) /\ Targets(b)' = Targets(b) /\ BlocksGood(b)
    BY DEF Assigned, Targets, FormatInv, MapGood
  <2>3. BlocksGood(b)'
    BY <2>2 DEF BlocksGood
  <2>4. QED
    BY <1>3, <1>5, <2>1, <2>2, <2>3 DEF MapGood
<1>6. QED
  BY <1>1, <1>2, <1>4, <1>5 DEF FormatInv

LEMMA FormatAdvance ==
    ASSUME FirmwareTypes, FormatInv, phase = "next", lbn # LogBlks, vblock + 1 < NumVblks,
           vblock' = vblock + 1, UNCHANGED <<bank, bad, bmt, lbn>>,
           \/ vblock' \in bad[bank] /\ phase' = "next" /\ UNCHANGED flag
           \/ /\ vblock' \notin bad[bank] /\ phase' = "check"
              /\ UNCHANGED flag \/ flag' = [flag EXCEPT ![bank] = vblock']
    PROVE  FormatInv'
<1>. USE DEF FirmwareTypes
<1>1. /\ vblock \in Int /\ vblock' \in Candidates /\ vblock' >= FirstVblk
      /\ \A v \in Candidates : v <= vblock' => v <= vblock \/ v = vblock'
  BY SizeAssumption DEF FormatInv, Candidates, Vblks
<1>2. lbn < LogBlks
  BY SizeAssumption
<1>3. ASSUME NEW b \in Banks, b # bank PROVE MapGood(b)'
  BY <1>3, SameBank DEF FormatInv, Started, Untouched, Finished
<1>4. ASSUME NEW b \in Banks, b = bank PROVE MapGood(b)'
  <2>1. /\ \A l \in Lbns : l \in Assigned(b) <=> l < lbn
        /\ \A l \in Assigned(b) : bmt[b][l] <= vblock
        /\ \A v \in Candidates : v <= vblock => v \in bad[b] \cup Targets(b)
    BY <1>4 DEF FormatInv, MapGood, Started, Seen
  <2>2. Assigned(b)' = Assigned(b) /\ Targets(b)' = Targets(b) /\ BlocksGood(b)
    BY <1>4 DEF Assigned, Targets, FormatInv, MapGood
  <2>3. BlocksGood(b)'
    BY <2>2 DEF BlocksGood
  <2>4. ~Untouched(b)' /\ ~Finished(b)'
    BY <1>4, SizeLemma DEF Untouched, Finished
  <2>5. \A l \in Assigned(b) : bmt[b][l] \in Int
    <3>1. \A v \in Candidates : v \in Int
      BY SizeLemma
    <3>2. QED
      BY <2>2, <3>1, Zenon DEF BlocksGood
  <2>6. (phase' = "next" /\ Seen' = vblock + 1) \/ (phase' = "check" /\ Seen' = vblock)
    BY <1>1 DEF Seen
  <2>7. \A l \in Assigned(b) : bmt[b][l] <= Seen'
    <3>1. \A x \in Int : x <= vblock => x <= Seen'
      BY <1>1, <2>6
    <3>2. QED
      BY <2>1, <2>5, <3>1
  <2>8. \A v \in Candidates : v <= Seen' => v \in bad[b] \cup Targets(b)
    BY <1>1, <1>4, <2>1, <2>6
  <2>9. QED
    BY <2>1, <2>2, <2>3, <2>4, <2>7, <2>8 DEF MapGood
<1>5. \A b \in Banks : flag'[b] # INVALID => phase' = "check" /\ b = bank /\ flag'[b] = vblock'
  BY DEF FormatInv
<1>6. QED
  BY <1>1, <1>2, <1>3, <1>4, <1>5 DEF FormatInv

LEMMA FormatCheck ==
    ASSUME FirmwareTypes, FormatInv, CheckErased
    PROVE  FormatInv'
<1>. USE DEF FirmwareTypes
<1>1. /\ phase = "check" /\ phase' = "next" /\ UNCHANGED <<bank, vblock>>
      /\ vblock \in Candidates \ bad[bank] /\ vblock \in Int /\ lbn < LogBlks /\ lbn \in Lbns /\ lbn \in Int
      /\ vblock >= FirstVblk /\ Seen = vblock - 1 /\ Seen' = vblock
  BY SizeAssumption DEF CheckErased, FormatInv, Seen, Candidates, Lbns
<1>2. ASSUME NEW b \in Banks, b # bank, bmt'[b] = bmt[b], bad'[b] = bad[b] PROVE MapGood(b)'
  BY <1>1, <1>2, SameBank DEF FormatInv, Started, Untouched, Finished
<1>3. ASSUME NEW b \in Banks, b = bank
      PROVE  /\ BlocksGood(b) /\ ~Untouched(b)' /\ ~Finished(b)'
             /\ \A l \in Lbns : l \in Assigned(b) <=> l < lbn
             /\ \A l \in Assigned(b) : bmt[b][l] \in Int /\ bmt[b][l] <= vblock - 1
             /\ \A v \in Candidates : v <= vblock => v = vblock \/ v \in bad[b] \cup Targets(b)
  <2>1. /\ BlocksGood(b) /\ \A l \in Lbns : l \in Assigned(b) <=> l < lbn
        /\ \A l \in Assigned(b) : bmt[b][l] <= vblock - 1
        /\ \A v \in Candidates : v <= vblock - 1 => v \in bad[b] \cup Targets(b)
    BY <1>1, <1>3 DEF FormatInv, MapGood, Started
  <2>2. \A l \in Assigned(b) : bmt[b][l] \in Int
    <3>1. \A v \in Candidates : v \in Int
      BY SizeLemma
    <3>2. QED
      BY <2>1, <3>1, Zenon DEF BlocksGood
  <2>3. \A v \in Candidates : v <= vblock => v = vblock \/ v <= vblock - 1
    BY <1>1, SizeAssumption DEF Candidates
  <2>4. ~Untouched(b)' /\ ~Finished(b)'
    BY <1>1, <1>3, SizeLemma DEF Untouched, Finished
  <2>5. QED
    BY <2>1, <2>2, <2>3, <2>4
<1>4. CASE flag[bank] # INVALID
  <2>1. /\ bad' = [bad EXCEPT ![bank] = bad[bank] \cup {vblock}] /\ flag' = [flag EXCEPT ![bank] = INVALID]
        /\ UNCHANGED <<bmt, lbn>>
    BY <1>1, <1>4 DEF CheckErased, FormatInv
  <2>2. \A b \in Banks : flag'[b] = INVALID
    BY <2>1 DEF FormatInv
  <2>3. ASSUME NEW b \in Banks, b = bank PROVE MapGood(b)'
    <3>1. Assigned(b)' = Assigned(b) /\ Targets(b)' = Targets(b)
      BY <2>1 DEF Assigned, Targets
    <3>2. bad'[b] = bad[b] \cup {vblock}
      BY <2>1, <2>3
    <3>3. \A l \in Assigned(b) : bmt[b][l] # vblock /\ bmt[b][l] <= vblock
      BY <1>1, <1>3, <2>3
    <3>4. BlocksGood(b)'
      BY <1>3, <2>1, <2>3, <3>1, <3>2, <3>3 DEF BlocksGood
    <3>5. QED
      BY <1>1, <1>3, <2>1, <2>3, <3>1, <3>2, <3>3, <3>4 DEF MapGood
  <2>4. QED
    BY <1>1, <1>2, <2>1, <2>2, <2>3 DEF FormatInv
<1>5. CASE flag[bank] = INVALID
  <2>1. /\ bmt' = [bmt EXCEPT ![bank] = [bmt[bank] EXCEPT ![lbn] = vblock]] /\ lbn' = lbn + 1
        /\ UNCHANGED <<bad, flag>>
    BY <1>5 DEF CheckErased
  <2>2. \A b \in Banks : flag'[b] = INVALID
    BY <1>5, <2>1 DEF FormatInv
  <2>3. ASSUME NEW b \in Banks, b = bank PROVE MapGood(b)'
    <3>1. /\ \A l \in Lbns : bmt'[b][l] = IF l = lbn THEN vblock ELSE bmt[b][l]
          /\ bmt[b] \in [Lbns -> Vblks \cup {INVALID}]
      BY <1>1, <2>1, <2>3
    <3>2. Assigned(b)' = Assigned(b) \cup {lbn}
      BY <1>1, <3>1, SizeLemma DEF Assigned
    <3>3. \A l \in Lbns : l < lbn' <=> l < lbn \/ l = lbn
      BY <1>1, <2>1 DEF Lbns
    <3>4. \A l \in Lbns : l \in Assigned(b)' <=> l < lbn'
      BY <1>3, <2>3, <3>2, <3>3
    <3>5. lbn \notin Assigned(b)
      BY <1>1, <1>3, <2>3
    <3>6. \A l \in Assigned(b)' : l \in Lbns /\ (l = lbn \/ (l # lbn /\ l \in Assigned(b)))
      BY <3>2, <3>5, <1>1 DEF Assigned
    <3>7. Targets(b)' = Targets(b) \cup {vblock}
      <4>1. \A l \in Assigned(b) : bmt'[b][l] = bmt[b][l] /\ l # lbn
        BY <3>1, <3>5 DEF Assigned
      <4>2. bmt'[b][lbn] = vblock
        BY <1>1, <3>1
      <4>3. Targets(b)' = {bmt'[b][l] : l \in Assigned(b) \cup {lbn}}
        BY <3>2 DEF Targets
      <4>4. QED
        BY <4>1, <4>2, <4>3 DEF Targets
    <3>8. BlocksGood(b)'
      <4>. SUFFICES ASSUME NEW l \in Assigned(b)'
                    PROVE  /\ bmt'[b][l] \in Candidates \ bad'[b]
                           /\ 0..l \subseteq Assigned(b)'
                           /\ \A k \in Assigned(b)' : bmt'[b][k] = bmt'[b][l] => k = l
        BY DEF BlocksGood
      <4>1. bmt'[b][l] \in Candidates \ bad'[b]
        BY <1>1, <1>3, <2>1, <2>3, <3>1, <3>6 DEF BlocksGood
      <4>2. 0..l \subseteq Assigned(b)'
        <5>1. l \in Lbns /\ l < lbn'
          BY <3>4, <3>6
        <5>2. \A i \in 0..l : i \in Lbns /\ i < lbn'
          BY <5>1, <1>1, <2>1, SizeAssumption DEF Lbns
        <5>3. QED
          BY <3>4, <5>2
      <4>3. ASSUME NEW k \in Assigned(b)', bmt'[b][k] = bmt'[b][l] PROVE k = l
        <5>1. \A i \in Assigned(b) : bmt[b][i] # vblock
          BY <1>1, <1>3, <2>3
        <5>2. QED
          BY <1>3, <2>3, <3>1, <3>6, <4>3, <5>1 DEF BlocksGood
      <4>4. QED
        BY <4>1, <4>2, <4>3
    <3>9. \A l \in Assigned(b)' : bmt'[b][l] <= Seen'
      <4>1. \A x \in Int : x <= vblock - 1 => x <= vblock
        BY <1>1
      <4>2. vblock <= vblock
        BY <1>1
      <4>3. QED
        BY <1>1, <1>3, <2>3, <3>1, <3>6, <4>1, <4>2
    <3>10. \A v \in Candidates : v <= Seen' => v \in bad'[b] \cup Targets(b)'
      BY <1>1, <1>3, <2>1, <2>3, <3>7
    <3>11. ~Untouched(b)' /\ ~Finished(b)'
      BY <1>3, <2>3
    <3>12. QED
      BY <3>4, <3>8, <3>9, <3>10, <3>11 DEF MapGood
  <2>4. QED
    BY <1>1, <1>2, <2>1, <2>2, <2>3 DEF FormatInv
<1>6. QED
  BY <1>4, <1>5

LEMMA FormatStep ==
    ASSUME FirmwareTypes, FormatInv, StartUpNext
    PROVE  FormatInv'
<1>. USE DEF FirmwareTypes
<1>1. CASE build_bad_blk_list
  <2>1. phase = "lists" /\ UNCHANGED flag /\ phase' \in {"first", "lists"}
    BY <1>1 DEF build_bad_blk_list
  <2>2. \A b \in Banks : flag'[b] = INVALID
    BY <2>1 DEF FormatInv
  <2>3. \A b \in Banks : Assigned(b)' = {}
    <3>1. CASE bmt' = Unmapped
      BY <3>1 DEF Assigned, Unmapped
    <3>2. CASE UNCHANGED bmt
      BY <2>1, <3>2 DEF Assigned, FormatInv, MapGood, Untouched
    <3>3. QED
      BY <1>1, <3>1, <3>2 DEF build_bad_blk_list
  <2>4. \A b \in Banks : Untouched(b)' /\ ~Started(b)' /\ ~Finished(b)'
    <3>1. phase' = "lists" \/ (phase' = "first" /\ bank' = 0)
      BY <1>1, <2>1 DEF build_bad_blk_list
    <3>2. \A b \in Banks : ~(b < 0) /\ (b > 0 \/ b = 0)
      BY DEF Banks
    <3>3. QED
      BY <3>1, <3>2 DEF Untouched, Started, Finished
  <2>5. QED
    BY <2>1, <2>2, <2>3, <2>4, NothingAssigned
<1>2. CASE EraseFirst
  BY <1>2, FormatFirst DEF EraseFirst
<1>3. CASE EraseNext
  <2>1. CASE lbn = LogBlks \/ vblock + 1 >= NumVblks
    BY <1>3, <2>1, FormatEndBank DEF EraseNext
  <2>2. CASE ~(lbn = LogBlks \/ vblock + 1 >= NumVblks)
    <3>1. lbn # LogBlks /\ vblock + 1 < NumVblks
      BY <2>2, SizeAssumption DEF Vblks
    <3>2. phase = "next" /\ vblock' = vblock + 1 /\ UNCHANGED <<bank, bad, bmt, lbn>>
      BY <1>3, <2>2 DEF EraseNext
    <3>3. CASE is_bad_block(bank, vblock + 1)
      BY <1>3, <2>2, <3>1, <3>2, <3>3, FormatAdvance DEF EraseNext, is_bad_block
    <3>4. CASE ~is_bad_block(bank, vblock + 1)
      <4>1. /\ vblock' \notin bad[bank] /\ phase' = "check"
            /\ UNCHANGED flag \/ flag' = [flag EXCEPT ![bank] = vblock']
        BY <1>3, <2>2, <3>2, <3>4 DEF EraseNext, is_bad_block, nand_block_erase_sync
      <4>2. QED
        BY <3>1, <3>2, <4>1, FormatAdvance
    <3>5. QED
      BY <3>3, <3>4
  <2>3. QED
    BY <2>1, <2>2
<1>4. CASE CheckErased
  BY <1>4, FormatCheck
<1>5. QED
  BY <1>1, <1>2, <1>3, <1>4 DEF StartUpNext

LEMMA FormatPower ==
    ASSUME NEW next \in {"off", "lists"}, Power(next)
    PROVE  FormatInv'
<1>1. \A b \in Banks : Assigned(b)' = {}
  BY DEF Power, Assigned, Unmapped
<1>2. \A b \in Banks : Untouched(b)' /\ ~Started(b)' /\ ~Finished(b)'
  BY DEF Power, Untouched, Started, Finished
<1>3. QED
  BY <1>1, <1>2, NothingAssigned DEF Power

\* What is needed of every state, and the two facts that make it so.
BaseInv == TypeOK /\ FormatInv

LEMMA BaseInit == Init => BaseInv
<1>. SUFFICES ASSUME Init PROVE BaseInv
  OBVIOUS
<1>1. \A b \in Banks : Assigned(b) = {} /\ ~Started(b) /\ ~Finished(b) /\ flag[b] = INVALID
  BY DEF Init, StartUpInit, Assigned, Unmapped, Started, Finished
<1>2. \A b \in Banks : MapGood(b)
  BY <1>1 DEF MapGood, BlocksGood
<1>3. phase = "off"
  BY DEF Init, StartUpInit
<1>4. FormatInv
  BY <1>1, <1>2, <1>3 DEF FormatInv
<1>5. QED
  BY <1>4, InitTypes DEF BaseInv

LEMMA BaseStep == BaseInv /\ [Next]_vars => BaseInv'
<1>. SUFFICES ASSUME TypeOK, FormatInv, [Next]_vars PROVE FormatInv'
  BY NextTypes DEF BaseInv
<1>1. FirmwareTypes
  BY TypesLemma
<1>2. CASE UNCHANGED firmware
  BY <1>2 DEF firmware, FormatInv, MapGood, BlocksGood, Targets, Assigned, Untouched, Started, Finished, Seen
<1>3. CASE InNormal
  BY <1>1, <1>3, FormatStep DEF InNormal
<1>4. CASE ToFactory \/ ToNormal
  BY <1>4, FormatPower DEF ToFactory, ToNormal
<1>5. QED
  BY <1>2, <1>3, <1>4 DEF Next, InFactory, vars

LEMMA BaseCorrect == Spec => []BaseInv
<1>1. BaseInv /\ [Next]_vars => BaseInv'
  BY BaseStep
<1>2. QED
  BY BaseInit, <1>1, PTL DEF Spec

\* Every variable of the drive, the installer and the firmware keeps its kind,
\* over every step, failure and restart of either program.
THEOREM TypeCorrect == Spec => []TypeOK
<1>1. BaseInv => TypeOK
  BY DEF BaseInv
<1>2. QED
  BY BaseCorrect, <1>1, PTL

\* The log blocks of format are distinct good blocks, in order in the map, and
\* no log block stays invalid while a good block is left: for every number of
\* banks and blocks, every bad block list and every failure of an erasure.
THEOREM LogBlocksCorrect == Spec => []LogBlocksGood
<1>1. BaseInv => LogBlocksGood
  <2>. SUFFICES ASSUME BaseInv PROVE LogBlocksGood
    OBVIOUS
  <2>1. \A b \in Banks : MapGood(b)
    BY DEF BaseInv, FormatInv
  <2>2. \A b \in Banks : phase = "ready" => Finished(b)
    BY DEF Finished
  <2>3. QED
    BY <2>1, <2>2 DEF MapGood, BlocksGood, LogBlocksGood, Targets
<1>2. QED
  BY BaseCorrect, <1>1, PTL

----------------------------------------------------------------------------
(* Where lists come from.                                                  *)

LEMMA AppendLemma ==
    ASSUME NEW s \in Seq(Entries), NEW S \in SUBSET Marks
    PROVE  /\ Len(s \o SetToSeq(S)) = Len(s) + Cardinality(S)
           /\ Range(s \o SetToSeq(S)) = Range(s) \cup S
           /\ s \in Seq(Marks) => s \o SetToSeq(S) \in Seq(Marks)
<1>. DEFINE t == SetToSeq(S)
<1>1. t \in Seq(Marks) /\ Len(t) = Cardinality(S) /\ Range(t) = S /\ t \in Seq(Entries)
  <2>1. Marks \subseteq Entries
    BY SizeLemma DEF Marks, Entries
  <2>2. QED
    BY <2>1, MarksLemma
<1>. HIDE DEF t
<1>2. Len(s \o t) = Len(s) + Len(t) /\ DOMAIN s = 1..Len(s) /\ DOMAIN t = 1..Len(t) /\ DOMAIN (s \o t) = 1..Len(s) + Len(t)
  BY <1>1
<1>3. \A i \in DOMAIN (s \o t) : (s \o t)[i] \in Range(s) \cup Range(t)
  <2>. SUFFICES ASSUME NEW i \in 1..Len(s) + Len(t) PROVE (s \o t)[i] \in Range(s) \cup Range(t)
    BY <1>2
  <2>1. CASE i <= Len(s)
    <3>1. (s \o t)[i] = s[i] /\ i \in DOMAIN s
      BY <1>1, <1>2, <2>1
    <3>2. QED
      BY <3>1 DEF Range
  <2>2. CASE ~(i <= Len(s))
    <3>1. (s \o t)[i] = t[i - Len(s)] /\ i - Len(s) \in DOMAIN t
      BY <1>1, <1>2, <2>2
    <3>2. QED
      BY <3>1 DEF Range
  <2>3. QED
    BY <2>1, <2>2
<1>4. ASSUME NEW i \in DOMAIN s PROVE s[i] \in Range(s \o t)
  <2>1. (s \o t)[i] = s[i] /\ i \in DOMAIN (s \o t)
    BY <1>1, <1>2
  <2>2. QED
    BY <2>1 DEF Range
<1>5. ASSUME NEW i \in DOMAIN t PROVE t[i] \in Range(s \o t)
  <2>1. (s \o t)[i + Len(s)] = t[i] /\ i + Len(s) \in DOMAIN (s \o t)
    BY <1>1, <1>2
  <2>2. QED
    BY <2>1 DEF Range
<1>6. Range(s \o t) = Range(s) \cup Range(t)
  BY <1>3, <1>4, <1>5 DEF Range
<1>7. s \in Seq(Marks) => s \o t \in Seq(Marks)
  BY <1>1
<1>8. QED
  BY <1>1, <1>2, <1>6, <1>7 DEF t

\* A step of the installer leaves the list of a bank, adds the marks of the
\* bank to it, or takes it from the file or the page of the bank; a file or a
\* page gets the list.
LEMMA ListFlow ==
    ASSUME InstallerTypes, FlashTypes, InstallerNext, NEW b \in Banks
    PROVE  /\ \/ list'[b] = list[b]
              \/ list'[b] = list[b] \o Found(b)
              \/ b \in DOMAIN files /\ list'[b] = files[b]
              \/ list'[b] = page0[b].list
           /\ b \in DOMAIN files' => files'[b] = list[b] \/ (b \in DOMAIN files /\ files'[b] = files[b])
           /\ page0'[b] \in {page0[b], Blank, Corrupt, ListPage(list[b])}
<1>1. CASE scan_bad_blks
  BY <1>1 DEF scan_bad_blks, flash
<1>2. CASE save_scan
  <2>1. UNCHANGED list /\ UNCHANGED page0 /\ \E n \in 0..NumBanks : files' = [a \in 0..n-1 |-> list[a]]
    BY <1>2 DEF save_scan, flash
  <2>2. QED
    BY <2>1
<1>3. CASE load_scan_list_from_file
  BY <1>3 DEF load_scan_list_from_file, flash
<1>4. CASE load_scan_list_from_nand
  <2>1. list'[b] = IF Reads(b).kind = "list" THEN Reads(b).list ELSE list[b]
    BY <1>4 DEF load_scan_list_from_nand
  <2>2. Reads(b).kind = "list" => Reads(b) = page0[b]
    BY DEF Reads, Corrupt
  <2>3. QED
    BY <1>4, <2>1, <2>2 DEF load_scan_list_from_nand, flash
<1>5. CASE EraseAllStep \/ EraseZero
  <2>1. /\ UNCHANGED <<list, files>>
        /\ \E a \in Banks : \E p, chips : EraseBlock(a, p, chips)
    BY <1>5, JobLemma DEF EraseAllStep, EraseZero, Erase, InstallerTypes
  <2>2. page0'[b] \in {page0[b], Blank, Corrupt}
    BY <2>1 DEF EraseBlock, FlashTypes
  <2>3. QED
    BY <2>1, <2>2
<1>6. CASE WriteList
  <2>1. UNCHANGED <<list, files>>
    BY <1>6 DEF WriteList
  <2>2. PICK ok \in BOOLEAN :
          page0' = [page0 EXCEPT ![job.bank] = IF ok /\ page0[job.bank] = Blank THEN ListPage(list[job.bank]) ELSE Corrupt]
    BY <1>6 DEF WriteList
  <2>3. page0'[b] \in {page0[b], Corrupt, ListPage(list[b])}
    BY <2>2 DEF FlashTypes
  <2>4. QED
    BY <2>1, <2>3
<1>7. CASE init \/ erase_all \/ install \/ VerifyLists \/ WriteDummies \/ WriteStamp \/ WriteImage
  <2>1. UNCHANGED <<list, files, page0>>
    BY <1>7 DEF init, erase_all, install, VerifyLists, WriteDummies, WriteStamp, WriteImage, flash
  <2>2. QED
    BY <2>1
<1>8. QED
  BY <1>1, <1>2, <1>3, <1>4, <1>5, <1>6, <1>7 DEF InstallerNext

----------------------------------------------------------------------------
(* The stamps.                                                             *)

\* No list names block 0 on both chips, so that the installer erases block 0.
ZeroErased ==
    /\ \A b \in Banks : ZeroListed(list[b]) # Chips /\ ZeroListed(page0[b].list) # Chips
    /\ \A b \in DOMAIN files : ZeroListed(files[b]) # Chips

\* Which stamps there are while a job is done.
StampJob ==
    /\ job.at \in {"dummies", "stamps", "images"} => \A b \in Banks : page0[b].kind = "list"
    /\ job.at = "erase" => \A b \in stamp : b >= job.bank
    /\ job.at \in {"lists", "verify"} => stamp = {}

StampInv == StampAfterLists /\ StampJob /\ ZeroErased

LEMMA ZeroLemma ==
    /\ ZeroListed(<<>>) # Chips /\ ZeroListed(Blank.list) # Chips /\ ZeroListed(Corrupt.list) # Chips
    /\ \A s \in Seq(Entries), S \in SUBSET Marks : ZeroListed(s \o SetToSeq(S)) = ZeroListed(s)
<1>1. ZeroListed(<<>>) = {} /\ Chips # {}
  BY DEF ZeroListed, Range, Chips
<1>2. ASSUME NEW s \in Seq(Entries), NEW S \in SUBSET Marks
      PROVE  ZeroListed(s \o SetToSeq(S)) = ZeroListed(s)
  <2>1. \A c \in Chips : [chip |-> c, blk |-> 0] \notin S
    BY DEF Marks
  <2>2. Range(s \o SetToSeq(S)) = Range(s) \cup S
    BY AppendLemma
  <2>3. QED
    BY <2>1, <2>2 DEF ZeroListed
<1>3. QED
  BY <1>1, <1>2 DEF Blank, Corrupt

LEMMA StampInit == Init => StampInv
<1>. SUFFICES ASSUME Init PROVE StampInv
  OBVIOUS
<1>1. stamp = {} /\ files = NoFiles /\ \A b \in Banks : list[b] = <<>>
  BY DEF Init, FlashInit, InstallerInit, Fresh
<1>2. job.at = "menu"
  BY DEF Init, InstallerInit, Fresh, Menu, Job
<1>3. \A b \in Banks : page0[b] \in OldPages
  BY DEF Init, FlashInit
<1>4. ZeroErased
  BY <1>1, <1>3, ZeroLemma, OldZeroAssumption DEF ZeroErased, NoFiles
<1>5. QED
  BY <1>1, <1>2, <1>4 DEF StampInv, StampAfterLists, StampJob

LEMMA ZeroStep ==
    ASSUME InstallerTypes, FlashTypes, InstallerNext, ZeroErased
    PROVE  ZeroErased'
<1>1. ASSUME NEW b \in Banks
      PROVE  /\ ZeroListed(list'[b]) # Chips /\ ZeroListed(page0'[b].list) # Chips
             /\ b \in DOMAIN files' => ZeroListed(files'[b]) # Chips
  <2>1. ZeroListed(list[b]) # Chips /\ ZeroListed(page0[b].list) # Chips /\ list[b] \in Seq(Entries)
    BY DEF ZeroErased, InstallerTypes, Lists
  <2>2. ZeroListed(list[b] \o Found(b)) = ZeroListed(list[b])
    BY <2>1, ZeroLemma DEF Found, FlashTypes
  <2>3. b \in DOMAIN files => ZeroListed(files[b]) # Chips
    BY DEF ZeroErased
  <2>4. ZeroListed(ListPage(list[b]).list) # Chips
    BY <2>1 DEF ListPage
  <2>. HIDE DEF Found
  <2>5. ZeroListed(list'[b]) # Chips
    BY <2>1, <2>2, <2>3, ListFlow
  <2>6. ZeroListed(page0'[b].list) # Chips
    BY <2>1, <2>4, ZeroLemma, ListFlow
  <2>7. QED
    BY <2>1, <2>3, <2>5, <2>6, ListFlow
<1>2. DOMAIN files' \subseteq Banks
  BY InstallerStepTypes DEF InstallerTypes
<1>3. QED
  BY <1>1, <1>2 DEF ZeroErased

LEMMA StampEraseZero ==
    ASSUME InstallerTypes, FlashTypes, StampInv, EraseZero
    PROVE  StampAfterLists' /\ StampJob'
<1>1. job.at = "erase" /\ job.bank \in Banks /\ job' = NextBank("lists") /\ (\A b \in stamp : b \in Banks /\ b >= job.bank)
  BY JobLemma DEF EraseZero, StampInv, StampJob, InstallerTypes, FlashTypes
<1>2. Chips \ Listed(job.bank, 0) # {}
  BY <1>1 DEF StampInv, ZeroErased, ZeroListed, Listed
<1>3. /\ stamp' = stamp \ {job.bank}
      /\ \A b \in Banks : b # job.bank => page0'[b] = page0[b]
  BY <1>1, <1>2 DEF EraseZero, Erase, EraseBlock, FlashTypes
<1>4. StampAfterLists'
  BY <1>1, <1>3 DEF StampInv, StampAfterLists
<1>5. StampJob'
  <2>1. job \in Jobs
    BY DEF InstallerTypes
  <2>2. CASE LastBank
    <3>1. job'.at = "lists"
      BY <1>1, <2>1, <2>2 DEF NextBank, Jobs
    <3>2. \A b \in Banks : b >= job.bank => b = job.bank
      BY <1>1, <2>2, SizeAssumption DEF LastBank, Banks
    <3>3. QED
      BY <1>1, <1>3, <3>1, <3>2 DEF StampJob
  <2>3. CASE ~LastBank
    <3>1. job'.at = "erase" /\ job'.bank = job.bank + 1
      BY <1>1, <2>1, <2>3 DEF NextBank, Jobs
    <3>2. \A b \in Banks : b >= job.bank /\ b # job.bank => b >= job.bank + 1
      BY <1>1 DEF Banks
    <3>3. QED
      BY <1>1, <1>3, <3>1, <3>2 DEF StampJob
  <2>4. QED
    BY <2>2, <2>3
<1>6. QED
  BY <1>4, <1>5

\* What the job of a step is followed by.
LEMMA NextJob ==
    ASSUME job \in Jobs, NEW at \in Steps, NEW next, next = NextBank(at) \/ next = [NextBank(at) EXCEPT !.ok = FALSE]
                                                  \/ next = [NextBank(at) EXCEPT !.ok = TRUE]
    PROVE  next.at = at \/ next.at = job.at
BY DEF NextBank, Jobs

LEMMA StampStep ==
    ASSUME InstallerTypes, FlashTypes, StampInv, InstallerNext
    PROVE  StampAfterLists' /\ StampJob'
<1>. USE DEF StampInv
<1>0. job \in Jobs /\ Menu.at = "menu"
  BY DEF InstallerTypes, Menu, Job
<1>1. CASE init \/ scan_bad_blks \/ load_scan_list_from_file \/ load_scan_list_from_nand
  <2>1. UNCHANGED <<stamp, page0, job>>
    BY <1>1 DEF init, scan_bad_blks, load_scan_list_from_file, load_scan_list_from_nand, flash
  <2>2. QED
    BY <2>1 DEF StampAfterLists, StampJob
<1>2. CASE save_scan \/ erase_all \/ install
  <2>1. UNCHANGED <<stamp, page0>> /\ (UNCHANGED job \/ job' \in {Job("exit", 0), Job("erase all", 0), Job("erase", 0)})
    BY <1>2 DEF save_scan, erase_all, install, flash
  <2>2. \A b \in stamp : b >= 0
    BY DEF FlashTypes, Banks
  <2>3. /\ Job("exit", 0).at = "exit" /\ Job("erase all", 0).at = "erase all"
        /\ Job("erase", 0).at = "erase" /\ Job("erase", 0).bank = 0
    BY DEF Job
  <2>4. StampAfterLists'
    BY <2>1 DEF StampAfterLists
  <2>5. CASE UNCHANGED job
    BY <2>1, <2>4, <2>5 DEF StampJob
  <2>6. CASE job'.at \in {"exit", "erase all"}
    BY <2>4, <2>6 DEF StampJob
  <2>7. CASE job'.at = "erase" /\ job'.bank = 0
    BY <2>1, <2>2, <2>4, <2>7 DEF StampJob
  <2>8. QED
    BY <2>1, <2>3, <2>5, <2>6, <2>7
<1>3. CASE EraseAllStep
  <2>1. job.bank \in Banks /\ job.at = "erase all" /\ job'.at \in {"menu", "erase all"}
    <3>1. job.bank \in Banks /\ job.at = "erase all"
      BY <1>0, <1>3, JobLemma DEF EraseAllStep
    <3>2. \/ job' = Menu
          \/ job' = [job EXCEPT !.bank = job.bank + 1]
          \/ job' = [job EXCEPT !.bank = 0, !.blk = job.blk + 1]
      BY <1>3, Zenon DEF EraseAllStep
    <3>3. [job EXCEPT !.bank = job.bank + 1].at = job.at /\ [job EXCEPT !.bank = 0, !.blk = job.blk + 1].at = job.at
      BY <1>0 DEF Jobs
    <3>4. QED
      BY <1>0, <3>1, <3>2, <3>3
  <2>2. EraseBlock(job.bank, job.blk, Chips \ Listed(job.bank, job.blk))
    BY <1>3 DEF EraseAllStep, Erase
  <2>3. StampAfterLists'
    <3>1. \/ UNCHANGED <<page0, stamp>>
          \/ stamp' = stamp \ {job.bank} /\ \A b \in Banks : b # job.bank => page0'[b] = page0[b]
      BY <2>1, <2>2 DEF EraseBlock, FlashTypes
    <3>2. QED
      BY <3>1 DEF StampAfterLists, FlashTypes
  <2>4. QED
    BY <2>1, <2>3 DEF StampJob
<1>4. CASE EraseZero
  BY <1>4, StampEraseZero
<1>5. CASE WriteList
  <2>1. stamp' = {} /\ job'.at \in {"verify", "lists"}
    <3>1. job.at = "lists" /\ job' = NextBank("verify") /\ UNCHANGED stamp
      BY <1>5 DEF WriteList
    <3>2. stamp = {}
      BY <3>1 DEF StampJob
    <3>3. job'.at \in {"verify", "lists"}
      BY <1>0, <3>1, NextJob DEF Steps
    <3>4. QED
      BY <3>1, <3>2, <3>3
  <2>2. QED
    BY <2>1 DEF StampAfterLists, StampJob
<1>6. CASE VerifyLists
  <2>1. UNCHANGED <<page0, stamp>> /\ stamp = {}
    BY <1>6 DEF VerifyLists, StampJob, flash
  <2>2. job'.at = "menu" \/ (job'.at = "dummies" /\ \A b \in Banks : page0[b].kind = "list")
    <3>1. Job("dummies", 0).at = "dummies" /\ \A b \in Banks : ListPage(list[b]).kind = "list"
      BY DEF Job, ListPage
    <3>2. CASE \A b \in Banks : page0[b] = ListPage(list[b])
      BY <1>6, <3>1, <3>2 DEF VerifyLists
    <3>3. CASE ~\A b \in Banks : page0[b] = ListPage(list[b])
      BY <1>0, <1>6, <3>3 DEF VerifyLists
    <3>4. QED
      BY <3>2, <3>3
  <2>3. QED
    BY <2>1, <2>2 DEF StampAfterLists, StampJob
<1>7. CASE WriteDummies \/ WriteStamp \/ WriteImage
  <2>1. UNCHANGED page0 /\ \A b \in Banks : page0[b].kind = "list"
    BY <1>7 DEF WriteDummies, WriteStamp, WriteImage, StampJob, flash
  <2>2. job'.at \in {"menu", "dummies", "stamps", "images", "exit"}
    <3>1. CASE WriteDummies
      <4>1. job' \in {NextBank("stamps"), Menu} /\ job.at = "dummies"
        BY <3>1 DEF WriteDummies
      <4>2. QED
        BY <1>0, <4>1, NextJob DEF Steps
    <3>2. CASE WriteStamp
      <4>1. PICK ok \in BOOLEAN :
              job' = IF LastBank /\ ~(job.ok /\ ok) THEN Menu ELSE [NextBank("images") EXCEPT !.ok = job.ok /\ ok]
        BY <3>2 DEF WriteStamp
      <4>2. job.at = "stamps" /\ job.ok \in BOOLEAN
        BY <1>0, <3>2 DEF WriteStamp, Jobs
      <4>3. [NextBank("images") EXCEPT !.ok = job.ok /\ ok].at \in {"images", "stamps"}
        BY <1>0, <4>2, NextJob DEF Steps
      <4>4. QED
        BY <1>0, <4>1, <4>3
    <3>3. CASE WriteImage
      <4>1. job' \in {NextBank("exit"), Menu} /\ job.at = "images"
        BY <3>3 DEF WriteImage
      <4>2. QED
        BY <1>0, <4>1, NextJob DEF Steps
    <3>4. QED
      BY <1>7, <3>1, <3>2, <3>3
  <2>3. stamp' \subseteq Banks
    BY InstallerStepTypes DEF FlashTypes
  <2>4. QED
    BY <2>1, <2>2, <2>3 DEF StampAfterLists, StampJob
<1>8. QED
  BY <1>1, <1>2, <1>3, <1>4, <1>5, <1>6, <1>7 DEF InstallerNext

LEMMA StampNext == BaseInv /\ StampInv /\ [Next]_vars => StampInv'
<1>. SUFFICES ASSUME BaseInv, StampInv, [Next]_vars PROVE StampInv'
  OBVIOUS
<1>1. InstallerTypes /\ FlashTypes /\ FirmwareTypes /\ FormatInv
  BY TypesLemma DEF BaseInv
<1>2. CASE InFactory
  BY <1>1, <1>2, StampStep, ZeroStep DEF InFactory, StampInv
<1>3. CASE UNCHANGED <<list, files, page0, stamp, job>>
  BY <1>3 DEF StampInv, StampAfterLists, StampJob, ZeroErased
<1>4. CASE InNormal
  <2>1. UNCHANGED <<page0, stamp>>
    BY <1>1, <1>4, StartUpStepTypes DEF InNormal
  <2>2. UNCHANGED <<list, files, job>>
    BY <1>4 DEF InNormal, installer
  <2>3. QED
    BY <1>3, <2>1, <2>2
<1>5. CASE ToFactory \/ ToNormal
  <2>1. UNCHANGED <<page0, stamp, files>> /\ job' = Menu /\ \A b \in Banks : list'[b] = <<>>
    BY <1>5 DEF ToFactory, ToNormal, Restart, flash, StartInstaller
  <2>2. QED
    BY <2>1, ZeroLemma DEF StampInv, StampAfterLists, StampJob, ZeroErased, Menu, Job
<1>6. CASE UNCHANGED vars
  BY <1>3, <1>6 DEF vars, installer, flash
<1>7. QED
  BY <1>2, <1>4, <1>5, <1>6 DEF Next

\* A bank has a stamp only with a list in its page 0: the installer erases the
\* block 0 of every bank, and the stamp with it, before it touches a list, and
\* writes no stamp before it has read all the lists back.
THEOREM StampsCorrect == Spec => []StampAfterLists
<1>1. StampInv => StampAfterLists
  BY DEF StampInv
<1>2. Spec => []StampInv
  BY BaseCorrect, StampInit, StampNext, PTL DEF Spec
<1>3. QED
  BY <1>1, <1>2, PTL

----------------------------------------------------------------------------
(* The initial bad blocks.                                                 *)

\* A list that names every initial bad block of a bank.
Covers(b, l) ==
    /\ l \in Seq(Marks) /\ Len(l) <= ScanListItems
    /\ \A m \in Factory[b] : VblkOf(m.blk) = FirstVblk \/ m \in Range(l)

\* While no one gave the bad blocks up, a list is complete wherever it is:
\* in the installer, in its files and in the pages.
ListsGood ==
    /\ \A b \in Banks : list[b] \in Seq(Marks) /\ Len(list[b]) <= ScanListItems
    /\ loaded => \A b \in Banks : Covers(b, list[b])
    /\ \A b \in DOMAIN files : Covers(b, files[b])
    /\ \A b \in Banks : page0[b] \in OldPages \/ page0[b].kind # "list" \/ Covers(b, page0[b].list)

\* The firmware has the bitmap of a bank.
Known(b) == (phase = "lists" /\ b < bank) \/ phase \in {"first", "next", "check", "ready"}

BitmapGood ==
    \A b \in Banks : Known(b) => \A m \in Factory[b] : VblkOf(m.blk) \in bad[b] \cup {0, FirstVblk}

MarksKept == \A b \in Banks : \A m \in Factory[b] : VblkOf(m.blk) = FirstVblk \/ m \in marks[b]

Loaded == job.at \in Steps \ {"menu", "exit"} => loaded

KeptInv == ~excused => MarksKept /\ ListsGood /\ BitmapGood /\ Loaded

LEMMA VblkLemma == \A m \in Marks : VblkOf(m.blk) \in Vblks /\ m.blk \in Pblks \ {0} /\ m.chip \in Chips
<1>1. \A m \in Marks : m.blk \in Pblks \ {0} /\ m.chip \in Chips
  BY DEF Marks
<1>2. \A p \in Pblks : VblkOf(p) \in Vblks
  BY SizeAssumption DEF Pblks, VblkOf, Vblks
<1>3. QED
  BY <1>1, <1>2

LEMMA EraseBlockKeeps ==
    ASSUME FlashTypes, MarksKept, NEW a \in Banks, NEW p, EraseBlock(a, p, Chips \ Listed(a, p)), Covers(a, list[a])
    PROVE  MarksKept'
<1>. SUFFICES ASSUME NEW b \in Banks, NEW m \in Factory[b], VblkOf(m.blk) # FirstVblk PROVE m \in marks'[b]
  BY DEF MarksKept
<1>1. m \in marks[b] /\ m \in Marks
  BY FactoryAssumption DEF MarksKept
<1>2. CASE b # a
  BY <1>1, <1>2 DEF EraseBlock, FlashTypes
<1>3. CASE b = a
  <2>1. marks'[b] = {x \in marks[b] : x.blk # p \/ x.chip \notin Chips \ Listed(a, p)}
    BY <1>3 DEF EraseBlock, FlashTypes
  <2>2. m \in Range(list[a])
    BY <1>3 DEF Covers
  <2>3. m = [chip |-> m.chip, blk |-> m.blk] /\ m.chip \in Chips
    BY <1>1 DEF Marks
  <2>4. m.blk = p => m.chip \in Listed(a, p)
    BY <2>2, <2>3 DEF Listed
  <2>5. QED
    BY <1>1, <2>1, <2>4
<1>4. QED
  BY <1>2, <1>3

LEMMA KeptInit == Init => KeptInv
<1>. SUFFICES ASSUME Init PROVE KeptInv
  OBVIOUS
<1>1. MarksKept
  BY DEF Init, FlashInit, MarksKept
<1>2. ListsGood
  <2>1. \A b \in Banks : list[b] = <<>> /\ page0[b] \in OldPages
    BY DEF Init, FlashInit, InstallerInit, Fresh
  <2>2. ~loaded /\ DOMAIN files = {}
    BY DEF Init, InstallerInit, Fresh, NoFiles
  <2>3. <<>> \in Seq(Marks) /\ Len(<<>>) = 0
    OBVIOUS
  <2>4. \A b \in Banks : list[b] \in Seq(Marks) /\ Len(list[b]) <= ScanListItems
    <3>1. 0 <= ScanListItems
      BY SizeAssumption
    <3>2. QED
      BY <2>1, <2>3, <3>1
  <2>5. QED
    BY <2>1, <2>2, <2>4, Zenon DEF ListsGood
<1>3. BitmapGood
  BY DEF Init, StartUpInit, BitmapGood, Known
<1>4. Loaded
  BY DEF Init, InstallerInit, Fresh, Menu, Job, Loaded
<1>5. QED
  BY <1>1, <1>2, <1>3, <1>4 DEF KeptInv

LEMMA KeptScan ==
    ASSUME InstallerTypes, FlashTypes, MarksKept, ListsGood, Loaded, scan_bad_blks
    PROVE  MarksKept' /\ ListsGood' /\ Loaded'
<1>1. UNCHANGED <<marks, page0, files, job>> /\ loaded' = TRUE
  BY DEF scan_bad_blks, flash
<1>2. ASSUME NEW b \in Banks
      PROVE  Covers(b, list'[b])
  <2>1. /\ list'[b] = list[b] \o SetToSeq(marks[b]) /\ marks[b] \in SUBSET Marks
        /\ Len(list[b]) + Cardinality(marks[b]) <= ScanListItems
    BY DEF scan_bad_blks, Found, FlashTypes
  <2>2. list[b] \in Seq(Marks) /\ list[b] \in Seq(Entries)
    BY DEF ListsGood, InstallerTypes, Lists
  <2>3. \A m \in Factory[b] : VblkOf(m.blk) = FirstVblk \/ m \in marks[b]
    BY DEF MarksKept
  <2>4. list'[b] \in Seq(Marks) /\ Range(list'[b]) = Range(list[b]) \cup marks[b] /\ Len(list'[b]) <= ScanListItems
    BY <2>1, <2>2, AppendLemma
  <2>5. QED
    BY <2>3, <2>4 DEF Covers
<1>3. ListsGood'
  BY <1>1, <1>2 DEF ListsGood, Covers
<1>4. QED
  BY <1>1, <1>3 DEF MarksKept, Loaded

LEMMA KeptLoadFile ==
    ASSUME InstallerTypes, ListsGood, load_scan_list_from_file, ~(~loaded /\ DOMAIN files \notin {{}, Banks})
    PROVE  ListsGood'
<1>1. /\ UNCHANGED <<page0, files>> /\ loaded' = (loaded \/ 0 \in DOMAIN files)
      /\ \A b \in Banks : list'[b] = IF b \in DOMAIN files THEN files[b] ELSE list[b]
  BY DEF load_scan_list_from_file, flash
<1>2. \A b \in Banks : b \in DOMAIN files => Covers(b, list'[b])
  BY <1>1 DEF ListsGood
<1>3. \A b \in Banks : list'[b] \in Seq(Marks) /\ Len(list'[b]) <= ScanListItems
  BY <1>1, <1>2 DEF ListsGood, Covers
<1>4. ASSUME loaded', NEW b \in Banks PROVE Covers(b, list'[b])
  <2>1. CASE loaded
    BY <1>1, <1>2, <2>1 DEF ListsGood
  <2>2. CASE ~loaded
    <3>1. DOMAIN files = Banks
      BY <1>1, <1>4, <2>2
    <3>2. QED
      BY <1>2, <3>1
  <2>3. QED
    BY <2>1, <2>2
<1>5. QED
  BY <1>1, <1>3, <1>4 DEF ListsGood

LEMMA KeptLoadNand ==
    ASSUME InstallerTypes, ListsGood, load_scan_list_from_nand,
           \A b \in Banks : Reads(b).kind = "list" => page0[b] \notin OldPages
    PROVE  ListsGood'
<1>1. /\ UNCHANGED <<page0, files>> /\ loaded' = (loaded \/ \A b \in Banks : Reads(b).kind = "list")
      /\ \A b \in Banks : list'[b] = IF Reads(b).kind = "list" THEN Reads(b).list ELSE list[b]
  BY DEF load_scan_list_from_nand, flash
<1>2. ASSUME NEW b \in Banks, Reads(b).kind = "list" PROVE Covers(b, list'[b])
  <2>1. Reads(b) = page0[b]
    BY <1>2 DEF Reads, Corrupt
  <2>2. QED
    BY <1>1, <1>2, <2>1 DEF ListsGood
<1>3. \A b \in Banks : list'[b] \in Seq(Marks) /\ Len(list'[b]) <= ScanListItems
  <2>. SUFFICES ASSUME NEW b \in Banks PROVE list'[b] \in Seq(Marks) /\ Len(list'[b]) <= ScanListItems
    OBVIOUS
  <2>1. CASE Reads(b).kind = "list"
    BY <1>2, <2>1 DEF Covers
  <2>2. CASE Reads(b).kind # "list"
    BY <1>1, <2>2 DEF ListsGood
  <2>3. QED
    BY <2>1, <2>2
<1>4. ASSUME loaded', NEW b \in Banks PROVE Covers(b, list'[b])
  <2>1. CASE Reads(b).kind = "list"
    BY <1>2, <2>1
  <2>2. CASE Reads(b).kind # "list"
    BY <1>1, <1>4, <2>2 DEF ListsGood
  <2>3. QED
    BY <2>1, <2>2
<1>5. QED
  BY <1>1, <1>3, <1>4 DEF ListsGood

\* The jobs, but for the erasures: page 0 of a bank gets its list, or nothing
\* that can be read as one.
LEMMA KeptJob ==
    ASSUME InstallerTypes, FlashTypes, InstallerNext, MarksKept, ListsGood, Loaded, ~GivesUp
    PROVE  MarksKept' /\ ListsGood' /\ Loaded'
<1>. USE DEF InstallerTypes
<1>0. Menu.at = "menu" /\ job \in Jobs
  BY DEF Menu, Job
<1>1. CASE scan_bad_blks
  BY <1>1, KeptScan
<1>2. CASE load_scan_list_from_file
  <2>1. UNCHANGED <<marks, job>> /\ (loaded => loaded')
    BY <1>2 DEF load_scan_list_from_file, flash
  <2>2. ListsGood'
    BY <1>2, KeptLoadFile DEF GivesUp
  <2>3. QED
    BY <2>1, <2>2 DEF MarksKept, Loaded
<1>3. CASE load_scan_list_from_nand
  <2>1. UNCHANGED <<marks, job>> /\ (loaded => loaded')
    BY <1>3 DEF load_scan_list_from_nand, flash
  <2>2. ListsGood'
    BY <1>3, KeptLoadNand DEF GivesUp
  <2>3. QED
    BY <2>1, <2>2 DEF MarksKept, Loaded
<1>4. CASE save_scan
  <2>1. PICK n \in 0..NumBanks : files' = [b \in 0..n-1 |-> list[b]]
    BY <1>4 DEF save_scan
  <2>2. loaded /\ UNCHANGED <<loaded, list, marks, page0>> /\ (UNCHANGED job \/ job' = Job("exit", 0))
    BY <1>4 DEF save_scan, flash
  <2>3. 0..n-1 \subseteq Banks
    BY SizeAssumption DEF Banks
  <2>4. \A b \in DOMAIN files' : Covers(b, files'[b])
    BY <2>1, <2>2, <2>3 DEF ListsGood
  <2>5. Loaded'
    BY <2>2 DEF Loaded
  <2>6. QED
    BY <2>2, <2>4, <2>5 DEF MarksKept, ListsGood
<1>5. CASE EraseAllStep \/ EraseZero
  <2>1. /\ loaded /\ UNCHANGED <<loaded, list, files>>
    BY <1>5 DEF EraseAllStep, EraseZero, Loaded, Steps
  <2>2. /\ job.bank \in Banks
        /\ \E p : EraseBlock(job.bank, p, Chips \ Listed(job.bank, p))
    BY <1>5, JobLemma DEF EraseAllStep, EraseZero, Erase
  <2>3. Covers(job.bank, list[job.bank])
    BY <2>1, <2>2 DEF ListsGood
  <2>4. MarksKept'
    BY <2>2, <2>3, EraseBlockKeeps
  <2>5. \A b \in Banks : page0'[b] = page0[b] \/ page0'[b].kind # "list"
    BY <2>2 DEF EraseBlock, FlashTypes, Blank, Corrupt
  <2>6. ListsGood'
    BY <2>1, <2>5 DEF ListsGood
  <2>7. Loaded'
    BY <2>1 DEF Loaded
  <2>8. QED
    BY <2>4, <2>6, <2>7
<1>6. CASE WriteList
  <2>1. loaded /\ UNCHANGED <<loaded, list, files, marks>>
    BY <1>6 DEF WriteList, Loaded, Steps
  <2>2. \A b \in Banks : page0'[b] \in {page0[b], Blank, Corrupt, ListPage(list[b])}
    BY ListFlow
  <2>3. \A b \in Banks : ListPage(list[b]).list = list[b]
    BY DEF ListPage
  <2>4. \A b \in Banks : page0'[b] \in OldPages \/ page0'[b].kind # "list" \/ Covers(b, page0'[b].list)
    <3>. SUFFICES ASSUME NEW b \in Banks
                  PROVE  page0'[b] \in OldPages \/ page0'[b].kind # "list" \/ Covers(b, page0'[b].list)
      OBVIOUS
    <3>1. CASE page0'[b] = page0[b]
      BY <3>1 DEF ListsGood
    <3>2. CASE page0'[b] \in {Blank, Corrupt}
      BY <3>2 DEF Blank, Corrupt
    <3>3. CASE page0'[b] = ListPage(list[b])
      BY <2>1, <2>3, <3>3 DEF ListsGood
    <3>4. QED
      BY <2>2, <3>1, <3>2, <3>3
  <2>5. QED
    BY <2>1, <2>4 DEF ListsGood, Loaded, MarksKept
<1>7. CASE erase_all \/ install
  <2>1. UNCHANGED <<loaded, list, files, page0, marks>>
    BY <1>7 DEF erase_all, install, flash
  <2>2. loaded
    BY <1>7 DEF GivesUp, install
  <2>3. QED
    BY <2>1, <2>2 DEF ListsGood, MarksKept, Loaded
<1>8. CASE init \/ VerifyLists \/ WriteDummies \/ WriteStamp \/ WriteImage
  <2>1. UNCHANGED <<loaded, list, files, page0, marks>>
    BY <1>8 DEF init, VerifyLists, WriteDummies, WriteStamp, WriteImage, flash
  <2>2. UNCHANGED job \/ loaded
    BY <1>8 DEF init, VerifyLists, WriteDummies, WriteStamp, WriteImage, Loaded, Steps
  <2>3. QED
    BY <2>1, <2>2 DEF ListsGood, MarksKept, Loaded
<1>9. QED
  BY <1>1, <1>2, <1>3, <1>4, <1>5, <1>6, <1>7, <1>8 DEF InstallerNext

\* The bitmap of a bank from its page.
LEMMA KeptBitmap ==
    ASSUME FlashTypes, FirmwareTypes, ListsGood, BitmapGood, build_bad_blk_list,
           page0[bank].kind = "list", page0[bank] \notin OldPages
    PROVE  BitmapGood'
<1>1. bank \in Banks /\ bank \in Int /\ Covers(bank, page0[bank].list)
  BY SizeLemma DEF FirmwareTypes, ListsGood
<1>2. Accepted(page0[bank])
  <2>1. \A i \in DOMAIN page0[bank].list : page0[bank].list[i] \in Marks
    BY <1>1 DEF Covers
  <2>2. QED
    BY <1>1, <2>1, VblkLemma DEF Accepted, Covers
<1>3. bad' = [bad EXCEPT ![bank] = BadVblks({e.blk : e \in Range(page0[bank].list)}) \cap Vblks]
  BY <1>2 DEF build_bad_blk_list, SearchedWords
<1>4. \A b \in Banks : b # bank => bad'[b] = bad[b]
  BY <1>3 DEF FirmwareTypes
<1>5. ASSUME NEW m \in Factory[bank] PROVE VblkOf(m.blk) \in bad'[bank] \cup {0, FirstVblk}
  <2>1. bad'[bank] = BadVblks({e.blk : e \in Range(page0[bank].list)}) \cap Vblks
    BY <1>1, <1>3 DEF FirmwareTypes
  <2>2. m \in Marks /\ VblkOf(m.blk) \in Vblks
    BY <1>1, FactoryAssumption, VblkLemma
  <2>3. CASE m \in Range(page0[bank].list)
    BY <2>1, <2>2, <2>3 DEF BadVblks
  <2>4. QED
    BY <1>1, <2>3 DEF Covers
<1>6. ASSUME NEW b \in Banks PROVE Known(b)' => b = bank \/ Known(b)
  <2>1. CASE LastOf(bank)
    <3>1. b = bank \/ b < bank
      BY <1>1, <2>1, SizeAssumption DEF LastOf, Banks
    <3>2. phase = "lists"
      BY DEF build_bad_blk_list
    <3>3. QED
      BY <3>1, <3>2 DEF Known
  <2>2. CASE ~LastOf(bank)
    <3>1. phase = "lists" /\ phase' = "lists" /\ bank' = bank + 1
      BY <2>2 DEF build_bad_blk_list
    <3>2. b < bank + 1 => b = bank \/ b < bank
      BY <1>1 DEF Banks
    <3>3. QED
      BY <3>1, <3>2 DEF Known
  <2>3. QED
    BY <2>1, <2>2
<1>7. ASSUME NEW b \in Banks, Known(b)', NEW m \in Factory[b] PROVE VblkOf(m.blk) \in bad'[b] \cup {0, FirstVblk}
  <2>1. CASE b = bank
    BY <1>5, <2>1
  <2>2. CASE b # bank
    BY <1>4, <1>6, <1>7, <2>2 DEF BitmapGood
  <2>3. QED
    BY <2>1, <2>2
<1>8. QED
  BY <1>7 DEF BitmapGood

LEMMA EraseVblkKeeps ==
    ASSUME FlashTypes, MarksKept, NEW a \in Banks, NEW v, EraseVblk(a, v),
           \A m \in Factory[a] : VblkOf(m.blk) = v => v = FirstVblk
    PROVE  MarksKept'
<1>. SUFFICES ASSUME NEW b \in Banks, NEW m \in Factory[b], VblkOf(m.blk) # FirstVblk PROVE m \in marks'[b]
  BY DEF MarksKept
<1>1. m \in marks[b]
  BY DEF MarksKept
<1>2. marks'[b] = IF b = a THEN {x \in marks[b] : VblkOf(x.blk) # v} ELSE marks[b]
  BY DEF EraseVblk, FlashTypes
<1>3. QED
  BY <1>1, <1>2

LEMMA KeptFormat ==
    ASSUME FlashTypes, FirmwareTypes, FormatInv, MarksKept, BitmapGood, EraseFirst \/ EraseNext \/ CheckErased
    PROVE  MarksKept' /\ BitmapGood'
<1>0. bank \in Banks
  BY DEF FirmwareTypes
<1>1. CASE EraseFirst
  <2>1. EraseVblk(bank, FirstVblk) \/ UNCHANGED flash
    BY <1>1 DEF EraseFirst
  <2>2. MarksKept'
    BY <1>0, <2>1, EraseVblkKeeps DEF flash, MarksKept
  <2>3. BitmapGood'
    BY <1>1 DEF EraseFirst, BitmapGood, Known
  <2>4. QED
    BY <2>2, <2>3
<1>2. CASE EraseNext
  <2>1. phase = "next" /\ UNCHANGED bad /\ vblock \in Int /\ vblock >= FirstVblk
    BY <1>2, SizeLemma DEF EraseNext, FirmwareTypes, FormatInv
  <2>2. BitmapGood'
    BY <2>1 DEF BitmapGood, Known
  <2>3. UNCHANGED flash \/ (EraseVblk(bank, vblock + 1) /\ vblock + 1 \notin bad[bank])
    BY <1>2 DEF EraseNext, nand_block_erase_sync, is_bad_block
  <2>4. CASE UNCHANGED flash
    BY <2>2, <2>4 DEF flash, MarksKept
  <2>5. CASE EraseVblk(bank, vblock + 1) /\ vblock + 1 \notin bad[bank]
    <3>1. vblock + 1 # 0 /\ vblock + 1 # FirstVblk
      BY <2>1, SizeAssumption
    <3>2. \A m \in Factory[bank] : VblkOf(m.blk) # vblock + 1
      BY <1>0, <2>1, <2>5, <3>1 DEF BitmapGood, Known
    <3>3. QED
      BY <1>0, <2>2, <2>5, <3>2, EraseVblkKeeps
  <2>6. QED
    BY <2>3, <2>4, <2>5
<1>3. CASE CheckErased
  <2>1. UNCHANGED flash /\ phase = "check"
    BY <1>3 DEF CheckErased
  <2>2. \A b \in Banks : bad[b] \subseteq bad'[b]
    <3>1. UNCHANGED bad \/ bad' = [bad EXCEPT ![bank] = bad[bank] \cup {flag[bank]}]
      BY <1>3, Zenon DEF CheckErased
    <3>2. CASE bad' = [bad EXCEPT ![bank] = bad[bank] \cup {flag[bank]}]
      <4>1. ASSUME NEW b \in Banks PROVE bad'[b] = IF b = bank THEN bad[b] \cup {flag[bank]} ELSE bad[b]
        BY <3>2 DEF FirmwareTypes
      <4>2. QED
        BY <4>1
    <3>3. QED
      BY <3>1, <3>2
  <2>3. QED
    BY <2>1, <2>2 DEF MarksKept, BitmapGood, Known, flash
<1>4. QED
  BY <1>1, <1>2, <1>3

LEMMA KeptNext == BaseInv /\ KeptInv /\ [Next]_vars => KeptInv'
<1>. SUFFICES ASSUME BaseInv, KeptInv, [Next]_vars, ~excused' PROVE (MarksKept /\ ListsGood /\ BitmapGood /\ Loaded)'
  BY DEF KeptInv
<1>1. InstallerTypes /\ FlashTypes /\ FirmwareTypes /\ FormatInv
  BY TypesLemma DEF BaseInv
<1>2. ~excused
  BY DEF Next, InFactory, InNormal, ToFactory, ToNormal, Restart, vars
<1>3. MarksKept /\ ListsGood /\ BitmapGood /\ Loaded
  BY <1>2 DEF KeptInv
<1>4. CASE InFactory
  <2>1. ~GivesUp /\ InstallerNext /\ UNCHANGED firmware
    BY <1>4 DEF InFactory
  <2>2. BitmapGood'
    BY <1>3, <2>1 DEF firmware, BitmapGood, Known
  <2>3. QED
    BY <1>1, <1>3, <2>1, <2>2, KeptJob
<1>5. CASE InNormal
  <2>1. StartUpNext /\ UNCHANGED installer
        /\ ~(phase = "lists" /\ (page0[bank].kind # "list" \/ page0[bank] \in OldPages))
    BY <1>5 DEF InNormal
  <2>2. UNCHANGED <<page0, stamp, image>>
    BY <1>1, <2>1, StartUpStepTypes
  <2>3. ListsGood' /\ Loaded'
    BY <1>3, <2>1, <2>2 DEF ListsGood, Loaded, installer
  <2>4. CASE build_bad_blk_list
    BY <1>1, <1>3, <2>1, <2>3, <2>4, KeptBitmap DEF build_bad_blk_list, MarksKept, flash
  <2>5. CASE ~build_bad_blk_list
    BY <1>1, <1>3, <2>1, <2>3, <2>5, KeptFormat DEF StartUpNext
  <2>6. QED
    BY <2>4, <2>5
<1>6. CASE ToFactory \/ ToNormal
  <2>1. UNCHANGED <<marks, page0, files>> /\ loaded' = FALSE /\ job' = Menu /\ \A b \in Banks : list'[b] = <<>>
    BY <1>6 DEF ToFactory, ToNormal, Restart, flash, StartInstaller
  <2>2. phase' \in {"off", "lists"} /\ bank' = 0
    BY <1>6 DEF ToFactory, ToNormal, Power
  <2>3. BitmapGood'
    <3>1. \A b \in Banks : ~(b < 0)
      BY DEF Banks
    <3>2. QED
      BY <2>2, <3>1 DEF BitmapGood, Known
  <2>4. ListsGood'
    <3>1. <<>> \in Seq(Marks) /\ Len(<<>>) <= ScanListItems
      BY SizeAssumption
    <3>2. \A b \in Banks : list'[b] \in Seq(Marks) /\ Len(list'[b]) <= ScanListItems
      BY <2>1, <3>1
    <3>3. QED
      BY <1>3, <2>1, <3>2 DEF ListsGood
  <2>5. MarksKept' /\ Loaded'
    BY <1>3, <2>1 DEF MarksKept, Loaded, Menu, Job
  <2>6. QED
    BY <2>3, <2>4, <2>5
<1>7. CASE UNCHANGED vars
  BY <1>3, <1>7 DEF vars, flash, installer, firmware, MarksKept, ListsGood, BitmapGood, Known, Loaded
<1>8. QED
  BY <1>4, <1>5, <1>6, <1>7 DEF Next

\* No initial bad block but those of FirstVblk is erased, from the factory to
\* format, whatever fails and whenever the power goes, unless somebody gave
\* them up: the list that names them is complete wherever it is kept.
THEOREM BadBlocksCorrect == Spec => []BadBlocksKept
<1>1. KeptInv => BadBlocksKept
  BY DEF KeptInv, MarksKept, BadBlocksKept
<1>2. Spec => []KeptInv
  BY BaseCorrect, KeptInit, KeptNext, PTL DEF Spec
<1>3. QED
  BY <1>1, <1>2, PTL
=============================================================================
