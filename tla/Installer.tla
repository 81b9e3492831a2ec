------------------------------ MODULE Installer ------------------------------
(***************************************************************************)
(* The installer: a menu on the host that drives the boot ROM of a drive   *)
(* in factory mode.  It collects a scan list for each bank, from the       *)
(* factory's marks, from files or from the flash, and with the lists it    *)
(* erases the drive and writes block 0.  The lists live in its memory      *)
(* only: what it does there alone is one step, and what it does to the     *)
(* flash one step for each bank and block, between which it may be killed. *)
(***************************************************************************)
EXTENDS FactoryFlash

CONSTANT MaxFails     \* bound: writes and erasures of the flash that fail

VARIABLES
    up,        \* hc->up: the banks answered
    loaded,    \* hc->scan_list_loaded
    list,      \* hc->scan_list
    files,     \* the scan list files on disk, and the banks they are for
    strong,    \* the controller uses the ECC of the firmware image
    job,       \* what it does to the flash, and where it is in it
    fails      \* counts the writes and erasures that failed

installer == <<up, loaded, list, files, strong, job>>

Job(at, bank) == [at |-> at, bank |-> bank, blk |-> 0, ok |-> TRUE]
Menu == Job("menu", 0)
AtMenu == job = Menu
Steps == {"menu", "erase all", "erase", "lists", "verify", "dummies", "stamps", "images", "exit"}
Jobs == [at : Steps, bank : Banks, blk : Pblks, ok : BOOLEAN]
NoFiles == [b \in {} |-> <<>>]

\* The lists of a new run of the program are empty.
Fresh == up = FALSE /\ loaded = FALSE /\ list = [b \in Banks |-> <<>>] /\ strong = FALSE /\ job = Menu
InstallerInit == Fresh /\ files = NoFiles /\ fails = 0

\* The flash controller of the drive works with one of two ECCs.
reset_fctrl(strong_ecc) == strong' = strong_ecc

StartInstaller ==
    /\ up' = FALSE /\ loaded' = FALSE /\ list' = [b \in Banks |-> <<>>] /\ reset_fctrl(FALSE) /\ job' = Menu
    /\ UNCHANGED <<files, fails>>

----------------------------------------------------------------------------
(* The menu.                                                               *)

\* MENU_INIT resets the controller and the banks; those that do not answer
\* leave it down.
init ==
    /\ AtMenu
    /\ reset_fctrl(FALSE)
    /\ up' \in BOOLEAN
    /\ UNCHANGED <<loaded, list, files, job, fails, flash>>

\* The ROM's scan looks at every block but 0.
Found(bank) == SetToSeq(marks[bank])

\* MENU_SCAN appends what it finds to the lists there are.
scan_bad_blks ==
    /\ AtMenu /\ up
    /\ \A b \in Banks : Len(list[b]) + Cardinality(marks[b]) <= ScanListItems    \* bound
    /\ list' = [b \in Banks |-> list[b] \o Found(b)]
    /\ loaded' = TRUE
    /\ UNCHANGED <<up, files, strong, job, fails, flash>>

\* MENU_SAVE_SCAN into a new directory; an error ends the program after the
\* files of the banks before n.
save_scan ==
    /\ AtMenu /\ loaded /\ files = NoFiles
    /\ \E n \in 0..NumBanks :
          /\ files' = [b \in 0..n-1 |-> list[b]]
          /\ IF n = NumBanks
             THEN UNCHANGED <<up, loaded, list, strong, job>>
             ELSE /\ job' = Job("exit", 0)
                  /\ UNCHANGED <<up, loaded, list, strong>>
    /\ UNCHANGED <<fails, flash>>

\* MENU_LOAD_SCAN stops at the first file that is missing; the flag is set
\* in the loop.
load_scan_list_from_file ==
    /\ AtMenu
    /\ list' = [b \in Banks |-> IF b \in DOMAIN files THEN files[b] ELSE list[b]]
    /\ loaded' = (loaded \/ 0 \in DOMAIN files)
    /\ UNCHANGED <<up, files, strong, job, fails, flash>>

\* bank_read of the scan list page: with the other ECC it is not readable.
Reads(bank) == IF strong /\ page0[bank].kind = "list" THEN Corrupt ELSE page0[bank]

\* MENU_LOAD_SCAN_DEV takes the lists that can be read, whatever they hold.
load_scan_list_from_nand ==
    /\ AtMenu /\ up
    /\ \A b \in Banks : Len(Reads(b).list) <= ScanListItems    \* bound
    /\ list' = [b \in Banks |-> IF Reads(b).kind = "list" THEN Reads(b).list ELSE list[b]]
    /\ loaded' = (loaded \/ \A b \in Banks : Reads(b).kind = "list")
    /\ UNCHANGED <<up, files, strong, job, fails, flash>>

\* MENU_ERASE_ALL only warns when there are no lists.
erase_all == AtMenu /\ job' = Job("erase all", 0) /\ UNCHANGED <<up, loaded, list, files, strong, fails, flash>>

install ==
    /\ AtMenu /\ up /\ loaded
    /\ job' = Job("erase", 0)
    /\ UNCHANGED <<up, loaded, list, files, strong, fails, flash>>

----------------------------------------------------------------------------
(* erase_flash.                                                            *)

\* Faulty variant: bit 15 of the entry is not masked, and names no block.
LowListed(bank, p) == {c \in {"L"} : [chip |-> c, blk |-> p] \in Range(list[bank])}

\* The chips for which a list names block p.
Listed(bank, p) == {c \in Chips : [chip |-> c, blk |-> p] \in Range(list[bank])}

\* The chips on which block p is not listed are erased.
Erase(bank, p) == EraseBlock(bank, p, Chips \ Listed(bank, p))

LastBank == job.bank = NumBanks - 1
NextBank(at) == [job EXCEPT !.at = IF LastBank THEN at ELSE @, !.bank = IF LastBank THEN 0 ELSE @ + 1]

\* Block by block, in every bank.
EraseAllStep ==
    /\ job.at = "erase all"
    /\ Erase(job.bank, job.blk)
    /\ job' = IF ~LastBank THEN [job EXCEPT !.bank = @ + 1]
              ELSE IF job.blk = 2 * NumVblks - 1 THEN Menu
              ELSE [job EXCEPT !.bank = 0, !.blk = @ + 1]
    /\ UNCHANGED <<up, loaded, list, files, strong, fails>>

EraseZero ==
    /\ job.at = "erase"
    /\ Erase(job.bank, 0)
    /\ job' = NextBank("lists")
    /\ UNCHANGED <<up, loaded, list, files, strong, fails>>

----------------------------------------------------------------------------
(* install_block_zero.                                                     *)

\* A write succeeds, or fails within the bound.
Writes(ok) == IF ok THEN UNCHANGED fails ELSE fails < MaxFails /\ fails' = fails + 1

\* Step 1: the list of a bank goes to a page that must have been erased.
WriteList ==
    /\ job.at = "lists"
    /\ \E ok \in BOOLEAN :
          /\ Writes(ok)
          /\ page0' = [page0 EXCEPT ![job.bank] = IF ok /\ @ = Blank THEN ListPage(list[job.bank]) ELSE Corrupt]
    /\ reset_fctrl(FALSE)
    /\ job' = NextBank("verify")
    /\ UNCHANGED <<up, loaded, list, files, marks, stamp, image>>

\* Faulty variant: the lists are not compared with what was written.
VerifyNothing ==
    job.at = "verify" /\ job' = Job("dummies", 0) /\ UNCHANGED <<up, loaded, list, files, strong, fails, flash>>

\* All banks are read back together; one that differs ends the installation.
VerifyLists ==
    /\ job.at = "verify"
    /\ job' = IF \A b \in Banks : page0[b] = ListPage(list[b]) THEN Job("dummies", 0) ELSE Menu
    /\ UNCHANGED <<up, loaded, list, files, strong, fails, flash>>

\* Step 2: the pages between the list and the stamp.
WriteDummies ==
    /\ job.at = "dummies"
    /\ \E ok \in BOOLEAN :
          /\ Writes(ok)
          /\ job' = IF ok THEN NextBank("stamps") ELSE Menu
    /\ UNCHANGED <<up, loaded, list, files, strong, flash>>

\* Step 3: the stamps, under the other ECC.  A failure shows after the loop,
\* and leaves the stamps of the other banks and the ECC as they are.
WriteStamp ==
    /\ job.at = "stamps"
    /\ reset_fctrl(TRUE)
    /\ \E ok \in BOOLEAN :
          /\ Writes(ok)
          /\ stamp' = IF ok THEN stamp \cup {job.bank} ELSE stamp
          /\ LET sofar == job.ok /\ ok
             IN  job' = IF LastBank /\ ~sofar THEN Menu ELSE [NextBank("images") EXCEPT !.ok = sofar]
    /\ UNCHANGED <<up, loaded, list, files, marks, page0, image>>

\* Step 4: the image, bank by bank; a failure ends the installation at once.
\* After the last bank the drive restarts and the program ends.
WriteImage ==
    /\ job.at = "images"
    /\ \E ok \in BOOLEAN :
          /\ Writes(ok)
          /\ image' = IF ok THEN image \cup {job.bank} ELSE image
          /\ job' = IF ok THEN NextBank("exit") ELSE Menu
          /\ IF ok /\ LastBank THEN reset_fctrl(FALSE) ELSE UNCHANGED strong
    /\ UNCHANGED <<up, loaded, list, files, marks, page0, stamp>>

InstallerNext ==
    \/ init \/ scan_bad_blks \/ save_scan \/ load_scan_list_from_file \/ load_scan_list_from_nand
    \/ erase_all \/ install \/ EraseAllStep \/ EraseZero
    \/ WriteList \/ VerifyLists \/ WriteDummies \/ WriteStamp \/ WriteImage
=============================================================================
