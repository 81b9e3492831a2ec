------------------------------- MODULE BringUp -------------------------------
(***************************************************************************)
(* A drive from the factory to its first log blocks: runs of the installer *)
(* and starts of the firmware, in any order, each ended by the power going *)
(* off at any step.  A drive starts when the ROM finds a stamp with its    *)
(* image on some bank, and runs the installer in factory mode.             *)
(***************************************************************************)
EXTENDS Installer, StartUp

CONSTANTS MaxRuns    \* bound: starts of the installer and of the firmware

ASSUME BringUpAssumption ==
    /\ LogBlks >= 2
    /\ MaxFails \in Nat /\ MaxEraseFails \in Nat /\ MaxRuns \in Nat

VARIABLES
    mode,       \* "factory": the installer drives the ROM; "normal": the firmware runs
    runs,       \* counts the starts
    excused     \* the operator, or a stopped installation, gave up the bad blocks

vars == <<flash, installer, fails, firmware, eraseFails, mode, runs, excused>>

Init ==
    /\ FlashInit /\ InstallerInit /\ StartUpInit
    /\ mode = "factory" /\ runs = 0 /\ excused = FALSE

\* The lists are incomplete from here on: everything is erased without them,
\* or a list file is missing and the others are taken for all of them, or
\* what is in page 0 was never a scan list.
GivesUp ==
    \/ erase_all /\ ~loaded
    \/ load_scan_list_from_file /\ ~loaded /\ DOMAIN files \notin {{}, Banks}
    \/ load_scan_list_from_nand /\ \E b \in Banks : Reads(b).kind = "list" /\ page0[b] \in OldPages

InFactory ==
    /\ mode = "factory" /\ InstallerNext
    /\ excused' = (excused \/ GivesUp)
    /\ UNCHANGED <<firmware, eraseFails, mode, runs>>

\* The firmware finds on some bank no scan list, or not one of the installer.
InNormal ==
    /\ mode = "normal" /\ StartUpNext
    /\ excused' = (excused \/ (phase = "lists" /\ (page0[bank].kind # "list" \/ page0[bank] \in OldPages)))
    /\ UNCHANGED <<installer, fails, mode, runs>>

Restart == runs < MaxRuns /\ runs' = runs + 1 /\ UNCHANGED <<flash, eraseFails, excused>>

ToFactory ==
    /\ Restart /\ mode' = "factory"
    /\ StartInstaller /\ Power("off")

ToNormal ==
    /\ Restart /\ mode' = "normal"
    /\ stamp \cap image # {}
    /\ StartInstaller /\ Power("lists")

Next == InFactory \/ InNormal \/ ToFactory \/ ToNormal

Spec == Init /\ [][Next]_vars

----------------------------------------------------------------------------
(* Properties.                                                             *)

\* Every variable holds a value of its kind.
TypeOK ==
    /\ marks \in [Banks -> SUBSET Marks] /\ page0 \in [Banks -> ScanPages]
    /\ stamp \subseteq Banks /\ image \subseteq Banks
    /\ up \in BOOLEAN /\ loaded \in BOOLEAN /\ list \in [Banks -> Lists] /\ strong \in BOOLEAN
    /\ DOMAIN files \subseteq Banks /\ \A b \in DOMAIN files : files[b] \in Lists
    /\ job \in Jobs
    /\ phase \in Phases /\ bank \in Banks
    /\ bad \in [Banks -> SUBSET Vblks] /\ flag \in [Banks -> Vblks \cup {INVALID}]
    /\ vblock \in Vblks /\ lbn \in 0..LogBlks
    /\ bmt \in [Banks -> [Lbns -> Vblks \cup {INVALID}]]
    /\ clean \in [Banks -> Seq(Lbns)]
    /\ hot \in [Banks -> Lbns \cup {INVALID}] /\ cold \in [Banks -> Lbns \cup {INVALID}]
    /\ fails \in Nat /\ eraseFails \in Nat /\ runs \in Nat
    /\ mode \in {"factory", "normal"} /\ excused \in BOOLEAN

\* From the factory's marks to the erasures of format, through lists, files
\* and page 0 and over any failure of a write or of the power: no initial bad
\* block is erased, but for those of FirstVblk, unless somebody gave them up
\* (jasmine.h:202, ftl.c:542).
BadBlocksKept ==
    ~excused => \A b \in Banks : \A m \in Factory[b] : VblkOf(m.blk) = FirstVblk \/ m \in marks[b]

\* The blocks that format assigned so far: distinct, good and not block 0,
\* in this bank's part of the map, before the invalid ones.
Assigned(b) == {l \in Lbns : bmt[b][l] # INVALID}

\* A log block stands for a block of its own that is not bad, and none of them is
\* invalid while a good block is left (ftl.c:540-568).
LogBlocksGood ==
    \A b \in Banks :
        /\ \A l \in Assigned(b) :
              /\ bmt[b][l] \in Candidates \ bad[b]
              /\ 0..l \subseteq Assigned(b)
              /\ \A k \in Assigned(b) : bmt[b][k] = bmt[b][l] => k = l
        /\ phase = "ready" /\ Assigned(b) # Lbns
           => Candidates \subseteq bad[b] \cup {bmt[b][l] : l \in Assigned(b)}

\* A bank has a stamp, which lets the ROM start the firmware from it, only beside a
\* scan list, whichever installer wrote it: the stamps follow when the lists of all
\* banks were read back (installer-linux.c:1410), at whatever write it is interrupted.
StampAfterLists == \A b \in stamp : page0[b].kind = "list"
=============================================================================
