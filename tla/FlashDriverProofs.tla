-------------------------- MODULE FlashDriverProofs --------------------------
(***************************************************************************)
(* Proofs about FlashDriver, for every number of banks, blocks, pages,     *)
(* sectors and buffers: the types; that no command in the Waiting Room or   *)
(* in a bank uses a buffer the FTL has taken back; that commands seem to    *)
(* take effect as they are handed over, for those of two banks commute; and *)
(* that the long ways to copy a page do what the internal commands do.      *)
(***************************************************************************)
EXTENDS FlashDriver, FiniteSetTheorems, TLAPS

----------------------------------------------------------------------------
(* The commands keep the types of memory and flash.                        *)

Fields == {"cmd", "bank", "buf", "off", "cnt", "col", "row", "dstRow", "dstCol"}

LEMMA PagesLemma ==
    ASSUME NEW p \in Pages, NEW q \in Pages
    PROVE  Programmed(p, q) \in Pages /\ Blank \in Pages
BY DEF Programmed, Pages, Blank, Contents

LEMMA FilledLemma ==
    ASSUME NEW c \in Commands, NEW s \in States, NEW old \in Pages, NEW col \in Int
    PROVE  Filled(c, col, old, s) \in Pages
<1>1. s.mem[c.buf] \in Pages
  BY DEF States, Commands
<1>2. QED
  BY <1>1 DEF Filled, Pages, InBuffer

LEMMA ReadOutLemma ==
    ASSUME NEW c \in Commands, NEW s \in States, c.row # NoRow
    PROVE  ReadOut(c, s) \in States
<1>1. s.flash[c.bank][c.row] \in Pages /\ s.mem[c.buf] \in Pages
  BY DEF States, Commands
<1>. DEFINE new == [i \in Sectors |-> IF Covers(c, c.col, i - c.off) /\ (i - c.off) \in Sectors
                                      THEN s.flash[c.bank][c.row][i - c.off] ELSE s.mem[c.buf][i]]
<1>2. new \in Pages
  BY <1>1 DEF Pages
<1>3. ReadOut(c, s) = [s EXCEPT !.mem = [s.mem EXCEPT ![c.buf] = new]]
  BY DEF ReadOut
<1>4. [s.mem EXCEPT ![c.buf] = new] \in [Buffers -> Pages]
  <2>. HIDE DEF new
  <2>. QED BY <1>2 DEF States
<1>5. QED
  <2>. HIDE DEF new
  <2>. QED BY <1>3, <1>4 DEF States

LEMMA InLemma ==
    ASSUME NEW c \in Commands, NEW s \in States, c.row # NoRow
    PROVE  In(c, s) \in States
<1>. DEFINE reg == Filled(c, c.col, IF c.cmd \in FirstIn THEN Blank ELSE s.page[c.bank], s)
            new == IF c.cmd \in ProgCmds THEN Programmed(s.flash[c.bank][c.row], reg) ELSE s.flash[c.bank][c.row]
<1>1. s.flash[c.bank][c.row] \in Pages /\ s.page[c.bank] \in Pages /\ c.col \in Int
  BY DEF States, Commands
<1>2. Blank \in Pages
  BY <1>1, PagesLemma
<1>3. reg \in Pages
  BY <1>1, <1>2, FilledLemma
<1>4. new \in Pages
  <2>. HIDE DEF reg
  <2>. QED BY <1>1, <1>3, PagesLemma
<1>5. In(c, s) = [s EXCEPT !.page = [s.page EXCEPT ![c.bank] = reg],
                           !.flash = [s.flash EXCEPT ![c.bank] = [s.flash[c.bank] EXCEPT ![c.row] = new]]]
  BY DEF In, States, Commands
<1>. HIDE DEF reg, new
<1>6. [s.page EXCEPT ![c.bank] = reg] \in [Banks -> Pages]
  BY <1>3 DEF States
<1>7. [s.flash EXCEPT ![c.bank] = [s.flash[c.bank] EXCEPT ![c.row] = new]] \in [Banks -> [Rows -> Pages]]
  BY <1>4 DEF States, Commands
<1>8. QED
  BY <1>5, <1>6, <1>7 DEF States

LEMMA CopyLemma ==
    ASSUME NEW c \in Commands, NEW s \in States, c.row # NoRow
    PROVE  Copy(c, s) \in States
<1>. DEFINE old == s.flash[c.bank][c.row]
            new == IF c.cmd = "COPYBACK" THEN old ELSE Filled(c, c.dstCol, old, s)
            dst == Programmed(s.flash[c.bank][c.dstRow], new)
<1>1. old \in Pages /\ s.flash[c.bank][c.dstRow] \in Pages /\ c.dstCol \in Int
  BY DEF States, Commands
<1>2. new \in Pages
  BY <1>1, FilledLemma
<1>3. dst \in Pages
  <2>. HIDE DEF new
  <2>. QED BY <1>1, <1>2, PagesLemma
<1>4. Copy(c, s) = [s EXCEPT !.flash = [s.flash EXCEPT ![c.bank] = [s.flash[c.bank] EXCEPT ![c.dstRow] = dst]],
                             !.mem = [s.mem EXCEPT ![COPY_BUF(c.bank)] = old]]
  BY DEF Copy, States, Commands
<1>. HIDE DEF old, new, dst
<1>5. [s.flash EXCEPT ![c.bank] = [s.flash[c.bank] EXCEPT ![c.dstRow] = dst]] \in [Banks -> [Rows -> Pages]]
  BY <1>3 DEF States, Commands
<1>6. [s.mem EXCEPT ![COPY_BUF(c.bank)] = old] \in [Buffers -> Pages]
  BY <1>1 DEF States
<1>7. QED
  BY <1>4, <1>5, <1>6 DEF States

LEMMA EraseLemma ==
    ASSUME NEW c \in Commands, NEW s \in States
    PROVE  Erase(c, s) \in States
<1>. DEFINE new == [r \in Rows |-> IF VblkOf(r) = VblkOf(c.row) THEN Blank ELSE s.flash[c.bank][r]]
<1>1. Blank \in Pages
  BY DEF Blank, Pages, Contents
<1>2. new \in [Rows -> Pages]
  BY <1>1 DEF States, Commands
<1>3. Erase(c, s) = [s EXCEPT !.flash = [s.flash EXCEPT ![c.bank] = new]]
  BY DEF Erase
<1>. HIDE DEF new
<1>4. [s.flash EXCEPT ![c.bank] = new] \in [Banks -> [Rows -> Pages]]
  BY <1>2 DEF States
<1>5. QED
  BY <1>3, <1>4 DEF States

\* Whatever command a bank ends, memory and flash keep their types.
LEMMA ApplyLemma ==
    ASSUME NEW c \in Commands, NEW s \in States
    PROVE  Apply(c, s) \in States
<1>1. CASE c.cmd \in IdleCmds \/ c.row = NoRow
  BY <1>1 DEF Apply
<1>2. CASE ~(c.cmd \in IdleCmds \/ c.row = NoRow)
  <2>. USE DEF ReadCmds, FirstIn, MoreIn, CopyCmds
  <2>1. CASE c.cmd \in ReadCmds
    <3>1. Apply(c, s) = ReadOut(c, s)
      BY <1>2, <2>1 DEF Apply
    <3>2. QED
      BY <1>2, <3>1, ReadOutLemma
  <2>2. CASE c.cmd \in FirstIn \cup MoreIn
    <3>1. Apply(c, s) = In(c, s)
      BY <1>2, <2>2 DEF Apply
    <3>2. QED
      BY <1>2, <3>1, InLemma
  <2>3. CASE c.cmd \in CopyCmds
    <3>1. Apply(c, s) = Copy(c, s)
      BY <1>2, <2>3 DEF Apply
    <3>2. QED
      BY <1>2, <3>1, CopyLemma
  <2>4. CASE c.cmd = "ERASE"
    <3>1. Apply(c, s) = Erase(c, s)
      BY <1>2, <2>4 DEF Apply
    <3>2. QED
      BY <3>1, EraseLemma
  <2>5. c.cmd \in ReadCmds \cup FirstIn \cup MoreIn \cup CopyCmds \cup {"ERASE"}
    BY <1>2 DEF Commands, Cmds
  <2>6. QED
    BY <2>1, <2>2, <2>3, <2>4, <2>5
<1>3. QED
  BY <1>1, <1>2

----------------------------------------------------------------------------
(* The registers.                                                          *)

Fcps == [cmd : Cmds, bank : Banks, buf : Buffers, off : Int, cnt : Int, col : Int,
         row : [Banks -> Rows \cup {NoRow}], dstRow : Rows, dstCol : Int]

\* What a command of a wrapper sets: some of the registers, the command and
\* its bank among them.
Settings == UNION {[D -> Cmds \cup Int] : D \in SUBSET Fields}

Sets(regs, f, S) == f \in DOMAIN regs => regs[f] \in S

GoodSettings(regs) ==
    /\ {"cmd", "bank"} \subseteq DOMAIN regs
    /\ Sets(regs, "cmd", Cmds) /\ Sets(regs, "bank", Banks) /\ Sets(regs, "buf", Buffers)
    /\ Sets(regs, "off", Int) /\ Sets(regs, "cnt", Int) /\ Sets(regs, "col", Int)
    /\ Sets(regs, "row", Rows \cup {NoRow}) /\ Sets(regs, "dstRow", Rows) /\ Sets(regs, "dstCol", Int)

LEMMA SetRegsLemma ==
    ASSUME NEW old \in Fcps, NEW regs \in Settings, GoodSettings(regs)
    PROVE  /\ SetRegs(old, regs) \in Fcps
           /\ SetRegs(old, regs).cmd = regs.cmd
           /\ SetRegs(old, regs).bank = regs.bank
           /\ SetRegs(old, regs).buf = IF "buf" \in DOMAIN regs THEN regs.buf ELSE old.buf
<1>. DEFINE new == SetRegs(old, regs)
<1>1. DOMAIN old = Fields
  BY DEF Fcps, Fields
<1>2. new = [f \in Fields |-> IF f \notin DOMAIN regs THEN old[f]
               ELSE IF f = "row" THEN [old.row EXCEPT ![regs.bank] = regs.row] ELSE regs[f]]
  BY <1>1 DEF SetRegs
<1>3. /\ old.cmd \in Cmds /\ old.bank \in Banks /\ old.buf \in Buffers /\ old.off \in Int /\ old.cnt \in Int
      /\ old.col \in Int /\ old.row \in [Banks -> Rows \cup {NoRow}] /\ old.dstRow \in Rows /\ old.dstCol \in Int
  BY DEF Fcps
<1>4. "cmd" \in DOMAIN regs /\ "bank" \in DOMAIN regs
  BY DEF GoodSettings
<1>5. new.cmd = regs.cmd /\ new.bank = regs.bank
  BY <1>2, <1>4 DEF Fields
<1>6. new.buf = IF "buf" \in DOMAIN regs THEN regs.buf ELSE old.buf
  BY <1>2 DEF Fields
<1>7. new.cmd \in Cmds /\ new.bank \in Banks
  BY <1>4, <1>5 DEF GoodSettings, Sets
<1>8. new.buf \in Buffers
  BY <1>3, <1>6 DEF GoodSettings, Sets
<1>9. new.off \in Int /\ new.cnt \in Int /\ new.col \in Int /\ new.dstRow \in Rows /\ new.dstCol \in Int
  BY <1>2, <1>3 DEF Fields, GoodSettings, Sets
<1>10. new.row \in [Banks -> Rows \cup {NoRow}]
  <2>1. CASE "row" \in DOMAIN regs
    <3>1. regs.row \in Rows \cup {NoRow}
      BY <2>1 DEF GoodSettings, Sets
    <3>2. new.row = [old.row EXCEPT ![regs.bank] = regs.row]
      BY <1>2, <2>1 DEF Fields
    <3>3. QED
      BY <1>3, <3>1, <3>2
  <2>2. CASE "row" \notin DOMAIN regs
    <3>1. new.row = old.row
      BY <1>2, <2>2 DEF Fields
    <3>2. QED
      BY <1>3, <3>1
  <2>3. QED
    BY <2>1, <2>2
<1>11. new = [f \in Fields |-> new[f]]
  BY <1>2
<1>12. new \in Fcps
  <2>. HIDE DEF new
  <2>. QED
    BY <1>7, <1>8, <1>9, <1>10, <1>11 DEF Fcps, Fields
<1>13. QED
  BY <1>5, <1>6, <1>12

LEMMA CommandLemma ==
    ASSUME NEW regs \in Fcps
    PROVE  /\ Command(regs) \in Commands
           /\ Command(regs).bank = regs.bank /\ Command(regs).cmd = regs.cmd /\ Command(regs).buf = regs.buf
<1>1. regs.row[regs.bank] \in Rows \cup {NoRow}
  BY DEF Fcps
<1>2. QED
  BY <1>1 DEF Command, Fcps, Commands

\* The buffers of a command are the one it names and the copy buffer of its bank.
LEMMA BuffersOfLemma ==
    ASSUME NEW c, c.cmd \in Cmds
    PROVE  /\ BuffersOf(c) \subseteq {c.buf, COPY_BUF(c.bank)}
           /\ c.cmd = "COPYBACK" => BuffersOf(c) = {COPY_BUF(c.bank)}
           /\ c.cmd \in {"ERASE", "GENERIC", "WAIT"} => BuffersOf(c) = {}
BY DEF BuffersOf, Cmds, ReadCmds, FirstIn, MoreIn, CopyCmds, IdleCmds

----------------------------------------------------------------------------
(* The inductive invariant.                                                *)

Steps == [regs : Settings, sync : SyncModes, routine : {"flash_issue_cmd", "FLASH_POLL_WR"}]

\* Of the commands left all are for one bank, return on issue, and name
\* buffers that are lent to it, and so do the registers they leave unset.
TodoGood ==
    /\ todo \in Seq(Steps)
    /\ \A i \in 1..Len(todo) :
          /\ GoodSettings(todo[i].regs) /\ todo[i].regs.bank = todo[1].regs.bank
          /\ todo[i].sync = "RETURN_ON_ISSUE"
          /\ "buf" \in DOMAIN todo[i].regs => lent[todo[i].regs.buf] = todo[i].regs.bank
    /\ todo # <<>> => lent[fcp.buf] = todo[1].regs.bank

CopyBufsLent == \A b \in Banks : lent[COPY_BUF(b)] = b

IssueRoutines == {"flash_issue_cmd", "FLASH_POLL_WR", "flash_reset_one_bank"}

\* While a command is to be issued, its buffers are lent to its bank.
RegsLent ==
    (stack # <<>> /\ Top.routine \in IssueRoutines) => \A b \in BuffersOf(Registers) : lent[b] = fcp.bank

\* Calls and resets take turns on the stack.  A call that waits for more than
\* the Waiting Room is the outermost and the last of its wrapper.
Shape(frames, n, rest) ==
    \A i \in 1..n :
        /\ frames[i].routine = "flash_reset_one_bank" => frames[i].at \in {"wait", "finish"}
        /\ i > 1 => (frames[i].routine = "flash_reset_one_bank" <=> frames[i - 1].routine # "flash_reset_one_bank")
        /\ frames[i].routine \notin IssueRoutines => frames[i].sync = "RETURN_WHEN_DONE"
        /\ frames[i].sync # "RETURN_ON_ISSUE" => i = n /\ (frames[i].routine \notin IssueRoutines => i = 1)
        /\ frames[i].sync # "RETURN_ON_ISSUE" => rest = <<>>
        /\ frames[i].at \in {"accept", "done", "bank"} => frames[i].sync # "RETURN_ON_ISSUE"

StackShape == Shape(stack, Len(stack), todo)

\* Who looks at a bank has found the Waiting Room empty, and it still is.
RoomFirst == (stack # <<>> /\ Top.at \in {"done", "bank"}) => wr = {}

BanksOwn == \A b \in Banks : (\A c \in bsp[b].doing : c.bank = b) /\ (Idle(b) => bsp[b].doing = {})

DInv ==
    /\ TypeOK /\ TodoGood /\ CopyBufsLent /\ RegsLent /\ StackShape /\ RoomFirst /\ BanksOwn
    /\ DmaOnlyOnLent

LEMMA BanksLemma ==
    /\ \A b \in Banks : COPY_BUF(b) \in Buffers \ FtlBuffers
    /\ FtlBuffers \subseteq Buffers /\ NoBank \notin Banks /\ 0 \in Banks
    /\ 0 \in Rows /\ Buffers \subseteq Int /\ Banks \subseteq Int /\ 0 \in Buffers
<1>1. NumVblks * PagesPerVblk \in Nat /\ NumVblks * PagesPerVblk > 0
  BY FlashAssumption
<1>2. QED
  BY <1>1, FlashAssumption DEF COPY_BUF, Banks, Buffers, FtlBuffers, NoBank, Rows

LEMMA InitLemma == Init => DInv
<1>. SUFFICES ASSUME Init PROVE DInv
  OBVIOUS
<1>. USE DEF Init
<1>1. fcp \in Fcps
  BY BanksLemma DEF Fcps, Cmds, IdleCmds
<1>2. lent \in [Buffers -> Banks \cup {NoBank}] /\ CopyBufsLent
  BY FlashAssumption DEF CopyBufsLent, COPY_BUF, Buffers, Banks, FtlBuffers
<1>3. bsp \in [Banks -> [fsm : FsmCodes, doing : SUBSET Commands]] /\ BanksOwn
  BY DEF IdleBank, FsmCodes, BanksOwn, Idle
<1>4. state \in States
  BY InitialAssumption
<1>5. TypeOK
  BY <1>1, <1>2, <1>3, <1>4 DEF TypeOK, Fcps
<1>6. TodoGood /\ RegsLent /\ StackShape /\ RoomFirst
  BY DEF TodoGood, RegsLent, StackShape, Shape, RoomFirst
<1>7. DmaOnlyOnLent
  BY DEF DmaOnlyOnLent, Pending, IdleBank
<1>8. QED
  BY <1>2, <1>3, <1>5, <1>6, <1>7 DEF DInv

----------------------------------------------------------------------------
(* The commands of the wrappers.                                           *)

\* Steps for a bank, over buffers that are lent to it for them.
Wrapper(steps, bank, bufs) ==
    /\ steps \in Seq(Steps) /\ steps # <<>>
    /\ \A i \in 1..Len(steps) :
          /\ GoodSettings(steps[i].regs) /\ steps[i].regs.bank = bank
          /\ "buf" \in DOMAIN steps[i].regs => steps[i].regs.buf \in bufs \cup {COPY_BUF(bank)}
          /\ steps[i].sync # "RETURN_ON_ISSUE" => Len(steps) = 1
    /\ "buf" \in DOMAIN steps[1].regs \/ (Len(steps) = 1 /\ steps[1].regs.cmd \in {"COPYBACK", "ERASE"})

LEMMA OneStepLemma ==
    ASSUME NEW bank \in Banks, NEW bufs, NEW s \in Steps, GoodSettings(s.regs), s.regs.bank = bank,
           "buf" \in DOMAIN s.regs => s.regs.buf \in bufs \cup {COPY_BUF(bank)},
           "buf" \in DOMAIN s.regs \/ s.regs.cmd \in {"COPYBACK", "ERASE"}
    PROVE  Wrapper(<<s>>, bank, bufs)
BY DEF Wrapper

\* What the commands of the wrappers set is well typed.
LEMMA ReadOutSettings ==
    ASSUME NEW bank \in Banks, NEW buf \in Buffers, NEW off \in Int, NEW cnt \in Int,
           NEW col \in Int, NEW row \in Rows,
           NEW regs, regs = [cmd |-> "COL_ROW_READ_OUT", bank |-> bank, buf |-> buf, off |-> off, cnt
                       |-> cnt, col |-> col, row |-> row]
    PROVE  /\ regs \in Settings /\ GoodSettings(regs) /\ regs.cmd = "COL_ROW_READ_OUT" /\ regs.bank = bank
           /\ regs.buf = buf /\ "buf" \in DOMAIN regs
<1>1. regs \in [{"cmd", "bank", "buf", "off", "cnt", "col", "row"} -> Cmds \cup Int]
  BY BanksLemma DEF Cmds, ReadCmds, Rows
<1>2. regs \in Settings
  BY <1>1 DEF Settings, Fields
<1>3. QED
  BY <1>2, BanksLemma DEF GoodSettings, Sets, Cmds, ReadCmds

LEMMA InProgSettings ==
    ASSUME NEW bank \in Banks, NEW buf \in Buffers, NEW off \in Int, NEW cnt \in Int,
           NEW col \in Int, NEW row \in Rows,
           NEW regs, regs = [cmd |-> "COL_ROW_IN_PROG", bank |-> bank, buf |-> buf, off |-> off, cnt
                       |-> cnt, col |-> col, row |-> row]
    PROVE  /\ regs \in Settings /\ GoodSettings(regs) /\ regs.cmd = "COL_ROW_IN_PROG" /\ regs.bank = bank
           /\ regs.buf = buf /\ "buf" \in DOMAIN regs
<1>1. regs \in [{"cmd", "bank", "buf", "off", "cnt", "col", "row"} -> Cmds \cup Int]
  BY BanksLemma DEF Cmds, FirstIn, Rows
<1>2. regs \in Settings
  BY <1>1 DEF Settings, Fields
<1>3. QED
  BY <1>2, BanksLemma DEF GoodSettings, Sets, Cmds, FirstIn

LEMMA InProgRestSettings ==
    ASSUME NEW bank \in Banks, NEW row \in Rows,
           NEW regs, regs = [cmd |-> "COL_ROW_IN_PROG", bank |-> bank, row |-> row]
    PROVE  /\ regs \in Settings /\ GoodSettings(regs) /\ regs.cmd = "COL_ROW_IN_PROG" /\ regs.bank = bank
           /\ "buf" \notin DOMAIN regs
<1>1. regs \in [{"cmd", "bank", "row"} -> Cmds \cup Int]
  BY BanksLemma DEF Cmds, FirstIn, Rows
<1>2. regs \in Settings
  BY <1>1 DEF Settings, Fields
<1>3. QED
  BY <1>2, BanksLemma DEF GoodSettings, Sets, Cmds, FirstIn

LEMMA CopybackSettings ==
    ASSUME NEW bank \in Banks, NEW col \in Int, NEW row \in Rows, NEW dstRow \in Rows,
           NEW dstCol \in Int,
           NEW regs, regs = [cmd |-> "COPYBACK", bank |-> bank, col |-> col, row |-> row, dstRow |->
                       dstRow, dstCol |-> dstCol]
    PROVE  /\ regs \in Settings /\ GoodSettings(regs) /\ regs.cmd = "COPYBACK" /\ regs.bank = bank
           /\ "buf" \notin DOMAIN regs
<1>1. regs \in [{"cmd", "bank", "col", "row", "dstRow", "dstCol"} -> Cmds \cup Int]
  BY BanksLemma DEF Cmds, CopyCmds, Rows
<1>2. regs \in Settings
  BY <1>1 DEF Settings, Fields
<1>3. QED
  BY <1>2, BanksLemma DEF GoodSettings, Sets, Cmds, CopyCmds

LEMMA ModifySettings ==
    ASSUME NEW bank \in Banks, NEW buf \in Buffers, NEW off \in Int, NEW cnt \in Int,
           NEW col \in Int, NEW row \in Rows, NEW dstRow \in Rows, NEW dstCol \in Int,
           NEW regs, regs = [cmd |-> "MODIFY_COPYBACK", bank |-> bank, buf |-> buf, off |-> off, cnt
                       |-> cnt, col |-> col, row |-> row, dstRow |-> dstRow, dstCol |-> dstCol]
    PROVE  /\ regs \in Settings /\ GoodSettings(regs) /\ regs.cmd = "MODIFY_COPYBACK" /\ regs.bank = bank
           /\ regs.buf = buf /\ "buf" \in DOMAIN regs
<1>1. regs \in [{"cmd", "bank", "buf", "off", "cnt", "col", "row", "dstRow", "dstCol"} -> Cmds \cup Int]
  BY BanksLemma DEF Cmds, CopyCmds, Rows
<1>2. regs \in Settings
  BY <1>1 DEF Settings, Fields
<1>3. QED
  BY <1>2, BanksLemma DEF GoodSettings, Sets, Cmds, CopyCmds

LEMMA ColRowInSettings ==
    ASSUME NEW bank \in Banks, NEW cnt \in Int, NEW col \in Int, NEW row \in Rows,
           NEW regs, regs = [cmd |-> "COL_ROW_IN", bank |-> bank, cnt |-> cnt, col |-> col, row |->
                       row]
    PROVE  /\ regs \in Settings /\ GoodSettings(regs) /\ regs.cmd = "COL_ROW_IN" /\ regs.bank = bank
           /\ "buf" \notin DOMAIN regs
<1>1. regs \in [{"cmd", "bank", "cnt", "col", "row"} -> Cmds \cup Int]
  BY BanksLemma DEF Cmds, FirstIn, Rows
<1>2. regs \in Settings
  BY <1>1 DEF Settings, Fields
<1>3. QED
  BY <1>2, BanksLemma DEF GoodSettings, Sets, Cmds, FirstIn

LEMMA InSettings ==
    ASSUME NEW bank \in Banks, NEW buf \in Buffers, NEW off \in Int, NEW cnt \in Int,
           NEW col \in Int,
           NEW regs, regs = [cmd |-> "IN", bank |-> bank, buf |-> buf, off |-> off, cnt |-> cnt, col
                       |-> col]
    PROVE  /\ regs \in Settings /\ GoodSettings(regs) /\ regs.cmd = "IN" /\ regs.bank = bank
           /\ regs.buf = buf /\ "buf" \in DOMAIN regs
<1>1. regs \in [{"cmd", "bank", "buf", "off", "cnt", "col"} -> Cmds \cup Int]
  BY BanksLemma DEF Cmds, MoreIn, Rows
<1>2. regs \in Settings
  BY <1>1 DEF Settings, Fields
<1>3. QED
  BY <1>2, BanksLemma DEF GoodSettings, Sets, Cmds, MoreIn

LEMMA InProgEndSettings ==
    ASSUME NEW bank \in Banks, NEW buf \in Buffers, NEW off \in Int, NEW cnt \in Int,
           NEW col \in Int,
           NEW regs, regs = [cmd |-> "IN_PROG", bank |-> bank, buf |-> buf, off |-> off, cnt |-> cnt,
                       col |-> col]
    PROVE  /\ regs \in Settings /\ GoodSettings(regs) /\ regs.cmd = "IN_PROG" /\ regs.bank = bank
           /\ regs.buf = buf /\ "buf" \in DOMAIN regs
<1>1. regs \in [{"cmd", "bank", "buf", "off", "cnt", "col"} -> Cmds \cup Int]
  BY BanksLemma DEF Cmds, MoreIn, Rows
<1>2. regs \in Settings
  BY <1>1 DEF Settings, Fields
<1>3. QED
  BY <1>2, BanksLemma DEF GoodSettings, Sets, Cmds, MoreIn

LEMMA EraseSettings ==
    ASSUME NEW bank \in Banks, NEW row \in Rows,
           NEW regs, regs = [cmd |-> "ERASE", bank |-> bank, row |-> row]
    PROVE  /\ regs \in Settings /\ GoodSettings(regs) /\ regs.cmd = "ERASE" /\ regs.bank = bank
           /\ "buf" \notin DOMAIN regs
<1>1. regs \in [{"cmd", "bank", "row"} -> Cmds \cup Int]
  BY BanksLemma DEF Cmds, Rows
<1>2. regs \in Settings
  BY <1>1 DEF Settings, Fields
<1>3. QED
  BY <1>2, BanksLemma DEF GoodSettings, Sets, Cmds

LEMMA StepLemma ==
    ASSUME NEW regs \in Settings, NEW sync \in SyncModes
    PROVE  /\ Step(regs, sync) \in Steps /\ Step(regs, sync).regs = regs /\ Step(regs, sync).sync = sync
           /\ Poll(regs) \in Steps /\ Poll(regs).regs = regs /\ Poll(regs).sync = "RETURN_ON_ISSUE"
BY DEF Steps, Step, Poll, SyncModes

LEMMA ReadLemma ==
    ASSUME NEW bank \in Banks, NEW row \in Rows, NEW col \in Int, NEW cnt \in Int, NEW off \in Int,
           NEW buf \in FtlBuffers, NEW sync \in SyncModes
    PROVE  Wrapper(nand_page_ptread(bank, row, col, cnt, buf, off, sync), bank, {buf})
BY BanksLemma, ReadOutSettings, StepLemma, OneStepLemma DEF nand_page_ptread

LEMMA ProgramLemma ==
    ASSUME NEW bank \in Banks, NEW row \in Rows, NEW col \in Int, NEW cnt \in Int,
           NEW buf \in FtlBuffers, NEW sync \in SyncModes
    PROVE  Wrapper(nand_page_ptprogram(bank, row, col, cnt, buf, sync), bank, {buf})
BY BanksLemma, InProgSettings, StepLemma, OneStepLemma DEF nand_page_ptprogram

LEMMA CopyWrapperLemma ==
    ASSUME NEW bank \in Banks, NEW src \in Rows, NEW dst \in Rows
    PROVE  /\ Wrapper(InternalCopy(bank, src, dst), bank, {})
           /\ Wrapper(flash_copy(bank, dst, src), bank, {})
           /\ Wrapper(ReadAndProgram(bank, src, dst), bank, {})
<1>1. Wrapper(InternalCopy(bank, src, dst), bank, {})
  BY CopybackSettings, StepLemma, OneStepLemma DEF InternalCopy, SyncModes
<1>2. Wrapper(flash_copy(bank, dst, src), bank, {})
  BY CopybackSettings, StepLemma, OneStepLemma DEF flash_copy, SyncModes
<1>3. Wrapper(ReadAndProgram(bank, src, dst), bank, {})
  <2>. DEFINE r1 == [cmd |-> "COL_ROW_READ_OUT", bank |-> bank, buf |-> COPY_BUF(bank), off |-> 0,
                     cnt |-> SectorsPerPage, col |-> 0, row |-> src]
              r2 == [cmd |-> "COL_ROW_IN_PROG", bank |-> bank, row |-> dst]
  <2>0. COPY_BUF(bank) \in Buffers /\ SectorsPerPage \in Int /\ 0 \in Int
    BY BanksLemma, FlashAssumption
  <2>1. r1 \in Settings /\ GoodSettings(r1) /\ r1.bank = bank /\ r1.buf = COPY_BUF(bank) /\ "buf" \in DOMAIN r1
    BY <2>0, ReadOutSettings
  <2>2. r2 \in Settings /\ GoodSettings(r2) /\ r2.bank = bank /\ "buf" \notin DOMAIN r2
    BY InProgRestSettings
  <2>3. ReadAndProgram(bank, src, dst) = <<Poll(r1), Poll(r2)>>
    BY DEF ReadAndProgram
  <2>. HIDE DEF r1, r2
  <2>. QED
    BY <2>1, <2>2, <2>3, StepLemma DEF Wrapper, SyncModes
<1>4. QED
  BY <1>1, <1>2, <1>3

LEMMA ModifyWrapperLemma ==
    ASSUME NEW bank \in Banks, NEW src \in Rows, NEW dst \in Rows, NEW col \in Int, NEW cnt \in Int,
           NEW buf \in FtlBuffers
    PROVE  /\ Wrapper(InternalModify(bank, src, dst, col, buf, cnt), bank, {buf})
           /\ Wrapper(flash_modify_copy(bank, dst, src, col, buf, cnt), bank, {buf})
           /\ Wrapper(ReadAndModify(bank, src, dst, col, buf, cnt), bank, {buf})
<1>. DEFINE off == -col
            regs == [cmd |-> "MODIFY_COPYBACK", bank |-> bank, buf |-> buf, off |-> off, cnt |-> cnt, col |-> 0,
                     row |-> src, dstRow |-> dst, dstCol |-> col]
<1>0. regs \in Settings /\ GoodSettings(regs) /\ regs.bank = bank /\ regs.buf = buf /\ "buf" \in DOMAIN regs
  <2>1. off \in Int /\ buf \in Buffers /\ 0 \in Int
    BY BanksLemma
  <2>. HIDE DEF off
  <2>2. QED
    BY <2>1, ModifySettings
<1>. HIDE DEF regs
<1>1. Wrapper(InternalModify(bank, src, dst, col, buf, cnt), bank, {buf})
  <2>1. InternalModify(bank, src, dst, col, buf, cnt) = <<Step(regs, "RETURN_ON_ISSUE")>>
    BY DEF InternalModify, regs
  <2>2. Step(regs, "RETURN_ON_ISSUE") \in Steps /\ Step(regs, "RETURN_ON_ISSUE").regs = regs
    BY <1>0, StepLemma DEF SyncModes
  <2>3. QED
    BY <1>0, <2>1, <2>2, OneStepLemma
<1>2. Wrapper(flash_modify_copy(bank, dst, src, col, buf, cnt), bank, {buf})
  <2>1. flash_modify_copy(bank, dst, src, col, buf, cnt) = <<Poll(regs)>>
    BY DEF flash_modify_copy, regs
  <2>2. Poll(regs) \in Steps /\ Poll(regs).regs = regs
    BY <1>0, StepLemma DEF SyncModes
  <2>3. QED
    BY <1>0, <2>1, <2>2, OneStepLemma
<1>3. Wrapper(ReadAndModify(bank, src, dst, col, buf, cnt), bank, {buf})
  <2>. DEFINE r1 == [cmd |-> "COL_ROW_READ_OUT", bank |-> bank, buf |-> COPY_BUF(bank), off |-> 0,
                     cnt |-> SectorsPerPage, col |-> 0, row |-> src]
              r2 == [cmd |-> "COL_ROW_IN", bank |-> bank, cnt |-> col, col |-> 0, row |-> dst]
              r3 == [cmd |-> "IN", bank |-> bank, buf |-> buf, off |-> -col, cnt |-> cnt, col |-> col]
              r4 == [cmd |-> "IN_PROG", bank |-> bank, buf |-> COPY_BUF(bank), off |-> 0,
                     cnt |-> SectorsPerPage - col - cnt, col |-> col + cnt]
  <2>0. COPY_BUF(bank) \in Buffers /\ SectorsPerPage \in Int /\ 0 \in Int
    BY BanksLemma, FlashAssumption
  <2>1. r1 \in Settings /\ GoodSettings(r1) /\ r1.bank = bank /\ r1.buf = COPY_BUF(bank) /\ "buf" \in DOMAIN r1
    BY <2>0, ReadOutSettings
  <2>2. r2 \in Settings /\ GoodSettings(r2) /\ r2.bank = bank /\ "buf" \notin DOMAIN r2
    BY ColRowInSettings
  <2>3. r3 \in Settings /\ GoodSettings(r3) /\ r3.bank = bank /\ r3.buf = buf
    BY BanksLemma, InSettings
  <2>4. r4 \in Settings /\ GoodSettings(r4) /\ r4.bank = bank /\ r4.buf = COPY_BUF(bank)
    <3>1. SectorsPerPage - col - cnt \in Int /\ col + cnt \in Int
      BY <2>0
    <3>. DEFINE count == SectorsPerPage - col - cnt
                first == col + cnt
    <3>2. r4 = [cmd |-> "IN_PROG", bank |-> bank, buf |-> COPY_BUF(bank), off |-> 0, cnt |-> count, col |-> first]
      OBVIOUS
    <3>. HIDE DEF count, first, r4
    <3>3. count \in Int /\ first \in Int
      BY <3>1 DEF count, first
    <3>4. QED
      BY <2>0, <3>2, <3>3, InProgEndSettings
  <2>5. ReadAndModify(bank, src, dst, col, buf, cnt)
        = <<Step(r1, "RETURN_ON_ISSUE"), Step(r2, "RETURN_ON_ISSUE"), Step(r3, "RETURN_ON_ISSUE"), Step(r4, "RETURN_ON_ISSUE")>>
    BY DEF ReadAndModify
  <2>. HIDE DEF r1, r2, r3, r4
  <2>. QED
    BY <2>1, <2>2, <2>3, <2>4, <2>5, StepLemma DEF Wrapper, SyncModes
<1>4. QED
  BY <1>1, <1>2, <1>3

LEMMA EraseWrapperLemma ==
    ASSUME NEW bank \in Banks, NEW vblk \in Vblks
    PROVE  /\ \A sync \in SyncModes : Wrapper(EraseStep(bank, vblk, sync), bank, {})
           /\ Wrapper(flash_erase(bank, vblk), bank, {})
<1>1. vblk * PagesPerVblk \in Rows
  <2>1. (NumVblks - 1) * PagesPerVblk >= vblk * PagesPerVblk
    BY FlashAssumption DEF Vblks
  <2>2. (NumVblks - 1) * PagesPerVblk = NumVblks * PagesPerVblk - PagesPerVblk
    BY FlashAssumption
  <2>3. vblk * PagesPerVblk \in Nat /\ NumVblks * PagesPerVblk \in Nat
    BY FlashAssumption DEF Vblks
  <2>4. QED
    BY <2>1, <2>2, <2>3, FlashAssumption DEF Rows
<1>2. \A sync \in SyncModes : Wrapper(EraseStep(bank, vblk, sync), bank, {})
  BY <1>1, EraseSettings, StepLemma, OneStepLemma DEF EraseStep
<1>3. Wrapper(flash_erase(bank, vblk), bank, {})
  BY <1>1, EraseSettings, StepLemma, OneStepLemma DEF flash_erase, SyncModes
<1>4. QED
  BY <1>2, <1>3

----------------------------------------------------------------------------
(* Every step keeps the invariant.                                         *)

LEMMA StartLemma ==
    ASSUME fcp \in Fcps, NEW bank \in Banks, NEW steps \in Seq(Steps), steps # <<>>,
           \A i \in 1..Len(steps) :
              /\ GoodSettings(steps[i].regs) /\ steps[i].regs.bank = bank
              /\ "buf" \in DOMAIN steps[i].regs => lent'[steps[i].regs.buf] = bank
              /\ steps[i].sync # "RETURN_ON_ISSUE" => Len(steps) = 1,
           \/ "buf" \in DOMAIN steps[1].regs
           \/ lent'[fcp.buf] = bank
           \/ Len(steps) = 1 /\ steps[1].regs.cmd \in {"COPYBACK", "ERASE"},
           lent'[COPY_BUF(bank)] = bank,
           Start(steps)
    PROVE  fcp' \in Fcps /\ stack' \in Seq(Frames) /\ TodoGood' /\ RegsLent' /\ StackShape' /\ RoomFirst'
<1>. DEFINE s == steps[1]
<1>1. s \in Steps /\ s.regs \in Settings /\ GoodSettings(s.regs) /\ s.regs.bank = bank /\ Len(steps) \in Nat \ {0}
  <2>1. 1 \in 1..Len(steps) /\ Len(steps) \in Nat \ {0}
    OBVIOUS
  <2>2. s \in Steps
    BY <2>1
  <2>3. QED
    BY <2>1, <2>2 DEF Steps
<1>2. /\ fcp' = SetRegs(fcp, s.regs) /\ todo' = Tail(steps)
      /\ stack' = <<[routine |-> s.routine, bank |-> bank, sync |-> s.sync, at |-> "room"]>>
  BY <1>1 DEF Start, Frame
<1>3. /\ fcp' \in Fcps /\ fcp'.cmd = s.regs.cmd /\ fcp'.bank = bank
      /\ fcp'.buf = IF "buf" \in DOMAIN s.regs THEN s.regs.buf ELSE fcp.buf
  BY <1>1, <1>2, SetRegsLemma
<1>4. "buf" \in DOMAIN s.regs => lent'[s.regs.buf] = bank
  BY <1>1
<1>5. lent'[fcp'.buf] = bank \/ (Len(steps) = 1 /\ fcp'.cmd \in {"COPYBACK", "ERASE"})
  BY <1>1, <1>3, <1>4
<1>6. [routine |-> s.routine, bank |-> bank, sync |-> s.sync, at |-> "room"] \in Frames
  BY <1>1 DEF Frames, Steps, Routines
<1>7. stack' \in Seq(Frames) /\ Len(stack') = 1 /\ stack' # <<>>
  BY <1>2, <1>6
<1>8. TodoGood'
  <2>1. todo' \in Seq(Steps) /\ Len(todo') = Len(steps) - 1
    BY <1>1, <1>2
  <2>2. \A i \in 1..Len(todo') : todo'[i] = steps[i + 1] /\ i + 1 \in 1..Len(steps) /\ Len(steps) # 1
    BY <1>1, <1>2, <2>1
  <2>3. \A i \in 1..Len(todo') : /\ GoodSettings(todo'[i].regs) /\ todo'[i].regs.bank = bank
                                 /\ todo'[i].sync = "RETURN_ON_ISSUE"
                                 /\ "buf" \in DOMAIN todo'[i].regs => lent'[todo'[i].regs.buf] = bank
    BY <2>2
  <2>4. todo' # <<>> => 1 \in 1..Len(todo')
    BY <2>1
  <2>5. todo' # <<>> => lent'[fcp'.buf] = bank
    BY <1>5, <2>2, <2>4
  <2>6. QED
    BY <2>1, <2>3, <2>4, <2>5 DEF TodoGood
<1>9. RegsLent'
  <2>1. Registers' \in Commands /\ Registers'.bank = bank /\ Registers'.cmd = fcp'.cmd /\ Registers'.buf = fcp'.buf
    BY <1>3, CommandLemma DEF Registers
  <2>2. Registers'.cmd \in Cmds
    BY <2>1 DEF Commands
  <2>3. /\ BuffersOf(Registers') \subseteq {fcp'.buf, COPY_BUF(bank)}
        /\ fcp'.cmd = "COPYBACK" => BuffersOf(Registers') = {COPY_BUF(bank)}
        /\ fcp'.cmd = "ERASE" => BuffersOf(Registers') = {}
    BY <2>1, <2>2, BuffersOfLemma
  <2>4. \A b \in BuffersOf(Registers') : lent'[b] = bank
    BY <1>5, <2>3
  <2>5. QED
    BY <1>3, <2>4 DEF RegsLent
<1>10. StackShape'
  <2>1. \A i \in 1..Len(stack') : i = 1 /\ stack'[i] = [routine |-> s.routine, bank |-> bank, sync |-> s.sync, at |-> "room"]
    BY <1>2, <1>7
  <2>2. s.sync # "RETURN_ON_ISSUE" => todo' = <<>>
    BY <1>1, <1>2
  <2>3. s.routine \in {"flash_issue_cmd", "FLASH_POLL_WR"}
    BY <1>1 DEF Steps
  <2>4. QED
    BY <1>7, <2>1, <2>2, <2>3 DEF StackShape, Shape, IssueRoutines
<1>11. RoomFirst'
  BY <1>2, <1>7 DEF RoomFirst, Top
<1>12. QED
  BY <1>3, <1>7, <1>8, <1>9, <1>10, <1>11

LEMMA CallLemma ==
    ASSUME DInv, NEW bank \in Banks, NEW bufs \in SUBSET FtlBuffers, NEW steps,
           Wrapper(steps, bank, bufs), Call(bank, bufs, steps)
    PROVE  DInv'
<1>. USE DEF DInv
<1>1. lent' = [b \in Buffers |-> IF b \in bufs THEN bank ELSE lent[b]]
  BY DEF Call
<1>2. lent' \in [Buffers -> Banks \cup {NoBank}]
  BY <1>1 DEF TypeOK
<1>3. CopyBufsLent'
  BY <1>1, BanksLemma DEF CopyBufsLent
<1>4. \A b \in bufs \cup {COPY_BUF(bank)} : lent'[b] = bank
  BY <1>1, <1>3, BanksLemma DEF CopyBufsLent
<1>5. fcp' \in Fcps /\ stack' \in Seq(Frames) /\ TodoGood' /\ RegsLent' /\ StackShape' /\ RoomFirst'
  <2>1. fcp \in Fcps
    BY DEF TypeOK, Fcps
  <2>2. \A i \in 1..Len(steps) :
              /\ GoodSettings(steps[i].regs) /\ steps[i].regs.bank = bank
              /\ "buf" \in DOMAIN steps[i].regs => lent'[steps[i].regs.buf] = bank
              /\ steps[i].sync # "RETURN_ON_ISSUE" => Len(steps) = 1
    BY <1>4 DEF Wrapper
  <2>3. steps \in Seq(Steps) /\ steps # <<>> /\ Start(steps)
    BY DEF Wrapper, Call
  <2>4. \/ "buf" \in DOMAIN steps[1].regs
        \/ Len(steps) = 1 /\ steps[1].regs.cmd \in {"COPYBACK", "ERASE"}
    BY DEF Wrapper
  <2>5. lent'[COPY_BUF(bank)] = bank
    BY <1>4
  <2>6. QED
    BY <2>1, <2>2, <2>3, <2>4, <2>5, StartLemma
<1>6. UNCHANGED <<wr, bsp, stuck, state, sticks, resets>> /\ calls' = calls + 1
  BY DEF Call, hardware
<1>7. TypeOK'
  BY <1>2, <1>5, <1>6 DEF TypeOK, Fcps
<1>8. BanksOwn'
  BY <1>6 DEF BanksOwn, Idle
<1>9. DmaOnlyOnLent'
  <2>1. Pending' = Pending /\ Pending \subseteq Commands
    BY <1>6 DEF Pending, TypeOK
  <2>2. SUFFICES ASSUME NEW c \in Pending, NEW b \in BuffersOf(c)
                 PROVE  lent'[b] = c.bank
    BY <2>1 DEF DmaOnlyOnLent
  <2>3. c.bank \in Banks /\ lent[b] = c.bank
    BY <2>1 DEF Commands, DmaOnlyOnLent
  <2>4. b \in Buffers
    <3>1. c.cmd \in Cmds /\ c.buf \in Buffers /\ COPY_BUF(c.bank) \in Buffers
      BY <2>1, <2>3, BanksLemma DEF Commands
    <3>2. QED
      BY <3>1, BuffersOfLemma
  <2>5. b \in bufs => lent[b] \in {NoBank, bank}
    BY DEF Call
  <2>6. QED
    BY <1>1, <2>3, <2>4, <2>5, BanksLemma
<1>10. QED
  BY <1>3, <1>5, <1>7, <1>8, <1>9

LEMMA FtlLemma == DInv /\ Ftl => DInv'
<1>. SUFFICES ASSUME DInv, Ftl PROVE DInv'
  OBVIOUS
<1>1. \A p \in Parts : p[1] \in Int /\ p[2] \in Int
  BY PartsAssumption, FlashAssumption DEF Sectors
<1>2. Targets \subseteq Rows /\ Copies \subseteq Rows \X Rows
  BY PartsAssumption
<1>3. SectorsPerPage \in Int /\ 0 \in Int
  BY FlashAssumption
<1>4. \A c \in Copies : c[1] \in Rows /\ c[2] \in Rows
  BY <1>2
<1>5. CASE CallRead
  <2>1. PICK bank \in Banks, row \in Targets, p \in Parts, buf \in FtlBuffers, sync \in SyncModes :
            Call(bank, {buf}, nand_page_ptread(bank, row, p[1], p[2], buf, 0, sync))
    BY <1>5 DEF CallRead
  <2>2. Wrapper(nand_page_ptread(bank, row, p[1], p[2], buf, 0, sync), bank, {buf})
    BY <1>1, <1>2, <1>3, ReadLemma
  <2>3. QED
    BY <2>1, <2>2, CallLemma
<1>6. CASE CallPageRead
  <2>1. PICK bank \in Banks, row \in Targets, buf \in FtlBuffers : Call(bank, {buf}, nand_page_read(bank, row, buf))
    BY <1>6 DEF CallPageRead
  <2>2. Wrapper(nand_page_read(bank, row, buf), bank, {buf})
    BY <1>2, <1>3, ReadLemma DEF nand_page_read, SyncModes
  <2>3. QED
    BY <2>1, <2>2, CallLemma
<1>7. CASE CallProgram
  <2>1. PICK bank \in Banks, row \in Targets, p \in Parts, buf \in FtlBuffers, sync \in SyncModes :
            Call(bank, {buf}, nand_page_ptprogram(bank, row, p[1], p[2], buf, sync))
    BY <1>7 DEF CallProgram
  <2>2. Wrapper(nand_page_ptprogram(bank, row, p[1], p[2], buf, sync), bank, {buf})
    BY <1>1, <1>2, ProgramLemma
  <2>3. QED
    BY <2>1, <2>2, CallLemma
<1>8. CASE CallPageProgram
  <2>1. PICK bank \in Banks, row \in Targets, buf \in FtlBuffers, sync \in SyncModes :
            Call(bank, {buf}, nand_page_program(bank, row, buf, sync))
    BY <1>8 DEF CallPageProgram
  <2>2. Wrapper(nand_page_program(bank, row, buf, sync), bank, {buf})
    BY <1>2, <1>3, ProgramLemma DEF nand_page_program
  <2>3. QED
    BY <2>1, <2>2, CallLemma
<1>9. CASE CallCopy
  <2>1. PICK bank \in Banks, c \in Copies, internal \in BOOLEAN :
            \/ Call(bank, {}, nand_page_copyback(bank, c[1], c[2], internal))
            \/ Call(bank, {}, flash_copy(bank, c[2], c[1]))
    BY <1>9 DEF CallCopy
  <2>2. /\ Wrapper(nand_page_copyback(bank, c[1], c[2], internal), bank, {})
        /\ Wrapper(flash_copy(bank, c[2], c[1]), bank, {})
    BY <1>4, CopyWrapperLemma DEF nand_page_copyback
  <2>3. QED
    BY <2>1, <2>2, CallLemma
<1>10. CASE CallModify
  <2>1. PICK bank \in Banks, c \in Copies, p \in Parts, buf \in FtlBuffers, internal \in BOOLEAN :
            \/ Call(bank, {buf}, nand_page_modified_copyback(bank, c[1], c[2], p[1], buf, p[2], internal))
            \/ Call(bank, {buf}, flash_modify_copy(bank, c[2], c[1], p[1], buf, p[2]))
    BY <1>10 DEF CallModify
  <2>2. /\ Wrapper(nand_page_modified_copyback(bank, c[1], c[2], p[1], buf, p[2], internal), bank, {buf})
        /\ Wrapper(flash_modify_copy(bank, c[2], c[1], p[1], buf, p[2]), bank, {buf})
    BY <1>1, <1>4, ModifyWrapperLemma DEF nand_page_modified_copyback
  <2>3. QED
    BY <2>1, <2>2, CallLemma
<1>11. CASE CallErase
  <2>1. PICK bank \in Banks, vblk \in Vblks :
            \/ Call(bank, {}, nand_block_erase(bank, vblk))
            \/ Call(bank, {}, nand_block_erase_sync(bank, vblk))
            \/ Call(bank, {}, flash_erase(bank, vblk))
    BY <1>11 DEF CallErase
  <2>2. /\ Wrapper(nand_block_erase(bank, vblk), bank, {})
        /\ Wrapper(nand_block_erase_sync(bank, vblk), bank, {})
        /\ Wrapper(flash_erase(bank, vblk), bank, {})
    BY EraseWrapperLemma DEF nand_block_erase, nand_block_erase_sync, SyncModes
  <2>3. QED
    BY <2>1, <2>2, CallLemma
<1>12. CASE (\E bank \in Banks : waitBusyBank(bank)) \/ flash_finish
  <2>1. PICK bank \in Banks, routine \in {"waitBusyBank", "flash_finish"}, at \in {"room", "all"} : Wait(routine, bank, at)
    BY <1>12, BanksLemma DEF waitBusyBank, flash_finish
  <2>2. /\ Returned /\ stack' = <<Frame(routine, bank, "RETURN_WHEN_DONE", at)>>
        /\ UNCHANGED <<fcp, wr, bsp, stuck, state, todo, lent, calls, sticks, resets>>
    BY <2>1 DEF Wait, hardware, counts
  <2>3. stack' \in Seq(Frames)
    BY <2>2 DEF Frame, Frames, Routines, SyncModes
  <2>4. TypeOK'
    BY <2>2, <2>3 DEF DInv, TypeOK
  <2>5. TodoGood' /\ CopyBufsLent' /\ BanksOwn'
    BY <2>2 DEF DInv, TodoGood, CopyBufsLent, BanksOwn, Idle
  <2>6. StackShape' /\ RegsLent' /\ RoomFirst'
    BY <2>2 DEF StackShape, Shape, RegsLent, RoomFirst, Top, Frame, Returned, IssueRoutines
  <2>7. DmaOnlyOnLent'
    BY <2>2 DEF DInv, DmaOnlyOnLent, Pending
  <2>8. QED
    BY <2>4, <2>5, <2>6, <2>7 DEF DInv
<1>13. CASE FtlWrites
  <2>1. PICK buf \in FtlBuffers, p \in Fills :
            /\ state' = [state EXCEPT !.mem[buf] = p]
            /\ UNCHANGED <<fcp, wr, bsp, stuck, stack, todo, lent, calls, sticks, resets>>
    BY <1>13 DEF FtlWrites, firmware, counts
  <2>2. state' \in States
    <3>1. p \in Pages /\ buf \in Buffers
      BY PartsAssumption, BanksLemma
    <3>2. [state.mem EXCEPT ![buf] = p] \in [Buffers -> Pages]
      BY <3>1 DEF DInv, TypeOK, States
    <3>3. QED
      BY <2>1, <3>2 DEF DInv, TypeOK, States
  <2>3. TypeOK'
    BY <2>1, <2>2 DEF DInv, TypeOK
  <2>4. QED
    BY <2>1, <2>3 DEF DInv, TodoGood, CopyBufsLent, BanksOwn, Idle, StackShape, Shape, RegsLent, RoomFirst, Top, Registers,
                      DmaOnlyOnLent, Pending
<1>14. QED
  BY <1>5, <1>6, <1>7, <1>8, <1>9, <1>10, <1>11, <1>12, <1>13 DEF Ftl

\* A frame is popped: the one below it is a call where it was a reset, and a
\* reset where it was a call.
LEMMA PopLemma ==
    ASSUME stack \in Seq(Frames), StackShape, stack # <<>>, stack' = Tail(stack), todo' = todo
    PROVE  /\ stack' \in Seq(Frames) /\ StackShape'
           /\ stack' # <<>> =>
                /\ (Top'.routine = "flash_reset_one_bank" <=> Top.routine # "flash_reset_one_bank")
                /\ Top'.routine = "flash_reset_one_bank" => Top'.at \in {"wait", "finish"}
           /\ Top.sync # "RETURN_ON_ISSUE" => stack' = <<>> /\ todo = <<>>
<1>1. /\ Len(stack) \in Nat \ {0} /\ 1 \in 1..Len(stack)
      /\ stack' \in Seq(Frames) /\ Len(stack') = Len(stack) - 1
  OBVIOUS
<1>2. \A i \in 1..Len(stack') : stack'[i] = stack[i + 1] /\ i + 1 \in 1..Len(stack) /\ i + 1 > 1
  BY <1>1
<1>3. StackShape'
  <2>. SUFFICES ASSUME NEW i \in 1..Len(stack')
       PROVE  /\ stack'[i].routine = "flash_reset_one_bank" => stack'[i].at \in {"wait", "finish"}
              /\ i > 1 => (stack'[i].routine = "flash_reset_one_bank" <=> stack'[i - 1].routine # "flash_reset_one_bank")
              /\ stack'[i].routine \notin IssueRoutines => stack'[i].sync = "RETURN_WHEN_DONE"
              /\ stack'[i].sync # "RETURN_ON_ISSUE" => i = Len(stack') /\ (stack'[i].routine \notin IssueRoutines => i = 1)
              /\ stack'[i].sync # "RETURN_ON_ISSUE" => todo = <<>>
              /\ stack'[i].at \in {"accept", "done", "bank"} => stack'[i].sync # "RETURN_ON_ISSUE"
    BY DEF StackShape, Shape
  <2>1. stack'[i] = stack[i + 1] /\ i + 1 \in 1..Len(stack) /\ i + 1 > 1 /\ (i > 1 => stack'[i - 1] = stack[i])
    BY <1>1, <1>2
  <2>2. i + 1 = Len(stack) => i = Len(stack')
    <3>1. i \in Int /\ Len(stack) \in Int /\ Len(stack') = Len(stack) - 1
      BY <1>1, <2>1
    <3>2. \A n, m, k \in Int : m = n - 1 => (k + 1 = n => k = m)
      OBVIOUS
    <3>3. Len(stack') \in Int
      BY <3>1
    <3>. QED
      BY <3>1, <3>2, <3>3
  <2>. QED
    BY <2>1, <2>2 DEF StackShape, Shape
<1>4. stack' # <<>> => 2 \in 1..Len(stack) /\ Top' = stack[2] /\ Top = stack[1]
  BY <1>1 DEF Top
<1>5. Top.sync # "RETURN_ON_ISSUE" => Len(stack) = 1 /\ todo = <<>>
  BY <1>1 DEF StackShape, Shape, Top
<1>6. Len(stack) = 1 => stack' = <<>>
  BY <1>1
<1>7. stack' # <<>> =>
        /\ (Top'.routine = "flash_reset_one_bank" <=> Top.routine # "flash_reset_one_bank")
        /\ Top'.routine = "flash_reset_one_bank" => Top'.at \in {"wait", "finish"}
  <2>1. ASSUME stack' # <<>>
        PROVE  /\ stack[2].routine = "flash_reset_one_bank" <=> stack[2 - 1].routine # "flash_reset_one_bank"
               /\ stack[2].routine = "flash_reset_one_bank" => stack[2].at \in {"wait", "finish"}
    BY <1>4, <2>1 DEF StackShape, Shape
  <2>2. 2 - 1 = 1
    OBVIOUS
  <2>3. QED
    BY <1>4, <2>1, <2>2
<1>8. QED
  BY <1>1, <1>3, <1>5, <1>6, <1>7

\* A call goes on to its next loop.
LEMMA GotoLemma ==
    ASSUME stack \in Seq(Frames), StackShape, stack # <<>>, todo' = todo,
           NEW at \in {"accept", "done", "bank"}, Goto(at),
           Top.routine # "flash_reset_one_bank", Top.sync # "RETURN_ON_ISSUE"
    PROVE  /\ stack' \in Seq(Frames) /\ StackShape' /\ Top'.routine = Top.routine /\ Top'.at = at
<1>0. 1 \in 1..Len(stack)
  OBVIOUS
<1>1. /\ Top \in Frames /\ Len(stack) = 1 /\ todo = <<>>
      /\ (Top.routine \notin IssueRoutines => Top.sync = "RETURN_WHEN_DONE")
  <2>1. stack[1] \in Frames
    BY <1>0
  <2>2. stack[1].sync # "RETURN_ON_ISSUE" => 1 = Len(stack) /\ todo = <<>>
    BY <1>0 DEF StackShape, Shape
  <2>3. stack[1].routine \notin IssueRoutines => stack[1].sync = "RETURN_WHEN_DONE"
    BY <1>0 DEF StackShape, Shape
  <2>4. QED
    BY <2>1, <2>2, <2>3 DEF Top
<1>2. /\ [Top EXCEPT !.at = at] \in Frames /\ [Top EXCEPT !.at = at].at = at
      /\ [Top EXCEPT !.at = at].routine = Top.routine /\ [Top EXCEPT !.at = at].sync = Top.sync
  BY <1>1 DEF Frames
<1>3. stack' = <<[Top EXCEPT !.at = at]>>
  <2>1. Tail(stack) = <<>>
    <3>1. Tail(stack) \in Seq(Frames) /\ Len(Tail(stack)) = 0
      BY <1>1
    <3>2. \A q \in Seq(Frames) : Len(q) = 0 => q = <<>>
      OBVIOUS
    <3>3. QED
      BY <3>1, <3>2
  <2>2. stack' = <<[Top EXCEPT !.at = at]>> \o <<>>
    BY <2>1 DEF Goto
  <2>3. QED
    BY <2>2
<1>4. stack' \in Seq(Frames) /\ Len(stack') = 1 /\ Top' = [Top EXCEPT !.at = at]
  BY <1>2, <1>3 DEF Top
<1>5. StackShape'
  <2>1. \A i \in 1..Len(stack') : i = 1 /\ i = Len(stack') /\ stack'[i] = [Top EXCEPT !.at = at]
    BY <1>3, <1>4
  <2>. DEFINE f == [Top EXCEPT !.at = at]
  <2>. HIDE DEF f
  <2>2. /\ f.routine = Top.routine /\ f.sync = Top.sync /\ f.at = at
        /\ \A i \in 1..Len(stack') : i = 1 /\ i = Len(stack') /\ stack'[i] = f
    BY <1>2, <2>1 DEF f
  <2>3. QED
    BY <1>1, <2>2 DEF StackShape, Shape
<1>6. QED
  BY <1>2, <1>4, <1>5

\* The FTL takes back what it lent to banks that have nothing left to do.
LEMMA TakeBackLemma ==
    ASSUME DInv, NEW banks \in SUBSET Banks, wr = {}, \A bank \in banks : Idle(bank),
           lent' = TakeBack(banks), UNCHANGED <<wr, bsp>>
    PROVE  /\ lent' \in [Buffers -> Banks \cup {NoBank}] /\ CopyBufsLent' /\ BanksOwn' /\ DmaOnlyOnLent'
           /\ \A c \in Pending' : c.bank \notin banks
<1>. USE DEF DInv
<1>1. lent' = [b \in Buffers |-> IF b \in FtlBuffers /\ lent[b] \in banks THEN NoBank ELSE lent[b]]
  BY DEF TakeBack
<1>2. lent' \in [Buffers -> Banks \cup {NoBank}]
  BY <1>1 DEF TypeOK
<1>3. CopyBufsLent'
  BY <1>1, BanksLemma DEF CopyBufsLent
<1>4. \A c \in Pending' : c \in Pending /\ c \in Commands /\ c.bank \in Banks \ banks
  BY DEF Pending, BanksOwn, TypeOK
<1>5. DmaOnlyOnLent'
  <2>1. SUFFICES ASSUME NEW c \in Pending', NEW b \in BuffersOf(c)
                 PROVE  lent'[b] = c.bank
    BY DEF DmaOnlyOnLent
  <2>2. lent[b] = c.bank
    BY <1>4 DEF DmaOnlyOnLent
  <2>3. b \in Buffers
    <3>1. c.cmd \in Cmds /\ c.buf \in Buffers /\ COPY_BUF(c.bank) \in Buffers
      BY <1>4, BanksLemma DEF Commands
    <3>2. QED
      BY <3>1, BuffersOfLemma
  <2>4. QED
    BY <1>1, <1>4, <2>2, <2>3
<1>6. BanksOwn'
  BY DEF BanksOwn, Idle
<1>7. QED
  BY <1>2, <1>3, <1>4, <1>5, <1>6

LEMMA NextCommandLemma == ASSUME DInv, NextCommand PROVE DInv'
<1>. USE DEF DInv
<1>. DEFINE bank == todo[1].regs.bank
<1>1. todo # <<>> /\ Start(todo) /\ UNCHANGED <<lent, wr, bsp, stuck, state, calls, sticks, resets>>
  BY DEF NextCommand, hardware, counts
<1>2. todo \in Seq(Steps) /\ 1 \in 1..Len(todo)
  BY <1>1 DEF TodoGood
<1>3. bank \in Banks
  BY <1>2 DEF TodoGood, GoodSettings, Sets
<1>4. \A i \in 1..Len(todo) :
              /\ GoodSettings(todo[i].regs) /\ todo[i].regs.bank = bank
              /\ "buf" \in DOMAIN todo[i].regs => lent'[todo[i].regs.buf] = bank
              /\ todo[i].sync # "RETURN_ON_ISSUE" => Len(todo) = 1
  BY <1>1 DEF TodoGood
<1>5. lent'[fcp.buf] = bank /\ lent'[COPY_BUF(bank)] = bank /\ fcp \in Fcps
  BY <1>1, <1>3 DEF TodoGood, CopyBufsLent, TypeOK, Fcps
<1>. HIDE DEF bank
<1>6. fcp' \in Fcps /\ stack' \in Seq(Frames) /\ TodoGood' /\ RegsLent' /\ StackShape' /\ RoomFirst'
  BY <1>1, <1>2, <1>3, <1>4, <1>5, StartLemma
<1>7. TypeOK' /\ CopyBufsLent' /\ BanksOwn' /\ DmaOnlyOnLent'
  BY <1>1, <1>6 DEF TypeOK, Fcps, CopyBufsLent, BanksOwn, Idle, DmaOnlyOnLent, Pending
<1>8. QED
  BY <1>6, <1>7

LEMMA IssueLemma == ASSUME DInv, Issue PROVE DInv'
<1>. USE DEF DInv
<1>1. /\ stack # <<>> /\ Top.routine \in {"flash_issue_cmd", "FLASH_POLL_WR"} /\ wr' = {Registers}
      /\ IF Top.sync = "RETURN_ON_ISSUE" THEN stack' = Tail(stack) ELSE Goto("accept")
      /\ UNCHANGED <<fcp, todo, lent, bsp, stuck, state, calls, sticks, resets>>
  BY DEF Issue, Handed, AtRoom, InRoutine, counts
<1>2. stack \in Seq(Frames) /\ todo' = todo
  BY <1>1 DEF TypeOK
<1>3. Registers \in Commands /\ Registers.bank = fcp.bank
  BY CommandLemma DEF Registers, TypeOK, Fcps
<1>4. stack' \in Seq(Frames) /\ StackShape' /\ (stack' # <<>> => Top'.at \notin {"done", "bank"})
  <2>1. CASE Top.sync = "RETURN_ON_ISSUE"
    BY <1>1, <1>2, <2>1, PopLemma
  <2>2. CASE Top.sync # "RETURN_ON_ISSUE"
    BY <1>1, <1>2, <2>2, GotoLemma
  <2>3. QED
    BY <2>1, <2>2
<1>5. TypeOK'
  BY <1>1, <1>3, <1>4 DEF TypeOK
<1>6. TodoGood' /\ CopyBufsLent' /\ BanksOwn'
  BY <1>1 DEF TodoGood, CopyBufsLent, BanksOwn, Idle
<1>7. RegsLent'
  <2>1. \A b \in BuffersOf(Registers) : lent[b] = fcp.bank
    BY <1>1 DEF RegsLent, IssueRoutines
  <2>2. QED
    BY <1>1, <2>1 DEF RegsLent, Registers
<1>8. RoomFirst'
  BY <1>4 DEF RoomFirst
<1>9. DmaOnlyOnLent'
  <2>1. \A b \in BuffersOf(Registers) : lent[b] = fcp.bank
    BY <1>1 DEF RegsLent, IssueRoutines
  <2>2. Pending' \subseteq Pending \cup {Registers}
    BY <1>1 DEF Pending
  <2>3. QED
    BY <1>1, <1>3, <2>1, <2>2 DEF DmaOnlyOnLent
<1>10. QED
  BY <1>4, <1>5, <1>6, <1>7, <1>8, <1>9

LEMMA AcceptedLemma == ASSUME DInv, Accepted PROVE DInv'
<1>. USE DEF DInv
<1>1. /\ stack # <<>> /\ Top.routine = "flash_issue_cmd" /\ Top.at = "accept" /\ wr = {}
      /\ IF Top.sync = "RETURN_ON_ACCEPT" THEN stack' = Tail(stack) ELSE Goto("done")
      /\ UNCHANGED <<fcp, todo, lent, wr, bsp, stuck, state, calls, sticks, resets>>
  BY DEF Accepted, InRoutine, RoomEmpty, hardware, counts
<1>2. stack \in Seq(Frames) /\ todo' = todo
  BY <1>1 DEF TypeOK
<1>3. Top.sync # "RETURN_ON_ISSUE"
  <2>1. 1 \in 1..Len(stack)
    BY <1>1, <1>2
  <2>2. QED
    BY <1>1, <2>1 DEF StackShape, Shape, Top
<1>4. stack' \in Seq(Frames) /\ StackShape' /\ (stack' # <<>> => Top'.routine = Top.routine)
  <2>1. CASE Top.sync = "RETURN_ON_ACCEPT"
    BY <1>1, <1>2, <1>3, <2>1, PopLemma
  <2>2. CASE Top.sync # "RETURN_ON_ACCEPT"
    BY <1>1, <1>2, <1>3, <2>2, GotoLemma
  <2>3. QED
    BY <2>1, <2>2
<1>5. TypeOK'
  BY <1>1, <1>4 DEF TypeOK
<1>6. TodoGood' /\ CopyBufsLent' /\ BanksOwn' /\ RoomFirst' /\ DmaOnlyOnLent'
  BY <1>1 DEF TodoGood, CopyBufsLent, BanksOwn, Idle, RoomFirst, DmaOnlyOnLent, Pending
<1>7. RegsLent'
  <2>1. \A b \in BuffersOf(Registers) : lent[b] = fcp.bank
    BY <1>1 DEF RegsLent, IssueRoutines
  <2>2. QED
    BY <1>1, <2>1 DEF RegsLent, Registers
<1>8. QED
  BY <1>4, <1>5, <1>6, <1>7

\* A call or a wait that has seen banks idle returns: it was the outermost.
LEMMA ReturnLemma ==
    ASSUME DInv, NEW banks \in SUBSET Banks, stack # <<>>, Top.sync # "RETURN_ON_ISSUE",
           wr = {}, \A bank \in banks : Idle(bank), stack' = Tail(stack), lent' = TakeBack(banks),
           UNCHANGED <<fcp, todo, hardware, counts>>
    PROVE  DInv' /\ \A c \in Pending' : c.bank \notin banks
<1>. USE DEF DInv
<1>1. UNCHANGED <<fcp, todo, wr, bsp, stuck, state, calls, sticks, resets>>
  BY DEF hardware, counts
<1>2. /\ lent' \in [Buffers -> Banks \cup {NoBank}] /\ CopyBufsLent' /\ BanksOwn' /\ DmaOnlyOnLent'
      /\ \A c \in Pending' : c.bank \notin banks
  BY <1>1, TakeBackLemma
<1>3. stack' \in Seq(Frames) /\ StackShape' /\ stack' = <<>> /\ todo = <<>>
  BY <1>1, PopLemma DEF TypeOK
<1>4. TypeOK'
  BY <1>1, <1>2, <1>3 DEF TypeOK
<1>5. TodoGood' /\ RegsLent' /\ RoomFirst'
  BY <1>1, <1>3 DEF TodoGood, RegsLent, RoomFirst
<1>6. QED
  BY <1>2, <1>3, <1>4, <1>5

LEMMA TopLemma ==
    ASSUME DInv, stack # <<>>
    PROVE  /\ Top \in Frames /\ Top.bank \in Banks
           /\ Top.at \in {"accept", "done", "bank"} => Top.sync # "RETURN_ON_ISSUE"
           /\ Top.at \in {"done", "bank"} => wr = {}
           /\ Top.routine \notin IssueRoutines => Top.sync = "RETURN_WHEN_DONE"
<1>1. stack \in Seq(Frames)
  BY DEF DInv, TypeOK
<1>2. 1 \in 1..Len(stack)
  BY <1>1
<1>3. stack[1] \in Frames
  BY <1>1, <1>2
<1>4. stack[1].bank \in Banks
  BY <1>3 DEF Frames
<1>5. /\ stack[1].at \in {"accept", "done", "bank"} => stack[1].sync # "RETURN_ON_ISSUE"
      /\ stack[1].routine \notin IssueRoutines => stack[1].sync = "RETURN_WHEN_DONE"
  BY <1>2 DEF DInv, StackShape, Shape
<1>6. QED
  BY <1>3, <1>4, <1>5 DEF DInv, Top, RoomFirst

LEMMA DoneLemma == ASSUME DInv, Done PROVE DInv' /\ \A c \in Pending' : c.bank # Top.bank
<1>1. /\ stack # <<>> /\ Top.at = "done" /\ Idle(Top.bank) /\ stack' = Tail(stack)
      /\ lent' = TakeBack({Top.bank}) /\ UNCHANGED <<fcp, todo, hardware, counts>>
  BY DEF Done, InRoutine
<1>2. Top.bank \in Banks /\ Top.sync # "RETURN_ON_ISSUE" /\ wr = {}
  BY <1>1, TopLemma
<1>3. QED
  BY <1>1, <1>2, ReturnLemma

LEMMA WaitedRoomLemma == ASSUME DInv, WaitedRoom PROVE DInv'
<1>. USE DEF DInv
<1>1. /\ stack # <<>> /\ Top.routine = "waitBusyBank" /\ wr = {} /\ Goto("bank")
      /\ UNCHANGED <<fcp, todo, lent, wr, bsp, stuck, state, calls, sticks, resets>>
  BY DEF WaitedRoom, InRoutine, RoomEmpty, hardware, counts
<1>2. Top.sync # "RETURN_ON_ISSUE"
  BY <1>1, TopLemma DEF IssueRoutines
<1>3. stack' \in Seq(Frames) /\ StackShape' /\ Top'.routine = Top.routine
  BY <1>1, <1>2, GotoLemma DEF TypeOK
<1>4. TypeOK'
  BY <1>1, <1>3 DEF TypeOK
<1>5. TodoGood' /\ CopyBufsLent' /\ BanksOwn' /\ RoomFirst' /\ DmaOnlyOnLent'
  BY <1>1 DEF TodoGood, CopyBufsLent, BanksOwn, Idle, RoomFirst, DmaOnlyOnLent, Pending
<1>6. RegsLent'
  BY <1>1, <1>3 DEF RegsLent, IssueRoutines
<1>7. QED
  BY <1>3, <1>4, <1>5, <1>6

LEMMA WaitedBankLemma == ASSUME DInv, WaitedBank PROVE DInv'
<1>1. /\ stack # <<>> /\ Top.at = "bank" /\ Idle(Top.bank) /\ stack' = Tail(stack)
      /\ lent' = TakeBack({Top.bank}) /\ UNCHANGED <<fcp, todo, hardware, counts>>
  BY DEF WaitedBank, InRoutine
<1>2. Top.bank \in Banks /\ Top.sync # "RETURN_ON_ISSUE" /\ wr = {}
  BY <1>1, TopLemma
<1>3. QED
  BY <1>1, <1>2, ReturnLemma

LEMMA FinishedLemma == ASSUME DInv, Finished PROVE DInv'
<1>1. /\ stack # <<>> /\ Top.routine = "flash_finish" /\ wr = {} /\ (\A bank \in Banks : Idle(bank))
      /\ stack' = Tail(stack) /\ lent' = TakeBack(Banks) /\ UNCHANGED <<fcp, todo, hardware, counts>>
  BY DEF Finished, InRoutine, RoomEmpty, AllIdle
<1>2. Top.sync # "RETURN_ON_ISSUE"
  BY <1>1, TopLemma DEF IssueRoutines
<1>3. QED
  BY <1>1, <1>2, ReturnLemma

\* A new call and the frame of a reset are put on frames 1..n of old, or on
\* those from the second on.
LEMMA PushShape ==
    ASSUME NEW n \in Nat, NEW k \in {1, 2}, NEW old, NEW new, NEW rest, n > 0,
           Shape(old, n, rest), old[1].routine \in IssueRoutines,
           n + k > 2 => old[3 - k].routine # "flash_reset_one_bank",
           new[1].routine = "flash_issue_cmd", new[1].sync = "RETURN_ON_ISSUE", new[1].at = "room",
           new[2].routine = "flash_reset_one_bank", new[2].at \in {"wait", "finish"},
           new[2].sync # "RETURN_ON_ISSUE" => n + k = 2 /\ rest = <<>>,
           \A i \in 1..(n + k) : i > 2 => new[i] = old[i - k]
    PROVE  Shape(new, n + k, rest)
<1>. SUFFICES ASSUME NEW i \in 1..(n + k)
     PROVE  /\ new[i].routine = "flash_reset_one_bank" => new[i].at \in {"wait", "finish"}
            /\ i > 1 => (new[i].routine = "flash_reset_one_bank" <=> new[i - 1].routine # "flash_reset_one_bank")
            /\ new[i].routine \notin IssueRoutines => new[i].sync = "RETURN_WHEN_DONE"
            /\ new[i].sync # "RETURN_ON_ISSUE" => i = n + k /\ (new[i].routine \notin IssueRoutines => i = 1)
            /\ new[i].sync # "RETURN_ON_ISSUE" => rest = <<>>
            /\ new[i].at \in {"accept", "done", "bank"} => new[i].sync # "RETURN_ON_ISSUE"
  BY DEF Shape
<1>1. CASE i = 1
  BY <1>1 DEF IssueRoutines
<1>2. CASE i = 2
  BY <1>2 DEF IssueRoutines
<1>3. CASE i > 2
  <2>. DEFINE j == i - k
  <2>1. j \in 1..n /\ new[i] = old[j] /\ (j = n => i = n + k)
    BY <1>3
  <2>2. /\ old[j].routine = "flash_reset_one_bank" => old[j].at \in {"wait", "finish"}
        /\ j > 1 => (old[j].routine = "flash_reset_one_bank" <=> old[j - 1].routine # "flash_reset_one_bank")
        /\ old[j].routine \notin IssueRoutines => old[j].sync = "RETURN_WHEN_DONE"
        /\ old[j].sync # "RETURN_ON_ISSUE" => j = n /\ (old[j].routine \notin IssueRoutines => j = 1)
        /\ old[j].sync # "RETURN_ON_ISSUE" => rest = <<>>
        /\ old[j].at \in {"accept", "done", "bank"} => old[j].sync # "RETURN_ON_ISSUE"
    BY <2>1 DEF Shape
  <2>3. old[j].routine \in IssueRoutines
    BY <2>2
  <2>4. new[i].routine = "flash_reset_one_bank" <=> new[i - 1].routine # "flash_reset_one_bank"
    <3>1. CASE i = 3
      <4>1. new[i - 1] = new[2] /\ j = 3 - k /\ n + k > 2
        BY <3>1
      <4>2. QED
        BY <2>1, <4>1
    <3>2. CASE i > 3
      <4>1. i - 1 \in 1..(n + k) /\ i - 1 > 2 /\ (i - 1) - k = j - 1 /\ j > 1
        BY <3>2
      <4>2. new[i - 1] = old[j - 1]
        BY <4>1
      <4>3. QED
        BY <2>1, <2>2, <4>1, <4>2
    <3>3. i = 3 \/ i > 3
      BY <1>3
    <3>4. QED
      BY <3>1, <3>2, <3>3
  <2>5. QED
    BY <2>1, <2>2, <2>3, <2>4
<1>4. i = 1 \/ i = 2 \/ i > 2
  OBVIOUS
<1>5. QED
  BY <1>1, <1>2, <1>3, <1>4

\* A reset puts two frames on a call: its own, and that of its command.
LEMMA PushLemma ==
    ASSUME stack \in Seq(Frames), StackShape, stack # <<>>, Top.routine = "flash_issue_cmd", todo' = todo,
           NEW bank \in Banks,
           stack' = << Frame("flash_issue_cmd", bank, "RETURN_ON_ISSUE", "room"),
                       Frame("flash_reset_one_bank", bank, "RETURN_ON_ISSUE", "wait") >> \o stack
    PROVE  stack' \in Seq(Frames) /\ StackShape' /\ Top'.at = "room"
<1>. DEFINE f1 == Frame("flash_issue_cmd", bank, "RETURN_ON_ISSUE", "room")
            f2 == Frame("flash_reset_one_bank", bank, "RETURN_ON_ISSUE", "wait")
            n == Len(stack)
<1>1. f1 \in Frames /\ f2 \in Frames
  BY DEF Frame, Frames, Routines, SyncModes
<1>2. /\ f1.routine = "flash_issue_cmd" /\ f1.sync = "RETURN_ON_ISSUE" /\ f1.at = "room"
      /\ f2.routine = "flash_reset_one_bank" /\ f2.sync = "RETURN_ON_ISSUE" /\ f2.at = "wait"
  BY DEF Frame
<1>. HIDE DEF f1, f2
<1>3. stack' = <<f1, f2>> \o stack
  BY DEF f1, f2
<1>4. n \in Nat /\ 1 \in 1..n /\ stack[1].routine = "flash_issue_cmd"
  BY DEF Top
<1>5. stack' \in Seq(Frames) /\ Len(stack') = n + 2 /\ stack'[1] = f1 /\ stack'[2] = f2
  BY <1>1, <1>3
<1>6. \A i \in 1..(n + 2) : i > 2 => i - 2 \in 1..n /\ stack'[i] = stack[i - 2]
  BY <1>1, <1>3
<1>7. StackShape'
  <2>1. Shape(stack, n, todo) /\ n > 0 /\ stack[1].routine \in IssueRoutines
    BY <1>4 DEF StackShape, IssueRoutines
  <2>2. stack[1].routine # "flash_reset_one_bank" /\ 3 - 2 = 1
    BY <1>4
  <2>. HIDE DEF n
  <2>3. \A i \in 1..(n + 2) : i > 2 => stack'[i] = stack[i - 2]
    BY <1>6
  <2>4. Shape(stack', n + 2, todo)
    BY <1>2, <1>4, <1>5, <2>1, <2>2, <2>3, PushShape, Zenon
  <2>5. QED
    BY <1>5, <2>4 DEF StackShape
<1>8. QED
  BY <1>2, <1>5, <1>7 DEF Top

LEMMA TwoOnLemma ==
    ASSUME NEW q \in Seq(Frames), q # <<>>, NEW f \in Frames, NEW g \in Frames
    PROVE  LET s == <<f, g>> \o Tail(q)
           IN  /\ s \in Seq(Frames) /\ Len(s) = Len(q) + 1 /\ s[1] = f /\ s[2] = g
               /\ \A i \in 1..(Len(q) + 1) : i > 2 => i - 1 \in 1..Len(q) /\ s[i] = q[i - 1]
OBVIOUS

\* The second command of a reset, on the frame of the reset.
LEMMA WaitPushLemma ==
    ASSUME stack \in Seq(Frames), StackShape, stack # <<>>, Top.routine = "flash_reset_one_bank", todo' = todo,
           stack' = << Frame("flash_issue_cmd", Top.bank, "RETURN_ON_ISSUE", "room"), [Top EXCEPT !.at = "finish"] >>
                    \o Tail(stack)
    PROVE  stack' \in Seq(Frames) /\ StackShape' /\ Top'.at = "room"
<1>. DEFINE f1 == Frame("flash_issue_cmd", Top.bank, "RETURN_ON_ISSUE", "room")
            f2 == [Top EXCEPT !.at = "finish"]
            n == Len(stack)
<1>0. n \in Nat /\ 1 \in 1..n /\ Top \in Frames
  BY DEF Top
<1>1. f1 \in Frames /\ f2 \in Frames
  BY <1>0 DEF Frame, Frames, Routines, SyncModes
<1>2. /\ f1.routine = "flash_issue_cmd" /\ f1.sync = "RETURN_ON_ISSUE" /\ f1.at = "room"
      /\ f2.routine = "flash_reset_one_bank" /\ f2.sync = Top.sync /\ f2.at = "finish"
  BY <1>0 DEF Frame, Frames
<1>5. stack' \in Seq(Frames) /\ Len(stack') = n + 1 /\ stack'[1] = f1 /\ stack'[2] = f2
  BY <1>1, TwoOnLemma
<1>6. \A i \in 1..(n + 1) : i > 2 => i - 1 \in 1..n /\ stack'[i] = stack[i - 1]
  BY <1>1, TwoOnLemma
<1>. HIDE DEF f1, f2
<1>7. StackShape'
  <2>1. Shape(stack, n, todo) /\ n > 0 /\ stack[1].routine \in IssueRoutines
    BY <1>0 DEF StackShape, IssueRoutines, Top
  <2>2. f2.sync # "RETURN_ON_ISSUE" => n + 1 = 2 /\ todo = <<>>
    <3>1. stack[1].sync # "RETURN_ON_ISSUE" => 1 = n /\ todo = <<>>
      BY <1>0, <2>1 DEF Shape
    <3>2. QED
      BY <1>0, <1>2, <3>1 DEF Top
  <2>3. n + 1 > 2 => stack[3 - 1].routine # "flash_reset_one_bank"
    <3>1. ASSUME n + 1 > 2 PROVE stack[2].routine = "flash_reset_one_bank" <=> stack[2 - 1].routine # "flash_reset_one_bank"
      <4>1. 2 \in 1..n
        BY <1>0, <3>1
      <4>2. QED
        BY <2>1, <4>1 DEF Shape
    <3>2. 3 - 1 = 2 /\ 2 - 1 = 1
      OBVIOUS
    <3>3. QED
      BY <3>1, <3>2 DEF Top
  <2>. HIDE DEF n
  <2>4. \A i \in 1..(n + 1) : i > 2 => stack'[i] = stack[i - 1]
    BY <1>6
  <2>5. Shape(stack', n + 1, todo)
    BY <1>0, <1>2, <1>5, <2>1, <2>2, <2>3, <2>4, PushShape, Zenon
  <2>6. QED
    BY <1>5, <2>5 DEF StackShape
<1>8. QED
  BY <1>2, <1>5, <1>7 DEF Top

LEMMA ResetWaitLemma == ASSUME DInv, ResetWait PROVE DInv'
<1>. USE DEF DInv
<1>. DEFINE regs == [cmd |-> "WAIT", bank |-> Top.bank]
<1>1. /\ stack # <<>> /\ Top.routine = "flash_reset_one_bank" /\ fcp' = SetRegs(fcp, regs)
      /\ stack' = << Frame("flash_issue_cmd", Top.bank, "RETURN_ON_ISSUE", "room"), [Top EXCEPT !.at = "finish"] >>
                \o Tail(stack)
      /\ UNCHANGED <<todo, lent, wr, bsp, stuck, state, calls, sticks, resets>>
  BY DEF ResetWait, InRoutine, hardware, counts
<1>2. stack \in Seq(Frames)
  BY DEF TypeOK
<1>3. stack' \in Seq(Frames) /\ StackShape' /\ Top'.at = "room"
  BY <1>1, <1>2, WaitPushLemma
<1>4. Top.bank \in Banks
  BY <1>1, TopLemma
<1>5. regs \in Settings /\ GoodSettings(regs) /\ "buf" \notin DOMAIN regs /\ regs.cmd = "WAIT"
  <2>1. regs \in [{"cmd", "bank"} -> Cmds \cup Int]
    BY <1>4, BanksLemma DEF Cmds, IdleCmds
  <2>2. QED
    BY <1>4, <2>1 DEF Settings, Fields, GoodSettings, Sets, Cmds, IdleCmds
<1>. HIDE DEF regs
<1>6. fcp' \in Fcps /\ fcp'.cmd = "WAIT" /\ fcp'.buf = fcp.buf
  <2>1. fcp \in Fcps
    BY DEF TypeOK, Fcps
  <2>2. fcp' = SetRegs(fcp, regs)
    BY <1>1
  <2>3. QED
    BY <1>5, <2>1, <2>2, SetRegsLemma
<1>7. TypeOK'
  BY <1>1, <1>3, <1>6 DEF TypeOK, Fcps
<1>8. TodoGood'
  BY <1>1, <1>6 DEF TodoGood
<1>9. RegsLent'
  <2>1. Registers'.cmd = "WAIT" /\ Registers'.cmd \in Cmds
    BY <1>6, CommandLemma DEF Registers, Fcps
  <2>2. BuffersOf(Registers') = {}
    BY <2>1, BuffersOfLemma
  <2>3. QED
    BY <2>2 DEF RegsLent
<1>10. CopyBufsLent' /\ BanksOwn' /\ DmaOnlyOnLent' /\ RoomFirst'
  BY <1>1, <1>3 DEF CopyBufsLent, BanksOwn, Idle, DmaOnlyOnLent, Pending, RoomFirst
<1>11. QED
  BY <1>3, <1>7, <1>8, <1>9, <1>10

LEMMA ResetEndsLemma == ASSUME DInv, ResetEnds PROVE DInv'
<1>. USE DEF DInv
<1>1. /\ stack # <<>> /\ Top.routine = "flash_reset_one_bank" /\ wr = {} /\ stack' = Tail(stack)
      /\ UNCHANGED <<fcp, todo, lent, wr, bsp, stuck, state, calls, sticks, resets>>
  BY DEF ResetEnds, InRoutine, RoomEmpty, hardware, counts
<1>2. stack' \in Seq(Frames) /\ StackShape'
  BY <1>1, PopLemma DEF TypeOK
<1>3. TypeOK'
  BY <1>1, <1>2 DEF TypeOK
<1>4. TodoGood' /\ CopyBufsLent' /\ BanksOwn' /\ RoomFirst' /\ DmaOnlyOnLent'
  BY <1>1 DEF TodoGood, CopyBufsLent, BanksOwn, Idle, RoomFirst, DmaOnlyOnLent, Pending
<1>5. RegsLent'
  <2>1. \A b \in BuffersOf(Registers) : lent[b] = fcp.bank
    BY <1>1 DEF RegsLent, IssueRoutines
  <2>2. QED
    BY <1>1, <2>1 DEF RegsLent, Registers
<1>6. QED
  BY <1>2, <1>3, <1>4, <1>5

LEMMA DriverLemma == DInv /\ Driver => DInv'
BY NextCommandLemma, IssueLemma, AcceptedLemma, DoneLemma, WaitedRoomLemma, WaitedBankLemma, FinishedLemma,
   ResetWaitLemma, ResetEndsLemma DEF Driver

----------------------------------------------------------------------------

\* The registers of the command that waits lose their command, but they keep
\* the buffer, so that the commands of the wrapper that are left still find it.
LEMMA ResetLemma ==
    ASSUME DInv, stack # <<>>, Top.routine = "flash_issue_cmd", NEW bank \in Banks, ResetOneBank(bank)
    PROVE  DInv'
<1>. USE DEF DInv
<1>. DEFINE regs == [cmd |-> "GENERIC", bank |-> bank, col |-> 255, row |-> NoRow]
<1>1. /\ resets' = resets + 1 /\ wr' = {} /\ bsp' = [b \in Banks |-> IdleBank] /\ stuck' = {}
      /\ fcp' = SetRegs(fcp, regs)
      /\ stack' = << Frame("flash_issue_cmd", bank, "RETURN_ON_ISSUE", "room"),
                     Frame("flash_reset_one_bank", bank, "RETURN_ON_ISSUE", "wait") >> \o stack
      /\ UNCHANGED <<state, todo, lent, calls, sticks>>
  BY DEF ResetOneBank
<1>2. stack' \in Seq(Frames) /\ StackShape' /\ Top'.at = "room"
  BY <1>1, PushLemma DEF TypeOK
<1>3. regs \in Settings /\ GoodSettings(regs) /\ "buf" \notin DOMAIN regs /\ regs.cmd = "GENERIC"
  <2>1. regs \in [{"cmd", "bank", "col", "row"} -> Cmds \cup Int]
    BY BanksLemma DEF Cmds, IdleCmds, NoRow
  <2>2. regs \in Settings
    BY <2>1 DEF Settings, Fields
  <2>3. QED
    BY <2>2 DEF GoodSettings, Sets, Cmds, IdleCmds
<1>. HIDE DEF regs
<1>4. fcp' \in Fcps /\ fcp'.cmd = "GENERIC" /\ fcp'.buf = fcp.buf
  <2>1. fcp \in Fcps
    BY DEF TypeOK, Fcps
  <2>2. fcp' = SetRegs(fcp, regs)
    BY <1>1
  <2>3. QED
    BY <1>3, <2>1, <2>2, SetRegsLemma
<1>5. bsp' \in [Banks -> [fsm : FsmCodes, doing : SUBSET Commands]] /\ BanksOwn' /\ Pending' = {}
  BY <1>1 DEF IdleBank, FsmCodes, BanksOwn, Pending, Idle
<1>6. TypeOK'
  BY <1>1, <1>2, <1>4, <1>5 DEF TypeOK, Fcps
<1>7. TodoGood' /\ CopyBufsLent' /\ RoomFirst' /\ DmaOnlyOnLent'
  BY <1>1, <1>2, <1>4, <1>5 DEF TodoGood, CopyBufsLent, RoomFirst, DmaOnlyOnLent
<1>8. RegsLent'
  <2>1. Registers'.cmd = "GENERIC" /\ Registers'.cmd \in Cmds
    BY <1>4, CommandLemma DEF Registers, Fcps
  <2>2. BuffersOf(Registers') = {}
    BY <2>1, BuffersOfLemma
  <2>3. QED
    BY <2>2 DEF RegsLent
<1>9. QED
  BY <1>2, <1>5, <1>6, <1>7, <1>8

LEMMA TimeoutLemma == DInv /\ Timeout => DInv'
<1>. SUFFICES ASSUME DInv, Timeout PROVE DInv'
  OBVIOUS
<1>1. CASE RoomTimeout
  BY <1>1, ResetLemma DEF RoomTimeout, InRoutine
<1>2. CASE DoneTimeout
  <2>1. Top.bank \in Banks
    BY <1>2, TopLemma DEF DoneTimeout, InRoutine
  <2>2. QED
    BY <1>2, <2>1, ResetLemma DEF DoneTimeout, InRoutine
<1>3. QED
  BY <1>1, <1>2 DEF Timeout

\* Steps of the controller leave the firmware alone and add no command.
LEMMA QuietLemma ==
    ASSUME DInv, UNCHANGED <<firmware, lent>>, wr' \subseteq wr, TypeOK', BanksOwn', Pending' \subseteq Pending
    PROVE  DInv'
<1>1. UNCHANGED <<fcp, stack, todo, lent>>
  BY DEF firmware
<1>2. TodoGood' /\ CopyBufsLent' /\ RegsLent' /\ StackShape' /\ RoomFirst' /\ DmaOnlyOnLent'
  BY <1>1 DEF DInv, TodoGood, CopyBufsLent, RegsLent, StackShape, RoomFirst, Top, Registers, DmaOnlyOnLent
<1>3. QED
  BY <1>2 DEF DInv

LEMMA ControllerLemma == DInv /\ Controller => DInv'
<1>. SUFFICES ASSUME DInv, Controller PROVE DInv'
  OBVIOUS
<1>. USE DEF DInv
<1>1. CASE Take
  <2>1. PICK c \in wr :
          /\ bsp' = [bsp EXCEPT ![c.bank] = [fsm |-> "BANK_WAIT", doing |-> {c}]]
          /\ wr' = {} /\ UNCHANGED <<stuck, state, firmware, lent, counts>>
    BY <1>1 DEF Take
  <2>2. c \in Commands /\ c.bank \in Banks
    BY DEF TypeOK, Commands
  <2>3. TypeOK'
    BY <2>1, <2>2 DEF TypeOK, FsmCodes, firmware, counts
  <2>4. BanksOwn' /\ Pending' \subseteq Pending
    BY <2>1, <2>2 DEF TypeOK, BanksOwn, Idle, Pending
  <2>5. QED
    BY <2>1, <2>3, <2>4, QuietLemma
<1>2. CASE \E bank \in Banks : EnterTake(bank)
  <2>1. PICK bank \in Banks :
          /\ bsp' = [bsp EXCEPT ![bank].fsm = "BANK_TAKE"] /\ bsp[bank].fsm = "BANK_WAIT"
          /\ UNCHANGED <<wr, stuck, state, firmware, lent, counts>>
    BY <1>2 DEF EnterTake
  <2>2. TypeOK'
    BY <2>1 DEF TypeOK, FsmCodes, firmware, counts
  <2>3. BanksOwn' /\ Pending' \subseteq Pending
    BY <2>1 DEF TypeOK, BanksOwn, Idle, Pending
  <2>4. QED
    BY <2>1, <2>2, <2>3, QuietLemma
<1>3. CASE \E bank \in Banks : GetStuck(bank)
  <2>1. PICK bank \in Banks :
          /\ stuck' = stuck \cup {bank} /\ sticks' = sticks + 1
          /\ UNCHANGED <<wr, bsp, state, firmware, lent, calls, resets>>
    BY <1>3 DEF GetStuck
  <2>2. TypeOK'
    BY <2>1 DEF TypeOK, firmware
  <2>3. BanksOwn' /\ Pending' \subseteq Pending
    BY <2>1 DEF BanksOwn, Idle, Pending
  <2>4. QED
    BY <2>1, <2>2, <2>3, QuietLemma
<1>4. CASE \E bank \in Banks : Finish(bank)
  <2>1. PICK bank \in Banks : \E c \in bsp[bank].doing :
          /\ state' = Apply(c, state) /\ bsp' = [bsp EXCEPT ![bank] = IdleBank]
          /\ UNCHANGED <<wr, stuck, firmware, lent, counts>>
    BY <1>4 DEF Finish
  <2>2. state' \in States
    <3>1. PICK c \in bsp[bank].doing : state' = Apply(c, state)
      BY <2>1
    <3>2. c \in Commands
      BY DEF TypeOK
    <3>3. QED
      BY <3>1, <3>2, ApplyLemma DEF TypeOK
  <2>3. TypeOK'
    BY <2>1, <2>2 DEF TypeOK, FsmCodes, IdleBank, firmware, counts
  <2>4. BanksOwn' /\ Pending' \subseteq Pending
    BY <2>1 DEF TypeOK, BanksOwn, Idle, Pending, IdleBank
  <2>5. QED
    BY <2>1, <2>3, <2>4, QuietLemma
<1>5. QED
  BY <1>1, <1>2, <1>3, <1>4 DEF Controller

LEMMA InvStep == DInv /\ [Next]_vars => DInv'
<1>. SUFFICES ASSUME DInv, [Next]_vars PROVE DInv'
  OBVIOUS
<1>1. CASE UNCHANGED vars
  <2>1. TypeOK' /\ TodoGood' /\ CopyBufsLent'
    BY <1>1 DEF vars, DInv, TypeOK, TodoGood, CopyBufsLent
  <2>2. RegsLent' /\ StackShape' /\ RoomFirst'
    BY <1>1 DEF vars, DInv, RegsLent, StackShape, RoomFirst, Top, Registers
  <2>3. BanksOwn' /\ DmaOnlyOnLent'
    BY <1>1 DEF vars, DInv, BanksOwn, Idle, DmaOnlyOnLent, Pending
  <2>4. QED
    BY <2>1, <2>2, <2>3 DEF DInv
<1>2. QED
  BY <1>1, FtlLemma, DriverLemma, TimeoutLemma, ControllerLemma DEF Next

LEMMA InvLemma == Spec => []DInv
BY InvStep, InitLemma, PTL DEF Spec

----------------------------------------------------------------------------

\* The registers, the Waiting Room, the banks, the flash and the stack of
\* calls of flash.c keep their types, whatever the wrappers set.
THEOREM TypeCorrect == Spec => []TypeOK
<1>1. DInv => TypeOK
  BY DEF DInv
<1>2. QED
  BY <1>1, InvLemma, PTL

\* No command of flash_wrapper.c, with or without resets in between, moves
\* data from or to a buffer that the FTL has taken back or lent to another
\* bank.
THEOREM BuffersCorrect == Spec => []DmaOnlyOnLent
<1>1. DInv => DmaOnlyOnLent
  BY DEF DInv
<1>2. QED
  BY <1>1, InvLemma, PTL

\* A flash_issue_cmd that returns when done leaves no command of its bank in
\* the Waiting Room or in the bank.
THEOREM DoneCorrect == Spec => DoneMeansDone
<1>. DEFINE Returns == InRoutine("flash_issue_cmd", "done") /\ stack' = Tail(stack) /\ resets = 0
            Clear == \A c \in Pending' : c.bank # Top.bank
<1>1. ASSUME DInv, [Next]_vars, Returns PROVE Clear
  <2>1. stack # <<>> /\ Top.routine = "flash_issue_cmd" /\ Top.at = "done" /\ stack' = Tail(stack)
    BY <1>1 DEF InRoutine
  <2>2. stack \in Seq(Frames) /\ Len(stack') # Len(stack)
    BY <1>1, <2>1 DEF DInv, TypeOK
  <2>3. CASE Done
    BY <1>1, <2>3, DoneLemma
  <2>4. ~Done => FALSE
    <3>1. ~UNCHANGED stack
      BY <2>2
    <3>2. ~Ftl /\ ~NextCommand
      BY <2>1, <3>1 DEF Ftl, CallRead, CallPageRead, CallProgram, CallPageProgram, CallCopy, CallModify, CallErase,
                        Call, waitBusyBank, flash_finish, Wait, FtlWrites, Returned, firmware, NextCommand
    <3>3. ~Controller
      BY <3>1 DEF Controller, Take, EnterTake, GetStuck, Finish, firmware
    <3>4. ~(Issue \/ Accepted \/ WaitedRoom \/ WaitedBank \/ Finished \/ ResetWait \/ ResetEnds)
      BY <2>1 DEF Issue, AtRoom, Accepted, WaitedRoom, WaitedBank, Finished, ResetWait, ResetEnds, InRoutine
    <3>5. ~Timeout
      <4>1. ASSUME NEW bank \in Banks, ResetOneBank(bank) PROVE FALSE
        <5>1. Len(stack') = Len(stack) + 2
          BY <2>2, <4>1 DEF ResetOneBank
        <5>2. Len(stack') = Len(stack) - 1 /\ Len(stack) \in Nat
          BY <2>1, <2>2
        <5>3. QED
          BY <5>1, <5>2
      <4>2. Top.bank \in Banks
        BY <1>1, <2>1, TopLemma
      <4>3. QED
        BY <4>1, <4>2 DEF Timeout, RoomTimeout, DoneTimeout
    <3>6. QED
      BY <1>1, <3>1, <3>2, <3>3, <3>4, <3>5 DEF Next, Driver, vars
  <2>5. QED
    BY <2>3, <2>4
<1>2. DInv /\ [Next]_vars => [Returns => Clear]_vars
  BY <1>1
<1>3. QED
  BY <1>2, InvLemma, PTL DEF Spec, DoneMeansDone

----------------------------------------------------------------------------
(* What a command reads and changes.                                       *)

\* For command c memory and flash are the same in s and in t.
Same(c, s, t) ==
    /\ \A b \in BuffersOf(c) : s.mem[b] = t.mem[b]
    /\ s.flash[c.bank] = t.flash[c.bank] /\ s.page[c.bank] = t.page[c.bank]

\* Command c makes r of s and touches nothing but what is its own.
Touches(c, s, r) ==
    /\ \A b \in Buffers : b \notin BuffersOf(c) => r.mem[b] = s.mem[b]
    /\ \A b \in Banks : b # c.bank => r.flash[b] = s.flash[b] /\ r.page[b] = s.page[b]

LEMMA StatesLemma ==
    ASSUME NEW s \in States
    PROVE  /\ s.mem \in [Buffers -> Pages] /\ s.flash \in [Banks -> [Rows -> Pages]] /\ s.page \in [Banks -> Pages]
BY DEF States

LEMMA KindLemma ==
    ASSUME NEW c \in Commands
    PROVE  /\ c.cmd \in ReadCmds => BuffersOf(c) = {c.buf}
           /\ c.cmd \in FirstIn \cup MoreIn => BuffersOf(c) = {c.buf}
           /\ c.cmd = "COPYBACK" => BuffersOf(c) = {COPY_BUF(c.bank)}
           /\ c.cmd = "MODIFY_COPYBACK" => BuffersOf(c) = {c.buf, COPY_BUF(c.bank)}
           /\ c.cmd \in Cmds /\ c.bank \in Banks /\ c.buf \in Buffers /\ COPY_BUF(c.bank) \in Buffers
           /\ c.row \in Rows \cup {NoRow} /\ c.dstRow \in Rows
<1>1. c.cmd \in Cmds /\ c.bank \in Banks /\ c.buf \in Buffers /\ c.row \in Rows \cup {NoRow} /\ c.dstRow \in Rows
  BY DEF Commands
<1>2. COPY_BUF(c.bank) \in Buffers
  BY <1>1, BanksLemma
<1>3. QED
  BY <1>1, <1>2 DEF BuffersOf, ReadCmds, FirstIn, MoreIn, CopyCmds

LEMMA FilledSame ==
    ASSUME NEW c \in Commands, NEW s \in States, NEW t \in States, NEW col, NEW old, s.mem[c.buf] = t.mem[c.buf]
    PROVE  Filled(c, col, old, s) = Filled(c, col, old, t)
BY DEF Filled

LEMMA ReadOutEffect ==
    ASSUME NEW c \in Commands, NEW s \in States, c.cmd \in ReadCmds, c.row # NoRow
    PROVE  /\ Touches(c, s, ReadOut(c, s))
           /\ \A t \in States : Same(c, s, t) => Same(c, ReadOut(c, s), ReadOut(c, t))
<1> DEFINE new(u) == [i \in Sectors |-> IF Covers(c, c.col, i - c.off) /\ (i - c.off) \in Sectors
                                        THEN u.flash[c.bank][c.row][i - c.off] ELSE u.mem[c.buf][i]]
<1>1. \A u \in States : ReadOut(c, u).mem = [u.mem EXCEPT ![c.buf] = new(u)]
                        /\ ReadOut(c, u).flash = u.flash /\ ReadOut(c, u).page = u.page
  BY DEF ReadOut, States
<1>2. /\ BuffersOf(c) = {c.buf} /\ c.bank \in Banks /\ c.buf \in Buffers
  BY KindLemma
<1>3. \A t \in States : s.mem[c.buf] = t.mem[c.buf] /\ s.flash[c.bank] = t.flash[c.bank] => new(s) = new(t)
  OBVIOUS
<1> HIDE DEF new
<1>4. \A u \in States : u.mem \in [Buffers -> Pages]
  BY StatesLemma
<1>5. Touches(c, s, ReadOut(c, s))
  BY <1>1, <1>2, <1>4 DEF Touches
<1>6. ASSUME NEW t \in States, Same(c, s, t) PROVE Same(c, ReadOut(c, s), ReadOut(c, t))
  <2>1. s.mem[c.buf] = t.mem[c.buf] /\ s.flash[c.bank] = t.flash[c.bank] /\ s.page[c.bank] = t.page[c.bank]
    BY <1>2, <1>6 DEF Same
  <2>2. new(s) = new(t)
    BY <2>1, <1>3
  <2>3. ReadOut(c, s).mem[c.buf] = new(s) /\ ReadOut(c, t).mem[c.buf] = new(t)
    BY <1>1, <1>2, <1>4
  <2>4. QED
    BY <2>1, <2>2, <2>3, <1>1, <1>2 DEF Same
<1>7. QED
  BY <1>5, <1>6

LEMMA InEffect ==
    ASSUME NEW c \in Commands, NEW s \in States, c.cmd \in FirstIn \cup MoreIn, c.row # NoRow
    PROVE  /\ Touches(c, s, In(c, s))
           /\ \A t \in States : Same(c, s, t) => Same(c, In(c, s), In(c, t))
<1> DEFINE reg(u) == Filled(c, c.col, IF c.cmd \in FirstIn THEN Blank ELSE u.page[c.bank], u)
           page(u) == IF c.cmd \in ProgCmds THEN Programmed(u.flash[c.bank][c.row], reg(u)) ELSE u.flash[c.bank][c.row]
<1>1. /\ BuffersOf(c) = {c.buf} /\ c.bank \in Banks /\ c.buf \in Buffers /\ c.row \in Rows
  BY KindLemma
<1>2. \A u \in States : /\ In(c, u).mem = u.mem /\ In(c, u).page = [u.page EXCEPT ![c.bank] = reg(u)]
                        /\ In(c, u).flash = [u.flash EXCEPT ![c.bank] = [u.flash[c.bank] EXCEPT ![c.row] = page(u)]]
  BY <1>1 DEF In, States
<1>3. ASSUME NEW t \in States, Same(c, s, t) PROVE reg(s) = reg(t) /\ page(s) = page(t)
  <2>1. s.mem[c.buf] = t.mem[c.buf] /\ s.flash[c.bank] = t.flash[c.bank] /\ s.page[c.bank] = t.page[c.bank]
    BY <1>1, <1>3 DEF Same
  <2>2. reg(s) = reg(t)
    BY <2>1, FilledSame
  <2> HIDE DEF reg
  <2>3. QED
    BY <2>1, <2>2
<1> HIDE DEF reg, page
<1>4. \A u \in States : u.page \in [Banks -> Pages] /\ u.flash \in [Banks -> [Rows -> Pages]]
  BY StatesLemma
<1>5. Touches(c, s, In(c, s))
  BY <1>1, <1>2, <1>4 DEF Touches
<1>6. ASSUME NEW t \in States, Same(c, s, t) PROVE Same(c, In(c, s), In(c, t))
  <2>1. s.flash[c.bank] = t.flash[c.bank] /\ \A b \in BuffersOf(c) : s.mem[b] = t.mem[b]
    BY <1>6 DEF Same
  <2>2. \A u \in States : /\ In(c, u).flash[c.bank] = [u.flash[c.bank] EXCEPT ![c.row] = page(u)]
                          /\ In(c, u).page[c.bank] = reg(u)
    BY <1>1, <1>2, <1>4
  <2>3. reg(s) = reg(t) /\ page(s) = page(t)
    BY <1>3, <1>6
  <2>4. In(c, s).flash[c.bank] = In(c, t).flash[c.bank] /\ In(c, s).page[c.bank] = In(c, t).page[c.bank]
    <3>1. In(c, s).flash[c.bank] = [s.flash[c.bank] EXCEPT ![c.row] = page(s)] /\ In(c, s).page[c.bank] = reg(s)
      BY <2>2
    <3>2. In(c, t).flash[c.bank] = [t.flash[c.bank] EXCEPT ![c.row] = page(t)] /\ In(c, t).page[c.bank] = reg(t)
      BY <2>2
    <3>3. QED
      BY <2>1, <2>3, <3>1, <3>2, Zenon
  <2>5. QED
    BY <2>1, <2>4, <1>2 DEF Same
<1>7. QED
  BY <1>5, <1>6

LEMMA CopyEffect ==
    ASSUME NEW c \in Commands, NEW s \in States, c.cmd \in CopyCmds, c.row # NoRow
    PROVE  /\ Touches(c, s, Copy(c, s))
           /\ \A t \in States : Same(c, s, t) => Same(c, Copy(c, s), Copy(c, t))
<1> DEFINE old(u) == u.flash[c.bank][c.row]
           new(u) == IF c.cmd = "COPYBACK" THEN old(u) ELSE Filled(c, c.dstCol, old(u), u)
           dst(u) == Programmed(u.flash[c.bank][c.dstRow], new(u))
<1>1. /\ COPY_BUF(c.bank) \in BuffersOf(c) /\ c.bank \in Banks /\ c.row \in Rows /\ c.dstRow \in Rows
      /\ COPY_BUF(c.bank) \in Buffers
      /\ c.cmd # "COPYBACK" => c.buf \in BuffersOf(c)
  BY KindLemma DEF CopyCmds
<1>2. \A u \in States : /\ Copy(c, u).mem = [u.mem EXCEPT ![COPY_BUF(c.bank)] = old(u)] /\ Copy(c, u).page = u.page
                        /\ Copy(c, u).flash = [u.flash EXCEPT ![c.bank] = [u.flash[c.bank] EXCEPT ![c.dstRow] = dst(u)]]
  BY <1>1 DEF Copy, States
<1>3. ASSUME NEW t \in States, Same(c, s, t) PROVE old(s) = old(t) /\ dst(s) = dst(t)
  <2>1. s.flash[c.bank] = t.flash[c.bank] /\ (c.cmd # "COPYBACK" => s.mem[c.buf] = t.mem[c.buf])
    BY <1>1, <1>3 DEF Same
  <2>2. old(s) = old(t)
    BY <2>1
  <2> HIDE DEF old
  <2>3. new(s) = new(t)
    BY <2>1, <2>2, FilledSame
  <2> HIDE DEF new
  <2>4. QED
    BY <2>1, <2>2, <2>3
<1> HIDE DEF old, new, dst
<1>4. \A u \in States : u.mem \in [Buffers -> Pages] /\ u.flash \in [Banks -> [Rows -> Pages]]
  BY StatesLemma
<1>5. Touches(c, s, Copy(c, s))
  BY <1>1, <1>2, <1>4 DEF Touches
<1>6. ASSUME NEW t \in States, Same(c, s, t) PROVE Same(c, Copy(c, s), Copy(c, t))
  <2>1. /\ s.flash[c.bank] = t.flash[c.bank] /\ s.page[c.bank] = t.page[c.bank]
        /\ \A b \in BuffersOf(c) : s.mem[b] = t.mem[b]
    BY <1>6 DEF Same
  <2>2. Copy(c, s).flash[c.bank] = Copy(c, t).flash[c.bank]
    <3>1. \A u \in States : Copy(c, u).flash[c.bank] = [u.flash[c.bank] EXCEPT ![c.dstRow] = dst(u)]
      BY <1>1, <1>2, <1>4
    <3>2. dst(s) = dst(t)
      BY <1>3, <1>6
    <3>3. Copy(c, s).flash[c.bank] = [s.flash[c.bank] EXCEPT ![c.dstRow] = dst(s)]
      BY <3>1
    <3>4. Copy(c, t).flash[c.bank] = [t.flash[c.bank] EXCEPT ![c.dstRow] = dst(t)]
      BY <3>1
    <3>5. QED
      BY <2>1, <3>2, <3>3, <3>4, Zenon
  <2>3. Copy(c, s).page[c.bank] = Copy(c, t).page[c.bank]
    BY <2>1, <1>2
  <2>4. ASSUME NEW b \in BuffersOf(c) PROVE Copy(c, s).mem[b] = Copy(c, t).mem[b]
    <3>1. b \in Buffers
      BY <1>1, BuffersOfLemma, KindLemma
    <3>2. \A u \in States : Copy(c, u).mem[b] = IF b = COPY_BUF(c.bank) THEN old(u) ELSE u.mem[b]
      BY <3>1, <1>2, <1>4
    <3>3. old(s) = old(t)
      BY <1>3, <1>6
    <3>4. QED
      BY <2>1, <3>2, <3>3
  <2>5. QED
    BY <2>2, <2>3, <2>4 DEF Same
<1>7. QED
  BY <1>5, <1>6

LEMMA EraseEffect ==
    ASSUME NEW c \in Commands, NEW s \in States
    PROVE  /\ Touches(c, s, Erase(c, s))
           /\ \A t \in States : Same(c, s, t) => Same(c, Erase(c, s), Erase(c, t))
<1> DEFINE new(u) == [r \in Rows |-> IF VblkOf(r) = VblkOf(c.row) THEN Blank ELSE u.flash[c.bank][r]]
<1>1. \A u \in States : /\ Erase(c, u).mem = u.mem /\ Erase(c, u).page = u.page
                        /\ Erase(c, u).flash = [u.flash EXCEPT ![c.bank] = new(u)]
  BY DEF Erase, States
<1>2. c.bank \in Banks
  BY KindLemma
<1>3. \A t \in States : s.flash[c.bank] = t.flash[c.bank] => new(s) = new(t)
  OBVIOUS
<1> HIDE DEF new
<1>4. \A u \in States : u.flash \in [Banks -> [Rows -> Pages]]
  BY StatesLemma
<1>5. Touches(c, s, Erase(c, s))
  BY <1>1, <1>2, <1>4 DEF Touches
<1>6. ASSUME NEW t \in States, Same(c, s, t) PROVE Same(c, Erase(c, s), Erase(c, t))
  <2>1. s.flash[c.bank] = t.flash[c.bank] /\ new(s) = new(t)
    BY <1>3, <1>6 DEF Same
  <2>2. \A u \in States : Erase(c, u).flash[c.bank] = new(u)
    BY <1>1, <1>2, <1>4
  <2>3. Erase(c, s).flash[c.bank] = Erase(c, t).flash[c.bank]
    BY <2>1, <2>2
  <2>4. \A u \in States : Erase(c, u).mem = u.mem /\ Erase(c, u).page = u.page
    BY <1>1
  <2>5. /\ \A b \in BuffersOf(c) : s.mem[b] = t.mem[b]
        /\ s.page[c.bank] = t.page[c.bank]
    BY <1>6 DEF Same
  <2>6. QED
    BY <2>3, <2>4, <2>5 DEF Same
<1>7. QED
  BY <1>5, <1>6

\* A command changes only what is its own, and reads nothing else for it.
LEMMA ApplyEffect ==
    ASSUME NEW c \in Commands, NEW s \in States
    PROVE  /\ Touches(c, s, Apply(c, s))
           /\ \A t \in States : Same(c, s, t) => Same(c, Apply(c, s), Apply(c, t))
<1>1. CASE c.cmd \in IdleCmds \/ c.row = NoRow
  <2>1. \A u : Apply(c, u) = u
    BY <1>1 DEF Apply
  <2>2. QED
    BY <2>1 DEF Touches
<1>2. CASE ~(c.cmd \in IdleCmds \/ c.row = NoRow)
  <2>1. CASE c.cmd \in ReadCmds
    <3>1. \A u : Apply(c, u) = ReadOut(c, u)
      BY <1>2, <2>1 DEF Apply, ReadCmds, FirstIn, MoreIn, CopyCmds
    <3>2. QED
      BY <1>2, <2>1, <3>1, ReadOutEffect
  <2>2. CASE c.cmd \in FirstIn \cup MoreIn
    <3>1. \A u : Apply(c, u) = In(c, u)
      BY <1>2, <2>2 DEF Apply, ReadCmds, FirstIn, MoreIn, CopyCmds
    <3>2. QED
      BY <1>2, <2>2, <3>1, InEffect
  <2>3. CASE c.cmd \in CopyCmds
    <3>1. \A u : Apply(c, u) = Copy(c, u)
      BY <1>2, <2>3 DEF Apply, ReadCmds, FirstIn, MoreIn, CopyCmds
    <3>2. QED
      BY <1>2, <2>3, <3>1, CopyEffect
  <2>4. CASE c.cmd = "ERASE"
    <3>1. \A u : Apply(c, u) = Erase(c, u)
      BY <1>2, <2>4 DEF Apply, ReadCmds, FirstIn, MoreIn, CopyCmds
    <3>2. QED
      BY <3>1, EraseEffect
  <2>5. QED
    BY <1>2, <2>1, <2>2, <2>3, <2>4, KindLemma DEF Cmds
<1>3. QED
  BY <1>1, <1>2

\* States are equal when they are in every part.
LEMMA EqualStates ==
    ASSUME NEW s \in States, NEW t \in States,
           \A b \in Buffers : s.mem[b] = t.mem[b],
           \A b \in Banks : s.flash[b] = t.flash[b] /\ s.page[b] = t.page[b]
    PROVE  s = t
<1>1. s.mem = t.mem
  BY StatesLemma
<1>2. s.flash = t.flash
  BY StatesLemma
<1>3. s.page = t.page
  BY StatesLemma
<1>4. QED
  BY <1>1, <1>2, <1>3 DEF States

\* Commands of two banks that share no buffer can be done in either order.
LEMMA Commute ==
    ASSUME NEW c \in Commands, NEW d \in Commands, NEW s \in States, c.bank # d.bank,
           BuffersOf(c) \cap BuffersOf(d) = {}
    PROVE  Apply(c, Apply(d, s)) = Apply(d, Apply(c, s))
<1> DEFINE sc == Apply(c, s)
           sd == Apply(d, s)
           cd == Apply(c, sd)
           dc == Apply(d, sc)
<1>1. sc \in States /\ sd \in States
  BY ApplyLemma
<1>2. cd \in States /\ dc \in States
  BY <1>1, ApplyLemma
<1>3. /\ BuffersOf(c) \subseteq Buffers /\ BuffersOf(d) \subseteq Buffers
      /\ c.bank \in Banks /\ d.bank \in Banks
  BY BuffersOfLemma, KindLemma
<1>4. /\ Touches(c, s, sc) /\ Touches(d, s, sd)
      /\ \A t \in States : Same(c, s, t) => Same(c, sc, Apply(c, t))
      /\ \A t \in States : Same(d, s, t) => Same(d, sd, Apply(d, t))
  BY ApplyEffect
<1>5. Touches(c, sd, cd) /\ Touches(d, sc, dc)
  BY <1>1, ApplyEffect
<1> HIDE DEF sc, sd
<1>6. Same(c, s, sd) /\ Same(d, s, sc)
  BY <1>3, <1>4 DEF Same, Touches
<1>7. Same(c, sc, cd) /\ Same(d, sd, dc)
  BY <1>1, <1>4, <1>6
<1> HIDE DEF cd, dc
<1>8. ASSUME NEW b \in Buffers PROVE cd.mem[b] = dc.mem[b]
  <2>1. CASE b \in BuffersOf(c)
    BY <2>1, <1>5, <1>7 DEF Same, Touches
  <2>2. CASE b \in BuffersOf(d)
    BY <2>2, <1>5, <1>7 DEF Same, Touches
  <2>3. CASE b \notin BuffersOf(c) /\ b \notin BuffersOf(d)
    BY <2>3, <1>4, <1>5 DEF Touches
  <2>4. QED
    BY <2>1, <2>2, <2>3
<1>9. ASSUME NEW b \in Banks PROVE cd.flash[b] = dc.flash[b] /\ cd.page[b] = dc.page[b]
  <2>1. CASE b = c.bank
    BY <2>1, <1>5, <1>7 DEF Same, Touches
  <2>2. CASE b = d.bank
    BY <2>2, <1>5, <1>7 DEF Same, Touches
  <2>3. CASE b # c.bank /\ b # d.bank
    BY <2>3, <1>4, <1>5 DEF Touches
  <2>4. QED
    BY <2>1, <2>2, <2>3
<1>10. QED
  BY <1>2, <1>8, <1>9, EqualStates DEF cd, dc, sc, sd

\* The FTL can fill a buffer that a command does not use before or after it.
LEMMA WriteCommutes ==
    ASSUME NEW c \in Commands, NEW s \in States, NEW buf \in Buffers, NEW p \in Pages, buf \notin BuffersOf(c)
    PROVE  Apply(c, [s EXCEPT !.mem[buf] = p]) = [Apply(c, s) EXCEPT !.mem[buf] = p]
<1> DEFINE w(u) == [u EXCEPT !.mem[buf] = p]
           sc == Apply(c, s)
           left == Apply(c, w(s))
           right == w(sc)
<1>1. \A u \in States : /\ w(u) \in States /\ w(u).mem = [u.mem EXCEPT ![buf] = p]
                        /\ w(u).flash = u.flash /\ w(u).page = u.page
  BY DEF States
<1>2. sc \in States
  BY ApplyLemma
<1> HIDE DEF w
<1>3. left \in States /\ right \in States
  BY <1>1, <1>2, ApplyLemma
<1>4. Touches(c, s, sc) /\ \A t \in States : Same(c, s, t) => Same(c, sc, Apply(c, t))
  BY ApplyEffect
<1>5. Touches(c, w(s), left)
  BY <1>1, ApplyEffect
<1>6. \A u \in States : u.mem \in [Buffers -> Pages]
  BY StatesLemma
<1>7. c.bank \in Banks /\ BuffersOf(c) \subseteq Buffers
  BY BuffersOfLemma, KindLemma
<1>8. Same(c, s, w(s))
  BY <1>1, <1>6, <1>7 DEF Same
<1>9. Same(c, sc, left)
  BY <1>1, <1>4, <1>8
<1> HIDE DEF sc, left
<1>10. ASSUME NEW b \in Buffers PROVE left.mem[b] = right.mem[b]
  <2>1. right.mem[b] = IF b = buf THEN p ELSE sc.mem[b]
    BY <1>1, <1>2, <1>6
  <2>2. w(s).mem[b] = IF b = buf THEN p ELSE s.mem[b]
    BY <1>1, <1>6
  <2>3. CASE b \in BuffersOf(c)
    BY <2>1, <2>3, <1>9 DEF Same
  <2>4. CASE b \notin BuffersOf(c)
    BY <2>1, <2>2, <2>4, <1>4, <1>5 DEF Touches
  <2>5. QED
    BY <2>3, <2>4
<1>11. ASSUME NEW b \in Banks PROVE left.flash[b] = right.flash[b] /\ left.page[b] = right.page[b]
  <2>1. right.flash[b] = sc.flash[b] /\ right.page[b] = sc.page[b]
    BY <1>1, <1>2
  <2>2. w(s).flash[b] = s.flash[b] /\ w(s).page[b] = s.page[b]
    BY <1>1
  <2>3. CASE b = c.bank
    BY <2>1, <2>3, <1>9 DEF Same
  <2>4. CASE b # c.bank
    BY <2>1, <2>2, <2>4, <1>4, <1>5 DEF Touches
  <2>5. QED
    BY <2>3, <2>4
<1>12. left = right
  BY <1>3, <1>10, <1>11, EqualStates
<1>13. QED
  BY <1>12 DEF left, sc, w

----------------------------------------------------------------------------
(* Settled, bank by bank.                                                  *)

LEMMA LeastElement ==
    ASSUME NEW n \in Nat, NEW T, T \subseteq 0..n, T # {}
    PROVE  \E x \in T : \A y \in T : x <= y
<1> DEFINE Intervals == {0..x : x \in T}
           Less == StrictSubsetOrdering(0..n)
<1>1. IsWellFoundedOn(Less, SUBSET (0..n))
  <2>1. IsFiniteSet(0..n)
    BY FS_Interval
  <2>2. FiniteSubsetsOf(0..n) = SUBSET (0..n)
    BY <2>1, FS_FiniteSubsetsOfFinite, Zenon
  <2>3. QED
    BY <2>2, FS_StrictSubsetOrderingWellFounded, Zenon
<1>2. Intervals \subseteq SUBSET (0..n) /\ Intervals # {}
  <2>1. \A x \in T : 0..x \subseteq 0..n
    OBVIOUS
  <2>2. QED
    BY <2>1, Zenon
<1>3. PICK I \in Intervals : \A J \in Intervals : ~ (<<J, I>> \in Less)
  <2> HIDE DEF Less, Intervals
  <2>1. QED
    BY <1>1, <1>2, WFMin, Zenon
<1>4. PICK x \in T : I = 0..x
  OBVIOUS
<1>5. ASSUME NEW y \in T, y < x
      PROVE  FALSE
  <2> DEFINE J == 0..y
  <2>1. J \in Intervals
    OBVIOUS
  <2>2. J \subseteq I /\ J # I
    <3>1. x \in Nat /\ y \in Nat
      OBVIOUS
    <3>2. x \in 0..x /\ x \notin 0..y
      BY <3>1, <1>5
    <3>3. QED
      BY <3>1, <3>2, <1>4, <1>5
  <2> HIDE DEF J, Intervals
  <2>3. J \in SUBSET (0..n) /\ I \in SUBSET (0..n)
    BY <1>2, <2>1
  <2>4. <<J, I>> \in Less
    BY <2>2, <2>3, Zenon DEF StrictSubsetOrdering
  <2> HIDE DEF Less
  <2>5. QED
    BY <1>3, <2>1, <2>4
<1>6. QED
  <2>1. \A y \in T : x <= y
    BY <1>5
  <2>2. QED
    BY <2>1

\* Induction over an interval, for the set of the numbers for which the claim
\* holds: there is no least number outside it.
LEMMA UpTo ==
    ASSUME NEW N \in Nat, NEW T, 0 \in T, \A n \in 0..N-1 : n \in T => n + 1 \in T
    PROVE  \A n \in 0..N : n \in T
<1> DEFINE U == {n \in 0..N : n \notin T}
<1>1. SUFFICES ASSUME U # {} PROVE FALSE
  OBVIOUS
<1>2. PICK m \in U : \A k \in U : m <= k
  BY <1>1, LeastElement
<1>3. m \in 0..N /\ m \notin T /\ m # 0
  BY <1>2
<1>4. m - 1 \in 0..N-1 /\ ~(m <= m - 1)
  BY <1>3
<1>5. m - 1 \in T
  BY <1>2, <1>4
<1>6. QED
  BY <1>3, <1>4, <1>5

\* The states of Settled, bank by bank, when the banks are as in b.
ChainTo(f, k, b, s) == f = [n \in 0..k |-> IF n = 0 THEN s ELSE Run(b[n - 1].doing, f[n - 1])]
Chain(f, b, s) == ChainTo(f, NumBanks, b, s)

LEMMA ChainExists ==
    ASSUME NEW b, NEW s
    PROVE  \E f : Chain(f, b, s)
<1> DEFINE T == {k \in Nat : \E f : ChainTo(f, k, b, s)}
<1>1. 0 \in T
  <2> DEFINE f == [n \in 0..0 |-> s]
  <2>1. ChainTo(f, 0, b, s)
    BY DEF ChainTo
  <2>2. QED
    BY <2>1
<1>2. ASSUME NEW k \in 0..NumBanks-1, k \in T PROVE k + 1 \in T
  <2>1. PICK f : ChainTo(f, k, b, s)
    BY <1>2
  <2> DEFINE next == Run(b[k].doing, f[k])
             g == [n \in 0..k+1 |-> IF n = k + 1 THEN next ELSE f[n]]
  <2>2. k \in Nat
    BY FlashAssumption
  <2>3. \A n \in 0..k : f[n] = IF n = 0 THEN s ELSE Run(b[n - 1].doing, f[n - 1])
    BY <2>1 DEF ChainTo
  <2>4. ASSUME NEW n \in 0..k+1
        PROVE  g[n] = IF n = 0 THEN s ELSE Run(b[n - 1].doing, g[n - 1])
    <3>1. CASE n = k + 1
      <4>1. g[n] = next /\ g[n - 1] = f[k] /\ n - 1 = k /\ n # 0
        BY <3>1, <2>2
      <4>2. QED
        BY <4>1
    <3>2. CASE n # k + 1
      <4>1. n \in 0..k /\ g[n] = f[n]
        BY <3>2, <2>2
      <4>2. CASE n = 0
        BY <4>1, <4>2, <2>3
      <4>3. CASE n # 0
        <5>1. g[n - 1] = f[n - 1]
          BY <4>1, <4>3, <2>2
        <5>2. QED
          BY <4>1, <4>3, <5>1, <2>3
      <4>4. QED
        BY <4>2, <4>3
    <3>3. QED
      BY <3>1, <3>2
  <2>5. ChainTo(g, k + 1, b, s)
    BY <2>4 DEF ChainTo
  <2>6. QED
    BY <2>2, <2>5
<1> HIDE DEF T
<1>3. NumBanks \in T
  BY <1>1, <1>2, UpTo, FlashAssumption
<1>4. QED
  BY <1>3 DEF T, Chain

SettledOf(w, b, s) == Run(w, (CHOOSE f : Chain(f, b, s))[NumBanks])

LEMMA SettledLemma == Settled = SettledOf(wr, bsp, state)
BY Zenon DEF Settled, SettledOf, Chain, ChainTo

LEMMA SettledAfter == Settled' = SettledOf(wr', bsp', state')
BY Zenon DEF Settled, SettledOf, Chain, ChainTo

Bsps == [Banks -> [fsm : FsmCodes, doing : SUBSET Commands]]

LEMMA RunLemma ==
    /\ \A s : Run({}, s) = s
    /\ \A c, s : Run({c}, s) = Apply(c, s)
    /\ \A D \in SUBSET Commands, s \in States : Run(D, s) \in States
<1>1. \A c : (CHOOSE d \in {c} : TRUE) = c
  OBVIOUS
<1>2. ASSUME NEW D \in SUBSET Commands, NEW s \in States PROVE Run(D, s) \in States
  <2>1. CASE D = {}
    BY <2>1 DEF Run
  <2>2. CASE D # {}
    <3>1. (CHOOSE c \in D : TRUE) \in Commands
      BY <2>2
    <3>2. QED
      BY <2>2, <3>1, ApplyLemma DEF Run
  <2>3. QED
    BY <2>1, <2>2
<1>3. QED
  BY <1>1, <1>2 DEF Run

LEMMA ChainLemma ==
    ASSUME NEW b \in Bsps, NEW s \in States, NEW f, Chain(f, b, s)
    PROVE  /\ f[0] = s
           /\ \A n \in 0..NumBanks-1 : n \in Banks /\ f[n + 1] = Run(b[n].doing, f[n]) /\ b[n].doing \subseteq Commands
           /\ \A n \in 0..NumBanks : f[n] \in States
<1>1. NumBanks \in Nat
  BY FlashAssumption
<1>2. \A n \in 0..NumBanks : f[n] = IF n = 0 THEN s ELSE Run(b[n - 1].doing, f[n - 1])
  BY DEF Chain, ChainTo
<1>3. f[0] = s
  BY <1>1, <1>2
<1>4. ASSUME NEW n \in 0..NumBanks-1
      PROVE  n \in Banks /\ f[n + 1] = Run(b[n].doing, f[n]) /\ b[n].doing \subseteq Commands
  <2>1. n \in Banks /\ n + 1 \in 0..NumBanks /\ n + 1 # 0 /\ (n + 1) - 1 = n
    BY <1>1 DEF Banks
  <2>2. f[n + 1] = Run(b[n].doing, f[n])
    BY <1>2, <2>1
  <2>3. QED
    BY <2>1, <2>2 DEF Bsps
<1> DEFINE T == {n \in 0..NumBanks : f[n] \in States}
<1>5. 0 \in T
  BY <1>1, <1>3
<1>6. ASSUME NEW n \in 0..NumBanks-1, n \in T PROVE n + 1 \in T
  BY <1>1, <1>4, <1>6, RunLemma
<1>7. \A n \in 0..NumBanks : n \in T
  <2> HIDE DEF T
  <2>1. QED
    BY <1>1, <1>5, <1>6, UpTo
<1>8. QED
  BY <1>3, <1>4, <1>7

\* A command of another bank can be done before or after those of a bank.
LEMMA RunCommutes ==
    ASSUME NEW c \in Commands, NEW D \in SUBSET Commands, NEW s \in States,
           \A d \in D : d.bank # c.bank /\ BuffersOf(d) \cap BuffersOf(c) = {}
    PROVE  Run(D, Apply(c, s)) = Apply(c, Run(D, s))
<1>1. CASE D = {}
  BY <1>1 DEF Run
<1>2. CASE D # {}
  <2> DEFINE d == CHOOSE e \in D : TRUE
  <2>1. d \in D /\ \A u : Run(D, u) = Apply(d, u)
    BY <1>2 DEF Run
  <2> HIDE DEF d
  <2>2. Apply(d, Apply(c, s)) = Apply(c, Apply(d, s))
    BY <2>1, Commute
  <2>3. QED
    BY <2>1, <2>2
<1>3. QED
  BY <1>1, <1>2

LEMMA RunWrites ==
    ASSUME NEW D \in SUBSET Commands, NEW s \in States, NEW buf \in Buffers, NEW p \in Pages,
           \A d \in D : buf \notin BuffersOf(d)
    PROVE  Run(D, [s EXCEPT !.mem[buf] = p]) = [Run(D, s) EXCEPT !.mem[buf] = p]
<1>1. CASE D = {}
  BY <1>1 DEF Run
<1>2. CASE D # {}
  <2> DEFINE d == CHOOSE e \in D : TRUE
  <2>1. d \in D /\ \A u : Run(D, u) = Apply(d, u)
    BY <1>2 DEF Run
  <2> HIDE DEF d
  <2>2. Apply(d, [s EXCEPT !.mem[buf] = p]) = [Apply(d, s) EXCEPT !.mem[buf] = p]
    BY <2>1, WriteCommutes
  <2>3. QED
    BY <2>1, <2>2
<1>3. QED
  BY <1>1, <1>2

----------------------------------------------------------------------------
(* The steps, and what is done when.                                       *)

\* The Waiting Room and a bank hold one command at most.
OneEach ==
    /\ \A c, d \in wr : c = d
    /\ \A b \in Banks : \A c, d \in bsp[b].doing : c = d

SInv == DInv /\ OneEach

Unseen == UNCHANGED <<wr, bsp, state, resets>>

\* Few steps touch what Settled and the resets depend on.
LEMMA StepKinds ==
    ASSUME [Next]_vars
    PROVE  \/ Unseen
           \/ FtlWrites
           \/ Issue
           \/ \E bank \in Banks \cup {Top.bank} : ResetOneBank(bank)
           \/ Take
           \/ \E bank \in Banks : EnterTake(bank) \/ Finish(bank)
<1>1. CASE UNCHANGED vars
  BY <1>1 DEF vars, Unseen
<1>2. CASE Ftl
  <2>1. CASE FtlWrites
    BY <2>1
  <2>2. CASE \/ CallRead \/ CallPageRead \/ CallProgram \/ CallPageProgram \/ CallCopy \/ CallModify \/ CallErase
    BY <2>2 DEF CallRead, CallPageRead, CallProgram, CallPageProgram, CallCopy, CallModify, CallErase, Call,
                hardware, Unseen
  <2>3. CASE (\E bank \in Banks : waitBusyBank(bank)) \/ flash_finish
    BY <2>3 DEF waitBusyBank, flash_finish, Wait, hardware, counts, Unseen
  <2>4. QED
    BY <1>2, <2>1, <2>2, <2>3 DEF Ftl
<1>3. CASE Driver
  BY <1>3 DEF Driver, NextCommand, Accepted, Done, WaitedRoom, WaitedBank, Finished, ResetWait, ResetEnds,
              hardware, counts, Unseen
<1>4. CASE Timeout
  BY <1>4 DEF Timeout, RoomTimeout, DoneTimeout
<1>5. CASE Controller
  <2>1. CASE \E bank \in Banks : GetStuck(bank)
    BY <2>1 DEF GetStuck, Unseen
  <2>2. QED
    BY <1>5, <2>1 DEF Controller
<1>6. QED
  BY <1>1, <1>2, <1>3, <1>4, <1>5 DEF Next

LEMMA OneEachInit == Init => OneEach
BY DEF Init, OneEach, IdleBank

LEMMA OneEachStep == ASSUME DInv, OneEach, [Next]_vars PROVE OneEach'
<1>t. bsp \in Bsps /\ wr \subseteq Commands
  BY DEF DInv, TypeOK, Bsps
<1>1. CASE UNCHANGED <<wr, bsp>>
  BY <1>1 DEF OneEach
<1>2. CASE Issue
  BY <1>2 DEF Issue, Handed, OneEach
<1>3. ASSUME NEW bank, ResetOneBank(bank) PROVE OneEach'
  BY <1>3 DEF ResetOneBank, OneEach, IdleBank
<1>4. CASE Take
  <2>1. PICK c \in wr : bsp' = [bsp EXCEPT ![c.bank] = [fsm |-> "BANK_WAIT", doing |-> {c}]] /\ wr' = {}
    BY <1>4 DEF Take
  <2>2. \A b \in Banks : bsp'[b].doing = bsp[b].doing \/ bsp'[b].doing = {c}
    BY <2>1, <1>t DEF Bsps
  <2>3. QED
    BY <2>1, <2>2 DEF OneEach
<1>5. ASSUME NEW bank \in Banks, EnterTake(bank) PROVE OneEach'
  <2>1. wr' = wr /\ bsp' = [bsp EXCEPT ![bank].fsm = "BANK_TAKE"]
    BY <1>5 DEF EnterTake
  <2>2. \A b \in Banks : bsp'[b].doing = bsp[b].doing
    BY <2>1, <1>t DEF Bsps
  <2>3. QED
    BY <2>1, <2>2 DEF OneEach
<1>6. ASSUME NEW bank \in Banks, Finish(bank) PROVE OneEach'
  <2>1. wr' = wr /\ bsp' = [bsp EXCEPT ![bank] = IdleBank]
    BY <1>6 DEF Finish
  <2>2. \A b \in Banks : bsp'[b].doing = bsp[b].doing \/ bsp'[b].doing = {}
    BY <2>1, <1>t DEF Bsps, IdleBank
  <2>3. QED
    BY <2>1, <2>2 DEF OneEach
<1>7. Unseen \/ FtlWrites => UNCHANGED <<wr, bsp>>
  BY DEF Unseen, FtlWrites
<1>8. QED
  BY <1>1, <1>2, <1>3, <1>4, <1>5, <1>6, <1>7, StepKinds

\* A command handed over earlier shares no buffer with one of another bank.
LEMMA Disjoint ==
    ASSUME DInv
    PROVE  /\ \A b \in Banks : \A d \in bsp[b].doing : d \in Commands /\ d.bank = b
           /\ \A c, d \in Pending : c.bank # d.bank => BuffersOf(c) \cap BuffersOf(d) = {}
           /\ \A b \in Banks : bsp[b].doing \subseteq Pending
           /\ \A d \in Pending : \A x \in BuffersOf(d) : lent[x] = d.bank
           /\ bsp \in Bsps /\ wr \subseteq Commands /\ state \in States /\ wr \subseteq Pending
<1>1. \A d \in Pending : \A x \in BuffersOf(d) : lent[x] = d.bank
  BY DEF DInv, DmaOnlyOnLent
<1>2. \A c, d \in Pending : c.bank # d.bank => BuffersOf(c) \cap BuffersOf(d) = {}
  BY <1>1
<1>3. bsp \in Bsps /\ wr \subseteq Commands /\ state \in States
  BY DEF DInv, TypeOK, Bsps
<1>4. \A b \in Banks : bsp[b].doing \subseteq Pending
  BY DEF Pending
<1>5. \A b \in Banks : \A d \in bsp[b].doing : d \in Commands /\ d.bank = b
  BY <1>3 DEF DInv, BanksOwn, Bsps
<1>6. QED
  BY <1>1, <1>2, <1>3, <1>4, <1>5 DEF Pending

\* Settled of any banks and state, as a chain.
LEMMA SettledChain ==
    ASSUME NEW w, NEW b, NEW s
    PROVE  \E f : Chain(f, b, s) /\ SettledOf(w, b, s) = Run(w, f[NumBanks])
<1> DEFINE f == CHOOSE f : Chain(f, b, s)
<1>1. Chain(f, b, s)
  BY ChainExists
<1>2. QED
  BY <1>1, Zenon DEF SettledOf

\* A command added to an idle bank has its effect as if it came last.
LEMMA AddedLast ==
    ASSUME NEW b \in Bsps, NEW b2 \in Bsps, NEW s \in States, NEW f, NEW g, Chain(f, b, s), Chain(g, b2, s),
           NEW c \in Commands, b[c.bank].doing = {}, b2[c.bank].doing = {c},
           \A n \in Banks : n # c.bank =>
              /\ b2[n].doing = b[n].doing
              /\ \A d \in b[n].doing : d.bank # c.bank /\ BuffersOf(d) \cap BuffersOf(c) = {}
    PROVE  g[NumBanks] = Apply(c, f[NumBanks])
<1>1. NumBanks \in Nat /\ c.bank \in 0..NumBanks-1
  BY FlashAssumption DEF Commands, Banks
<1>2. /\ f[0] = s /\ g[0] = s
      /\ \A n \in 0..NumBanks-1 : n \in Banks /\ f[n + 1] = Run(b[n].doing, f[n]) /\ b[n].doing \subseteq Commands
      /\ \A n \in 0..NumBanks-1 : g[n + 1] = Run(b2[n].doing, g[n])
      /\ \A n \in 0..NumBanks : f[n] \in States
  BY ChainLemma
<1> DEFINE T == {n \in 0..NumBanks : g[n] = IF n <= c.bank THEN f[n] ELSE Apply(c, f[n])}
<1>3. 0 \in T
  BY <1>1, <1>2
<1>4. ASSUME NEW n \in 0..NumBanks-1, n \in T PROVE n + 1 \in T
  <2>1. n + 1 \in 0..NumBanks /\ n \in 0..NumBanks
    BY <1>1
  <2>2. CASE n < c.bank
    <3>1. g[n] = f[n] /\ b2[n].doing = b[n].doing /\ n + 1 <= c.bank
      BY <1>1, <1>2, <1>4, <2>2
    <3>2. g[n + 1] = f[n + 1]
      BY <3>1, <1>2
    <3>3. QED
      BY <2>1, <3>1, <3>2
  <2>3. CASE n = c.bank
    <3>1. g[n] = f[n] /\ ~(n + 1 <= c.bank)
      BY <1>1, <1>4, <2>3
    <3>2. f[n + 1] = Run({}, f[n]) /\ g[n + 1] = Run({c}, g[n])
      BY <1>2, <2>3
    <3>3. QED
      BY <2>1, <3>1, <3>2, RunLemma
  <2>4. CASE n > c.bank
    <3>1. g[n] = Apply(c, f[n]) /\ b2[n].doing = b[n].doing /\ ~(n + 1 <= c.bank) /\ n # c.bank
      BY <1>1, <1>2, <1>4, <2>4
    <3>2. b[n].doing \in SUBSET Commands /\ f[n] \in States /\ n \in Banks
      BY <1>2, <2>1
    <3>3. Run(b[n].doing, Apply(c, f[n])) = Apply(c, Run(b[n].doing, f[n]))
      BY <3>1, <3>2, RunCommutes
    <3>4. g[n + 1] = Apply(c, f[n + 1])
      BY <3>1, <3>3, <1>2
    <3>5. QED
      BY <2>1, <3>1, <3>4
  <2>5. QED
    BY <1>1, <2>2, <2>3, <2>4
<1>5. NumBanks \in T
  <2> HIDE DEF T
  <2>1. QED
    BY <1>1, <1>3, <1>4, UpTo
<1>6. QED
  BY <1>1, <1>5

\* A command that a bank ends could as well have been done first.
LEMMA DoneFirst ==
    ASSUME NEW b \in Bsps, NEW b2 \in Bsps, NEW s \in States, NEW f, NEW g, NEW c \in Commands,
           Chain(f, b, s), Chain(g, b2, Apply(c, s)), b[c.bank].doing = {c}, b2[c.bank].doing = {},
           \A n \in Banks : n # c.bank =>
              /\ b2[n].doing = b[n].doing
              /\ \A d \in b[n].doing : d.bank # c.bank /\ BuffersOf(d) \cap BuffersOf(c) = {}
    PROVE  g[NumBanks] = f[NumBanks]
<1>1. NumBanks \in Nat /\ c.bank \in 0..NumBanks-1 /\ Apply(c, s) \in States
  BY FlashAssumption, ApplyLemma DEF Commands, Banks
<1>2. /\ f[0] = s /\ g[0] = Apply(c, s)
      /\ \A n \in 0..NumBanks-1 : n \in Banks /\ f[n + 1] = Run(b[n].doing, f[n]) /\ b[n].doing \subseteq Commands
      /\ \A n \in 0..NumBanks-1 : g[n + 1] = Run(b2[n].doing, g[n])
      /\ \A n \in 0..NumBanks : f[n] \in States
  BY <1>1, ChainLemma
<1> DEFINE T == {n \in 0..NumBanks : g[n] = IF n <= c.bank THEN Apply(c, f[n]) ELSE f[n]}
<1>3. 0 \in T
  BY <1>1, <1>2
<1>4. ASSUME NEW n \in 0..NumBanks-1, n \in T PROVE n + 1 \in T
  <2>1. n + 1 \in 0..NumBanks /\ n \in 0..NumBanks
    BY <1>1
  <2>2. CASE n < c.bank
    <3>1. g[n] = Apply(c, f[n]) /\ b2[n].doing = b[n].doing /\ n + 1 <= c.bank /\ n # c.bank
      BY <1>1, <1>2, <1>4, <2>2
    <3>2. b[n].doing \in SUBSET Commands /\ f[n] \in States /\ n \in Banks
      BY <1>2, <2>1
    <3>3. Run(b[n].doing, Apply(c, f[n])) = Apply(c, Run(b[n].doing, f[n]))
      BY <3>1, <3>2, RunCommutes
    <3>4. g[n + 1] = Apply(c, f[n + 1])
      BY <3>1, <3>3, <1>2
    <3>5. QED
      BY <2>1, <3>1, <3>4
  <2>3. CASE n = c.bank
    <3>1. g[n] = Apply(c, f[n]) /\ ~(n + 1 <= c.bank)
      BY <1>1, <1>4, <2>3
    <3>2. f[n + 1] = Run({c}, f[n]) /\ g[n + 1] = Run({}, g[n])
      BY <1>2, <2>3
    <3>3. QED
      BY <2>1, <3>1, <3>2, RunLemma
  <2>4. CASE n > c.bank
    <3>1. g[n] = f[n] /\ b2[n].doing = b[n].doing /\ ~(n + 1 <= c.bank)
      BY <1>1, <1>2, <1>4, <2>4
    <3>2. g[n + 1] = f[n + 1]
      BY <3>1, <1>2
    <3>3. QED
      BY <2>1, <3>1, <3>2
  <2>5. QED
    BY <1>1, <2>2, <2>3, <2>4
<1>5. NumBanks \in T
  <2> HIDE DEF T
  <2>1. QED
    BY <1>1, <1>3, <1>4, UpTo
<1>6. QED
  BY <1>1, <1>5

\* Banks that do the same from the same state end in the same state.
LEMMA SameChain ==
    ASSUME NEW b \in Bsps, NEW b2 \in Bsps, NEW s \in States, NEW f, NEW g, Chain(f, b, s), Chain(g, b2, s),
           \A n \in Banks : b2[n].doing = b[n].doing
    PROVE  g[NumBanks] = f[NumBanks]
<1>1. NumBanks \in Nat
  BY FlashAssumption
<1>2. /\ f[0] = s /\ g[0] = s
      /\ \A n \in 0..NumBanks-1 : n \in Banks /\ f[n + 1] = Run(b[n].doing, f[n])
      /\ \A n \in 0..NumBanks-1 : g[n + 1] = Run(b2[n].doing, g[n])
  BY ChainLemma
<1> DEFINE T == {n \in 0..NumBanks : g[n] = f[n]}
<1>3. 0 \in T
  BY <1>1, <1>2
<1>4. ASSUME NEW n \in 0..NumBanks-1, n \in T PROVE n + 1 \in T
  BY <1>1, <1>2, <1>4
<1>5. NumBanks \in T
  <2> HIDE DEF T
  <2>1. QED
    BY <1>1, <1>3, <1>4, UpTo
<1>6. QED
  BY <1>5

\* What the FTL writes to a buffer no command uses could be written last.
LEMMA WrittenLast ==
    ASSUME NEW b \in Bsps, NEW s \in States, NEW buf \in Buffers, NEW p \in Pages, NEW f, NEW g,
           Chain(f, b, s), Chain(g, b, [s EXCEPT !.mem[buf] = p]),
           \A n \in Banks : \A d \in b[n].doing : buf \notin BuffersOf(d)
    PROVE  g[NumBanks] = [f[NumBanks] EXCEPT !.mem[buf] = p]
<1>1. NumBanks \in Nat /\ [s EXCEPT !.mem[buf] = p] \in States
  BY FlashAssumption DEF States
<1>2. /\ f[0] = s /\ g[0] = [s EXCEPT !.mem[buf] = p]
      /\ \A n \in 0..NumBanks-1 : n \in Banks /\ f[n + 1] = Run(b[n].doing, f[n]) /\ b[n].doing \subseteq Commands
      /\ \A n \in 0..NumBanks-1 : g[n + 1] = Run(b[n].doing, g[n])
      /\ \A n \in 0..NumBanks : f[n] \in States
  BY <1>1, ChainLemma
<1> DEFINE T == {n \in 0..NumBanks : g[n] = [f[n] EXCEPT !.mem[buf] = p]}
<1>3. 0 \in T
  BY <1>1, <1>2
<1>4. ASSUME NEW n \in 0..NumBanks-1, n \in T PROVE n + 1 \in T
  <2>1. n + 1 \in 0..NumBanks /\ n \in 0..NumBanks
    BY <1>1
  <2>2. b[n].doing \in SUBSET Commands /\ f[n] \in States /\ n \in Banks /\ g[n] = [f[n] EXCEPT !.mem[buf] = p]
    BY <1>2, <1>4, <2>1
  <2>3. Run(b[n].doing, [f[n] EXCEPT !.mem[buf] = p]) = [Run(b[n].doing, f[n]) EXCEPT !.mem[buf] = p]
    <3>1. \A d \in b[n].doing : buf \notin BuffersOf(d)
      BY <2>2
    <3>2. PICK D \in SUBSET Commands, u \in States : D = b[n].doing /\ u = f[n]
      BY <2>2
    <3>3. Run(D, [u EXCEPT !.mem[buf] = p]) = [Run(D, u) EXCEPT !.mem[buf] = p]
      BY <3>1, <3>2, RunWrites
    <3>4. QED
      BY <3>2, <3>3
  <2>4. g[n + 1] = [f[n + 1] EXCEPT !.mem[buf] = p]
    BY <2>2, <2>3, <1>2
  <2>5. QED
    BY <2>1, <2>4
<1>5. NumBanks \in T
  <2> HIDE DEF T
  <2>1. QED
    BY <1>1, <1>3, <1>4, UpTo
<1>6. QED
  BY <1>5

\* Settled before and after a step, as chains.
LEMMA TwoChains ==
    \E f, g : /\ Chain(f, bsp, state) /\ Settled = Run(wr, f[NumBanks])
              /\ Chain(g, bsp', state') /\ Settled' = Run(wr', g[NumBanks])
<1>1. PICK f : Chain(f, bsp, state) /\ SettledOf(wr, bsp, state) = Run(wr, f[NumBanks])
  BY SettledChain
<1>2. PICK g : Chain(g, bsp', state') /\ SettledOf(wr', bsp', state') = Run(wr', g[NumBanks])
  BY SettledChain
<1>3. QED
  BY <1>1, <1>2, SettledLemma, SettledAfter

LEMMA LastInChain ==
    ASSUME NEW b \in Bsps, NEW s \in States, NEW f, Chain(f, b, s)
    PROVE  f[NumBanks] \in States
<1>1. NumBanks \in 0..NumBanks
  BY FlashAssumption
<1>2. QED
  BY <1>1, ChainLemma

LEMMA SameSettled ==
    ASSUME SInv, SInv', wr' = wr, state' = state, \A n \in Banks : bsp'[n].doing = bsp[n].doing
    PROVE  Settled' = Settled
<1>1. PICK f, g : /\ Chain(f, bsp, state) /\ Settled = Run(wr, f[NumBanks])
                  /\ Chain(g, bsp', state') /\ Settled' = Run(wr', g[NumBanks])
  BY TwoChains
<1>2. bsp \in Bsps /\ bsp' \in Bsps /\ state \in States
  BY DEF SInv, DInv, TypeOK, Bsps
<1>3. g[NumBanks] = f[NumBanks]
  BY <1>1, <1>2, SameChain
<1>4. QED
  BY <1>1, <1>3

\* The bank takes a command that comes last in Settled.
LEMMA TakeSettles ==
    ASSUME SInv, SInv', Take
    PROVE  Settled' = Settled
<1>1. PICK c \in wr : /\ bsp' = [bsp EXCEPT ![c.bank] = [fsm |-> "BANK_WAIT", doing |-> {c}]]
                      /\ wr' = {} /\ state' = state /\ Idle(c.bank)
  BY DEF Take
<1>2. PICK f, g : /\ Chain(f, bsp, state) /\ Settled = Run(wr, f[NumBanks])
                  /\ Chain(g, bsp', state') /\ Settled' = Run(wr', g[NumBanks])
  BY TwoChains
<1>3. bsp \in Bsps /\ bsp' \in Bsps /\ state \in States /\ c \in Commands /\ c.bank \in Banks /\ wr = {c}
  BY DEF SInv, OneEach, DInv, TypeOK, Bsps, Commands
<1>4. bsp[c.bank].doing = {} /\ bsp'[c.bank].doing = {c}
  BY <1>1, <1>3 DEF SInv, DInv, BanksOwn, Bsps
<1>5. ASSUME NEW n \in Banks, n # c.bank
      PROVE  /\ bsp'[n].doing = bsp[n].doing
             /\ \A d \in bsp[n].doing : d.bank # c.bank /\ BuffersOf(d) \cap BuffersOf(c) = {}
  <2>1. bsp'[n].doing = bsp[n].doing
    BY <1>1, <1>3, <1>5 DEF Bsps
  <2>2. c \in Pending
    BY DEF Pending
  <2>3. ASSUME NEW d \in bsp[n].doing PROVE d.bank # c.bank /\ BuffersOf(d) \cap BuffersOf(c) = {}
    BY <1>5, <2>2, Disjoint DEF SInv
  <2>4. QED
    BY <2>1, <2>3
<1>6. g[NumBanks] = Apply(c, f[NumBanks])
  <2>1. PICK b \in Bsps, b2 \in Bsps, s \in States : b = bsp /\ b2 = bsp' /\ s = state
    BY <1>3
  <2>2. Chain(f, b, s) /\ Chain(g, b2, s) /\ b[c.bank].doing = {} /\ b2[c.bank].doing = {c}
    BY <1>1, <1>2, <1>4, <2>1
  <2>3. \A n \in Banks : n # c.bank =>
           /\ b2[n].doing = b[n].doing
           /\ \A d \in b[n].doing : d.bank # c.bank /\ BuffersOf(d) \cap BuffersOf(c) = {}
    BY <1>5, <2>1
  <2>4. QED
    BY <1>3, <2>2, <2>3, AddedLast
<1>7. QED
  BY <1>1, <1>2, <1>3, <1>6, RunLemma

\* A bank ends a command that could as well have been done first.
LEMMA FinishSettles ==
    ASSUME SInv, SInv', NEW bank \in Banks, Finish(bank)
    PROVE  Settled' = Settled
<1>1. PICK c \in bsp[bank].doing : /\ bsp' = [bsp EXCEPT ![bank] = IdleBank]
                                   /\ wr' = wr /\ state' = Apply(c, state)
  BY DEF Finish
<1>2. PICK f, g : /\ Chain(f, bsp, state) /\ Settled = Run(wr, f[NumBanks])
                  /\ Chain(g, bsp', state') /\ Settled' = Run(wr', g[NumBanks])
  BY TwoChains
<1>3. bsp \in Bsps /\ bsp' \in Bsps /\ state \in States /\ c \in Commands /\ c.bank = bank
  BY Disjoint DEF SInv, DInv, TypeOK, Bsps
<1>4. bsp[c.bank].doing = {c} /\ bsp'[c.bank].doing = {}
  BY <1>1, <1>3 DEF SInv, OneEach, Bsps, IdleBank
<1>5. ASSUME NEW n \in Banks, n # c.bank
      PROVE  /\ bsp'[n].doing = bsp[n].doing
             /\ \A d \in bsp[n].doing : d.bank # c.bank /\ BuffersOf(d) \cap BuffersOf(c) = {}
  <2>1. bsp'[n].doing = bsp[n].doing
    BY <1>1, <1>3, <1>5 DEF Bsps
  <2>2. c \in Pending
    BY DEF Pending
  <2>3. ASSUME NEW d \in bsp[n].doing PROVE d.bank # c.bank /\ BuffersOf(d) \cap BuffersOf(c) = {}
    BY <1>5, <2>2, Disjoint DEF SInv
  <2>4. QED
    BY <2>1, <2>3
<1>6. g[NumBanks] = f[NumBanks]
  <2>1. PICK b \in Bsps, b2 \in Bsps, s \in States : b = bsp /\ b2 = bsp' /\ s = state
    BY <1>3
  <2>2. Chain(f, b, s) /\ Chain(g, b2, Apply(c, s)) /\ b[c.bank].doing = {c} /\ b2[c.bank].doing = {}
    BY <1>1, <1>2, <1>4, <2>1
  <2>3. \A n \in Banks : n # c.bank =>
           /\ b2[n].doing = b[n].doing
           /\ \A d \in b[n].doing : d.bank # c.bank /\ BuffersOf(d) \cap BuffersOf(c) = {}
    BY <1>5, <2>1
  <2>4. QED
    BY <1>3, <2>2, <2>3, DoneFirst
<1>7. QED
  BY <1>1, <1>2, <1>6

\* What the FTL does to a buffer of its own, no command in progress sees.
LEMMA WriteSettles ==
    ASSUME SInv, NEW buf \in FtlBuffers, NEW p \in Fills, lent[buf] = NoBank,
           state' = [state EXCEPT !.mem[buf] = p], wr' = wr, bsp' = bsp
    PROVE  Settled' = [Settled EXCEPT !.mem[buf] = p]
<1>1. PICK f, g : /\ Chain(f, bsp, state) /\ Settled = Run(wr, f[NumBanks])
                  /\ Chain(g, bsp', state') /\ Settled' = Run(wr', g[NumBanks])
  BY TwoChains
<1>2. bsp \in Bsps /\ state \in States /\ wr \in SUBSET Commands /\ buf \in Buffers /\ p \in Pages
  BY BanksLemma, PartsAssumption DEF SInv, DInv, TypeOK, Bsps
<1>3. \A d \in Pending : buf \notin BuffersOf(d)
  <2>1. \A d \in Pending : d.bank \in Banks
    BY <1>2 DEF Pending, Bsps, Commands
  <2>2. QED
    BY <2>1, Disjoint, BanksLemma DEF SInv
<1>4. \A n \in Banks : \A d \in bsp[n].doing : buf \notin BuffersOf(d)
  BY <1>3 DEF Pending
<1>5. g[NumBanks] = [f[NumBanks] EXCEPT !.mem[buf] = p]
  BY <1>1, <1>2, <1>4, WrittenLast
<1>6. PICK u \in States : u = f[NumBanks]
  BY <1>1, <1>2, LastInChain
<1>7. Run(wr, [u EXCEPT !.mem[buf] = p]) = [Run(wr, u) EXCEPT !.mem[buf] = p]
  <2>1. \A d \in wr : buf \notin BuffersOf(d)
    BY <1>3 DEF Pending
  <2>2. QED
    <3>1. PICK D \in SUBSET Commands : D = wr
      BY <1>2
    <3>2. \A d \in D : buf \notin BuffersOf(d)
      BY <2>1, <3>1
    <3>3. Run(D, [u EXCEPT !.mem[buf] = p]) = [Run(D, u) EXCEPT !.mem[buf] = p]
      <4>1. D \in SUBSET Commands /\ u \in States /\ buf \in Buffers /\ p \in Pages
        BY <1>2, <1>6, <3>1
      <4>2. QED
        BY <3>2, <4>1, RunWrites
    <3>4. QED
      BY <3>1, <3>3
<1>8. QED
  BY <1>1, <1>5, <1>6, <1>7

\* The command that is handed over comes last in Settled.
LEMMA IssueSettles ==
    ASSUME SInv, Issue
    PROVE  Settled' = Apply(Registers, Settled)
<1>1. wr = {} /\ wr' = {Registers} /\ bsp' = bsp /\ state' = state
  BY DEF Issue, RoomEmpty, Handed
<1>2. Settled = Run(wr, (CHOOSE f : Chain(f, bsp, state))[NumBanks])
  BY SettledLemma DEF SettledOf
<1>3. Settled' = Run(wr', (CHOOSE f : Chain(f, bsp, state))[NumBanks])
  BY <1>1, SettledAfter DEF SettledOf
<1>4. QED
  BY <1>1, <1>2, <1>3, RunLemma

----------------------------------------------------------------------------
(* The refinement.                                                         *)

LEMMA SyncOperators ==
    /\ Sync!Commands = Commands /\ Sync!Pages = Pages
    /\ \A c, s : Sync!Apply(c, s) = Apply(c, s)
<1>1. Sync!Commands = Commands /\ Sync!Pages = Pages
  BY DEF Sync!Commands, Commands, Sync!Pages, Pages, Sync!Cmds, Cmds, Sync!ReadCmds, ReadCmds, Sync!FirstIn, FirstIn,
         Sync!MoreIn, MoreIn, Sync!CopyCmds, CopyCmds, Sync!IdleCmds, IdleCmds, Sync!Banks, Banks,
         Sync!Buffers, Buffers, Sync!Rows, Rows, Sync!NoRow, NoRow, Sync!Sectors, Sectors, Sync!Contents, Contents
<1>2. ASSUME NEW c, NEW s PROVE Sync!Apply(c, s) = Apply(c, s)
  <2>1. Sync!ReadOut(c, s) = ReadOut(c, s)
    BY Zenon DEF Sync!ReadOut, ReadOut, Sync!Covers, Covers, Sync!Sectors, Sectors
  <2>2. Sync!In(c, s) = In(c, s)
    BY Zenon DEF Sync!In, In, Sync!Filled, Filled, Sync!Covers, Covers, Sync!InBuffer, InBuffer, Sync!Sectors, Sectors,
         Sync!FirstIn, FirstIn, Sync!ProgCmds, ProgCmds, Sync!Blank, Blank, Sync!Programmed, Programmed
  <2>3. Sync!Copy(c, s) = Copy(c, s)
    BY Zenon DEF Sync!Copy, Copy, Sync!Filled, Filled, Sync!Covers, Covers, Sync!InBuffer, InBuffer,
         Sync!Sectors, Sectors, Sync!Programmed, Programmed, Sync!COPY_BUF, COPY_BUF
  <2>4. Sync!Erase(c, s) = Erase(c, s)
    BY Zenon DEF Sync!Erase, Erase, Sync!VblkOf, VblkOf, Sync!Rows, Rows, Sync!Blank, Blank, Sync!Sectors, Sectors
  <2>5. QED
    BY <2>1, <2>2, <2>3, <2>4, Zenon DEF Sync!Apply, Apply, Sync!IdleCmds, IdleCmds, Sync!NoRow, NoRow,
         Sync!ReadCmds, ReadCmds, Sync!FirstIn, FirstIn, Sync!MoreIn, MoreIn, Sync!CopyCmds, CopyCmds
<1>3. QED
  BY <1>1, <1>2

\* To the FTL every command takes effect, whole, when flash_issue_cmd hands it
\* over, in the order of the calls, until the controller is reset.
THEOREM Refinement == Spec => SeemsSynchronous
<1>1. Init => Sync!Init
  <2>. SUFFICES ASSUME Init PROVE Sync!Init
    OBVIOUS
  <2>1. fcp \in Fcps /\ resets = 0
    BY InitLemma DEF Init, DInv, TypeOK, Fcps
  <2>2. QED
    BY <2>1, CommandLemma, SyncOperators DEF Sync!Init, Registers
<1>2. SInv /\ [Next]_vars => SInv'
  BY InvStep, OneEachStep DEF SInv
<1>3. SInv /\ SInv' /\ [Next]_vars => [Sync!Next]_<<Registers, Settled, resets = 0>>
  <2>. SUFFICES ASSUME SInv, SInv', [Next]_vars
                PROVE  Sync!Next \/ UNCHANGED <<Registers, Settled, resets = 0>>
    OBVIOUS
  <2>1. Registers' \in Sync!Commands
    <3>1. fcp' \in Fcps
      BY DEF SInv, DInv, TypeOK, Fcps
    <3>2. Command(fcp') \in Commands
      BY <3>1, CommandLemma
    <3>3. QED
      BY <3>2, SyncOperators DEF Registers, Command
  <2>2. resets \in Nat
    BY DEF SInv, DInv, TypeOK
  <2>3. CASE resets # 0
    <3>1. resets' = resets \/ resets' = resets + 1
      BY StepKinds DEF Unseen, FtlWrites, counts, Issue, Handed, ResetOneBank, Take, EnterTake, Finish
    <3>2. QED
      BY <2>2, <2>3, <3>1 DEF Sync!Next, Sync!Reset
  <2>4. CASE resets = 0
    <3>1. CASE Unseen
      <4>1. Settled' = Settled
        BY <3>1, SameSettled DEF Unseen
      <4>2. QED
        BY <2>1, <2>4, <3>1, <4>1 DEF Sync!Next, Sync!Ask, Unseen
    <3>2. CASE FtlWrites
      <4>1. PICK buf \in FtlBuffers, p \in Fills :
              /\ lent[buf] = NoBank /\ state' = [state EXCEPT !.mem[buf] = p]
              /\ wr' = wr /\ bsp' = bsp /\ fcp' = fcp /\ resets' = resets
        BY <3>2 DEF FtlWrites, firmware, counts
      <4>2. Settled' = [Settled EXCEPT !.mem[buf] = p]
        BY <4>1, WriteSettles
      <4>3. Registers' = Registers
        BY <4>1 DEF Registers
      <4>4. buf \in 0..(NumBuffers - 1) /\ p \in Sync!Pages
        BY PartsAssumption, SyncOperators DEF FtlBuffers
      <4>5. QED
        BY <2>4, <4>1, <4>2, <4>3, <4>4 DEF Sync!Next, Sync!FtlWrites
    <3>3. CASE Issue
      <4>1. Settled' = Sync!Apply(Registers, Settled)
        BY <3>3, IssueSettles, SyncOperators
      <4>2. Registers' = Registers /\ resets' = resets
        BY <3>3 DEF Issue, Handed, counts, Registers
      <4>3. QED
        BY <2>4, <4>1, <4>2 DEF Sync!Next, Sync!Execute
    <3>4. ASSUME NEW bank, ResetOneBank(bank) PROVE Sync!Next
      <4>1. resets' = resets + 1
        BY <3>4 DEF ResetOneBank
      <4>2. QED
        BY <2>4, <4>1 DEF Sync!Next, Sync!Reset
    <3>5. CASE Take
      <4>1. Settled' = Settled
        BY <3>5, TakeSettles
      <4>2. Registers' = Registers /\ resets' = resets
        BY <3>5 DEF Take, firmware, counts, Registers
      <4>3. QED
        BY <4>1, <4>2
    <3>6. ASSUME NEW bank \in Banks, EnterTake(bank)
          PROVE  UNCHANGED <<Registers, Settled, resets = 0>>
      <4>1. \A n \in Banks : bsp'[n].doing = bsp[n].doing
        BY <3>6 DEF EnterTake, SInv, DInv, TypeOK
      <4>2. Settled' = Settled
        BY <3>6, <4>1, SameSettled DEF EnterTake
      <4>3. Registers' = Registers /\ resets' = resets
        BY <3>6 DEF EnterTake, firmware, counts, Registers
      <4>4. QED
        BY <4>2, <4>3
    <3>7. ASSUME NEW bank \in Banks, Finish(bank)
          PROVE  UNCHANGED <<Registers, Settled, resets = 0>>
      <4>1. Settled' = Settled
        BY <3>7, FinishSettles
      <4>2. Registers' = Registers /\ resets' = resets
        BY <3>7 DEF Finish, firmware, counts, Registers
      <4>3. QED
        BY <4>1, <4>2
    <3>8. QED
      BY <3>1, <3>2, <3>3, <3>4, <3>5, <3>6, <3>7, StepKinds
  <2>5. QED
    BY <2>3, <2>4
<1>4. Init => SInv
  BY InitLemma, OneEachInit DEF SInv
<1>5. QED
  BY <1>1, <1>2, <1>3, <1>4, PTL DEF Spec, SeemsSynchronous, Sync!Spec

----------------------------------------------------------------------------
(* The outcome of a wrapper, command by command.                           *)

RegsTo(f, k, steps, old) == f = [n \in 0..k |-> IF n = 0 THEN old ELSE SetRegs(f[n - 1], steps[n].regs)]
DoneTo(g, k, f, s) == g = [n \in 0..k |-> IF n = 0 THEN s ELSE Apply(Command(f[n]), g[n - 1])]

LEMMA RegsExist ==
    ASSUME NEW K \in Nat, NEW steps, NEW old
    PROVE  \E f : RegsTo(f, K, steps, old)
<1> DEFINE T == {k \in Nat : \E f : RegsTo(f, k, steps, old)}
<1>1. 0 \in T
  <2> DEFINE f == [n \in 0..0 |-> old]
  <2>1. RegsTo(f, 0, steps, old)
    BY DEF RegsTo
  <2>2. QED
    BY <2>1
<1>2. ASSUME NEW k \in 0..K-1, k \in T PROVE k + 1 \in T
  <2>1. PICK f : RegsTo(f, k, steps, old)
    BY <1>2
  <2> DEFINE next == SetRegs(f[k], steps[k + 1].regs)
             g == [n \in 0..k+1 |-> IF n = k + 1 THEN next ELSE f[n]]
  <2>2. \A n \in 0..k : f[n] = IF n = 0 THEN old ELSE SetRegs(f[n - 1], steps[n].regs)
    BY <2>1 DEF RegsTo
  <2>3. ASSUME NEW n \in 0..k+1
        PROVE  g[n] = IF n = 0 THEN old ELSE SetRegs(g[n - 1], steps[n].regs)
    <3>1. CASE n = k + 1
      <4>1. g[n] = next /\ g[n - 1] = f[k] /\ n # 0
        BY <3>1
      <4>2. QED
        BY <4>1, <3>1
    <3>2. CASE n # k + 1
      <4>1. n \in 0..k /\ g[n] = f[n]
        BY <3>2
      <4>2. n # 0 => g[n - 1] = f[n - 1]
        BY <4>1
      <4>3. QED
        BY <4>1, <4>2, <2>2
    <3>3. QED
      BY <3>1, <3>2
  <2>4. RegsTo(g, k + 1, steps, old)
    BY <2>3 DEF RegsTo
  <2>5. QED
    BY <2>4
<1> HIDE DEF T
<1>3. K \in T
  BY <1>1, <1>2, UpTo
<1>4. QED
  BY <1>3 DEF T

LEMMA DoneExists ==
    ASSUME NEW K \in Nat, NEW r, NEW s
    PROVE  \E f : DoneTo(f, K, r, s)
<1> DEFINE T == {k \in Nat : \E f : DoneTo(f, k, r, s)}
<1>1. 0 \in T
  <2> DEFINE f == [n \in 0..0 |-> s]
  <2>1. DoneTo(f, 0, r, s)
    BY DEF DoneTo
  <2>2. QED
    BY <2>1
<1>2. ASSUME NEW k \in 0..K-1, k \in T PROVE k + 1 \in T
  <2>1. PICK f : DoneTo(f, k, r, s)
    BY <1>2
  <2> DEFINE next == Apply(Command(r[k + 1]), f[k])
             g == [n \in 0..k+1 |-> IF n = k + 1 THEN next ELSE f[n]]
  <2>2. \A n \in 0..k : f[n] = IF n = 0 THEN s ELSE Apply(Command(r[n]), f[n - 1])
    BY <2>1 DEF DoneTo
  <2>3. ASSUME NEW n \in 0..k+1
        PROVE  g[n] = IF n = 0 THEN s ELSE Apply(Command(r[n]), g[n - 1])
    <3>1. CASE n = k + 1
      <4>1. g[n] = next /\ g[n - 1] = f[k] /\ n # 0
        BY <3>1
      <4>2. QED
        BY <4>1, <3>1
    <3>2. CASE n # k + 1
      <4>1. n \in 0..k /\ g[n] = f[n]
        BY <3>2
      <4>2. n # 0 => g[n - 1] = f[n - 1]
        BY <4>1
      <4>3. QED
        BY <4>1, <4>2, <2>2
    <3>3. QED
      BY <3>1, <3>2
  <2>4. DoneTo(g, k + 1, r, s)
    BY <2>3 DEF DoneTo
  <2>5. QED
    BY <2>4
<1> HIDE DEF T
<1>3. K \in T
  BY <1>1, <1>2, UpTo
<1>4. QED
  BY <1>3 DEF T

\* Outcome goes through the registers f and the states g after each command.
Through(f, g, steps, old, s) ==
    /\ f[0] = old /\ g[0] = s /\ Outcome(steps, old, s) = g[Len(steps)]
    /\ \A n \in 1..Len(steps) : f[n] = SetRegs(f[n - 1], steps[n].regs)
    /\ \A n \in 1..Len(steps) : g[n] = Apply(Command(f[n]), g[n - 1])

LEMMA OutcomeLemma ==
    ASSUME NEW steps, Len(steps) \in Nat, NEW old, NEW s
    PROVE  \E f, g : Through(f, g, steps, old, s)
<1> DEFINE f == CHOOSE f : RegsTo(f, Len(steps), steps, old)
           g == CHOOSE g : DoneTo(g, Len(steps), f, s)
<1>1. RegsTo(f, Len(steps), steps, old)
  BY RegsExist
<1>2. DoneTo(g, Len(steps), f, s)
  <2> HIDE DEF f
  <2>1. QED
    BY DoneExists
<1>3. Outcome(steps, old, s) = g[Len(steps)]
  BY Zenon DEF Outcome, RegsTo, DoneTo
<1> HIDE DEF f, g
<1>4. \A n \in 0..Len(steps) : f[n] = IF n = 0 THEN old ELSE SetRegs(f[n - 1], steps[n].regs)
  BY <1>1 DEF RegsTo
<1>5. \A n \in 0..Len(steps) : g[n] = IF n = 0 THEN s ELSE Apply(Command(f[n]), g[n - 1])
  BY <1>2 DEF DoneTo
<1>6. QED
  <2>1. f[0] = old /\ g[0] = s
    BY <1>4, <1>5
  <2>2. \A n \in 1..Len(steps) : f[n] = SetRegs(f[n - 1], steps[n].regs)
    BY <1>4
  <2>3. \A n \in 1..Len(steps) : g[n] = Apply(Command(f[n]), g[n - 1])
    BY <1>5
  <2>4. Through(f, g, steps, old, s)
    BY <1>3, <2>1, <2>2, <2>3 DEF Through
  <2>5. QED
    BY <2>4

\* A register holds what a step sets or what it held before, and the command
\* that is handed over has the row of its bank.
LEMMA RegsLemma ==
    ASSUME NEW old \in Fcps, NEW regs \in Settings, GoodSettings(regs), NEW new, new = SetRegs(old, regs)
    PROVE  /\ new \in Fcps
           /\ \A f \in Fields \ {"row"} : new[f] = IF f \in DOMAIN regs THEN regs[f] ELSE old[f]
           /\ \A b \in Banks : new.row[b]
                                  = IF "row" \in DOMAIN regs /\ b = regs.bank THEN regs.row ELSE old.row[b]
<1>1. DOMAIN old = Fields /\ old.row \in [Banks -> Rows \cup {NoRow}]
  BY DEF Fcps, Fields
<1>2. new
      = [f \in Fields |-> IF f \notin DOMAIN regs THEN old[f]
           ELSE IF f = "row" THEN [old.row EXCEPT ![regs.bank] = regs.row] ELSE regs[f]]
  BY <1>1 DEF SetRegs
<1>3. \A f \in Fields \ {"row"} : new[f] = IF f \in DOMAIN regs THEN regs[f] ELSE old[f]
  BY <1>2
<1>4. new.row = IF "row" \notin DOMAIN regs THEN old.row ELSE [old.row EXCEPT ![regs.bank] = regs.row]
  BY <1>2 DEF Fields
<1>5. \A b \in Banks : new.row[b]
                          = IF "row" \in DOMAIN regs /\ b = regs.bank THEN regs.row ELSE old.row[b]
  BY <1>1, <1>4
<1>6. QED
  BY <1>3, <1>5, SetRegsLemma

LEMMA CommandFields ==
    ASSUME NEW r \in Fcps
    PROVE  /\ Command(r) \in Commands
           /\ Command(r).cmd = r.cmd /\ Command(r).bank = r.bank /\ Command(r).buf = r.buf /\ Command(r).off = r.off
           /\ Command(r).cnt = r.cnt /\ Command(r).col = r.col /\ Command(r).dstRow = r.dstRow
           /\ Command(r).dstCol = r.dstCol /\ Command(r).row = r.row[r.bank]
           /\ r.bank \in Banks
<1>1. Command(r) \in Commands
  BY CommandLemma
<1>2. QED
  BY <1>1 DEF Command, Fcps

\* The registers after each of the steps of a copy.
LEMMA AfterReadOut ==
    ASSUME NEW old \in Fcps, NEW bank \in Banks, NEW buf \in Buffers, NEW cnt \in Int, NEW row \in Rows,
           NEW r, NEW regs,
           regs = [cmd |-> "COL_ROW_READ_OUT", bank |-> bank, buf |-> buf, off |-> 0, cnt |-> cnt, col |-> 0,
                   row |-> row],
           r = SetRegs(old, regs)
    PROVE  /\ r \in Fcps /\ r.cmd = "COL_ROW_READ_OUT" /\ r.bank = bank /\ r.buf = buf /\ r.off = 0 /\ r.cnt = cnt
           /\ r.col = 0 /\ r.row[bank] = row
<1>1. regs \in Settings /\ GoodSettings(regs)
  BY ReadOutSettings
<1>2. DOMAIN regs = {"cmd", "bank", "buf", "off", "cnt", "col", "row"} /\ regs.bank = bank /\ regs.row = row
      /\ regs.cmd = "COL_ROW_READ_OUT" /\ regs.buf = buf /\ regs.off = 0 /\ regs.cnt = cnt /\ regs.col = 0
  OBVIOUS
<1>3. QED
  BY <1>1, <1>2, RegsLemma DEF Fields

LEMMA AfterProgRest ==
    ASSUME NEW old \in Fcps, NEW bank \in Banks, NEW row \in Rows, NEW r, NEW regs,
           regs = [cmd |-> "COL_ROW_IN_PROG", bank |-> bank, row |-> row],
           r = SetRegs(old, regs)
    PROVE  /\ r \in Fcps /\ r.cmd = "COL_ROW_IN_PROG" /\ r.bank = bank /\ r.buf = old.buf /\ r.off = old.off
           /\ r.cnt = old.cnt /\ r.col = old.col /\ r.row[bank] = row
<1>1. regs \in Settings /\ GoodSettings(regs)
  BY InProgRestSettings
<1>2. DOMAIN regs = {"cmd", "bank", "row"} /\ regs.bank = bank /\ regs.row = row /\ regs.cmd = "COL_ROW_IN_PROG"
  OBVIOUS
<1>3. QED
  BY <1>1, <1>2, RegsLemma DEF Fields

LEMMA AfterCopyback ==
    ASSUME NEW old \in Fcps, NEW bank \in Banks, NEW row \in Rows, NEW dstRow \in Rows, NEW r, NEW regs,
           regs = [cmd |-> "COPYBACK", bank |-> bank, col |-> 0, row |-> row, dstRow |-> dstRow, dstCol |-> 0],
           r = SetRegs(old, regs)
    PROVE  r \in Fcps /\ r.cmd = "COPYBACK" /\ r.bank = bank /\ r.row[bank] = row /\ r.dstRow = dstRow
<1>1. regs \in Settings /\ GoodSettings(regs)
  BY CopybackSettings
<1>2. DOMAIN regs = {"cmd", "bank", "col", "row", "dstRow", "dstCol"} /\ regs.bank = bank /\ regs.row = row
      /\ regs.cmd = "COPYBACK" /\ regs.dstRow = dstRow
  OBVIOUS
<1>3. QED
  BY <1>1, <1>2, RegsLemma DEF Fields

LEMMA AfterModify ==
    ASSUME NEW old \in Fcps, NEW bank \in Banks, NEW buf \in Buffers, NEW off \in Int, NEW cnt \in Int,
           NEW row \in Rows, NEW dstRow \in Rows, NEW dstCol \in Int, NEW r, NEW regs,
           regs = [cmd |-> "MODIFY_COPYBACK", bank |-> bank, buf |-> buf, off |-> off, cnt |-> cnt, col |-> 0,
                   row |-> row, dstRow |-> dstRow, dstCol |-> dstCol],
           r = SetRegs(old, regs)
    PROVE  /\ r \in Fcps /\ r.cmd = "MODIFY_COPYBACK" /\ r.bank = bank /\ r.buf = buf /\ r.off = off /\ r.cnt = cnt
           /\ r.row[bank] = row /\ r.dstRow = dstRow /\ r.dstCol = dstCol
<1>1. regs \in Settings /\ GoodSettings(regs)
  BY ModifySettings
<1>2. DOMAIN regs = {"cmd", "bank", "buf", "off", "cnt", "col", "row", "dstRow", "dstCol"} /\ regs.bank = bank
      /\ regs.row = row /\ regs.cmd = "MODIFY_COPYBACK" /\ regs.dstRow = dstRow /\ regs.buf = buf
      /\ regs.off = off /\ regs.cnt = cnt /\ regs.dstCol = dstCol
  OBVIOUS
<1>3. QED
  BY <1>1, <1>2, RegsLemma DEF Fields

LEMMA AfterColRowIn ==
    ASSUME NEW old \in Fcps, NEW bank \in Banks, NEW cnt \in Int, NEW row \in Rows, NEW r, NEW regs,
           regs = [cmd |-> "COL_ROW_IN", bank |-> bank, cnt |-> cnt, col |-> 0, row |-> row],
           r = SetRegs(old, regs)
    PROVE  /\ r \in Fcps /\ r.cmd = "COL_ROW_IN" /\ r.bank = bank /\ r.buf = old.buf /\ r.off = old.off
           /\ r.cnt = cnt /\ r.col = 0 /\ r.row[bank] = row
<1>1. regs \in Settings /\ GoodSettings(regs)
  BY ColRowInSettings
<1>2. DOMAIN regs = {"cmd", "bank", "cnt", "col", "row"} /\ regs.bank = bank /\ regs.row = row
      /\ regs.cmd = "COL_ROW_IN" /\ regs.cnt = cnt /\ regs.col = 0
  OBVIOUS
<1>3. QED
  <2>1. /\ r \in Fcps
        /\ \A f \in Fields \ {"row"} : r[f] = IF f \in DOMAIN regs THEN regs[f] ELSE old[f]
        /\ \A b \in Banks : r.row[b] = IF "row" \in DOMAIN regs /\ b = regs.bank THEN regs.row ELSE old.row[b]
    BY <1>1, RegsLemma
  <2>2. r.row[bank] = row
    BY <1>2, <2>1
  <2>3. QED
    BY <1>2, <2>1, <2>2 DEF Fields

LEMMA AfterIn ==
    ASSUME NEW old \in Fcps, NEW bank \in Banks, NEW buf \in Buffers, NEW off \in Int, NEW cnt \in Int, NEW col \in Int,
           NEW cmd \in MoreIn, NEW r, NEW regs,
           regs = [cmd |-> cmd, bank |-> bank, buf |-> buf, off |-> off, cnt |-> cnt, col |-> col],
           r = SetRegs(old, regs)
    PROVE  /\ r \in Fcps /\ r.cmd = cmd /\ r.bank = bank /\ r.buf = buf /\ r.off = off
           /\ r.cnt = cnt /\ r.col = col /\ r.row[bank] = old.row[bank]
<1>1. regs \in Settings /\ GoodSettings(regs)
  BY InSettings, InProgEndSettings DEF MoreIn
<1>2. DOMAIN regs = {"cmd", "bank", "buf", "off", "cnt", "col"} /\ regs.bank = bank
      /\ regs.cmd = cmd /\ regs.cnt = cnt /\ regs.col = col /\ regs.off = off /\ regs.buf = buf
  OBVIOUS
<1>3. QED
  <2>1. /\ r \in Fcps
        /\ \A f \in Fields \ {"row"} : r[f] = IF f \in DOMAIN regs THEN regs[f] ELSE old[f]
        /\ \A b \in Banks : r.row[b] = IF "row" \in DOMAIN regs /\ b = regs.bank THEN regs.row ELSE old.row[b]
    BY <1>1, RegsLemma
  <2>2. r.row[bank] = old.row[bank]
    BY <1>2, <2>1
  <2>3. QED
    BY <1>2, <2>1, <2>2 DEF Fields

----------------------------------------------------------------------------
(* What the commands of a copy do to pages.                                *)

\* A page is read whole.
LEMMA WholePageRead ==
    ASSUME NEW c \in Commands, NEW s \in States, c.cmd = "COL_ROW_READ_OUT", c.row \in Rows, c.off = 0, c.col = 0,
           c.cnt = SectorsPerPage
    PROVE  /\ Apply(c, s) \in States
           /\ Apply(c, s).flash = s.flash /\ Apply(c, s).page = s.page
           /\ Apply(c, s).mem[c.buf] = s.flash[c.bank][c.row]
           /\ \A b \in Buffers \ {c.buf} : Apply(c, s).mem[b] = s.mem[b]
<1>1. c.row # NoRow /\ c.bank \in Banks /\ c.buf \in Buffers
  BY BanksLemma, KindLemma DEF NoRow, Rows
<1>2. Apply(c, s) = ReadOut(c, s)
  <2>1. /\ c.cmd \notin IdleCmds /\ c.cmd \in ReadCmds /\ c.cmd \notin FirstIn \cup MoreIn
        /\ c.cmd \notin CopyCmds /\ c.cmd # "ERASE"
    BY DEF IdleCmds, ReadCmds, FirstIn, MoreIn, CopyCmds
  <2>2. QED
    BY <1>1, <2>1 DEF Apply
<1>3. s.flash[c.bank][c.row] \in Pages
  BY <1>1, StatesLemma
<1>4. \A i \in Sectors : Covers(c, 0, i - 0) /\ (i - 0) \in Sectors
  BY FlashAssumption DEF Covers, Sectors
<1>5. /\ Apply(c, s).flash = s.flash /\ Apply(c, s).page = s.page
      /\ Apply(c, s).mem = [s.mem EXCEPT ![c.buf] = [i \in Sectors |->
            IF Covers(c, c.col, i - c.off) /\ (i - c.off) \in Sectors
            THEN s.flash[c.bank][c.row][i - c.off] ELSE s.mem[c.buf][i]]]
  BY <1>2 DEF ReadOut, States
<1>6. [i \in Sectors |-> IF Covers(c, c.col, i - c.off) /\ (i - c.off) \in Sectors
                         THEN s.flash[c.bank][c.row][i - c.off] ELSE s.mem[c.buf][i]]
      = s.flash[c.bank][c.row]
  <2>1. \A i \in Sectors : i - 0 = i
    BY DEF Sectors
  <2>2. QED
    BY <1>3, <1>4, <2>1 DEF Pages
<1>7. QED
  BY <1>1, <1>5, <1>6, ApplyLemma, StatesLemma

\* The page register is filled, and programmed or not.
LEMMA PageIn ==
    ASSUME NEW c \in Commands, NEW s \in States, c.cmd \in FirstIn \cup MoreIn, c.row \in Rows
    PROVE  /\ Apply(c, s) \in States /\ Apply(c, s).mem = s.mem
           /\ Apply(c, s).page[c.bank]
              = Filled(c, c.col, IF c.cmd \in FirstIn THEN Blank ELSE s.page[c.bank], s)
           /\ c.cmd \notin ProgCmds => Apply(c, s).flash = s.flash
           /\ c.cmd \in ProgCmds
              => Apply(c, s).flash = [s.flash EXCEPT ![c.bank][c.row]
                                         = Programmed(s.flash[c.bank][c.row], Apply(c, s).page[c.bank])]
<1> DEFINE reg == Filled(c, c.col, IF c.cmd \in FirstIn THEN Blank ELSE s.page[c.bank], s)
           old == s.flash[c.bank][c.row]
           page == IF c.cmd \in ProgCmds THEN Programmed(old, reg) ELSE old
<1>1. c.row # NoRow /\ c.bank \in Banks
  BY BanksLemma, KindLemma DEF NoRow, Rows
<1>2. Apply(c, s) = In(c, s)
  <2>1. c.cmd \notin IdleCmds /\ c.cmd \notin ReadCmds /\ c.cmd \notin CopyCmds /\ c.cmd # "ERASE"
    BY DEF IdleCmds, ReadCmds, FirstIn, MoreIn, CopyCmds
  <2>2. QED
    BY <1>1, <2>1 DEF Apply
<1>3. /\ Apply(c, s).mem = s.mem
      /\ Apply(c, s).page = [s.page EXCEPT ![c.bank] = reg]
      /\ Apply(c, s).flash = [s.flash EXCEPT ![c.bank] = [s.flash[c.bank] EXCEPT ![c.row] = page]]
  BY <1>2 DEF In, States
<1> HIDE DEF reg
<1>4. Apply(c, s).page[c.bank] = reg
  BY <1>1, <1>3, StatesLemma
<1>5. s.flash \in [Banks -> [Rows -> Pages]]
  BY StatesLemma
<1>6. ASSUME c.cmd \notin ProgCmds PROVE Apply(c, s).flash = s.flash
  <2>1. page = old
    BY <1>6
  <2>2. [s.flash[c.bank] EXCEPT ![c.row] = old] = s.flash[c.bank]
    BY <1>1, <1>5
  <2>3. [s.flash EXCEPT ![c.bank] = s.flash[c.bank]] = s.flash
    BY <1>1, <1>5
  <2>4. QED
    BY <1>3, <2>1, <2>2, <2>3
<1>7. ASSUME c.cmd \in ProgCmds
      PROVE  Apply(c, s).flash = [s.flash EXCEPT ![c.bank][c.row] = Programmed(old, Apply(c, s).page[c.bank])]
  BY <1>3, <1>4, <1>7
<1>8. QED
  BY <1>3, <1>4, <1>6, <1>7, ApplyLemma DEF reg

LEMMA PageCopy ==
    ASSUME NEW c \in Commands, NEW s \in States, c.cmd \in CopyCmds, c.row \in Rows
    PROVE  Apply(c, s).flash
           = [s.flash EXCEPT ![c.bank][c.dstRow]
                 = Programmed(s.flash[c.bank][c.dstRow],
                              IF c.cmd = "COPYBACK" THEN s.flash[c.bank][c.row]
                              ELSE Filled(c, c.dstCol, s.flash[c.bank][c.row], s))]
<1>1. c.row # NoRow /\ c.bank \in Banks
  BY BanksLemma, KindLemma DEF NoRow, Rows
<1>2. Apply(c, s) = Copy(c, s)
  BY <1>1 DEF Apply, IdleCmds, ReadCmds, FirstIn, MoreIn, CopyCmds
<1>3. QED
  BY <1>2 DEF Copy, States

----------------------------------------------------------------------------
(* The copies.                                                             *)

LEMMA OutcomeOfOne ==
    ASSUME NEW a, NEW old, NEW s
    PROVE  Outcome(<<a>>, old, s) = Apply(Command(SetRegs(old, a.regs)), s)
<1>1. Len(<<a>>) = 1 /\ <<a>>[1] = a
  OBVIOUS
<1>2. PICK f, g : Through(f, g, <<a>>, old, s)
  BY <1>1, OutcomeLemma
<1>3. f[1] = SetRegs(f[0], a.regs) /\ g[1] = Apply(Command(f[1]), g[0])
  BY <1>1, <1>2 DEF Through
<1>4. QED
  BY <1>1, <1>2, <1>3 DEF Through

LEMMA OutcomeOfTwo ==
    ASSUME NEW a, NEW b, NEW old, NEW s
    PROVE  \E r1, r2 : /\ r1 = SetRegs(old, a.regs) /\ r2 = SetRegs(r1, b.regs)
                       /\ Outcome(<<a, b>>, old, s) = Apply(Command(r2), Apply(Command(r1), s))
<1>1. Len(<<a, b>>) = 2 /\ <<a, b>>[1] = a /\ <<a, b>>[2] = b
  OBVIOUS
<1>2. PICK f, g : Through(f, g, <<a, b>>, old, s)
  BY <1>1, OutcomeLemma
<1>3. f[1] = SetRegs(f[0], a.regs) /\ g[1] = Apply(Command(f[1]), g[0])
  BY <1>1, <1>2 DEF Through
<1>4. f[2] = SetRegs(f[1], b.regs) /\ g[2] = Apply(Command(f[2]), g[1])
  BY <1>1, <1>2 DEF Through
<1>5. QED
  BY <1>1, <1>2, <1>3, <1>4 DEF Through

LEMMA OutcomeOfFour ==
    ASSUME NEW steps, NEW old, NEW s
    PROVE  Len(steps) = 4 =>
           \E r1, r2, r3, r4 :
              /\ r1 = SetRegs(old, steps[1].regs) /\ r2 = SetRegs(r1, steps[2].regs)
              /\ r3 = SetRegs(r2, steps[3].regs) /\ r4 = SetRegs(r3, steps[4].regs)
              /\ Outcome(steps, old, s)
                 = Apply(Command(r4), Apply(Command(r3), Apply(Command(r2), Apply(Command(r1), s))))
<1>0. HAVE Len(steps) = 4
<1>1. Len(steps) \in Nat
  BY <1>0
<1>2. PICK f, g : Through(f, g, steps, old, s)
  BY <1>1, OutcomeLemma
<1>3. f[1] = SetRegs(f[0], steps[1].regs) /\ g[1] = Apply(Command(f[1]), g[0])
  BY <1>0, <1>2 DEF Through
<1>4. f[2] = SetRegs(f[1], steps[2].regs) /\ g[2] = Apply(Command(f[2]), g[1])
  BY <1>0, <1>2 DEF Through
<1>5. f[3] = SetRegs(f[2], steps[3].regs) /\ g[3] = Apply(Command(f[3]), g[2])
  BY <1>0, <1>2 DEF Through
<1>6. f[4] = SetRegs(f[3], steps[4].regs) /\ g[4] = Apply(Command(f[4]), g[3])
  BY <1>0, <1>2 DEF Through
<1>7. Outcome(steps, old, s) = Apply(Command(f[4]), Apply(Command(f[3]), Apply(Command(f[2]), Apply(Command(f[1]), s))))
  BY <1>0, <1>2, <1>3, <1>4, <1>5, <1>6 DEF Through
<1>8. QED
  BY <1>2, <1>3, <1>4, <1>5, <1>6, <1>7 DEF Through

\* Flash fl with the page new programmed to row dst of the bank.
WithPage(fl, bank, dst, new) == [fl EXCEPT ![bank][dst] = Programmed(fl[bank][dst], new)]

LEMMA InternalCopyFlash ==
    ASSUME NEW old \in Fcps, NEW s \in States, NEW bank \in Banks, NEW src \in Rows, NEW dst \in Rows
    PROVE  Outcome(InternalCopy(bank, src, dst), old, s).flash = WithPage(s.flash, bank, dst, s.flash[bank][src])
<1> DEFINE a == Step([cmd |-> "COPYBACK", bank |-> bank, col |-> 0, row |-> src, dstRow |-> dst, dstCol |-> 0],
                     "RETURN_ON_ISSUE")
           r == SetRegs(old, a.regs)
           c == Command(r)
<1>1. InternalCopy(bank, src, dst) = <<a>>
  BY DEF InternalCopy
<1>2. a.regs = [cmd |-> "COPYBACK", bank |-> bank, col |-> 0, row |-> src, dstRow |-> dst, dstCol |-> 0]
  BY DEF Step
<1> HIDE DEF a
<1>3. Outcome(InternalCopy(bank, src, dst), old, s) = Apply(c, s)
  BY <1>1, OutcomeOfOne
<1>4. r \in Fcps /\ r.cmd = "COPYBACK" /\ r.bank = bank /\ r.row[bank] = src /\ r.dstRow = dst
  BY <1>2, AfterCopyback
<1> HIDE DEF r
<1>5. c \in Commands /\ c.cmd = "COPYBACK" /\ c.bank = bank /\ c.row = src /\ c.dstRow = dst
  BY <1>4, CommandFields
<1> HIDE DEF c
<1>6. QED
  BY <1>3, <1>5, PageCopy DEF WithPage, CopyCmds

LEMMA InternalModifyFlash ==
    ASSUME NEW old \in Fcps, NEW s \in States, NEW bank \in Banks, NEW src \in Rows, NEW dst \in Rows,
           NEW col \in Int, NEW cnt \in Int, NEW buf \in Buffers
    PROVE  \E c \in Commands :
              /\ c.buf = buf /\ c.off = -col /\ c.cnt = cnt
              /\ Outcome(InternalModify(bank, src, dst, col, buf, cnt), old, s).flash
                 = WithPage(s.flash, bank, dst, Filled(c, col, s.flash[bank][src], s))
<1> DEFINE off == -col
           a == Step([cmd |-> "MODIFY_COPYBACK", bank |-> bank, buf |-> buf, off |-> off, cnt |-> cnt, col |-> 0,
                      row |-> src, dstRow |-> dst, dstCol |-> col], "RETURN_ON_ISSUE")
           r == SetRegs(old, a.regs)
           c == Command(r)
<1>1. InternalModify(bank, src, dst, col, buf, cnt) = <<a>> /\ off \in Int
  BY DEF InternalModify
<1> HIDE DEF off
<1>2. a.regs = [cmd |-> "MODIFY_COPYBACK", bank |-> bank, buf |-> buf, off |-> off, cnt |-> cnt, col |-> 0,
                row |-> src, dstRow |-> dst, dstCol |-> col]
  BY DEF Step
<1> HIDE DEF a
<1>3. Outcome(InternalModify(bank, src, dst, col, buf, cnt), old, s) = Apply(c, s)
  BY <1>1, OutcomeOfOne
<1>4. /\ r \in Fcps /\ r.cmd = "MODIFY_COPYBACK" /\ r.bank = bank /\ r.buf = buf /\ r.off = off /\ r.cnt = cnt
      /\ r.row[bank] = src /\ r.dstRow = dst /\ r.dstCol = col
  BY <1>1, <1>2, AfterModify
<1> HIDE DEF r
<1>5. /\ c \in Commands /\ c.cmd = "MODIFY_COPYBACK" /\ c.bank = bank /\ c.row = src /\ c.dstRow = dst
      /\ c.buf = buf /\ c.off = off /\ c.cnt = cnt /\ c.dstCol = col
  BY <1>4, CommandFields
<1> HIDE DEF c
<1>6. Outcome(InternalModify(bank, src, dst, col, buf, cnt), old, s).flash
      = WithPage(s.flash, bank, dst, Filled(c, col, s.flash[bank][src], s))
  <2>1. c.cmd \in CopyCmds /\ c.cmd # "COPYBACK" /\ c.row \in Rows
    BY <1>5 DEF CopyCmds
  <2>2. Apply(c, s).flash
        = [s.flash EXCEPT ![c.bank][c.dstRow]
              = Programmed(s.flash[c.bank][c.dstRow], Filled(c, c.dstCol, s.flash[c.bank][c.row], s))]
    BY <1>5, <2>1, PageCopy
  <2>3. QED
    BY <1>3, <1>5, <2>2 DEF WithPage
<1>7. QED
  BY <1>5, <1>6 DEF off

\* A page register filled from a whole page of a buffer holds that page.
LEMMA FilledWhole ==
    ASSUME NEW c, NEW s, NEW fill, NEW page \in Pages, c.off = 0, c.cnt = SectorsPerPage, s.mem[c.buf] = page
    PROVE  Filled(c, 0, fill, s) = page
<1>1. \A i \in Sectors : Covers(c, 0, i) /\ InBuffer(c, i) /\ c.off + i = i
  BY FlashAssumption DEF Covers, InBuffer, Sectors
<1>2. QED
  BY <1>1 DEF Filled, Pages

LEMMA ReadAndProgramFlash ==
    ASSUME NEW old \in Fcps, NEW s \in States, NEW bank \in Banks, NEW src \in Rows, NEW dst \in Rows
    PROVE  Outcome(ReadAndProgram(bank, src, dst), old, s).flash = WithPage(s.flash, bank, dst, s.flash[bank][src])
<1> DEFINE buf == COPY_BUF(bank)
           a == Poll([cmd |-> "COL_ROW_READ_OUT", bank |-> bank, buf |-> buf, off |-> 0, cnt |-> SectorsPerPage,
                      col |-> 0, row |-> src])
           b == Poll([cmd |-> "COL_ROW_IN_PROG", bank |-> bank, row |-> dst])
<1>1. ReadAndProgram(bank, src, dst) = <<a, b>> /\ buf \in Buffers /\ SectorsPerPage \in Int
  BY BanksLemma, FlashAssumption DEF ReadAndProgram
<1> HIDE DEF buf
<1>2. /\ a.regs = [cmd |-> "COL_ROW_READ_OUT", bank |-> bank, buf |-> buf, off |-> 0, cnt |-> SectorsPerPage,
                   col |-> 0, row |-> src]
      /\ b.regs = [cmd |-> "COL_ROW_IN_PROG", bank |-> bank, row |-> dst]
  BY DEF Poll
<1> HIDE DEF a, b
<1>3. PICK r1, r2 : /\ r1 = SetRegs(old, a.regs) /\ r2 = SetRegs(r1, b.regs)
                    /\ Outcome(<<a, b>>, old, s) = Apply(Command(r2), Apply(Command(r1), s))
  BY OutcomeOfTwo
<1>4. /\ r1 \in Fcps /\ r1.cmd = "COL_ROW_READ_OUT" /\ r1.bank = bank /\ r1.buf = buf /\ r1.off = 0
      /\ r1.cnt = SectorsPerPage /\ r1.col = 0 /\ r1.row[bank] = src
  BY <1>1, <1>2, <1>3, AfterReadOut
<1>5. /\ r2 \in Fcps /\ r2.cmd = "COL_ROW_IN_PROG" /\ r2.bank = bank /\ r2.buf = buf /\ r2.off = 0
      /\ r2.cnt = SectorsPerPage /\ r2.col = 0 /\ r2.row[bank] = dst
  BY <1>2, <1>3, <1>4, AfterProgRest
<1> DEFINE c1 == Command(r1)
           c2 == Command(r2)
           s1 == Apply(c1, s)
<1>6. /\ c1 \in Commands /\ c1.cmd = "COL_ROW_READ_OUT" /\ c1.bank = bank /\ c1.buf = buf /\ c1.off = 0
      /\ c1.cnt = SectorsPerPage /\ c1.col = 0 /\ c1.row = src
  BY <1>4, CommandFields
<1>7. /\ c2 \in Commands /\ c2.cmd = "COL_ROW_IN_PROG" /\ c2.bank = bank /\ c2.buf = buf /\ c2.off = 0
      /\ c2.cnt = SectorsPerPage /\ c2.col = 0 /\ c2.row = dst
  BY <1>5, CommandFields
<1>8. Outcome(ReadAndProgram(bank, src, dst), old, s) = Apply(c2, s1)
  BY <1>1, <1>3
<1> HIDE DEF c1, c2, s1
<1>9. s1 \in States /\ s1.flash = s.flash /\ s1.mem[buf] = s.flash[bank][src]
  BY <1>6, WholePageRead DEF s1
<1>10. s.flash[bank][src] \in Pages
  BY StatesLemma
<1>11. Apply(c2, s1).page[bank] = s.flash[bank][src]
  <2>1. Apply(c2, s1).page[bank] = Filled(c2, 0, Blank, s1)
    BY <1>7, <1>9, PageIn DEF FirstIn, MoreIn
  <2>2. QED
    BY <2>1, <1>7, <1>9, <1>10, FilledWhole
<1>12. Apply(c2, s1).flash = [s1.flash EXCEPT ![bank][dst] = Programmed(s1.flash[bank][dst], Apply(c2, s1).page[bank])]
  BY <1>7, <1>9, PageIn DEF FirstIn, MoreIn, ProgCmds
<1>13. QED
  BY <1>8, <1>9, <1>11, <1>12 DEF WithPage

\* Command c takes cnt sectors of page data, which is in its buffer, from off on.
Takes(c, s, data, off, cnt) == s.mem[c.buf] = data /\ c.off = off /\ c.cnt = cnt

\* The old page up to the new data, the new data, and the old page from there
\* on: what the three parts leave in the page register.
LEMMA FilledInParts ==
    ASSUME NEW col \in Nat, NEW cnt \in Nat, NEW end, NEW rest, NEW off, NEW old \in Pages, NEW new,
           end = col + cnt, end <= SectorsPerPage, rest = SectorsPerPage - col - cnt, off = -col,
           NEW k, NEW s, Takes(k, s, new, off, cnt),
           NEW c1, NEW s1, Takes(c1, s1, old, 0, col),
           NEW c2, NEW s2, Takes(c2, s2, new, off, cnt),
           NEW c3, NEW s3, Takes(c3, s3, old, 0, rest)
    PROVE  Filled(c3, end, Filled(c2, col, Filled(c1, 0, Blank, s1), s2), s3) = Filled(k, col, old, s)
<1> DEFINE f1 == Filled(c1, 0, Blank, s1)
           f2 == Filled(c2, col, f1, s2)
           f3 == Filled(c3, end, f2, s3)
<1>0. /\ s1.mem[c1.buf] = old /\ c1.off = 0 /\ c1.cnt = col
      /\ s2.mem[c2.buf] = new /\ c2.off = -col /\ c2.cnt = cnt
      /\ s3.mem[c3.buf] = old /\ c3.off = 0 /\ c3.cnt = SectorsPerPage - col - cnt
      /\ s.mem[k.buf] = new /\ k.off = -col /\ k.cnt = cnt
  BY DEF Takes
<1>1. SectorsPerPage \in Nat /\ Sectors = 0..SectorsPerPage-1
  BY FlashAssumption DEF Sectors
<1>2. \A i \in Sectors : f1[i] = IF i < col THEN old[i] ELSE Blank[i]
  <2>1. \A i \in Sectors : (Covers(c1, 0, i) /\ InBuffer(c1, i)) <=> i < col
    BY <1>0, <1>1 DEF Covers, InBuffer
  <2>2. \A i \in Sectors : 0 + i = i
    BY <1>1
  <2>3. QED
    BY <2>1, <2>2, <1>0 DEF Filled
<1>3. \A i \in Sectors : f2[i] = IF col <= i /\ i < col + cnt THEN new[-col + i] ELSE f1[i]
  <2>1. \A i \in Sectors : (Covers(c2, col, i) /\ InBuffer(c2, i)) <=> (col <= i /\ i < col + cnt)
    BY <1>0, <1>1 DEF Covers, InBuffer
  <2> HIDE DEF f1
  <2>2. QED
    BY <2>1, <1>0 DEF Filled
<1>4. \A i \in Sectors : f3[i] = IF col + cnt <= i THEN old[i] ELSE f2[i]
  <2>1. \A i \in Sectors : (Covers(c3, end, i) /\ InBuffer(c3, i)) <=> col + cnt <= i
    BY <1>0, <1>1 DEF Covers, InBuffer
  <2>2. \A i \in Sectors : 0 + i = i
    BY <1>1
  <2> HIDE DEF f2
  <2>3. QED
    BY <2>1, <2>2, <1>0 DEF Filled
<1>5. \A i \in Sectors : Filled(k, col, old, s)[i] = IF col <= i /\ i < col + cnt THEN new[-col + i] ELSE old[i]
  <2>1. \A i \in Sectors : (Covers(k, col, i) /\ InBuffer(k, i)) <=> (col <= i /\ i < col + cnt)
    BY <1>0, <1>1 DEF Covers, InBuffer
  <2>2. QED
    BY <2>1, <1>0 DEF Filled
<1>6. f3 = [i \in Sectors |-> f3[i]] /\ Filled(k, col, old, s) = [i \in Sectors |-> Filled(k, col, old, s)[i]]
  <2> HIDE DEF f2
  <2>1. QED
    BY DEF Filled
<1> HIDE DEF f1, f2, f3
<1>7. \A i \in Sectors : f3[i] = Filled(k, col, old, s)[i]
  BY <1>1, <1>2, <1>3, <1>4, <1>5
<1>8. f3 = Filled(k, col, old, s)
  BY <1>6, <1>7
<1>9. QED
  BY <1>8 DEF f1, f2, f3

LEMMA ReadAndModifyFlash ==
    ASSUME NEW old \in Fcps, NEW s \in States, NEW bank \in Banks, NEW src \in Rows, NEW dst \in Rows,
           NEW col \in Nat, NEW cnt \in Nat, col + cnt <= SectorsPerPage, NEW buf \in FtlBuffers,
           NEW k, k.buf = buf, k.off = -col, k.cnt = cnt
    PROVE  Outcome(ReadAndModify(bank, src, dst, col, buf, cnt), old, s).flash
           = WithPage(s.flash, bank, dst, Filled(k, col, s.flash[bank][src], s))
<1> DEFINE copy == COPY_BUF(bank)
           off == -col
           end == col + cnt
           rest == SectorsPerPage - col - cnt
           a == Step([cmd |-> "COL_ROW_READ_OUT", bank |-> bank, buf |-> copy, off |-> 0, cnt |-> SectorsPerPage,
                      col |-> 0, row |-> src], "RETURN_ON_ISSUE")
           b == Step([cmd |-> "COL_ROW_IN", bank |-> bank, cnt |-> col, col |-> 0, row |-> dst], "RETURN_ON_ISSUE")
           c == Step([cmd |-> "IN", bank |-> bank, buf |-> buf, off |-> off, cnt |-> cnt, col |-> col],
                     "RETURN_ON_ISSUE")
           d == Step([cmd |-> "IN_PROG", bank |-> bank, buf |-> copy, off |-> 0, cnt |-> rest, col |-> end],
                     "RETURN_ON_ISSUE")
<1>1. ReadAndModify(bank, src, dst, col, buf, cnt) = <<a, b, c, d>>
  BY DEF ReadAndModify
<1>2. /\ copy \in Buffers /\ buf \in Buffers /\ buf # copy /\ SectorsPerPage \in Int
      /\ off \in Int /\ end \in Int /\ rest \in Int
  BY BanksLemma, FlashAssumption
<1>3. PICK steps : steps = <<a, b, c, d>>
  OBVIOUS
<1>t. Len(steps) = 4 /\ steps[1] = a /\ steps[2] = b /\ steps[3] = c /\ steps[4] = d
  BY <1>3
<1>r. /\ a.regs = [cmd |-> "COL_ROW_READ_OUT", bank |-> bank, buf |-> copy, off |-> 0, cnt |-> SectorsPerPage,
                   col |-> 0, row |-> src]
      /\ b.regs = [cmd |-> "COL_ROW_IN", bank |-> bank, cnt |-> col, col |-> 0, row |-> dst]
      /\ c.regs = [cmd |-> "IN", bank |-> bank, buf |-> buf, off |-> off, cnt |-> cnt, col |-> col]
      /\ d.regs = [cmd |-> "IN_PROG", bank |-> bank, buf |-> copy, off |-> 0, cnt |-> rest, col |-> end]
  BY DEF Step
<1> HIDE DEF a, b, c, d, copy, off, end, rest
<1>4. PICK r1, r2, r3, r4 :
         /\ r1 = SetRegs(old, a.regs) /\ r2 = SetRegs(r1, b.regs)
         /\ r3 = SetRegs(r2, c.regs) /\ r4 = SetRegs(r3, d.regs)
         /\ Outcome(steps, old, s)
            = Apply(Command(r4), Apply(Command(r3), Apply(Command(r2), Apply(Command(r1), s))))
  BY <1>t, OutcomeOfFour
<1>5. /\ r1 \in Fcps /\ r1.cmd = "COL_ROW_READ_OUT" /\ r1.bank = bank /\ r1.buf = copy /\ r1.off = 0
      /\ r1.cnt = SectorsPerPage /\ r1.col = 0 /\ r1.row[bank] = src
  BY <1>2, <1>r, <1>4, AfterReadOut
<1>6. /\ r2 \in Fcps /\ r2.cmd = "COL_ROW_IN" /\ r2.bank = bank /\ r2.buf = copy /\ r2.off = 0
      /\ r2.cnt = col /\ r2.col = 0 /\ r2.row[bank] = dst
  BY <1>r, <1>4, <1>5, AfterColRowIn
<1>7. /\ r3 \in Fcps /\ r3.cmd = "IN" /\ r3.bank = bank /\ r3.buf = buf /\ r3.off = off
      /\ r3.cnt = cnt /\ r3.col = col /\ r3.row[bank] = dst
  BY <1>2, <1>r, <1>4, <1>6, AfterIn DEF MoreIn
<1>8. /\ r4 \in Fcps /\ r4.cmd = "IN_PROG" /\ r4.bank = bank /\ r4.buf = copy /\ r4.off = 0
      /\ r4.cnt = rest /\ r4.col = end /\ r4.row[bank] = dst
  <2>1. "IN_PROG" \in MoreIn /\ 0 \in Int /\ r3 \in Fcps
    BY <1>7 DEF MoreIn
  <2>2. /\ d.regs = [cmd |-> "IN_PROG", bank |-> bank, buf |-> copy, off |-> 0, cnt |-> rest, col |-> end]
        /\ r4 = SetRegs(r3, d.regs)
    BY <1>r, <1>4
  <2>3. /\ r4 \in Fcps /\ r4.cmd = "IN_PROG" /\ r4.bank = bank /\ r4.buf = copy /\ r4.off = 0
        /\ r4.cnt = rest /\ r4.col = end /\ r4.row[bank] = r3.row[bank]
    BY <2>1, <2>2, <1>2, AfterIn
  <2>4. QED
    BY <2>3, <1>7
<1> DEFINE c1 == Command(r1)
           c2 == Command(r2)
           c3 == Command(r3)
           c4 == Command(r4)
           s1 == Apply(c1, s)
           s2 == Apply(c2, s1)
           s3 == Apply(c3, s2)
           s4 == Apply(c4, s3)
           page == s.flash[bank][src]
<1>9. /\ c1 \in Commands /\ c1.cmd = "COL_ROW_READ_OUT" /\ c1.bank = bank /\ c1.buf = copy /\ c1.off = 0
      /\ c1.cnt = SectorsPerPage /\ c1.col = 0 /\ c1.row = src
  BY <1>5, CommandFields
<1>10. /\ c2 \in Commands /\ c2.cmd = "COL_ROW_IN" /\ c2.bank = bank /\ c2.buf = copy /\ c2.off = 0
       /\ c2.cnt = col /\ c2.col = 0 /\ c2.row = dst
  BY <1>6, CommandFields
<1>11. /\ c3 \in Commands /\ c3.cmd = "IN" /\ c3.bank = bank /\ c3.buf = buf /\ c3.off = off
       /\ c3.cnt = cnt /\ c3.col = col /\ c3.row = dst
  BY <1>7, CommandFields
<1>12. /\ c4 \in Commands /\ c4.cmd = "IN_PROG" /\ c4.bank = bank /\ c4.buf = copy /\ c4.off = 0
       /\ c4.cnt = rest /\ c4.col = end /\ c4.row = dst
  BY <1>8, CommandFields
<1>13. Outcome(ReadAndModify(bank, src, dst, col, buf, cnt), old, s) = s4
  BY <1>1, <1>3, <1>4
<1> HIDE DEF c1, c2, c3, c4, s4
<1>14. s1 \in States /\ s1.flash = s.flash /\ s1.mem[copy] = page /\ s1.mem[buf] = s.mem[buf]
  BY <1>2, <1>9, WholePageRead
<1> HIDE DEF s1
<1>15. s2 \in States /\ s2.mem = s1.mem /\ s2.page[bank] = Filled(c2, 0, Blank, s1) /\ s2.flash = s1.flash
  BY <1>10, <1>14, PageIn DEF FirstIn, MoreIn, ProgCmds
<1> HIDE DEF s2
<1>16. s3 \in States /\ s3.mem = s2.mem /\ s3.page[bank] = Filled(c3, col, s2.page[bank], s2) /\ s3.flash = s2.flash
  BY <1>11, <1>15, PageIn DEF FirstIn, MoreIn, ProgCmds
<1> HIDE DEF s3
<1>17. /\ s4.page[bank] = Filled(c4, end, s3.page[bank], s3)
       /\ s4.flash = [s3.flash EXCEPT ![bank][dst] = Programmed(s3.flash[bank][dst], s4.page[bank])]
  BY <1>12, <1>16, PageIn DEF s4, FirstIn, MoreIn, ProgCmds
<1>18. Filled(c4, end, Filled(c3, col, Filled(c2, 0, Blank, s1), s2), s3) = Filled(k, col, page, s)
  <2> DEFINE new == s.mem[buf]
  <2>1. page \in Pages
    BY StatesLemma
  <2>2. /\ Takes(k, s, new, off, cnt) /\ Takes(c2, s1, page, 0, col)
        /\ Takes(c3, s2, new, off, cnt) /\ Takes(c4, s3, page, 0, rest)
    BY <1>10, <1>11, <1>12, <1>14, <1>15, <1>16 DEF Takes, off
  <2>3. end = col + cnt /\ end <= SectorsPerPage /\ rest = SectorsPerPage - col - cnt /\ off = -col
    BY DEF end, rest, off
  <2> HIDE DEF page, new
  <2>4. QED
    BY <2>1, <2>2, <2>3, FilledInParts
<1>19. s4.page[bank] = Filled(k, col, page, s)
  BY <1>15, <1>16, <1>17, <1>18
<1>20. QED
  BY <1>13, <1>14, <1>15, <1>16, <1>17, <1>19 DEF WithPage

\* The commands of nand_page_copyback and nand_page_modified_copyback leave in
\* the flash what the one internal command does, whatever FCP holds before.
THEOREM CopiesCorrect == Spec => []CopiesAgree
<1>1. DInv => CopiesAgree
  <2>. SUFFICES ASSUME DInv, NEW bank \in Banks, NEW c \in Copies, NEW p \in Parts, NEW buf \in FtlBuffers
                PROVE  /\ Outcome(ReadAndProgram(bank, c[1], c[2]), fcp, state).flash
                          = Outcome(InternalCopy(bank, c[1], c[2]), fcp, state).flash
                       /\ Outcome(ReadAndModify(bank, c[1], c[2], p[1], buf, p[2]), fcp, state).flash
                          = Outcome(InternalModify(bank, c[1], c[2], p[1], buf, p[2]), fcp, state).flash
    BY DEF CopiesAgree
  <2>1. fcp \in Fcps /\ state \in States /\ c[1] \in Rows /\ c[2] \in Rows /\ buf \in Buffers
    BY PartsAssumption, BanksLemma DEF DInv, TypeOK, Fcps
  <2>2. p[1] \in Nat /\ p[2] \in Nat /\ p[1] + p[2] <= SectorsPerPage
    BY PartsAssumption, FlashAssumption DEF Sectors
  <2>3. Outcome(ReadAndProgram(bank, c[1], c[2]), fcp, state).flash
        = Outcome(InternalCopy(bank, c[1], c[2]), fcp, state).flash
    BY <2>1, InternalCopyFlash, ReadAndProgramFlash
  <2>4. PICK k \in Commands :
          /\ k.buf = buf /\ k.off = -p[1] /\ k.cnt = p[2]
          /\ Outcome(InternalModify(bank, c[1], c[2], p[1], buf, p[2]), fcp, state).flash
             = WithPage(state.flash, bank, c[2], Filled(k, p[1], state.flash[bank][c[1]], state))
    BY <2>1, <2>2, InternalModifyFlash
  <2>5. Outcome(ReadAndModify(bank, c[1], c[2], p[1], buf, p[2]), fcp, state).flash
        = WithPage(state.flash, bank, c[2], Filled(k, p[1], state.flash[bank][c[1]], state))
    BY <2>1, <2>2, <2>4, ReadAndModifyFlash
  <2>6. QED
    BY <2>3, <2>4, <2>5
<1>2. QED
  BY <1>1, InvLemma, PTL
=============================================================================
