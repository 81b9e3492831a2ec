---------------------------- MODULE FlashDriver ----------------------------
(***************************************************************************)
(* The flash driver: flash.c and flash_wrapper.c against the controller.   *)
(*                                                                         *)
(* A command is written to the FCP registers and issued: the registers are  *)
(* copied to the one Waiting Room, from where the bank takes the command    *)
(* when it is idle, and executes it while the firmware goes on.  The FTL    *)
(* lends its buffers to the commands it issues and takes them back with     *)
(* waitBusyBank, flash_finish or a call that returns when done.  A bank may *)
(* get stuck; flash_issue_cmd then resets the controller, from inside the   *)
(* call, through the same registers.                                       *)
(***************************************************************************)
EXTENDS FlashCommands

CONSTANTS
    Initial,     \* contents of memory and flash when the run starts
    Parts,       \* bound: the first sectors and counts that calls name
    Targets,     \* bound: the rows that reads and programs name
    Fills,       \* bound: the pages the FTL writes to its buffers
    Copies,      \* bound: the pairs of rows that copies name
    MaxCalls,    \* bound: calls of the FTL
    MaxStuck,    \* bound: banks that get stuck
    MaxResets    \* bound: resets of flash_issue_cmd

States == [mem : [Buffers -> Pages], flash : [Banks -> [Rows -> Pages]], page : [Banks -> Pages]]

ASSUME InitialAssumption == Initial \subseteq States
ASSUME PartsAssumption ==
    /\ \A p \in Parts : p \in Sectors \X (1..SectorsPerPage) /\ p[1] + p[2] <= SectorsPerPage
    /\ Targets \subseteq Rows /\ Copies \subseteq Rows \X Rows
    /\ Fills \subseteq Pages
ASSUME BoundAssumption == MaxCalls \in Nat /\ MaxStuck \in Nat /\ MaxResets \in Nat

VARIABLES
    fcp,      \* the FCP registers; row has one for each bank
    wr,       \* the Waiting Room: a set of at most one command
    bsp,      \* for each bank its FSM code and the command it took
    stuck,    \* the banks that stay in BANK_TAKE until a reset
    state,    \* contents of memory, of the flash and of the page registers
    stack,    \* the calls of the driver that wait, the innermost first
    todo,     \* commands the wrapper in progress still has to issue
    lent,     \* the bank whose commands may use a buffer, as the FTL knows
    calls, sticks, resets    \* counts of what the bounds limit

firmware == <<fcp, stack, todo>>
hardware == <<wr, bsp, stuck, state>>
counts == <<calls, sticks, resets>>
vars == <<fcp, wr, bsp, stuck, state, stack, todo, lent, calls, sticks, resets>>

----------------------------------------------------------------------------
(* Registers and frames.                                                   *)

SyncModes == {"RETURN_ON_ISSUE", "RETURN_ON_ACCEPT", "RETURN_WHEN_DONE"}

\* The registers a wrapper sets replace the old ones, FCP_ROW that of its bank.
SetRegs(old, regs) ==
    [f \in DOMAIN old |->
        IF f \notin DOMAIN regs THEN old[f]
        ELSE IF f = "row" THEN [old.row EXCEPT ![regs.bank] = regs.row] ELSE regs[f]]

\* What goes to the Waiting Room.
Command(regs) == [regs EXCEPT !.row = regs.row[regs.bank]]
Registers == Command(fcp)

RoomEmpty == wr = {}
Idle(bank) == bsp[bank].fsm = "BANK_IDLE"
AllIdle == \A bank \in Banks : Idle(bank)

Top == stack[1]
Frame(routine, bank, sync, at) == [routine |-> routine, bank |-> bank, sync |-> sync, at |-> at]
Goto(at) == stack' = <<[Top EXCEPT !.at = at]>> \o Tail(stack)
InRoutine(routine, at) == stack # <<>> /\ Top.routine = routine /\ Top.at = at

\* One command of a wrapper: its registers, the sync mode and whether it is
\* issued by flash_issue_cmd or by the polling macros.
Step(regs, sync) == [regs |-> regs, sync |-> sync, routine |-> "flash_issue_cmd"]
Poll(regs) == [regs |-> regs, sync |-> "RETURN_ON_ISSUE", routine |-> "FLASH_POLL_WR"]

\* The first step of steps starts, the others remain to be done.
Start(steps) ==
    LET s == steps[1]
    IN  /\ fcp' = SetRegs(fcp, s.regs)
        /\ stack' = <<Frame(s.routine, s.regs.bank, s.sync, "room")>>
        /\ todo' = Tail(steps)

----------------------------------------------------------------------------
(* The wrappers of flash_wrapper.c: the commands they issue.               *)

nand_page_ptread(bank, row, col, cnt, buf, off, sync) ==
    <<Step([cmd |-> "COL_ROW_READ_OUT", bank |-> bank, buf |-> buf, off |-> off, cnt |-> cnt,
            col |-> col, row |-> row], sync)>>

nand_page_read(bank, row, buf) ==
    nand_page_ptread(bank, row, 0, SectorsPerPage, buf, 0, "RETURN_WHEN_DONE")

nand_page_ptprogram(bank, row, col, cnt, buf, sync) ==
    <<Step([cmd |-> "COL_ROW_IN_PROG", bank |-> bank, buf |-> buf, off |-> 0, cnt |-> cnt,
            col |-> col, row |-> row], sync)>>

nand_page_program(bank, row, buf, sync) == nand_page_ptprogram(bank, row, 0, SectorsPerPage, buf, sync)

\* The second command takes address, count and column of the first.
ReadAndProgram(bank, src, dst) ==
    << Poll([cmd |-> "COL_ROW_READ_OUT", bank |-> bank, buf |-> COPY_BUF(bank), off |-> 0,
             cnt |-> SectorsPerPage, col |-> 0, row |-> src]),
       Poll([cmd |-> "COL_ROW_IN_PROG", bank |-> bank, row |-> dst]) >>

InternalCopy(bank, src, dst) ==
    <<Step([cmd |-> "COPYBACK", bank |-> bank, col |-> 0, row |-> src, dstRow |-> dst, dstCol |-> 0],
           "RETURN_ON_ISSUE")>>

\* Internal or not is fixed by the flash type and the two rows.
nand_page_copyback(bank, src, dst, internal) ==
    IF internal THEN InternalCopy(bank, src, dst) ELSE ReadAndProgram(bank, src, dst)

InternalModify(bank, src, dst, col, buf, cnt) ==
    <<Step([cmd |-> "MODIFY_COPYBACK", bank |-> bank, buf |-> buf, off |-> -col, cnt |-> cnt, col |-> 0,
            row |-> src, dstRow |-> dst, dstCol |-> col], "RETURN_ON_ISSUE")>>

\* Read the old page, then fill the page register in three parts.  The
\* faulty variant leaves the address of the new data for the last part.
ModifyAtStart(bank, src, dst, col, buf, cnt) ==
    << Step([cmd |-> "COL_ROW_READ_OUT", bank |-> bank, buf |-> COPY_BUF(bank), off |-> 0,
             cnt |-> SectorsPerPage, col |-> 0, row |-> src], "RETURN_ON_ISSUE"),
       Step([cmd |-> "COL_ROW_IN", bank |-> bank, cnt |-> col, col |-> 0, row |-> dst], "RETURN_ON_ISSUE"),
       Step([cmd |-> "IN", bank |-> bank, buf |-> buf, off |-> -col, cnt |-> cnt, col |-> col],
            "RETURN_ON_ISSUE"),
       Step([cmd |-> "IN_PROG", bank |-> bank, off |-> 0, cnt |-> SectorsPerPage - col - cnt,
             col |-> col + cnt], "RETURN_ON_ISSUE") >>

ReadAndModify(bank, src, dst, col, buf, cnt) ==
    << Step([cmd |-> "COL_ROW_READ_OUT", bank |-> bank, buf |-> COPY_BUF(bank), off |-> 0,
             cnt |-> SectorsPerPage, col |-> 0, row |-> src], "RETURN_ON_ISSUE"),
       Step([cmd |-> "COL_ROW_IN", bank |-> bank, cnt |-> col, col |-> 0, row |-> dst], "RETURN_ON_ISSUE"),
       Step([cmd |-> "IN", bank |-> bank, buf |-> buf, off |-> -col, cnt |-> cnt, col |-> col],
            "RETURN_ON_ISSUE"),
       Step([cmd |-> "IN_PROG", bank |-> bank, buf |-> COPY_BUF(bank), off |-> 0,
             cnt |-> SectorsPerPage - col - cnt, col |-> col + cnt], "RETURN_ON_ISSUE") >>

nand_page_modified_copyback(bank, src, dst, col, buf, cnt, internal) ==
    IF internal THEN InternalModify(bank, src, dst, col, buf, cnt)
    ELSE ReadAndModify(bank, src, dst, col, buf, cnt)

\* Faulty variant: the rows of the next block.
EraseNext(bank, vblk, sync) ==
    <<Step([cmd |-> "ERASE", bank |-> bank, row |-> (vblk + 1) * PagesPerVblk], sync)>>

EraseStep(bank, vblk, sync) ==
    <<Step([cmd |-> "ERASE", bank |-> bank, row |-> vblk * PagesPerVblk], sync)>>

nand_block_erase(bank, vblk) == EraseStep(bank, vblk, "RETURN_ON_ISSUE")
nand_block_erase_sync(bank, vblk) == EraseStep(bank, vblk, "RETURN_WHEN_DONE")

\* The functions of flash.c that issue without flash_issue_cmd.
flash_copy(bank, dst, src) ==
    <<Poll([cmd |-> "COPYBACK", bank |-> bank, col |-> 0, row |-> src, dstRow |-> dst, dstCol |-> 0])>>

flash_modify_copy(bank, dst, src, col, buf, cnt) ==
    <<Poll([cmd |-> "MODIFY_COPYBACK", bank |-> bank, buf |-> buf, off |-> -col, cnt |-> cnt, col |-> 0,
            row |-> src, dstRow |-> dst, dstCol |-> col])>>

flash_erase(bank, vblk) == <<Poll([cmd |-> "ERASE", bank |-> bank, row |-> vblk * PagesPerVblk])>>

----------------------------------------------------------------------------
(* The FTL calls the driver.  It touches a buffer, or gives it to another  *)
(* bank, only when no command it issued may still use it.                  *)

FtlBuffers == 0..(NumBuffers - 1)
Returned == stack = <<>> /\ todo = <<>>

TakeBack(banks) == [b \in Buffers |-> IF b \in FtlBuffers /\ lent[b] \in banks THEN NoBank ELSE lent[b]]

Call(bank, bufs, steps) ==
    /\ Returned /\ calls < MaxCalls
    /\ \A b \in bufs : lent[b] \in {NoBank, bank}
    /\ Start(steps)
    /\ lent' = [b \in Buffers |-> IF b \in bufs THEN bank ELSE lent[b]]
    /\ calls' = calls + 1
    /\ UNCHANGED <<hardware, sticks, resets>>

Wait(routine, bank, at) ==
    /\ Returned
    /\ stack' = <<Frame(routine, bank, "RETURN_WHEN_DONE", at)>>
    /\ UNCHANGED <<fcp, todo, lent, hardware, counts>>

\* Faulty variant: the bank first, then the Waiting Room.
BankFirst(bank) == Wait("waitBusyBank", bank, "bank")

waitBusyBank(bank) == Wait("waitBusyBank", bank, "room")
flash_finish == Wait("flash_finish", 0, "all")

Vblks == 0..(NumVblks - 1)

CallRead == \E bank \in Banks, row \in Targets, p \in Parts, buf \in FtlBuffers, sync \in SyncModes :
    Call(bank, {buf}, nand_page_ptread(bank, row, p[1], p[2], buf, 0, sync))

CallPageRead == \E bank \in Banks, row \in Targets, buf \in FtlBuffers :
    Call(bank, {buf}, nand_page_read(bank, row, buf))

CallProgram == \E bank \in Banks, row \in Targets, p \in Parts, buf \in FtlBuffers, sync \in SyncModes :
    Call(bank, {buf}, nand_page_ptprogram(bank, row, p[1], p[2], buf, sync))

CallPageProgram == \E bank \in Banks, row \in Targets, buf \in FtlBuffers, sync \in SyncModes :
    Call(bank, {buf}, nand_page_program(bank, row, buf, sync))

CallCopy == \E bank \in Banks, c \in Copies, internal \in BOOLEAN :
    \/ Call(bank, {}, nand_page_copyback(bank, c[1], c[2], internal))
    \/ Call(bank, {}, flash_copy(bank, c[2], c[1]))

CallModify == \E bank \in Banks, c \in Copies, p \in Parts, buf \in FtlBuffers, internal \in BOOLEAN :
    \/ Call(bank, {buf}, nand_page_modified_copyback(bank, c[1], c[2], p[1], buf, p[2], internal))
    \/ Call(bank, {buf}, flash_modify_copy(bank, c[2], c[1], p[1], buf, p[2]))

CallErase == \E bank \in Banks, vblk \in Vblks :
    \/ Call(bank, {}, nand_block_erase(bank, vblk))
    \/ Call(bank, {}, nand_block_erase_sync(bank, vblk))
    \/ Call(bank, {}, flash_erase(bank, vblk))

FtlWrites == \E buf \in FtlBuffers, p \in Fills :
    /\ Returned /\ lent[buf] = NoBank
    /\ state' = [state EXCEPT !.mem[buf] = p]
    /\ UNCHANGED <<firmware, wr, bsp, stuck, lent, counts>>

----------------------------------------------------------------------------
(* The loops of flash_issue_cmd and of the waits.                          *)

\* The wrapper has commands left.
NextCommand ==
    /\ stack = <<>> /\ todo # <<>>
    /\ Start(todo)
    /\ UNCHANGED <<lent, hardware, counts>>

Handed(at) ==
    /\ wr' = {Registers}
    /\ IF Top.sync = "RETURN_ON_ISSUE" THEN stack' = Tail(stack) ELSE Goto(at)
    /\ UNCHANGED <<fcp, todo, lent, bsp, stuck, state, counts>>

AtRoom == InRoutine("flash_issue_cmd", "room") \/ InRoutine("FLASH_POLL_WR", "room")

\* Faulty variants: issue without the first loop; wait for the bank without
\* waiting for the Waiting Room.
IssueAnyway == AtRoom /\ Handed("accept")
SkipAccept == AtRoom /\ RoomEmpty /\ Handed("done")

Issue == AtRoom /\ RoomEmpty /\ Handed("accept")

Accepted ==
    /\ InRoutine("flash_issue_cmd", "accept") /\ RoomEmpty
    /\ IF Top.sync = "RETURN_ON_ACCEPT" THEN stack' = Tail(stack) ELSE Goto("done")
    /\ UNCHANGED <<fcp, todo, lent, hardware, counts>>

Done ==
    /\ InRoutine("flash_issue_cmd", "done") /\ Idle(Top.bank)
    /\ stack' = Tail(stack)
    /\ lent' = TakeBack({Top.bank})
    /\ UNCHANGED <<fcp, todo, hardware, counts>>

WaitedRoom ==
    /\ InRoutine("waitBusyBank", "room") /\ RoomEmpty
    /\ Goto("bank")
    /\ UNCHANGED <<fcp, todo, lent, hardware, counts>>

WaitedBank ==
    /\ InRoutine("waitBusyBank", "bank") /\ Idle(Top.bank)
    /\ stack' = Tail(stack)
    /\ lent' = TakeBack({Top.bank})
    /\ UNCHANGED <<fcp, todo, hardware, counts>>

Finished ==
    /\ InRoutine("flash_finish", "all") /\ RoomEmpty /\ AllIdle
    /\ stack' = Tail(stack)
    /\ lent' = TakeBack(Banks)
    /\ UNCHANGED <<fcp, todo, hardware, counts>>

----------------------------------------------------------------------------
(* flash_reset_one_bank, from inside flash_issue_cmd.                      *)

Taking(bank) == bsp[bank].fsm = "BANK_TAKE"
FirstTaking(bank) == Taking(bank) /\ \A b \in Banks : b < bank => ~Taking(b)
IdleBank == [fsm |-> "BANK_IDLE", doing |-> {}]

\* The controller forgets every command; two commands for the bank follow,
\* in the registers of the command that waits.
ResetOneBank(bank) ==
    /\ stuck # {} \/ resets < MaxResets
    /\ resets' = resets + 1
    /\ wr' = {} /\ bsp' = [b \in Banks |-> IdleBank] /\ stuck' = {}
    /\ fcp' = SetRegs(fcp, [cmd |-> "GENERIC", bank |-> bank, col |-> 255, row |-> NoRow])
    /\ stack' = << Frame("flash_issue_cmd", bank, "RETURN_ON_ISSUE", "room"),
                   Frame("flash_reset_one_bank", bank, "RETURN_ON_ISSUE", "wait") >> \o stack
    /\ UNCHANGED <<state, todo, lent, calls, sticks>>

\* Faulty variant: only the bank of the call is looked at.
OwnTimeout ==
    /\ InRoutine("flash_issue_cmd", "room") \/ InRoutine("flash_issue_cmd", "accept")
    /\ ~RoomEmpty
    /\ Taking(Top.bank) /\ ResetOneBank(Top.bank)

RoomTimeout ==
    /\ InRoutine("flash_issue_cmd", "room") \/ InRoutine("flash_issue_cmd", "accept")
    /\ ~RoomEmpty
    /\ \E bank \in Banks : FirstTaking(bank) /\ ResetOneBank(bank)

DoneTimeout == InRoutine("flash_issue_cmd", "done") /\ Taking(Top.bank) /\ ResetOneBank(Top.bank)

ResetWait ==
    /\ InRoutine("flash_reset_one_bank", "wait")
    /\ fcp' = SetRegs(fcp, [cmd |-> "WAIT", bank |-> Top.bank])
    /\ stack' = << Frame("flash_issue_cmd", Top.bank, "RETURN_ON_ISSUE", "room"), [Top EXCEPT !.at = "finish"] >>
                \o Tail(stack)
    /\ UNCHANGED <<todo, lent, hardware, counts>>

ResetEnds ==
    /\ InRoutine("flash_reset_one_bank", "finish") /\ RoomEmpty /\ AllIdle
    /\ stack' = Tail(stack)
    /\ UNCHANGED <<fcp, todo, lent, hardware, counts>>

----------------------------------------------------------------------------
(* The controller.                                                         *)

\* A bank that is idle takes the command that waits for it.
Take == \E c \in wr :
    /\ Idle(c.bank)
    /\ bsp' = [bsp EXCEPT ![c.bank] = [fsm |-> "BANK_WAIT", doing |-> {c}]]
    /\ wr' = {}
    /\ UNCHANGED <<stuck, state, firmware, lent, counts>>

EnterTake(bank) ==
    /\ bsp[bank].fsm = "BANK_WAIT"
    /\ bsp' = [bsp EXCEPT ![bank].fsm = "BANK_TAKE"]
    /\ UNCHANGED <<wr, stuck, state, firmware, lent, counts>>

GetStuck(bank) ==
    /\ Taking(bank) /\ bank \notin stuck /\ sticks < MaxStuck
    /\ stuck' = stuck \cup {bank} /\ sticks' = sticks + 1
    /\ UNCHANGED <<wr, bsp, state, firmware, lent, calls, resets>>

\* The command takes effect at the latest moment, when the bank ends it.
Finish(bank) == \E c \in bsp[bank].doing :
    /\ bank \notin stuck
    /\ state' = Apply(c, state)
    /\ bsp' = [bsp EXCEPT ![bank] = IdleBank]
    /\ UNCHANGED <<wr, stuck, firmware, lent, counts>>

----------------------------------------------------------------------------

Init ==
    /\ fcp = [cmd |-> "WAIT", bank |-> 0, buf |-> 0, off |-> 0, cnt |-> 0, col |-> 0,
              row |-> [b \in Banks |-> NoRow], dstRow |-> 0, dstCol |-> 0]
    /\ wr = {} /\ bsp = [b \in Banks |-> IdleBank] /\ stuck = {}
    /\ state \in Initial
    /\ stack = <<>> /\ todo = <<>>
    /\ lent = [b \in Buffers |-> IF b \in FtlBuffers THEN NoBank ELSE b - NumBuffers]
    /\ calls = 0 /\ sticks = 0 /\ resets = 0

Ftl == CallRead \/ CallPageRead \/ CallProgram \/ CallPageProgram \/ CallCopy \/ CallModify \/ CallErase
       \/ (\E bank \in Banks : waitBusyBank(bank)) \/ flash_finish \/ FtlWrites

Driver == NextCommand \/ Issue \/ Accepted \/ Done \/ WaitedRoom \/ WaitedBank \/ Finished
          \/ ResetWait \/ ResetEnds

Timeout == RoomTimeout \/ DoneTimeout

Controller == Take \/ \E bank \in Banks : EnterTake(bank) \/ GetStuck(bank) \/ Finish(bank)

Next == Ftl \/ Driver \/ Timeout \/ Controller

Spec == Init /\ [][Next]_vars

\* The loops run; the controller hands over and ends what is not stuck; a
\* loop that polls long enough times out.
Fairness ==
    /\ WF_vars(Driver) /\ WF_vars(Timeout) /\ WF_vars(Take)
    /\ \A bank \in Banks : WF_vars(Finish(bank))

FairSpec == Spec /\ Fairness

----------------------------------------------------------------------------
(* Properties.                                                             *)

Routines == {"flash_issue_cmd", "FLASH_POLL_WR", "waitBusyBank", "flash_finish", "flash_reset_one_bank"}
Frames == [routine : Routines, bank : Banks, sync : SyncModes,
           at : {"room", "accept", "done", "bank", "all", "wait", "finish"}]
FsmCodes == {"BANK_IDLE", "BANK_WAIT", "BANK_TAKE"}

\* The registers hold a command at every moment, and so does a busy bank.
TypeOK ==
    /\ fcp \in [cmd : Cmds, bank : Banks, buf : Buffers, off : Int, cnt : Int, col : Int,
                row : [Banks -> Rows \cup {NoRow}], dstRow : Rows, dstCol : Int]
    /\ wr \subseteq Commands /\ bsp \in [Banks -> [fsm : FsmCodes, doing : SUBSET Commands]]
    /\ stuck \subseteq Banks /\ state \in States
    /\ stack \in Seq(Frames)
    /\ lent \in [Buffers -> Banks \cup {NoBank}]
    /\ calls \in Nat /\ sticks \in Nat /\ resets \in Nat

Pending == wr \cup UNION {bsp[b].doing : b \in Banks}

\* No command moves data from or to a buffer the FTL has taken back or lent
\* to another bank: what writeChunkNew and the collector rely on when they
\* fill and empty a buffer after waitBusyBank (write.c:665, garbage_collection.c:229).
DmaOnlyOnLent == \A c \in Pending : \A b \in BuffersOf(c) : lent[b] = c.bank

\* A call that returns when done leaves nothing of its bank undone, unless
\* it was reset: format reads the fate of the erasure then (ftl.c:520).
DoneMeansDone ==
    [][ (InRoutine("flash_issue_cmd", "done") /\ stack' = Tail(stack) /\ resets = 0)
        => \A c \in Pending' : c.bank # Top.bank ]_vars

Run(cs, s) == IF cs = {} THEN s ELSE Apply(CHOOSE c \in cs : TRUE, s)

\* The state with all that was handed over done.
Settled ==
    LET banks[n \in 0..NumBanks] == IF n = 0 THEN state ELSE Run(bsp[n - 1].doing, banks[n - 1])
    IN  Run(wr, banks[NumBanks])

Sync == INSTANCE SyncFlash WITH request <- Registers, state <- Settled, kept <- (resets = 0)

\* To the FTL every command takes effect when it is issued, in that order.
SeemsSynchronous == Sync!Spec

\* The state after the commands of steps, from registers old and state s.
Outcome(steps, old, s) ==
    LET regs[n \in 0..Len(steps)] == IF n = 0 THEN old ELSE SetRegs(regs[n - 1], steps[n].regs)
        done[n \in 0..Len(steps)] == IF n = 0 THEN s ELSE Apply(Command(regs[n]), done[n - 1])
    IN  done[Len(steps)]

\* Whatever the registers hold when it starts, the commands of a copy leave in the flash
\* what the one internal command does: three of them leave registers to the
\* ones before (flash_wrapper.c:470, :580, :588).
CopiesAgree ==
    Returned => \A bank \in Banks, c \in Copies, p \in Parts, buf \in FtlBuffers :
        LET Flash(steps) == Outcome(steps, fcp, state).flash
        IN  /\ Flash(ReadAndProgram(bank, c[1], c[2])) = Flash(InternalCopy(bank, c[1], c[2]))
            /\ Flash(ReadAndModify(bank, c[1], c[2], p[1], buf, p[2]))
               = Flash(InternalModify(bank, c[1], c[2], p[1], buf, p[2]))

\* The loops that have no timeout, in front of a bank that is stuck.
WaitsForever ==
    /\ stuck # {} /\ stack # <<>>
    /\ Top.routine \in {"FLASH_POLL_WR", "waitBusyBank", "flash_finish", "flash_reset_one_bank"}

\* A call ends although a bank gets stuck: the timeouts of flash_issue_cmd
\* see to it, in all loops but those that have none.
CallsEnd == (stack # <<>>) ~> (Returned \/ WaitsForever)
=============================================================================
