------------------------------ MODULE SataHost ------------------------------
(***************************************************************************)
(* The host's commands between the interrupt handler (sata_isr.c) and the  *)
(* main loop (sata_main.c).  The handler queues reads, writes and trims in *)
(* the hardware's event queue and posts every other command in the one     *)
(* slow-command slot; the main loop runs the queue first and the slot when *)
(* the queue is empty.  If the queue is full the handler leaves the start  *)
(* of the transfer to the main loop (eq_full, g_sata_action_flags).        *)
(*                                                                         *)
(* The handler is one action: the FIQ is not interrupted.  A step of the   *)
(* main loop is what it does between two accesses to what they share;      *)
(* eventq_get is one step because it disables the FIQ.                     *)
(*                                                                         *)
(* The host and the controller are external.  The host has one command at  *)
(* a time.  The controller moves the data of a write without the firmware  *)
(* and that of a read when ftl_read has filled its buffer, and sends the   *)
(* status with which a transfer ends.                                      *)
(***************************************************************************)
EXTENDS Naturals, Sequences

CONSTANTS QueueSize,  \* HW_EQ_SIZE, and the bound of the host's trims
          FullAt      \* entries from which the controller says the queue is full

ASSUME QueueAssumption == QueueSize \in Nat /\ FullAt \in 1..QueueSize

VARIABLES host,         \* the command the host waits for, "reset", or "none"
          fis,          \* what the interrupt is raised for, or "none"
          eq,           \* the event queue
          eqFull,       \* g_sata_context.eq_full
          actionFlags,  \* g_sata_action_flags: the transfer it asks for
          transfer,     \* what SATA_CTRL_2 has started, or "none"
          slow,         \* g_sata_context.slow_cmd
          main,         \* where the main loop is
          running,      \* the command it took
          fetched       \* ftl_read filled the buffer of the host's read

vars == <<host, fis, eq, eqFull, actionFlags, transfer, slow, main, running, fetched>>

----------------------------------------------------------------------------

OtherQueued == {"read", "write", "other"}                 \* faulty variant

\* The classes (CCL_FTL_D2H, CCL_FTL_H2D) of ata_cmd_class_table that go through
\* the event queue with a test of the full bit.
Queued == {"read", "write"}

Commands == {"read", "write", "trim", "other"}

\* sata_reset: it waits for PHY_ONLINE and enables that interrupt; the host waits
\* for the signature.
Init == /\ host = "reset"
        /\ fis = "phyOnline"
        /\ eq = <<>>
        /\ eqFull = FALSE
        /\ actionFlags = "none"
        /\ transfer = "none"
        /\ slow = [status |-> "none", code |-> "none"]
        /\ main = "poll"
        /\ running = "none"
        /\ fetched = FALSE

----------------------------------------------------------------------------
(* The host and the controller                                             *)

\* The answer to a command takes the link longer to carry, and the next command to
\* come back, than the main loop takes from its look at the queue to its look at
\* the slot, or from sending a status to releasing the slot.
LinkIsSlow == main \notin {"test", "release"}

HostSends(c) ==
    /\ host = "none" /\ fis = "none"
    /\ LinkIsSlow
    /\ Len(eq) < QueueSize
    /\ host' = c /\ fis' = c
    /\ UNCHANGED <<eq, eqFull, actionFlags, transfer, slow, main, running, fetched>>

\* A transfer and its status are complete.  A host that waits for the signature
\* takes nothing else for it.
TransferEnds ==
    /\ transfer # "none"
    /\ transfer = "read" => fetched
    /\ transfer' = "none"
    /\ host' = IF host = "reset" /\ transfer # "signature" THEN host ELSE "none"
    /\ fetched' = (fetched /\ transfer # "read")
    /\ UNCHANGED <<fis, eq, eqFull, actionFlags, slow, main, running>>

----------------------------------------------------------------------------
(* The interrupt handler                                                   *)

Full(q) == Len(q) >= FullAt

Post(code) == slow' = [status |-> "pending", code |-> code]

\* handle_got_cfis on a command whose range goes beyond the last sector
Reject ==
    /\ transfer' = "status"
    /\ UNCHANGED <<eq, eqFull, actionFlags, slow>>

\* handle_got_cfis on a read or a write: inserted first, then the full bit decides
\* who starts the transfer.
Enqueue(c) ==
    /\ eq' = Append(eq, c)
    /\ IF Full(eq')
       THEN eqFull' = TRUE /\ actionFlags' = c /\ UNCHANGED transfer
       ELSE transfer' = c /\ UNCHANGED <<eqFull, actionFlags>>
    /\ UNCHANGED slow

\* handle_got_cfis on ATA_DATA_SET_MANAGEMENT: the full bit is not tested.
EnqueueTrim ==
    /\ eq' = Append(eq, "trim")
    /\ transfer' = "trim"
    /\ UNCHANGED <<eqFull, actionFlags, slow>>

\* fiq_handler on CMD_RECV
HandleCommand ==
    /\ fis \in Commands
    /\ \/ Reject
       \/ fis \in Queued /\ Enqueue(fis)
       \/ fis = "trim" /\ EnqueueTrim
       \/ fis \notin Queued \cup {"trim"} /\ Post(fis)
          /\ UNCHANGED <<eq, eqFull, actionFlags, transfer>>
    /\ fis' = "none"
    /\ UNCHANGED <<host, main, running, fetched>>

\* fiq_handler on PHY_ONLINE: the signature is sent as if a reset were a command.
HandlePhyOnline ==
    /\ fis = "phyOnline"
    /\ Post("srst")
    /\ fis' = "none"
    /\ UNCHANGED <<host, eq, eqFull, actionFlags, transfer, main, running, fetched>>

Handler == HandleCommand \/ HandlePhyOnline

----------------------------------------------------------------------------
(* The main loop                                                           *)

SlotFirst ==                                              \* faulty variant
    /\ main = "poll"
    /\ main' = IF eq # <<>> /\ slow.status # "pending" THEN "get" ELSE "test"
    /\ UNCHANGED <<host, fis, eq, eqFull, actionFlags, transfer, slow, running, fetched>>

Poll ==
    /\ main = "poll"
    /\ main' = IF eq # <<>> THEN "get" ELSE "test"
    /\ UNCHANGED <<host, fis, eq, eqFull, actionFlags, transfer, slow, running, fetched>>

StaysFull == /\ transfer' = IF eqFull THEN actionFlags ELSE transfer   \* faulty variant
             /\ UNCHANGED eqFull
NeverStarted == eqFull' = FALSE /\ UNCHANGED transfer     \* faulty variant

\* The end of eventq_get: the transfer the handler left to it.
StartDeferred == /\ transfer' = IF eqFull THEN actionFlags ELSE transfer
                 /\ eqFull' = FALSE

\* eventq_get
EventqGet ==
    /\ main = "get"
    /\ running' = Head(eq)
    /\ eq' = Tail(eq)
    /\ StartDeferred
    /\ main' = "ftl"
    /\ UNCHANGED <<host, fis, actionFlags, slow, fetched>>

\* ftl_read, ftl_write or ftl_trim
RunFtl ==
    /\ main = "ftl"
    /\ fetched' = (fetched \/ running = "read")
    /\ main' = "poll"
    /\ UNCHANGED <<host, fis, eq, eqFull, actionFlags, transfer, slow, running>>

TestSlot ==
    /\ main = "test"
    /\ main' = IF slow.status = "pending" THEN "claim" ELSE "poll"
    /\ UNCHANGED <<host, fis, eq, eqFull, actionFlags, transfer, slow, running, fetched>>

Claim ==
    /\ main = "claim"
    /\ slow' = [slow EXCEPT !.status = "busy"]
    /\ main' = "lookup"
    /\ UNCHANGED <<host, fis, eq, eqFull, actionFlags, transfer, running, fetched>>

\* search_ata_function
Lookup ==
    /\ main = "lookup"
    /\ running' = slow.code
    /\ main' = "answer"
    /\ UNCHANGED <<host, fis, eq, eqFull, actionFlags, transfer, slow, fetched>>

\* The ATA function: ata_srst sends the signature, the others a status.
Answer ==
    /\ main = "answer"
    /\ transfer' = IF running = "srst" THEN "signature" ELSE "status"
    /\ main' = "release"
    /\ UNCHANGED <<host, fis, eq, eqFull, actionFlags, slow, running, fetched>>

Release ==
    /\ main = "release"
    /\ slow' = [slow EXCEPT !.status = "none"]
    /\ main' = "poll"
    /\ UNCHANGED <<host, fis, eq, eqFull, actionFlags, transfer, running, fetched>>

Main == \/ Poll \/ EventqGet \/ RunFtl
        \/ TestSlot \/ Claim \/ Lookup \/ Answer \/ Release

----------------------------------------------------------------------------

Next == (\E c \in Commands : HostSends(c)) \/ TransferEnds \/ Handler \/ Main

Spec == Init /\ [][Next]_vars

\* The processor runs the main loop and takes its interrupts; the controller ends
\* the transfers whose data is there.
FairSpec == Spec /\ WF_vars(Main) /\ WF_vars(Handler) /\ WF_vars(TransferEnds)

----------------------------------------------------------------------------

\* Type invariant; only reads, writes and trims are in the event queue.
TypeOK ==
    /\ host \in Commands \cup {"reset", "none"}
    /\ fis \in Commands \cup {"phyOnline", "none"}
    /\ eq \in Seq({"read", "write", "trim"}) /\ Len(eq) <= QueueSize
    /\ eqFull \in BOOLEAN
    /\ actionFlags \in {"read", "write", "none"}
    /\ transfer \in {"read", "write", "trim", "status", "signature", "none"}
    /\ slow \in [status : {"none", "pending", "busy"}, code : {"other", "srst", "none"}]
    /\ main \in {"poll", "get", "ftl", "test", "claim", "lookup", "answer", "release"}
    /\ running \in Commands \cup {"srst", "none"}
    /\ fetched \in BOOLEAN

\* The transfer that is under way is that of the command the host waits for: what
\* the handler deferred and what the main loop starts later is neither started
\* twice nor for a command that was answered, nor while another transfer runs.
StartsOutstanding ==
    /\ transfer \in {"read", "write", "trim"} => transfer = host
    /\ transfer # "none" => host # "none" /\ fis = "none" /\ ~eqFull
    /\ eqFull => actionFlags = host /\ eq # <<>> /\ eq[Len(eq)] = host

\* A command of the slow slot, a cache flush for one, is answered when every write
\* the host sent before it has been run: the queue is empty and stays empty from
\* the look at the slot to the answer.  The order of the two looks matters; that no
\* command comes between them is LinkIsSlow, an assumption.
SlowAfterQueue == main \in {"claim", "lookup", "answer"} => eq = <<>>

\* Every command is answered, whoever starts its transfer, and so is the link's
\* coming up.
CommandsAnswered ==
    \A c \in Commands \cup {"reset"} : host = c ~> host = "none"
=============================================================================
