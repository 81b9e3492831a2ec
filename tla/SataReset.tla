------------------------------ MODULE SataReset ------------------------------
(***************************************************************************)
(* SataHost with the resets a host may send at any time, whatever it waits *)
(* for: a soft reset is two control FISes, one that sets the SRST bit and  *)
(* one that clears it (handle_srst); a link reset raises PHY_ONLINE again. *)
(* Both are answered by a signature, sent through the slow-command slot.   *)
(*                                                                         *)
(* The two FISes of a soft reset carry a register only; a reset ends the   *)
(* transfer the controller had started.                                    *)
(***************************************************************************)
EXTENDS SataHost

VARIABLE srst            \* g_sata_context.srst

resetVars == <<vars, srst>>

ResetInit == Init /\ srst = FALSE

HostSetsSrst ==
    /\ fis = "none"
    /\ host' = "reset" /\ fis' = "srstSet"
    /\ transfer' = "none"
    /\ UNCHANGED <<eq, eqFull, actionFlags, slow, main, running, fetched, srst>>

HostClearsSrst ==
    /\ host = "reset" /\ fis = "none" /\ srst
    /\ fis' = "srstClear"
    /\ UNCHANGED <<host, eq, eqFull, actionFlags, transfer, slow, main, running,
                   fetched, srst>>

LinkResets ==
    /\ fis = "none"
    /\ host' = "reset" /\ fis' = "phyOnline"
    /\ transfer' = "none"
    /\ UNCHANGED <<eq, eqFull, actionFlags, slow, main, running, fetched, srst>>

\* handle_srst
HandleSrst ==
    /\ fis \in {"srstSet", "srstClear"}
    /\ srst' = (fis = "srstSet")
    /\ IF fis = "srstClear" /\ srst
       THEN Post("srst") /\ transfer' = "none"
       ELSE UNCHANGED <<slow, transfer>>
    /\ fis' = "none"
    /\ UNCHANGED <<host, eq, eqFull, actionFlags, main, running, fetched>>

ResetNext == \/ Next /\ UNCHANGED srst
             \/ HostSetsSrst \/ HostClearsSrst \/ LinkResets \/ HandleSrst

ResetSpec == ResetInit /\ [][ResetNext]_resetVars

----------------------------------------------------------------------------

\* A reset request that was posted, "regarded as if it were an ATA command", is
\* taken by the main loop before the slot is released.
PostedIsTaken ==
    [][slow.status = "pending" => slow.status' \in {"pending", "busy"}]_resetVars
=============================================================================
