----------------------------- MODULE SyncFlash -----------------------------
(***************************************************************************)
(* What the FTL wants of the flash driver: a command seems to take effect, *)
(* whole, at the moment it is handed over, in the order of the calls, and   *)
(* the FTL works on its buffers meanwhile.  A reset of the controller ends  *)
(* the promise.                                                            *)
(***************************************************************************)
EXTENDS FlashCommands

VARIABLES
    request,   \* the command of the FTL that is next to be handed over
    state,     \* memory and flash as if every command were done
    kept       \* FALSE once the controller was reset

Init == request \in Commands /\ kept = TRUE

Ask == request' \in Commands /\ UNCHANGED <<state, kept>>

Execute == state' = Apply(request, state) /\ UNCHANGED <<request, kept>>

FtlWrites ==
    /\ \E b \in 0..(NumBuffers - 1), p \in Pages : state' = [state EXCEPT !.mem[b] = p]
    /\ UNCHANGED <<request, kept>>

Reset == kept' = FALSE

Next == Reset \/ (kept /\ (Ask \/ Execute \/ FtlWrites))

Spec == Init /\ [][Next]_<<request, state, kept>>
=============================================================================
