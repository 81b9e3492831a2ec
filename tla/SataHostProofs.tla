--------------------------- MODULE SataHostProofs ---------------------------
(***************************************************************************)
(* Theorems about SataHost: for every size of the event queue and every    *)
(* level at which it says it is full, transfers are those of the           *)
(* outstanding command and a slow command is run on an empty queue.        *)
(***************************************************************************)
EXTENDS SataHost, TLAPS

----------------------------------------------------------------------------
(* The inductive invariant                                                 *)

\* The interrupt is for the command the host waits for, nothing has been started or
\* deferred for it, and there is room for it in the queue.
FisIsOutstanding ==
    /\ fis \in Commands => host = fis
    /\ fis = "phyOnline" => host = "reset"
    /\ fis # "none" => transfer = "none" /\ ~eqFull /\ Len(eq) < QueueSize

\* The host's command whose code is in the slot.
Owner(code) == IF code = "srst" THEN "reset" ELSE code

\* While a slow command is posted or run, the host waits for it and for nothing else.
SlotIsOutstanding ==
    /\ slow.status = "pending" => /\ host = Owner(slow.code)
                                  /\ fis = "none" /\ transfer = "none"
                                  /\ main \notin {"lookup", "answer", "release"}
    /\ main = "claim" => slow.status = "pending"
    /\ main \in {"lookup", "answer"} => /\ slow.status = "busy"
                                        /\ host = Owner(slow.code)
                                        /\ fis = "none" /\ transfer = "none"
    /\ main = "release" => fis = "none"
    /\ slow.status # "none" => slow.code # "none"

\* What the main loop saw of the queue is still so when it acts on it.
QueueAsSeen ==
    /\ main = "get" => eq # <<>>
    /\ main = "test" /\ host \in {"other", "reset"} => eq = <<>>
    /\ main \in {"claim", "lookup", "answer"} => eq = <<>>

\* A transfer waits for the main loop only for the last command of the queue.
Deferred == eqFull => /\ actionFlags \in {"read", "write"} /\ actionFlags = host
                      /\ transfer = "none"
                      /\ eq # <<>> /\ eq[Len(eq)] = host

TransferIsOutstanding ==
    /\ transfer \in {"read", "write", "trim"} => transfer = host
    /\ transfer # "none" => host # "none"

SInv == /\ TypeOK /\ FisIsOutstanding /\ SlotIsOutstanding
        /\ QueueAsSeen /\ Deferred /\ TransferIsOutstanding

LEMMA SInvInit == Init => SInv
<1> SUFFICES ASSUME Init PROVE SInv
  OBVIOUS
<1>1. eq = <<>> /\ eq \in Seq({"read", "write", "trim"}) /\ Len(eq) = 0
  BY DEF Init
<1>2. QueueSize \in Nat /\ 0 < QueueSize
  BY QueueAssumption
<1>3. TypeOK
  <2>1. slow \in [status : {"none", "pending", "busy"}, code : {"other", "srst", "none"}]
    BY DEF Init
  <2>2. Len(eq) <= QueueSize
    BY <1>1, <1>2
  <2> QED
    BY <1>1, <2>1, <2>2 DEF Init, TypeOK
<1>4. FisIsOutstanding
  BY <1>1, <1>2 DEF Init, FisIsOutstanding, Commands
<1> QED
  BY <1>1, <1>3, <1>4
  DEF Init, SInv, SlotIsOutstanding, QueueAsSeen, Deferred, TransferIsOutstanding

\* An entry appended to the queue is its last one.
LEMMA AppendedIsLast ==
    ASSUME TypeOK, NEW c \in {"read", "write", "trim"}, Len(eq) < QueueSize,
           eq' = Append(eq, c)
    PROVE  /\ eq' \in Seq({"read", "write", "trim"}) /\ Len(eq') <= QueueSize
           /\ eq' # <<>> /\ eq'[Len(eq')] = c
<1>1. eq \in Seq({"read", "write", "trim"}) /\ QueueSize \in Nat
  BY QueueAssumption DEF TypeOK
<1>2. Len(eq') = Len(eq) + 1 /\ Len(eq) \in Nat
  BY <1>1
<1> QED
  BY <1>1, <1>2

LEMMA SInvHostSends ==
    ASSUME SInv, NEW c \in Commands, HostSends(c)
    PROVE  SInv'
<1> USE DEF SInv, HostSends
<1>1. ~eqFull /\ transfer = "none" /\ slow.status # "pending"
      /\ main \notin {"claim", "lookup", "answer", "test", "release"}
  BY DEF TypeOK, Deferred, TransferIsOutstanding, SlotIsOutstanding, Owner, LinkIsSlow
<1>2. TypeOK'
  BY DEF TypeOK, Commands
<1>3. FisIsOutstanding'
  BY <1>1 DEF FisIsOutstanding, Commands
<1>4. SlotIsOutstanding'
  BY <1>1 DEF SlotIsOutstanding
<1>5. QueueAsSeen'
  BY <1>1 DEF QueueAsSeen
<1> QED
  BY <1>1, <1>2, <1>3, <1>4, <1>5 DEF Deferred, TransferIsOutstanding

LEMMA SInvTransferEnds == SInv /\ TransferEnds => SInv'
<1> SUFFICES ASSUME SInv, TransferEnds PROVE SInv'
  OBVIOUS
<1> USE DEF SInv, TransferEnds
<1>1. ~eqFull /\ fis = "none" /\ slow.status # "pending"
      /\ main \notin {"claim", "lookup", "answer"}
  BY DEF TypeOK, Deferred, FisIsOutstanding, SlotIsOutstanding
<1>2. TypeOK'
  BY DEF TypeOK, Commands
<1>3. FisIsOutstanding' /\ SlotIsOutstanding'
  BY <1>1 DEF FisIsOutstanding, SlotIsOutstanding, Commands
<1>4. QueueAsSeen'
  BY <1>1 DEF QueueAsSeen
<1> QED
  BY <1>1, <1>2, <1>3, <1>4 DEF Deferred, TransferIsOutstanding

LEMMA SInvHandler == SInv /\ Handler => SInv'
<1> SUFFICES ASSUME SInv, Handler PROVE SInv'
  OBVIOUS
<1> USE DEF SInv
<1>1. /\ fis # "none" /\ fis' = "none" /\ UNCHANGED <<host, main, running, fetched>>
  BY DEF Handler, HandleCommand, HandlePhyOnline, Commands
<1>2. /\ transfer = "none" /\ ~eqFull /\ Len(eq) < QueueSize
      /\ slow.status # "pending" /\ main \notin {"claim", "lookup", "answer", "release"}
  BY <1>1 DEF FisIsOutstanding, SlotIsOutstanding
<1>3. CASE fis \in Commands /\ Reject
  <2>1. host = fis /\ transfer' = "status" /\ UNCHANGED <<eq, eqFull, actionFlags, slow>>
    BY <1>3 DEF Reject, FisIsOutstanding
  <2>2. TypeOK'
    BY <1>1, <2>1 DEF TypeOK
  <2>3. FisIsOutstanding' /\ SlotIsOutstanding'
    BY <1>1, <1>2, <2>1 DEF FisIsOutstanding, SlotIsOutstanding, Commands
  <2>4. TransferIsOutstanding'
    BY <1>1, <1>3, <2>1 DEF TransferIsOutstanding, Commands
  <2> QED
    BY <1>1, <1>2, <2>1, <2>2, <2>3, <2>4 DEF QueueAsSeen, Deferred
<1>4. CASE fis \in Queued /\ Enqueue(fis)
  <2>1. /\ host = fis /\ fis \in {"read", "write"} /\ eq' = Append(eq, fis)
        /\ slow' = slow
    BY <1>4 DEF Enqueue, FisIsOutstanding, Queued, Commands
  <2>2. /\ eq' \in Seq({"read", "write", "trim"}) /\ Len(eq') <= QueueSize
        /\ eq' # <<>> /\ eq'[Len(eq')] = fis
    BY <1>2, <2>1, AppendedIsLast
  <2>3. \/ eqFull' = TRUE /\ actionFlags' = fis /\ transfer' = "none"
        \/ eqFull' = eqFull /\ actionFlags' = actionFlags /\ transfer' = fis
    BY <1>2, <1>4 DEF Enqueue
  <2>4. TypeOK'
    <3>1. eqFull' \in BOOLEAN
      BY <1>2, <2>3 DEF TypeOK
    <3>2. actionFlags' \in {"read", "write", "none"} /\ transfer' \in {"read", "write", "none"}
      BY <2>1, <2>3 DEF TypeOK
    <3> QED
      BY <1>1, <2>1, <2>2, <3>1, <3>2 DEF TypeOK
  <2>5. FisIsOutstanding' /\ SlotIsOutstanding'
    BY <1>1, <1>2, <2>1 DEF FisIsOutstanding, SlotIsOutstanding, Commands
  <2>6. QueueAsSeen'
    BY <1>1, <1>2, <2>1, <2>2 DEF QueueAsSeen
  <2>7. Deferred' /\ TransferIsOutstanding'
    BY <1>1, <1>2, <2>1, <2>2, <2>3 DEF Deferred, TransferIsOutstanding
  <2> QED
    BY <2>4, <2>5, <2>6, <2>7
<1>5. CASE fis = "trim" /\ EnqueueTrim
  <2>1. /\ host = "trim" /\ eq' = Append(eq, "trim") /\ transfer' = "trim"
        /\ UNCHANGED <<eqFull, actionFlags, slow>>
    BY <1>5 DEF EnqueueTrim, FisIsOutstanding, Commands
  <2>2. /\ eq' \in Seq({"read", "write", "trim"}) /\ Len(eq') <= QueueSize /\ eq' # <<>>
    BY <1>2, <2>1, AppendedIsLast
  <2>3. TypeOK'
    BY <1>1, <2>1, <2>2 DEF TypeOK
  <2>4. FisIsOutstanding' /\ SlotIsOutstanding'
    BY <1>1, <1>2, <2>1 DEF FisIsOutstanding, SlotIsOutstanding, Commands
  <2>5. QueueAsSeen'
    BY <1>1, <1>2, <2>1, <2>2 DEF QueueAsSeen
  <2> QED
    BY <1>1, <1>2, <2>1, <2>3, <2>4, <2>5 DEF Deferred, TransferIsOutstanding
<1>6. ASSUME NEW code \in {"other", "srst"}, Post(code), host = Owner(code),
             UNCHANGED <<eq, eqFull, actionFlags, transfer>>
      PROVE  SInv'
  <2>1. slow' = [status |-> "pending", code |-> code]
    BY <1>6 DEF Post
  <2>2. TypeOK'
    BY <1>1, <1>6, <2>1 DEF TypeOK
  <2>3. FisIsOutstanding'
    BY <1>1 DEF FisIsOutstanding, Commands
  <2>4. SlotIsOutstanding'
    BY <1>1, <1>2, <1>6, <2>1 DEF SlotIsOutstanding, Owner
  <2> QED
    BY <1>1, <1>2, <1>6, <2>2, <2>3, <2>4
    DEF QueueAsSeen, Deferred, TransferIsOutstanding
<1>7. CASE fis \in Commands /\ fis \notin Queued \cup {"trim"} /\ Post(fis)
           /\ UNCHANGED <<eq, eqFull, actionFlags, transfer>>
  <2>1. fis = "other" /\ host = "other"
    BY <1>7 DEF FisIsOutstanding, Commands, Queued
  <2>2. host = Owner("other")
    BY <2>1 DEF Owner
  <2> QED
    BY <1>6, <1>7, <2>1, <2>2
<1>8. CASE HandlePhyOnline
  <2>1. /\ Post("srst") /\ host = "reset"
        /\ UNCHANGED <<eq, eqFull, actionFlags, transfer>>
    BY <1>8 DEF HandlePhyOnline, FisIsOutstanding
  <2>2. host = Owner("srst")
    BY <2>1 DEF Owner
  <2> QED
    BY <1>6, <2>1, <2>2
<1> QED
  BY <1>3, <1>4, <1>5, <1>7, <1>8 DEF Handler, HandleCommand

\* eventq_get: a deferred transfer is that of the command the host still waits for.
LEMMA SInvEventqGet == SInv /\ EventqGet => SInv'
<1> SUFFICES ASSUME SInv, EventqGet PROVE SInv'
  OBVIOUS
<1> USE DEF SInv
<1>1. /\ main = "get" /\ main' = "ftl" /\ running' = Head(eq) /\ eq' = Tail(eq)
      /\ eqFull' = FALSE /\ transfer' = IF eqFull THEN actionFlags ELSE transfer
      /\ UNCHANGED <<host, fis, actionFlags, slow, fetched>>
  BY DEF EventqGet, StartDeferred
<1>2. eq # <<>> /\ eq \in Seq({"read", "write", "trim"}) /\ Len(eq) <= QueueSize
  BY <1>1 DEF QueueAsSeen, TypeOK
<1>3. /\ eq' \in Seq({"read", "write", "trim"}) /\ Head(eq) \in {"read", "write", "trim"}
      /\ Len(eq') < QueueSize /\ Len(eq') <= QueueSize
  <2>1. /\ Tail(eq) \in Seq({"read", "write", "trim"})
        /\ Head(eq) \in {"read", "write", "trim"}
        /\ Len(Tail(eq)) = Len(eq) - 1 /\ Len(eq) \in Nat
    BY <1>2
  <2> QED
    BY <1>1, <1>2, <2>1, QueueAssumption
<1>4. transfer' \in {"read", "write", "trim", "status", "signature", "none"}
  BY <1>1 DEF TypeOK
<1>5. TypeOK'
  <2>1. running' \in Commands \cup {"srst", "none"}
    BY <1>1, <1>3 DEF Commands
  <2>2. eqFull' \in BOOLEAN /\ main' = "ftl"
    BY <1>1
  <2> QED
    BY <1>1, <1>3, <1>4, <2>1, <2>2 DEF TypeOK
<1>6. CASE eqFull
  <2>1. /\ transfer' = host /\ host \in {"read", "write"} /\ transfer = "none"
        /\ fis = "none"
    BY <1>1, <1>6 DEF Deferred, FisIsOutstanding
  <2>2. slow.status # "pending"
    <3>1. slow.code # "srst" => Owner(slow.code) = slow.code
      BY DEF Owner
    <3>2. slow.code \in {"other", "srst", "none"}
      BY DEF TypeOK
    <3> QED
      BY <2>1, <3>1, <3>2 DEF SlotIsOutstanding, Owner
  <2>3. FisIsOutstanding' /\ SlotIsOutstanding'
    BY <1>1, <2>1, <2>2 DEF FisIsOutstanding, SlotIsOutstanding, Commands
  <2> QED
    BY <1>1, <1>5, <2>1, <2>3 DEF QueueAsSeen, Deferred, TransferIsOutstanding
<1>7. CASE ~eqFull
  <2>1. transfer' = transfer
    BY <1>1, <1>7
  <2>2. FisIsOutstanding'
    BY <1>1, <1>3, <2>1 DEF FisIsOutstanding, Commands
  <2>3. SlotIsOutstanding'
    BY <1>1, <2>1 DEF SlotIsOutstanding
  <2> QED
    BY <1>1, <1>5, <2>1, <2>2, <2>3 DEF QueueAsSeen, Deferred, TransferIsOutstanding
<1> QED
  BY <1>6, <1>7

\* The steps of the main loop that write the slot or start an answer.
LEMMA SInvSlot == SInv /\ (Claim \/ Lookup \/ Answer \/ Release) => SInv'
<1> USE DEF SInv
<1>1. ASSUME SInv, Claim
      PROVE  SInv'
  <2>1. /\ main = "claim" /\ main' = "lookup" /\ slow' = [slow EXCEPT !.status = "busy"]
        /\ UNCHANGED <<host, fis, eq, eqFull, actionFlags, transfer, running, fetched>>
    BY <1>1 DEF Claim
  <2>2. /\ slow'.status = "busy" /\ slow'.code = slow.code
        /\ slow' \in [status : {"none", "pending", "busy"},
                      code : {"other", "srst", "none"}]
    BY <1>1, <2>1 DEF TypeOK
  <2>3. TypeOK'
    BY <1>1, <2>1, <2>2 DEF TypeOK
  <2>4. SlotIsOutstanding'
    BY <1>1, <2>1, <2>2 DEF SlotIsOutstanding, Owner
  <2> QED
    BY <1>1, <2>1, <2>3, <2>4
    DEF FisIsOutstanding, QueueAsSeen, Deferred, TransferIsOutstanding
<1>2. ASSUME SInv, Lookup
      PROVE  SInv'
  <2>1. /\ main = "lookup" /\ main' = "answer" /\ running' = slow.code
        /\ UNCHANGED <<host, fis, eq, eqFull, actionFlags, transfer, slow, fetched>>
    BY <1>2 DEF Lookup
  <2>2. running' \in Commands \cup {"srst", "none"}
    BY <1>2, <2>1 DEF TypeOK, Commands
  <2>3. TypeOK'
    BY <1>2, <2>1, <2>2 DEF TypeOK
  <2> QED
    BY <1>2, <2>1, <2>3
    DEF FisIsOutstanding, SlotIsOutstanding, QueueAsSeen, Deferred, TransferIsOutstanding
<1>3. ASSUME SInv, Answer
      PROVE  SInv'
  <2>1. /\ main = "answer" /\ main' = "release" /\ transfer' \in {"status", "signature"}
        /\ UNCHANGED <<host, fis, eq, eqFull, actionFlags, slow, running, fetched>>
    BY <1>3 DEF Answer
  <2>2. /\ fis = "none" /\ eq = <<>> /\ slow.status = "busy" /\ host = Owner(slow.code)
        /\ slow.code \in {"other", "srst"}
    BY <1>3, <2>1 DEF SlotIsOutstanding, QueueAsSeen, TypeOK
  <2>3. host \in {"other", "reset"} /\ ~eqFull
    BY <1>3, <2>2 DEF Owner, Deferred
  <2>4. TypeOK'
    BY <1>3, <2>1 DEF TypeOK
  <2>5. SlotIsOutstanding'
    BY <1>3, <2>1, <2>2 DEF SlotIsOutstanding
  <2> QED
    BY <1>3, <2>1, <2>2, <2>3, <2>4, <2>5
    DEF FisIsOutstanding, QueueAsSeen, Deferred, TransferIsOutstanding, Commands
<1>4. ASSUME SInv, Release
      PROVE  SInv'
  <2>1. /\ main = "release" /\ main' = "poll" /\ slow' = [slow EXCEPT !.status = "none"]
        /\ UNCHANGED <<host, fis, eq, eqFull, actionFlags, transfer, running, fetched>>
    BY <1>4 DEF Release
  <2>2. /\ slow'.status = "none"
        /\ slow' \in [status : {"none", "pending", "busy"},
                      code : {"other", "srst", "none"}]
    BY <1>4, <2>1 DEF TypeOK
  <2>3. TypeOK'
    BY <1>4, <2>1, <2>2 DEF TypeOK
  <2>4. SlotIsOutstanding'
    BY <1>4, <2>1, <2>2 DEF SlotIsOutstanding
  <2> QED
    BY <1>4, <2>1, <2>3, <2>4
    DEF FisIsOutstanding, QueueAsSeen, Deferred, TransferIsOutstanding
<1> QED
  BY <1>1, <1>2, <1>3, <1>4

\* The steps that move the main loop alone.
LEMMA SInvMoves == SInv /\ (Poll \/ RunFtl \/ TestSlot) => SInv'
<1> USE DEF SInv
<1>1. ASSUME SInv, Poll
      PROVE  SInv'
  <2>1. /\ main = "poll" /\ main' = IF eq # <<>> THEN "get" ELSE "test"
        /\ UNCHANGED <<host, fis, eq, eqFull, actionFlags, transfer, slow, running, fetched>>
    BY <1>1 DEF Poll
  <2>2. TypeOK' /\ FisIsOutstanding' /\ Deferred' /\ TransferIsOutstanding'
    BY <1>1, <2>1 DEF TypeOK, FisIsOutstanding, Deferred, TransferIsOutstanding
  <2> QED
    BY <1>1, <2>1, <2>2 DEF SlotIsOutstanding, QueueAsSeen
<1>2. ASSUME SInv, RunFtl
      PROVE  SInv'
  <2>1. /\ main = "ftl" /\ main' = "poll" /\ fetched' = (fetched \/ running = "read")
        /\ UNCHANGED <<host, fis, eq, eqFull, actionFlags, transfer, slow, running>>
    BY <1>2 DEF RunFtl
  <2>2. fetched' \in BOOLEAN
    BY <1>2, <2>1, Zenon DEF TypeOK
  <2>3. TypeOK'
    BY <1>2, <2>1, <2>2 DEF TypeOK
  <2> QED
    BY <1>2, <2>1, <2>3
    DEF FisIsOutstanding, SlotIsOutstanding, QueueAsSeen, Deferred, TransferIsOutstanding
<1>3. ASSUME SInv, TestSlot
      PROVE  SInv'
  <2>1. /\ main = "test" /\ main' = IF slow.status = "pending" THEN "claim" ELSE "poll"
        /\ UNCHANGED <<host, fis, eq, eqFull, actionFlags, transfer, slow, running, fetched>>
    BY <1>3 DEF TestSlot
  <2>2. TypeOK' /\ FisIsOutstanding' /\ Deferred' /\ TransferIsOutstanding'
    BY <1>3, <2>1 DEF TypeOK, FisIsOutstanding, Deferred, TransferIsOutstanding
  <2>3. slow.status = "pending" => host \in {"other", "reset"}
    BY <1>3 DEF SlotIsOutstanding, Owner, TypeOK
  <2> QED
    BY <1>3, <2>1, <2>2, <2>3 DEF SlotIsOutstanding, QueueAsSeen
<1> QED
  BY <1>1, <1>2, <1>3

LEMMA SInvNext == SInv /\ [Next]_vars => SInv'
<1>1. SInv /\ UNCHANGED vars => SInv'
  BY DEF SInv, TypeOK, FisIsOutstanding, SlotIsOutstanding, QueueAsSeen, Deferred,
         TransferIsOutstanding, vars
<1> QED
  BY <1>1, SInvHostSends, SInvTransferEnds, SInvHandler, SInvEventqGet, SInvSlot, SInvMoves
  DEF Next, Main

----------------------------------------------------------------------------

\* Whatever the size of the event queue and the level of its full bit, only
\* reads, writes and trims enter it and every variable keeps its type.
THEOREM TypeCorrect == Spec => []TypeOK
<1>1. SInv => TypeOK
  BY DEF SInv
<1> QED
  BY SInvInit, SInvNext, <1>1, PTL DEF Spec

\* A transfer is started for the outstanding command only, by the handler or later
\* by eventq_get, and never while another is under way.
THEOREM StartsCorrect == Spec => []StartsOutstanding
<1>1. SInv => StartsOutstanding
  BY DEF SInv, FisIsOutstanding, Deferred, TransferIsOutstanding, StartsOutstanding
<1> QED
  BY SInvInit, SInvNext, <1>1, PTL DEF Spec

\* A slow command runs on an empty event queue: a flush is answered after the
\* writes before it.
THEOREM SlowCorrect == Spec => []SlowAfterQueue
<1>1. SInv => SlowAfterQueue
  BY DEF SInv, QueueAsSeen, SlowAfterQueue
<1> QED
  BY SInvInit, SInvNext, <1>1, PTL DEF Spec
=============================================================================
