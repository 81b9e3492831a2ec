---------------------------- MODULE VictimQueue ----------------------------
(***************************************************************************)
(* What a valid-chunks heap promises the log and the garbage collector: it *)
(* remembers a count for every block of the bank, whether the block is a   *)
(* candidate or not, and offers a candidate with the smallest count.       *)
(***************************************************************************)
EXTENDS Naturals

CONSTANTS Blocks, MaxValue, InitialValue, NoBlock

VARIABLES count,       \* block -> count of valid chunks
          candidates,  \* the blocks a victim may be chosen from
          offered      \* the victim last asked for, or NoBlock

queueVars == <<count, candidates, offered>>

QueueInit == /\ count = [b \in Blocks |-> InitialValue]
             /\ candidates = {}
             /\ offered = NoBlock

Recount == /\ \E b \in Blocks, v \in 0..MaxValue : count' = [count EXCEPT ![b] = v]
           /\ UNCHANGED <<candidates, offered>>

RecountCandidates ==
    /\ \E n \in 1..MaxValue :
          count' = [b \in Blocks |->
                      IF b \notin candidates THEN count[b]
                      ELSE IF count[b] > n THEN count[b] - n ELSE 0]
    /\ UNCHANGED <<candidates, offered>>

Admit == /\ \E b \in Blocks \ candidates : candidates' = candidates \cup {b}
         /\ UNCHANGED <<count, offered>>

\* The least candidate is offered; until it is withdrawn it stays the offer.
Offer == /\ offered = NoBlock
         /\ \E b \in candidates : /\ \A c \in candidates : count[b] <= count[c]
                                  /\ offered' = b
         /\ UNCHANGED <<count, candidates>>

Withdraw == /\ \E b \in Blocks, v \in 0..MaxValue :
                  /\ count' = [count EXCEPT ![b] = v]
                  /\ candidates' = candidates \ {b}
                  /\ offered' = IF b = offered THEN NoBlock ELSE offered

QueueNext == Recount \/ RecountCandidates \/ Admit \/ Offer \/ Withdraw

QueueSpec == QueueInit /\ [][QueueNext]_queueVars
=============================================================================
