-------------------------- MODULE ValidChunksHeap --------------------------
(***************************************************************************)
(* One valid-chunks heap of one bank (heap.c): an array that always holds  *)
(* every block of the bank, the first nElInHeap positions of it a binary   *)
(* min-heap on the count of valid chunks, the others parked, and the table *)
(* that finds the position of a block (HeapPositions).                     *)
(*                                                                         *)
(* An operation that ends in a bubbleUp or a bubbleDown loop is its first  *)
(* action followed by one action per iteration of the loop; no operation   *)
(* starts before the loop of the one before has ended (heap.c is called    *)
(* from one thread).                                                       *)
(*                                                                         *)
(* victim and insertedSince stand for the heap's callers, the garbage      *)
(* collector and the log, which take the root as their victim, work on it, *)
(* possibly fill and insert one more block meanwhile, and remove it.       *)
(***************************************************************************)
EXTENDS Naturals

CONSTANTS NumBlks,       \* logBlksPerBank
          MaxValue,      \* chunks of a block, the largest count
          InitialValue   \* the count of a block nothing was written to

ASSUME NumBlksAssumption == NumBlks \in Nat \ {0}
ASSUME ValueAssumption == MaxValue \in Nat /\ InitialValue \in 0..MaxValue

Blocks == 0..(NumBlks - 1)
Positions == 1..NumBlks
Values == 0..MaxValue
NoBlock == NumBlks

VARIABLES arr,           \* position -> [lbn, value] (heapEl)
          pos,           \* block -> its position (HeapPositions)
          nElInHeap,     \* positions in use
          loop,          \* the loop under way: "none", "up" or "down"
          at,            \* posChild of bubbleUp, posFather of bubbleDown
          victim,        \* the victim the callers work on, or NoBlock
          insertedSince  \* they inserted a block since they chose it

vars == <<arr, pos, nElInHeap, loop, at, victim, insertedSince>>

----------------------------------------------------------------------------

Father(p) == p \div 2

\* ValidChunksHeapInit
Init == /\ arr = [p \in Positions |-> [lbn |-> p - 1, value |-> InitialValue]]
        /\ pos = [b \in Blocks |-> b + 1]
        /\ nElInHeap = 0
        /\ loop = "none"
        /\ at = 1
        /\ victim = NoBlock
        /\ insertedSince = FALSE

StalePosition(a, p, q) == pos                             \* faulty variant

\* The position table after the elements at p and q of the array a swapped.
SwappedPositions(a, p, q) == [pos EXCEPT ![a[p].lbn] = q, ![a[q].lbn] = p]

\* swap, on the array a
Swap(a, p, q) == /\ arr' = [a EXCEPT ![p] = a[q], ![q] = a[p]]
                 /\ pos' = SwappedPositions(a, p, q)

Value(b) == arr[pos[b]].value
WithValue(b, v) == [arr EXCEPT ![pos[b]] = [lbn |-> @.lbn, value |-> v]]
InHeap(b) == pos[b] <= nElInHeap

Bubble(direction, p) == loop' = direction /\ at' = p
NoBubble == loop' = "none" /\ at' = 1

\* One iteration of the loop of bubbleUp: at is posChild.
BubbleUp ==
    /\ loop = "up"
    /\ IF at > 1 /\ arr[at].value < arr[Father(at)].value
       THEN Swap(arr, at, Father(at)) /\ Bubble("up", Father(at))
       ELSE NoBubble /\ UNCHANGED <<arr, pos>>
    /\ UNCHANGED <<nElInHeap, victim, insertedSince>>

LeftChild(p) == 2 * p                                     \* faulty variant

\* The child bubbleDown swaps with: the second one if it is in the heap and the
\* first is not smaller.
SwapChild(p) == IF 2 * p + 1 <= nElInHeap /\ arr[2 * p].value >= arr[2 * p + 1].value
                THEN 2 * p + 1
                ELSE 2 * p

\* One iteration of the loop of bubbleDown: at is posFather.
BubbleDown ==
    /\ loop = "down"
    /\ IF 2 * at <= nElInHeap /\ arr[SwapChild(at)].value < arr[at].value
       THEN Swap(arr, at, SwapChild(at)) /\ Bubble("down", SwapChild(at))
       ELSE NoBubble /\ UNCHANGED <<arr, pos>>
    /\ UNCHANGED <<nElInHeap, victim, insertedSince>>

----------------------------------------------------------------------------
(* The operations.  Counts are UINT16: they wrap at MaxValue.              *)

IncrementWide(b, k) ==                                    \* faulty variant
    /\ arr' = WithValue(b, Value(b) + k)
    /\ IF InHeap(b) THEN Bubble("down", pos[b]) ELSE NoBubble
    /\ UNCHANGED <<pos, nElInHeap, victim, insertedSince>>

\* incrementValidChunksByN
Increment(b, k) ==
    /\ arr' = WithValue(b, IF Value(b) + k <= MaxValue THEN Value(b) + k
                           ELSE Value(b) + k - (MaxValue + 1))
    /\ IF InHeap(b) THEN Bubble("down", pos[b]) ELSE NoBubble
    /\ UNCHANGED <<pos, nElInHeap, victim, insertedSince>>

\* decrementValidChunks (k = 1) and decrementValidChunksByN
Decrement(b, k) ==
    /\ arr' = WithValue(b, IF Value(b) >= k THEN Value(b) - k
                           ELSE Value(b) + (MaxValue + 1) - k)
    /\ IF InHeap(b) THEN Bubble("up", pos[b]) ELSE NoBubble
    /\ UNCHANGED <<pos, nElInHeap, victim, insertedSince>>

\* decrementValidChunksAllByN
DecrementAll(k) ==
    /\ arr' = [p \in Positions |->
                 IF p > nElInHeap THEN arr[p]
                 ELSE [lbn |-> arr[p].lbn,
                       value |-> IF arr[p].value > k THEN arr[p].value - k ELSE 0]]
    /\ NoBubble
    /\ UNCHANGED <<pos, nElInHeap, victim, insertedSince>>

\* setValidChunks
SetValue(b, v) ==
    /\ arr' = WithValue(b, v)
    /\ NoBubble
    /\ UNCHANGED <<pos, nElInHeap, victim, insertedSince>>

\* resetValidChunksAndRemove: the last element of the heap takes the place of
\* the block, and only bubbleDown is called on it.
ResetAndRemove(b, v) ==
    /\ IF InHeap(b)
       THEN /\ Swap(WithValue(b, v), pos[b], nElInHeap)
            /\ nElInHeap' = nElInHeap - 1
            /\ Bubble("down", pos[b])
       ELSE /\ arr' = WithValue(b, v)
            /\ NoBubble
            /\ UNCHANGED <<pos, nElInHeap>>
    /\ victim' = IF b = victim THEN NoBlock ELSE victim
    /\ insertedSince' = (insertedSince /\ b # victim)

\* insertBlkInHeap
InsertNotBubbled(b) ==                                    \* faulty variant
    /\ nElInHeap' = nElInHeap + 1
    /\ Swap(arr, pos[b], nElInHeap + 1)
    /\ NoBubble
    /\ insertedSince' = (victim # NoBlock)
    /\ UNCHANGED victim
Insert(b) ==
    /\ nElInHeap' = nElInHeap + 1
    /\ Swap(arr, pos[b], nElInHeap + 1)
    /\ IF nElInHeap + 1 > 1 THEN Bubble("up", nElInHeap + 1) ELSE NoBubble
    /\ insertedSince' = (victim # NoBlock)
    /\ UNCHANGED victim

VictimFromEnd ==                                          \* faulty variant
    /\ victim' = arr[nElInHeap].lbn
    /\ insertedSince' = FALSE
    /\ NoBubble
    /\ UNCHANGED <<arr, pos, nElInHeap>>

\* getVictim and getVictimValidPagesNumber, by a caller that found the heap
\* not empty and goes on to remove the block it got.
GetVictim ==
    /\ victim' = arr[1].lbn
    /\ insertedSince' = FALSE
    /\ NoBubble
    /\ UNCHANGED <<arr, pos, nElInHeap>>

----------------------------------------------------------------------------
(* How the callers use them.  A count in the heap never wraps, because it  *)
(* counts chunks that are there; the count of a parked block may.  From    *)
(* the choice of a victim to its removal only the count of a parked block  *)
(* changes, the cold block whose holes the copies flush (write.c:304), and *)
(* at most one block is inserted, the cold block the copies filled: they   *)
(* are fewer than the chunks of a block.                                   *)

Calls ==
    /\ loop = "none"
    /\ \/ /\ victim = NoBlock
          /\ \/ \E b \in Blocks, k \in 1..MaxValue :
                   \/ (InHeap(b) => Value(b) + k <= MaxValue) /\ Increment(b, k)
                   \/ (InHeap(b) => Value(b) >= k) /\ Decrement(b, k)
             \/ \E k \in 1..MaxValue : DecrementAll(k)
             \/ \E b \in Blocks, v \in Values : ~InHeap(b) /\ SetValue(b, v)
             \/ nElInHeap > 0 /\ GetVictim
       \/ \E b \in Blocks, k \in 1..MaxValue : ~InHeap(b) /\ Decrement(b, k)
       \/ \E b \in Blocks : ~InHeap(b) /\ ~insertedSince /\ Insert(b)
       \/ \E b \in Blocks, v \in Values :
             (~InHeap(b) \/ b = victim) /\ ResetAndRemove(b, v)

Next == BubbleUp \/ BubbleDown \/ Calls

Spec == Init /\ [][Next]_vars

----------------------------------------------------------------------------

\* Type invariant of the array, the position table and the loop.
TypeOK == /\ arr \in [Positions -> [lbn : Blocks, value : Values]]
          /\ pos \in [Blocks -> Positions]
          /\ nElInHeap \in 0..NumBlks
          /\ loop \in {"none", "up", "down"}
          /\ at \in Positions
          /\ victim \in Blocks \cup {NoBlock}
          /\ insertedSince \in BOOLEAN

\* The position table and the array are inverse to each other, in the heap and
\* beyond its end, after any sequence of swaps: a block whose entry is stale has
\* its chunks counted in another block's count.
PositionsMatch == \A b \in Blocks, p \in Positions : pos[b] = p <=> arr[p].lbn = b

\* q is a child of p and both are in the heap.
ChildInHeap(p, q) == p >= 1 /\ q <= nElInHeap /\ (q = 2 * p \/ q = 2 * p + 1)

\* The heap is ordered except where the loop under way is about to repair it,
\* and what surrounds that place is ordered across it.
HeapOrder ==
    /\ \A p, q \in Positions :
          ChildInHeap(p, q) /\ ~(loop = "up" /\ q = at) /\ ~(loop = "down" /\ p = at)
              => arr[p].value <= arr[q].value
    /\ loop # "none" =>
          \A p, q \in Positions :
              ChildInHeap(p, at) /\ ChildInHeap(at, q) => arr[p].value <= arr[q].value

\* A victim chosen and not yet removed is the root, or the inserted block that
\* has overtaken it is: only then may resetValidChunksAndRemove, which bubbles
\* the replacement down and never up, take it out without breaking the order.
VictimNearRoot ==
    victim # NoBlock =>
        /\ pos[victim] <= nElInHeap
        /\ pos[victim] \in {1, 2, 3}
        /\ pos[victim] # 1 => insertedSince
        /\ ~insertedSince => loop # "up"

\* Callers that ask for a victim get a candidate with the smallest count, and a
\* count is only ever changed by the operation that names its block.
Queue == INSTANCE VictimQueue
            WITH count <- [b \in Blocks |-> Value(b)],
                 candidates <- {b \in Blocks : InHeap(b)},
                 offered <- victim
ImplementsQueue == Queue!QueueSpec
=============================================================================
