----------------------- MODULE ValidChunksHeapProofs -----------------------
(***************************************************************************)
(* Theorems about the valid-chunks heap: for every number of blocks and    *)
(* every range of counts, the position table stays the inverse of the      *)
(* array, the order of the heap is broken only at the place a loop is      *)
(* about to repair, and the heap implements VictimQueue.                   *)
(***************************************************************************)
EXTENDS ValidChunksHeap, FiniteSetTheorems, WellFoundedInduction, TLAPS

----------------------------------------------------------------------------
(* Positions and swaps                                                     *)

\* The father of a position that is not the root is a smaller position, and the
\* position is one of its two children.
LEMMA FatherIsSmaller ==
    ASSUME NEW p \in Nat, p > 1
    PROVE  /\ Father(p) \in Nat
           /\ 1 <= Father(p)
           /\ Father(p) < p
           /\ p = 2 * Father(p) \/ p = 2 * Father(p) + 1
BY SMT DEF Father

\* A swap keeps the types and the match of array and table, and exchanges the
\* blocks of the two positions.
LEMMA SwapKeepsMatch ==
    ASSUME NEW a \in [Positions -> [lbn : Blocks, value : Values]],
           pos \in [Blocks -> Positions],
           NEW p \in Positions, NEW q \in Positions,
           \A b \in Blocks, r \in Positions : pos[b] = r <=> a[r].lbn = b,
           Swap(a, p, q)
    PROVE  /\ arr' \in [Positions -> [lbn : Blocks, value : Values]]
           /\ pos' \in [Blocks -> Positions]
           /\ \A b \in Blocks, r \in Positions : pos'[b] = r <=> arr'[r].lbn = b
           /\ \A r \in Positions : arr'[r] = IF r = p THEN a[q] ELSE IF r = q THEN a[p] ELSE a[r]
           /\ \A b \in Blocks : pos'[b] = IF pos[b] = p THEN q
                                         ELSE IF pos[b] = q THEN p ELSE pos[b]
<1>1. a[p].lbn \in Blocks /\ a[q].lbn \in Blocks
  OBVIOUS
<1>2. arr' = [a EXCEPT ![p] = a[q], ![q] = a[p]]
  BY DEF Swap
<1>3. pos' = [pos EXCEPT ![a[p].lbn] = q, ![a[q].lbn] = p]
  BY DEF Swap, SwappedPositions
<1>4. arr' \in [Positions -> [lbn : Blocks, value : Values]]
  BY <1>2
<1>5. pos' \in [Blocks -> Positions]
  BY <1>1, <1>3
<1>6. ASSUME NEW b \in Blocks, NEW r \in Positions
      PROVE  pos'[b] = r <=> arr'[r].lbn = b
  <2>1. pos'[b] = IF b = a[q].lbn THEN p ELSE IF b = a[p].lbn THEN q ELSE pos[b]
    BY <1>1, <1>3
  <2>2. arr'[r] = IF r = q THEN a[p] ELSE IF r = p THEN a[q] ELSE a[r]
    BY <1>2
  <2> QED
    BY <2>1, <2>2, <1>1
<1>7. \A r \in Positions : arr'[r] = IF r = p THEN a[q] ELSE IF r = q THEN a[p] ELSE a[r]
  BY <1>2
<1>8. ASSUME NEW b \in Blocks
      PROVE  pos'[b] = IF pos[b] = p THEN q ELSE IF pos[b] = q THEN p ELSE pos[b]
  <2>1. pos'[b] = IF b = a[q].lbn THEN p ELSE IF b = a[p].lbn THEN q ELSE pos[b]
    BY <1>1, <1>3
  <2> QED
    BY <2>1
<1> QED
  BY <1>4, <1>5, <1>6, <1>7, <1>8

\* A set of positions that is not empty has a least element: the intervals that
\* end at its elements have a smallest one.
LEMMA LeastPosition ==
    ASSUME NEW T, T \subseteq Positions, T # {}
    PROVE  \E x \in T : \A y \in T : x <= y
<1> DEFINE Intervals == {1..x : x \in T}
<1> DEFINE Less == StrictSubsetOrdering(Positions)
<1>1. IsWellFoundedOn(Less, SUBSET Positions)
  <2>1. IsFiniteSet(Positions)
    BY FS_Interval, NumBlksAssumption DEF Positions
  <2>2. FiniteSubsetsOf(Positions) = SUBSET Positions
    BY <2>1, FS_FiniteSubsetsOfFinite, Zenon
  <2> QED
    BY <2>2, FS_StrictSubsetOrderingWellFounded, Zenon
<1>2. Intervals \subseteq SUBSET Positions /\ Intervals # {}
  <2>1. \A x \in T : x \in 1..NumBlks /\ NumBlks \in Nat
    BY NumBlksAssumption DEF Positions
  <2>2. \A x \in T : 1..x \subseteq 1..NumBlks
    BY <2>1
  <2> QED
    BY <2>2, Zenon DEF Positions
<1>3. PICK I \in Intervals : \A J \in Intervals : ~ (<<J, I>> \in Less)
  <2> HIDE DEF Less, Intervals
  <2> QED
    BY <1>1, <1>2, WFMin, Zenon
<1>4. PICK x \in T : I = 1..x
  OBVIOUS
<1>5. ASSUME NEW y \in T, y < x
      PROVE  FALSE
  <2> DEFINE J == 1..y
  <2>1. J \in Intervals
    OBVIOUS
  <2>2. J \subseteq I /\ J # I
    <3>1. x \in Nat /\ y \in Nat /\ 1 <= x
      BY NumBlksAssumption DEF Positions
    <3>2. x \in 1..x /\ x \notin 1..y
      BY <3>1, <1>5
    <3> QED
      BY <3>1, <3>2, <1>4, <1>5
  <2> HIDE DEF J, Intervals
  <2>3. J \in SUBSET Positions /\ I \in SUBSET Positions
    BY <1>2, <2>1
  <2>4. <<J, I>> \in Less
    BY <2>2, <2>3, Zenon DEF StrictSubsetOrdering
  <2> HIDE DEF Less
  <2> QED
    BY <2>1, <2>4, <1>3, Zenon
<1> QED
  BY <1>5, NumBlksAssumption DEF Positions

----------------------------------------------------------------------------
(* Types and positions                                                     *)

\* The part of the invariant that says where a loop is: a bubbleUp starts in the
\* heap.
LoopInHeap == loop = "up" => at <= nElInHeap

\* The block of the victim, if there is one, is in the heap.
VictimInHeap == victim # NoBlock => pos[victim] <= nElInHeap

PInv == TypeOK /\ PositionsMatch /\ LoopInHeap /\ VictimInHeap

LEMMA PInvInit == Init => PInv
<1> SUFFICES ASSUME Init PROVE PInv
  OBVIOUS
<1> USE NumBlksAssumption, ValueAssumption
<1>1. TypeOK
  <2>1. arr \in [Positions -> [lbn : Blocks, value : Values]]
    BY DEF Init, Positions, Blocks, Values
  <2>2. pos \in [Blocks -> Positions]
    BY DEF Init, Positions, Blocks
  <2>3. nElInHeap \in 0..NumBlks /\ at \in Positions
    BY DEF Init, Positions
  <2> QED
    BY <2>1, <2>2, <2>3 DEF Init, TypeOK
<1>2. PositionsMatch
  BY DEF Init, PositionsMatch, Positions, Blocks
<1> QED
  BY <1>1, <1>2 DEF Init, PInv, LoopInHeap, VictimInHeap

\* Writing a count moves no block.
LEMMA WithValueKeepsMatch ==
    ASSUME PInv, NEW b \in Blocks, NEW v \in Values
    PROVE  /\ WithValue(b, v) \in [Positions -> [lbn : Blocks, value : Values]]
           /\ \A p \in Positions : WithValue(b, v)[p].lbn = arr[p].lbn
           /\ \A p \in Positions :
                 WithValue(b, v)[p].value = IF p = pos[b] THEN v ELSE arr[p].value
           /\ pos[b] \in Positions
<1>1. arr \in [Positions -> [lbn : Blocks, value : Values]] /\ pos[b] \in Positions
  BY DEF PInv, TypeOK
<1> QED
  BY <1>1 DEF WithValue

\* The counts the operations write are counts.
LEMMA CountsWrap ==
    ASSUME PInv, NEW b \in Blocks, NEW k \in 1..MaxValue
    PROVE  /\ Value(b) \in Values
           /\ (IF Value(b) + k <= MaxValue THEN Value(b) + k
               ELSE Value(b) + k - (MaxValue + 1)) \in Values
           /\ (IF Value(b) >= k THEN Value(b) - k
               ELSE Value(b) + (MaxValue + 1) - k) \in Values
<1>1. Value(b) \in Values
  BY DEF PInv, TypeOK, Value
<1> QED
  BY <1>1, ValueAssumption DEF Values

\* A step that moves no block and starts no loop outside the heap.
LEMMA PInvStill ==
    ASSUME PInv,
           arr' \in [Positions -> [lbn : Blocks, value : Values]],
           \A r \in Positions : arr'[r].lbn = arr[r].lbn,
           UNCHANGED <<pos, nElInHeap, victim>>, insertedSince' \in BOOLEAN,
           loop' \in {"none", "up", "down"}, at' \in Positions,
           loop' = "up" => at' <= nElInHeap
    PROVE  PInv'
BY DEF PInv, TypeOK, PositionsMatch, LoopInHeap, VictimInHeap

\* A step that swaps two blocks of the heap.
LEMMA PInvSwap ==
    ASSUME PInv, NEW a \in [Positions -> [lbn : Blocks, value : Values]],
           \A r \in Positions : a[r].lbn = arr[r].lbn,
           NEW p \in Positions, NEW q \in Positions, p <= nElInHeap, q <= nElInHeap,
           Swap(a, p, q), UNCHANGED <<nElInHeap, victim, insertedSince>>,
           loop' \in {"none", "up", "down"}, at' \in {p, q}
    PROVE  PInv'
<1>1. /\ pos \in [Blocks -> Positions]
      /\ nElInHeap \in 0..NumBlks
      /\ victim \in Blocks \cup {NoBlock}
      /\ insertedSince \in BOOLEAN
      /\ \A b \in Blocks, r \in Positions : pos[b] = r <=> a[r].lbn = b
  BY DEF PInv, TypeOK, PositionsMatch
<1>2. /\ arr' \in [Positions -> [lbn : Blocks, value : Values]]
      /\ pos' \in [Blocks -> Positions]
      /\ \A b \in Blocks, r \in Positions : pos'[b] = r <=> arr'[r].lbn = b
      /\ \A b \in Blocks : pos'[b] = IF pos[b] = p THEN q
                                    ELSE IF pos[b] = q THEN p ELSE pos[b]
  BY <1>1, SwapKeepsMatch
<1>3. TypeOK'
  BY <1>1, <1>2 DEF TypeOK
<1>4. VictimInHeap'
  BY <1>1, <1>2 DEF VictimInHeap, PInv
<1> QED
  BY <1>2, <1>3, <1>4 DEF PInv, PositionsMatch, LoopInHeap

\* The two loops and the operations keep the types and the match.
LEMMA PInvBubbleUp == PInv /\ BubbleUp => PInv'
<1> SUFFICES ASSUME PInv, BubbleUp PROVE PInv'
  OBVIOUS
<1>1. /\ arr \in [Positions -> [lbn : Blocks, value : Values]]
      /\ at \in Positions /\ at <= nElInHeap
      /\ nElInHeap \in 0..NumBlks
  BY DEF PInv, TypeOK, LoopInHeap, BubbleUp
<1>2. CASE at > 1 /\ arr[at].value < arr[Father(at)].value
  <2>1. Swap(arr, at, Father(at)) /\ loop' = "up" /\ at' = Father(at)
    BY <1>2 DEF BubbleUp, Bubble
  <2>2. Father(at) \in Positions /\ Father(at) <= nElInHeap
    BY <1>1, <1>2, FatherIsSmaller, NumBlksAssumption DEF Positions
  <2> QED
    BY <1>1, <2>1, <2>2, PInvSwap DEF BubbleUp
<1>3. CASE ~(at > 1 /\ arr[at].value < arr[Father(at)].value)
  <2>1. 1 \in Positions /\ UNCHANGED <<arr, pos>> /\ loop' = "none" /\ at' = 1
    BY <1>3, NumBlksAssumption DEF BubbleUp, NoBubble, Positions
  <2>2. UNCHANGED <<nElInHeap, victim>> /\ insertedSince' \in BOOLEAN
    BY DEF BubbleUp, PInv, TypeOK
  <2> QED
    BY <1>1, <2>1, <2>2, PInvStill
<1> QED
  BY <1>2, <1>3

LEMMA PInvBubbleDown == PInv /\ BubbleDown => PInv'
<1> SUFFICES ASSUME PInv, BubbleDown PROVE PInv'
  OBVIOUS
<1>1. /\ arr \in [Positions -> [lbn : Blocks, value : Values]]
      /\ at \in Positions
      /\ nElInHeap \in 0..NumBlks
  BY DEF PInv, TypeOK
<1>2. CASE 2 * at <= nElInHeap /\ arr[SwapChild(at)].value < arr[at].value
  <2>1. Swap(arr, at, SwapChild(at)) /\ loop' = "down" /\ at' = SwapChild(at)
    BY <1>2 DEF BubbleDown, Bubble
  <2>2. /\ SwapChild(at) \in Positions /\ SwapChild(at) <= nElInHeap
        /\ at <= nElInHeap
    BY <1>1, <1>2, NumBlksAssumption DEF Positions, SwapChild
  <2> QED
    BY <1>1, <2>1, <2>2, PInvSwap DEF BubbleDown
<1>3. CASE ~(2 * at <= nElInHeap /\ arr[SwapChild(at)].value < arr[at].value)
  <2>1. 1 \in Positions /\ UNCHANGED <<arr, pos>> /\ loop' = "none" /\ at' = 1
    BY <1>3, NumBlksAssumption DEF BubbleDown, NoBubble, Positions
  <2>2. UNCHANGED <<nElInHeap, victim>> /\ insertedSince' \in BOOLEAN
    BY DEF BubbleDown, PInv, TypeOK
  <2> QED
    BY <1>1, <2>1, <2>2, PInvStill
<1> QED
  BY <1>2, <1>3

\* Counting: a count is written and a loop starts at its block, if it is in the
\* heap.
LEMMA PInvCount ==
    ASSUME PInv, NEW b \in Blocks, NEW v \in Values, arr' = WithValue(b, v),
           UNCHANGED <<pos, nElInHeap, victim, insertedSince>>,
           NEW direction \in {"up", "down"},
           NoBubble \/ (InHeap(b) /\ Bubble(direction, pos[b]))
    PROVE  PInv'
<1>1. /\ arr' \in [Positions -> [lbn : Blocks, value : Values]]
      /\ \A p \in Positions : arr'[p].lbn = arr[p].lbn
      /\ pos[b] \in Positions
  BY WithValueKeepsMatch
<1>2. 1 \in Positions
  BY NumBlksAssumption DEF Positions
<1>3. /\ loop' \in {"none", "up", "down"} /\ at' \in Positions
      /\ loop' = "up" => at' <= nElInHeap
  BY <1>1, <1>2 DEF NoBubble, Bubble, InHeap
<1>4. UNCHANGED <<nElInHeap, victim>> /\ insertedSince' \in BOOLEAN
  BY DEF PInv, TypeOK
<1> QED
  BY <1>1, <1>3, <1>4, PInvStill

LEMMA PInvCalls == PInv /\ Calls => PInv'
<1> SUFFICES ASSUME PInv, Calls PROVE PInv'
  OBVIOUS
<1> USE NumBlksAssumption, ValueAssumption
<1>1. ASSUME NEW b \in Blocks, NEW k \in 1..MaxValue, Increment(b, k)
      PROVE  PInv'
  <2> DEFINE v == IF Value(b) + k <= MaxValue THEN Value(b) + k
                  ELSE Value(b) + k - (MaxValue + 1)
  <2>1. v \in Values
    BY CountsWrap
  <2>2. arr' = WithValue(b, v) /\ UNCHANGED <<pos, nElInHeap, victim, insertedSince>>
    BY <1>1 DEF Increment
  <2>3. NoBubble \/ (InHeap(b) /\ Bubble("down", pos[b]))
    BY <1>1 DEF Increment
  <2> HIDE DEF v
  <2> QED
    BY <2>1, <2>2, <2>3, PInvCount
<1>2. ASSUME NEW b \in Blocks, NEW k \in 1..MaxValue, Decrement(b, k)
      PROVE  PInv'
  <2> DEFINE v == IF Value(b) >= k THEN Value(b) - k
                  ELSE Value(b) + (MaxValue + 1) - k
  <2>1. v \in Values
    BY CountsWrap
  <2>2. arr' = WithValue(b, v) /\ UNCHANGED <<pos, nElInHeap, victim, insertedSince>>
    BY <1>2 DEF Decrement
  <2>3. NoBubble \/ (InHeap(b) /\ Bubble("up", pos[b]))
    BY <1>2 DEF Decrement
  <2> HIDE DEF v
  <2> QED
    BY <2>1, <2>2, <2>3, PInvCount
<1>3. ASSUME NEW k \in 1..MaxValue, DecrementAll(k)
      PROVE  PInv'
  <2>1. \A p \in Positions : arr[p].lbn \in Blocks /\ arr[p].value \in Values
    BY DEF PInv, TypeOK
  <2>2. /\ arr' \in [Positions -> [lbn : Blocks, value : Values]]
        /\ \A p \in Positions : arr'[p].lbn = arr[p].lbn
    <3>1. ASSUME NEW p \in Positions
          PROVE  (IF p > nElInHeap THEN arr[p]
                  ELSE [lbn |-> arr[p].lbn,
                        value |-> IF arr[p].value > k THEN arr[p].value - k ELSE 0])
                    \in [lbn : Blocks, value : Values]
      <4>1. (IF arr[p].value > k THEN arr[p].value - k ELSE 0) \in Values
        BY <2>1 DEF Values
      <4>2. arr[p] \in [lbn : Blocks, value : Values]
        BY DEF PInv, TypeOK
      <4> QED
        BY <4>1, <4>2, <2>1
    <3> QED
      BY <1>3, <3>1 DEF DecrementAll
  <2>3. 1 \in Positions /\ loop' = "none" /\ at' = 1
    BY <1>3 DEF DecrementAll, NoBubble, Positions
  <2>4. UNCHANGED <<pos, nElInHeap, victim>> /\ insertedSince' \in BOOLEAN
    BY <1>3 DEF DecrementAll, PInv, TypeOK
  <2> QED
    BY <2>2, <2>3, <2>4, PInvStill
<1>4. ASSUME NEW b \in Blocks, NEW v \in Values, SetValue(b, v)
      PROVE  PInv'
  BY <1>4, PInvCount DEF SetValue
<1>5. ASSUME nElInHeap > 0, victim = NoBlock, GetVictim
      PROVE  PInv'
  <2>1. /\ arr \in [Positions -> [lbn : Blocks, value : Values]]
        /\ \A b \in Blocks, r \in Positions : pos[b] = r <=> arr[r].lbn = b
        /\ 1 \in Positions /\ nElInHeap \in 0..NumBlks
    BY DEF PInv, TypeOK, PositionsMatch, Positions
  <2>2. victim' \in Blocks /\ pos[victim'] = 1
    BY <1>5, <2>1 DEF GetVictim
  <2>3. UNCHANGED <<arr, pos, nElInHeap>> /\ loop' = "none" /\ at' = 1 /\ insertedSince' = FALSE
    BY <1>5 DEF GetVictim, NoBubble
  <2>4. TypeOK' /\ PositionsMatch'
    BY <2>1, <2>2, <2>3 DEF PInv, TypeOK, PositionsMatch
  <2>5. LoopInHeap' /\ VictimInHeap'
    BY <1>5, <2>1, <2>2, <2>3 DEF LoopInHeap, VictimInHeap
  <2> QED
    BY <2>4, <2>5 DEF PInv
<1>6. ASSUME NEW b \in Blocks, ~InHeap(b), Insert(b)
      PROVE  PInv'
  <2>1. /\ arr \in [Positions -> [lbn : Blocks, value : Values]]
        /\ pos \in [Blocks -> Positions]
        /\ nElInHeap \in 0..NumBlks
        /\ victim \in Blocks \cup {NoBlock}
        /\ \A d \in Blocks, r \in Positions : pos[d] = r <=> arr[r].lbn = d
        /\ VictimInHeap
    BY DEF PInv, TypeOK, PositionsMatch
  <2>2. /\ pos[b] \in Positions /\ nElInHeap + 1 \in Positions
        /\ pos[b] > nElInHeap /\ nElInHeap + 1 \in 0..NumBlks
    BY <1>6, <2>1 DEF InHeap, Positions
  <2>3. Swap(arr, pos[b], nElInHeap + 1) /\ nElInHeap' = nElInHeap + 1 /\ victim' = victim
    BY <1>6 DEF Insert
  <2>4. /\ arr' \in [Positions -> [lbn : Blocks, value : Values]]
        /\ pos' \in [Blocks -> Positions]
        /\ \A d \in Blocks, r \in Positions : pos'[d] = r <=> arr'[r].lbn = d
        /\ \A d \in Blocks : pos'[d] = IF pos[d] = pos[b] THEN nElInHeap + 1
                                      ELSE IF pos[d] = nElInHeap + 1 THEN pos[b] ELSE pos[d]
    BY <2>1, <2>2, <2>3, SwapKeepsMatch
  <2>5. /\ loop' \in {"none", "up", "down"} /\ at' \in Positions
        /\ loop' = "up" => at' <= nElInHeap'
        /\ insertedSince' \in BOOLEAN
    BY <1>6, <2>2, <2>3 DEF Insert, Bubble, NoBubble, Positions
  <2>6. VictimInHeap'
    <3> SUFFICES ASSUME victim # NoBlock PROVE pos'[victim] <= nElInHeap + 1
      BY <2>3 DEF VictimInHeap
    <3>1. victim \in Blocks /\ pos[victim] \in Positions /\ pos[victim] <= nElInHeap
      BY <2>1 DEF VictimInHeap
    <3>2. pos[victim] # pos[b] /\ pos[victim] # nElInHeap + 1
      BY <2>1, <2>2, <3>1 DEF Positions
    <3>3. pos'[victim] = pos[victim]
      BY <2>4, <3>1, <3>2, Zenon
    <3> QED
      BY <2>1, <3>1, <3>3 DEF Positions
  <2> QED
    BY <2>1, <2>2, <2>3, <2>4, <2>5, <2>6 DEF PInv, TypeOK, PositionsMatch, LoopInHeap
<1>7. ASSUME NEW b \in Blocks, NEW v \in Values, ~InHeap(b) \/ b = victim,
             ResetAndRemove(b, v)
      PROVE  PInv'
  <2>1. /\ WithValue(b, v) \in [Positions -> [lbn : Blocks, value : Values]]
        /\ \A p \in Positions : WithValue(b, v)[p].lbn = arr[p].lbn
        /\ pos[b] \in Positions
    BY WithValueKeepsMatch
  <2>2. /\ pos \in [Blocks -> Positions]
        /\ nElInHeap \in 0..NumBlks
        /\ victim \in Blocks \cup {NoBlock}
        /\ insertedSince' \in BOOLEAN
        /\ \A d \in Blocks, r \in Positions : pos[d] = r <=> arr[r].lbn = d
        /\ VictimInHeap
        /\ NoBlock \notin Blocks
    BY <1>7 DEF PInv, TypeOK, PositionsMatch, ResetAndRemove, NoBlock, Blocks
  <2>3. CASE InHeap(b)
    <3>1. /\ Swap(WithValue(b, v), pos[b], nElInHeap)
          /\ nElInHeap' = nElInHeap - 1 /\ loop' = "down" /\ at' = pos[b]
      BY <1>7, <2>3 DEF ResetAndRemove, Bubble
    <3>2. pos[b] <= nElInHeap /\ nElInHeap \in Positions /\ nElInHeap - 1 \in 0..NumBlks
      BY <2>1, <2>2, <2>3 DEF InHeap, Positions
    <3>3. \A d \in Blocks, r \in Positions : pos[d] = r <=> WithValue(b, v)[r].lbn = d
      BY <2>1, <2>2
    <3>4. /\ arr' \in [Positions -> [lbn : Blocks, value : Values]]
          /\ pos' \in [Blocks -> Positions]
          /\ \A d \in Blocks, r \in Positions : pos'[d] = r <=> arr'[r].lbn = d
      BY <2>1, <2>2, <3>1, <3>2, <3>3, SwapKeepsMatch
    <3>5. victim' = NoBlock
      BY <1>7, <2>3 DEF ResetAndRemove
    <3>6. TypeOK'
      BY <2>1, <2>2, <3>1, <3>2, <3>4, <3>5 DEF TypeOK
    <3>7. PositionsMatch' /\ LoopInHeap' /\ VictimInHeap'
      BY <3>1, <3>4, <3>5 DEF PositionsMatch, LoopInHeap, VictimInHeap
    <3> QED
      BY <3>6, <3>7 DEF PInv
  <2>4. CASE ~InHeap(b)
    <3>1. b # victim
      BY <2>2, <2>4 DEF VictimInHeap, InHeap
    <3>2. /\ arr' = WithValue(b, v) /\ UNCHANGED <<pos, nElInHeap, victim>>
          /\ loop' = "none" /\ at' = 1
      BY <1>7, <2>4, <3>1 DEF ResetAndRemove, NoBubble
    <3>3. 1 \in Positions
      BY DEF Positions
    <3> QED
      BY <2>1, <2>2, <3>2, <3>3, PInvStill
  <2> QED
    BY <2>3, <2>4
<1> QED
  BY <1>1, <1>2, <1>3, <1>4, <1>5, <1>6, <1>7 DEF Calls

LEMMA PInvNext == PInv /\ [Next]_vars => PInv'
<1>1. PInv /\ UNCHANGED vars => PInv'
  BY DEF PInv, TypeOK, PositionsMatch, LoopInHeap, VictimInHeap, vars
<1> QED
  BY <1>1, PInvBubbleUp, PInvBubbleDown, PInvCalls DEF Next

\* For every number of blocks and every range of counts the heap's variables keep
\* their types.
THEOREM TypeCorrect == Spec => []TypeOK
<1>1. PInv => TypeOK
  BY DEF PInv
<1> QED
  BY PInvInit, PInvNext, <1>1, PTL DEF Spec

\* The position table is always the inverse of the array, over any sequence of
\* the operations and of the swaps of their loops.
THEOREM PositionsCorrect == Spec => []PositionsMatch
<1>1. PInv => PositionsMatch
  BY DEF PInv
<1> QED
  BY PInvInit, PInvNext, <1>1, PTL DEF Spec

----------------------------------------------------------------------------
(* The order of the heap                                                   *)

\* While the callers have a victim only an insertion can be under way, and the
\* victim is the root until the inserted block takes its place.
LoopAndVictim ==
    /\ loop = "down" => victim = NoBlock
    /\ victim # NoBlock /\ loop = "up" /\ at > 1 => pos[victim] = 1

HInv == PInv /\ HeapOrder /\ VictimNearRoot /\ LoopAndVictim

\* The types of what the order is about.
LEMMA HeapTypes ==
    ASSUME PInv
    PROVE  /\ nElInHeap \in Nat /\ nElInHeap <= NumBlks /\ NumBlks \in Nat /\ NumBlks >= 1
           /\ at \in Nat /\ at >= 1 /\ at <= NumBlks
           /\ \A p \in Positions : p \in Nat /\ 1 <= p /\ p <= NumBlks
           /\ \A p \in Nat : 1 <= p /\ p <= NumBlks => p \in Positions
           /\ \A p \in Positions : arr[p].value \in Nat
           /\ \A b \in Blocks : pos[b] \in Positions
           /\ NoBlock \notin Blocks
<1>1. \A p \in Positions : arr[p].value \in Values
  BY DEF PInv, TypeOK
<1>2. \A v \in Values : v \in Nat
  BY ValueAssumption DEF Values
<1> QED
  <2>1. /\ nElInHeap \in 0..NumBlks /\ at \in Positions /\ pos \in [Blocks -> Positions]
    BY DEF PInv, TypeOK
  <2>2. \A p \in Positions : p \in Nat /\ 1 <= p /\ p <= NumBlks
    BY NumBlksAssumption DEF Positions
  <2>3. \A p \in Nat : 1 <= p /\ p <= NumBlks => p \in Positions
    BY NumBlksAssumption DEF Positions
  <2>4. \A p \in Positions : arr[p].value \in Nat
    BY <1>1, <1>2
  <2>5. NoBlock \notin Blocks
    BY NumBlksAssumption DEF Blocks, NoBlock
  <2>6. nElInHeap \in Nat /\ nElInHeap <= NumBlks /\ NumBlks \in Nat /\ NumBlks >= 1
    BY <2>1, NumBlksAssumption
  <2> QED
    BY <2>1, <2>2, <2>3, <2>4, <2>5, <2>6

\* Between two operations the root has the smallest count of the heap.
LEMMA RootLeast ==
    ASSUME PInv, HeapOrder, loop = "none", NEW q \in Positions, q <= nElInHeap
    PROVE  arr[1].value <= arr[q].value
<1> DEFINE T == {r \in Positions : r <= nElInHeap /\ arr[r].value < arr[1].value}
<1>1. CASE T = {}
  <2>1. arr[1].value \in Nat /\ arr[q].value \in Nat
    BY HeapTypes
  <2> QED
    BY <1>1, <2>1
<1>2. CASE T # {}
  <2>1. PICK x \in T : \A y \in T : x <= y
    <3>1. T \subseteq Positions
      OBVIOUS
    <3> HIDE DEF T
    <3> QED
      BY <1>2, <3>1, LeastPosition
  <2>2. /\ x \in Nat /\ x >= 1 /\ x <= nElInHeap /\ x # 1 /\ x <= NumBlks
        /\ arr[x].value < arr[1].value
    BY HeapTypes
  <2> DEFINE f == Father(x)
  <2>3. f \in Nat /\ 1 <= f /\ f < x /\ (x = 2 * f \/ x = 2 * f + 1)
    BY <2>2, FatherIsSmaller
  <2>4. f \in Positions /\ f \notin T
    <3> HIDE DEF f
    <3>1. f \in Positions
      BY <2>2, <2>3, HeapTypes
    <3>2. ~(x <= f)
      BY <2>2, <2>3
    <3> QED
      BY <2>1, <3>1, <3>2, Zenon
  <2>5. arr[f].value <= arr[x].value
    <3> HIDE DEF f
    <3>1. ChildInHeap(f, x)
      BY <2>2, <2>3 DEF ChildInHeap
    <3> QED
      BY <2>4, <3>1 DEF HeapOrder
  <2>6. arr[1].value <= arr[f].value
    <3> HIDE DEF f
    <3>1. f <= nElInHeap
      BY <2>2, <2>3, HeapTypes
    <3>2. arr[1].value \in Nat /\ arr[f].value \in Nat
      BY <2>4, HeapTypes
    <3> QED
      BY <2>4, <3>1, <3>2
  <2> HIDE DEF f
  <2>7. arr[1].value \in Nat /\ arr[f].value \in Nat /\ arr[x].value \in Nat
    BY <2>4, HeapTypes
  <2> QED
    BY <2>2, <2>5, <2>6, <2>7
<1> QED
  BY <1>1, <1>2

\* The order as a statement about one pair.
LEMMA PairOrdered ==
    ASSUME HeapOrder, NEW p \in Positions, NEW q \in Positions, ChildInHeap(p, q)
    PROVE  /\ ~(loop = "up" /\ q = at) /\ ~(loop = "down" /\ p = at)
                 => arr[p].value <= arr[q].value
BY DEF HeapOrder

\* What surrounds the place of a loop is ordered across it.
LEMMA AcrossOrdered ==
    ASSUME HeapOrder, loop # "none", NEW p \in Positions, NEW q \in Positions,
           ChildInHeap(p, at), ChildInHeap(at, q)
    PROVE  arr[p].value <= arr[q].value
BY DEF HeapOrder

\* Children of positions, in the heap or not.
LEMMA ChildFacts ==
    ASSUME PInv, NEW p \in Positions, NEW q \in Positions, ChildInHeap(p, q)
    PROVE  /\ p < q /\ q <= nElInHeap
           /\ \A r \in Positions : ChildInHeap(r, q) => r = p
           /\ q = 2 * p \/ q = 2 * p + 1
<1>1. p \in Nat /\ q \in Nat /\ p >= 1 /\ \A r \in Positions : r \in Nat
  BY HeapTypes
<1> QED
  BY <1>1 DEF ChildInHeap

\* bubbleUp: the element that moves to its father is smaller than all below.
LEMMA OrderBubbleUpSwap ==
    ASSUME HInv, loop = "up", at > 1, arr[at].value < arr[Father(at)].value,
           Swap(arr, at, Father(at)), loop' = "up", at' = Father(at),
           nElInHeap' = nElInHeap
    PROVE  HeapOrder'
<1> DEFINE f == Father(at)
<1>1. /\ f \in Nat /\ 1 <= f /\ f < at /\ (at = 2 * f \/ at = 2 * f + 1)
      /\ at <= nElInHeap /\ at \in Positions /\ f \in Positions
  <2>1. at \in Nat /\ at > 1 /\ at <= nElInHeap /\ nElInHeap \in Nat /\ nElInHeap <= NumBlks
    BY HeapTypes DEF HInv, PInv, LoopInHeap
  <2> QED
    BY <2>1, FatherIsSmaller, HeapTypes DEF HInv
<1>2. /\ \A r \in Positions : arr'[r] = IF r = at THEN arr[f] ELSE IF r = f THEN arr[at]
                                     ELSE arr[r]
  BY <1>1, SwapKeepsMatch DEF HInv, PInv, TypeOK, PositionsMatch
<1>3. ChildInHeap(f, at) /\ \A r \in Positions : ChildInHeap(r, at) => r = f
  BY <1>1, ChildFacts DEF ChildInHeap, HInv
<1>4. \A r \in Positions : arr[r].value \in Nat
  BY HeapTypes DEF HInv
<1>5. arr[at].value < arr[f].value /\ at' = f
  OBVIOUS
<1>6. \A p, q : ChildInHeap(p, q)' <=> ChildInHeap(p, q)
  BY DEF ChildInHeap
<1> HIDE DEF f
<1>7. ASSUME NEW p \in Positions, NEW q \in Positions, ChildInHeap(p, q), q # f
      PROVE  arr'[p].value <= arr'[q].value
  <2>1. CASE p = at
    <3>1. arr[f].value <= arr[q].value
      BY <1>1, <1>3, <1>7, <2>1, AcrossOrdered DEF HInv
    <3>2. q # at
      BY <1>7, <2>1, ChildFacts, HeapTypes DEF HInv
    <3> QED
      BY <1>2, <1>7, <2>1, <3>1, <3>2
  <2>2. CASE p = f
    <3>1. CASE q = at
      BY <1>1, <1>2, <1>4, <1>5, <2>2, <3>1
    <3>2. CASE q # at
      <4>1. arr[f].value <= arr[q].value
        BY <1>7, <2>2, <3>2, PairOrdered DEF HInv
      <4>2. arr'[p].value = arr[at].value /\ arr'[q].value = arr[q].value
        BY <1>1, <1>2, <1>7, <2>2, <3>2
      <4>3. arr[f].value \in Nat /\ arr[q].value \in Nat /\ arr[at].value \in Nat
        BY <1>1, <1>4
      <4>4. arr[at].value <= arr[q].value
        BY <1>5, <4>1, <4>3
      <4> QED
        BY <4>2, <4>4
    <3> QED
      BY <3>1, <3>2
  <2>3. CASE p # at /\ p # f
    <3>1. q # at
      BY <1>3, <1>7, <2>3
    <3>2. arr[p].value <= arr[q].value
      BY <1>7, <3>1, PairOrdered DEF HInv
    <3> QED
      BY <1>2, <1>7, <2>3, <3>1, <3>2
  <2> QED
    BY <2>1, <2>2, <2>3
<1>8. ASSUME NEW p \in Positions, NEW q \in Positions, ChildInHeap(p, f), ChildInHeap(f, q)
      PROVE  arr'[p].value <= arr'[q].value
  <2>1. p < f /\ f < at
    BY <1>1, <1>8, ChildFacts DEF HInv
  <2>2. p # f /\ p # at /\ q # f
    BY <2>1, <1>1, <1>8, ChildFacts, HeapTypes DEF HInv
  <2>3. arr[p].value <= arr[f].value
    BY <1>1, <1>8, PairOrdered DEF HInv
  <2>4. CASE q = at
    BY <1>2, <2>2, <2>3, <2>4
  <2>5. CASE q # at
    <3>1. arr[f].value <= arr[q].value
      BY <1>1, <1>8, <2>5, PairOrdered DEF HInv
    <3>2. arr'[p].value = arr[p].value /\ arr'[q].value = arr[q].value
      BY <1>2, <1>8, <2>2, <2>5
    <3> QED
      BY <1>1, <1>4, <2>3, <3>1, <3>2
  <2> QED
    BY <2>4, <2>5
<1> QED
  BY <1>5, <1>6, <1>7, <1>8 DEF HeapOrder

\* bubbleDown: the element that moves to its smaller child.
LEMMA OrderBubbleDownSwap ==
    ASSUME HInv, loop = "down", 2 * at <= nElInHeap,
           arr[SwapChild(at)].value < arr[at].value,
           Swap(arr, at, SwapChild(at)), loop' = "down", at' = SwapChild(at),
           nElInHeap' = nElInHeap
    PROVE  HeapOrder'
<1> DEFINE c == SwapChild(at)
<1>0. at \in Nat /\ at >= 1 /\ nElInHeap \in Nat /\ nElInHeap <= NumBlks /\ at \in Positions
  BY HeapTypes DEF HInv, PInv, TypeOK
<1>1. /\ c \in Nat /\ (c = 2 * at \/ c = 2 * at + 1) /\ c <= nElInHeap /\ at < c
      /\ c \in Positions
  <2>1. c \in Nat /\ (c = 2 * at \/ c = 2 * at + 1) /\ c <= nElInHeap
    BY <1>0 DEF SwapChild
  <2> HIDE DEF c
  <2> QED
    BY <1>0, <2>1, HeapTypes DEF HInv
<1>2. /\ \A r \in Positions : arr'[r] = IF r = at THEN arr[c] ELSE IF r = c THEN arr[at]
                                     ELSE arr[r]
  BY <1>0, <1>1, SwapKeepsMatch DEF HInv, PInv, TypeOK, PositionsMatch
<1>4. \A r \in Positions : arr[r].value \in Nat
  BY HeapTypes DEF HInv
<1>3. ASSUME NEW q \in Positions, ChildInHeap(at, q)
      PROVE  arr[c].value <= arr[q].value
  <2>1. q \in Nat /\ q <= nElInHeap /\ (q = 2 * at \/ q = 2 * at + 1)
    BY <1>3, HeapTypes DEF ChildInHeap, HInv
  <2>2. 2 * at \in Positions
    BY <1>0, HeapTypes DEF HInv
  <2>3. CASE q = 2 * at
    <3>1. CASE 2 * at + 1 <= nElInHeap
      <4>1. 2 * at + 1 \in Positions
        BY <1>0, <3>1, HeapTypes DEF HInv
      <4>2. arr[2 * at].value \in Nat /\ arr[2 * at + 1].value \in Nat
        BY <1>4, <2>2, <4>1
      <4> QED
        BY <2>3, <3>1, <4>2 DEF SwapChild
    <3>2. CASE ~(2 * at + 1 <= nElInHeap)
      <4>1. c = q
        BY <2>3, <3>2 DEF SwapChild
      <4>2. arr[q].value \in Nat
        BY <1>4
      <4> QED
        BY <4>1, <4>2
    <3> QED
      BY <3>1, <3>2
  <2>4. CASE q = 2 * at + 1
    <3>1. arr[2 * at].value \in Nat /\ arr[q].value \in Nat
      BY <1>4, <2>2
    <3> QED
      BY <2>1, <2>4, <3>1 DEF SwapChild
  <2> QED
    BY <2>1, <2>3, <2>4
<1>5. arr[c].value < arr[at].value /\ at' = c
  OBVIOUS
<1>6. \A p, q : ChildInHeap(p, q)' <=> ChildInHeap(p, q)
  BY DEF ChildInHeap
<1> HIDE DEF c
<1>7. ChildInHeap(at, c) /\ \A r \in Positions : ChildInHeap(r, c) => r = at
  BY <1>0, <1>1, ChildFacts DEF ChildInHeap, HInv
<1>8. ASSUME NEW p \in Positions, NEW q \in Positions, ChildInHeap(p, q), p # c
      PROVE  arr'[p].value <= arr'[q].value
  <2>0. /\ arr[p].value \in Nat /\ arr[q].value \in Nat
        /\ arr[at].value \in Nat /\ arr[c].value \in Nat
    BY <1>0, <1>1, <1>4
  <2>1. CASE p = at
    <3>1. arr'[p].value = arr[c].value
      BY <1>2, <2>1
    <3>2. arr[c].value <= arr[q].value
      BY <1>3, <1>8, <2>1
    <3>3. q # at
      BY <1>8, <2>1, ChildFacts, HeapTypes DEF HInv
    <3>4. arr'[q].value = IF q = c THEN arr[at].value ELSE arr[q].value
      BY <1>2, <3>3
    <3> QED
      BY <1>5, <2>0, <3>1, <3>2, <3>4
  <2>2. CASE q = at
    <3>1. p # at
      BY <1>8, <2>2, ChildFacts, HeapTypes DEF HInv
    <3>2. arr'[p].value = arr[p].value /\ arr'[q].value = arr[c].value
      BY <1>2, <1>8, <2>2, <3>1
    <3>3. arr[p].value <= arr[c].value
      BY <1>1, <1>7, <1>8, <2>2, AcrossOrdered DEF HInv
    <3> QED
      BY <3>2, <3>3
  <2>3. CASE p # at /\ q # at
    <3>1. q # c
      BY <1>7, <1>8, <2>3
    <3>2. arr'[p].value = arr[p].value /\ arr'[q].value = arr[q].value
      BY <1>2, <1>8, <2>3, <3>1
    <3>3. arr[p].value <= arr[q].value
      BY <1>8, <2>3, PairOrdered DEF HInv
    <3> QED
      BY <3>2, <3>3
  <2> QED
    BY <2>1, <2>2, <2>3
<1>9. ASSUME NEW p \in Positions, NEW q \in Positions, ChildInHeap(p, c), ChildInHeap(c, q)
      PROVE  arr'[p].value <= arr'[q].value
  <2>1. p = at
    BY <1>7, <1>9
  <2>2. c < q
    BY <1>1, <1>9, ChildFacts DEF HInv
  <2>3. q # at /\ q # c /\ c # at
    BY <1>0, <1>1, <2>2, HeapTypes DEF HInv
  <2>4. arr'[p].value = arr[c].value /\ arr'[q].value = arr[q].value
    BY <1>2, <2>1, <2>3
  <2>5. arr[c].value <= arr[q].value
    BY <1>1, <1>9, <2>3, PairOrdered DEF HInv
  <2> QED
    BY <2>4, <2>5
<1> QED
  BY <1>5, <1>6, <1>8, <1>9 DEF HeapOrder

\* A loop that stops has found its place ordered.
LEMMA OrderBubbleUpStop ==
    ASSUME HInv, loop = "up", ~(at > 1 /\ arr[at].value < arr[Father(at)].value),
           UNCHANGED <<arr, nElInHeap>>, loop' = "none"
    PROVE  HeapOrder'
<1>1. ASSUME NEW p \in Positions, NEW q \in Positions, ChildInHeap(p, q)
      PROVE  arr[p].value <= arr[q].value
  <2>1. CASE q = at
    <3>1. p \in Nat /\ q \in Nat /\ p >= 1 /\ (q = 2 * p \/ q = 2 * p + 1)
      BY <1>1, HeapTypes DEF ChildInHeap, HInv
    <3>2. q > 1 /\ Father(q) = p
      BY <3>1 DEF Father
    <3>3. arr[p].value \in Nat /\ arr[q].value \in Nat
      BY HeapTypes DEF HInv
    <3>4. ~(arr[q].value < arr[p].value)
      BY <2>1, <3>2
    <3> QED
      BY <3>3, <3>4
  <2>2. CASE q # at
    BY <1>1, <2>2, PairOrdered DEF HInv
  <2> QED
    BY <2>1, <2>2
<1>2. \A p, q : ChildInHeap(p, q)' <=> ChildInHeap(p, q)
  BY DEF ChildInHeap
<1> QED
  BY <1>1, <1>2 DEF HeapOrder

LEMMA OrderBubbleDownStop ==
    ASSUME HInv, loop = "down",
           ~(2 * at <= nElInHeap /\ arr[SwapChild(at)].value < arr[at].value),
           UNCHANGED <<arr, nElInHeap>>, loop' = "none"
    PROVE  HeapOrder'
<1>0. /\ at \in Nat /\ nElInHeap \in Nat /\ nElInHeap <= NumBlks
      /\ \A r \in Positions : r \in Nat /\ arr[r].value \in Nat
      /\ at \in Positions
  BY HeapTypes DEF HInv, PInv, TypeOK
<1>1. ASSUME NEW p \in Positions, NEW q \in Positions, ChildInHeap(p, q)
      PROVE  arr[p].value <= arr[q].value
  <2>1. CASE p = at
    <3>1. q \in Nat /\ q <= nElInHeap /\ (q = 2 * at \/ q = 2 * at + 1) /\ at >= 1
      BY <1>0, <1>1, <2>1 DEF ChildInHeap
    <3>2. 2 * at <= nElInHeap
      BY <1>0, <3>1
    <3>3. 2 * at \in Positions
      BY <1>0, <3>1, <3>2, HeapTypes DEF HInv
    <3>4. /\ arr[at].value \in Nat /\ arr[q].value \in Nat /\ arr[2 * at].value \in Nat
      BY <1>0, <3>3
    <3>5. ~(arr[SwapChild(at)].value < arr[at].value)
      BY <3>2
    <3>6. CASE q = 2 * at + 1
      <4>1. CASE arr[2 * at].value >= arr[q].value
        <5>1. SwapChild(at) = q
          BY <3>1, <3>6, <4>1 DEF SwapChild
        <5> QED
          BY <2>1, <3>4, <3>5, <5>1
      <4>2. CASE ~(arr[2 * at].value >= arr[q].value)
        <5>1. SwapChild(at) = 2 * at
          BY <3>6, <4>2 DEF SwapChild
        <5>2. arr[2 * at].value >= arr[at].value
          BY <3>4, <3>5, <5>1
        <5> QED
          BY <2>1, <3>4, <4>2, <5>2
      <4> QED
        BY <4>1, <4>2
    <3>7. CASE q = 2 * at
      <4>1. CASE 2 * at + 1 <= nElInHeap /\ arr[q].value >= arr[2 * at + 1].value
        <5>1. SwapChild(at) = 2 * at + 1
          BY <3>7, <4>1 DEF SwapChild
        <5>2. 2 * at + 1 \in Positions
          BY <1>0, <4>1, HeapTypes DEF HInv
        <5>3. arr[2 * at + 1].value \in Nat
          BY <1>0, <5>2
        <5>4. arr[2 * at + 1].value >= arr[at].value
          BY <3>4, <3>5, <5>1, <5>3
        <5> QED
          BY <2>1, <3>4, <4>1, <5>3, <5>4
      <4>2. CASE ~(2 * at + 1 <= nElInHeap /\ arr[q].value >= arr[2 * at + 1].value)
        <5>1. SwapChild(at) = q
          BY <3>7, <4>2 DEF SwapChild
        <5> QED
          BY <2>1, <3>4, <3>5, <5>1
      <4> QED
        BY <4>1, <4>2
    <3> QED
      BY <3>1, <3>6, <3>7
  <2>2. CASE p # at
    BY <1>1, <2>2, PairOrdered DEF HInv
  <2> QED
    BY <2>1, <2>2
<1>2. \A p, q : ChildInHeap(p, q)' <=> ChildInHeap(p, q)
  BY DEF ChildInHeap
<1> QED
  BY <1>1, <1>2 DEF HeapOrder

\* A count of the heap that changes leaves the order broken at its place only,
\* on the side the loop that follows repairs.
LEMMA OrderCount ==
    ASSUME HInv, loop = "none", NEW x \in Positions, x <= nElInHeap,
           \A r \in Positions : arr'[r].value \in Nat,
           \A r \in Positions : r # x => arr'[r].value = arr[r].value,
           \/ loop' = "down" /\ arr'[x].value >= arr[x].value
           \/ loop' = "up" /\ arr'[x].value <= arr[x].value,
           at' = x, nElInHeap' = nElInHeap
    PROVE  HeapOrder'
<1>0. \A r \in Positions : r \in Nat /\ arr[r].value \in Nat
  BY HeapTypes DEF HInv
<1>1. \A p, q \in Positions : ChildInHeap(p, q) => arr[p].value <= arr[q].value
  BY PairOrdered DEF HInv
<1>2. \A p, q \in Positions : ChildInHeap(p, q) => p # q
  BY ChildFacts, <1>0 DEF HInv
<1>3. \A p, q : ChildInHeap(p, q)' <=> ChildInHeap(p, q)
  BY DEF ChildInHeap
<1>4. ASSUME NEW p \in Positions, NEW q \in Positions, ChildInHeap(p, q),
             ~(loop' = "up" /\ q = x), ~(loop' = "down" /\ p = x)
      PROVE  arr'[p].value <= arr'[q].value
  <2>1. /\ arr[p].value \in Nat /\ arr[q].value \in Nat /\ arr[p].value <= arr[q].value
        /\ arr'[p].value \in Nat /\ arr'[q].value \in Nat /\ p # q
    BY <1>0, <1>1, <1>2, <1>4
  <2>2. CASE p = x
    <3>1. arr'[q].value = arr[q].value /\ arr'[p].value <= arr[p].value
      BY <1>4, <2>1, <2>2
    <3> QED
      BY <2>1, <3>1
  <2>3. CASE q = x
    <3>1. arr'[p].value = arr[p].value /\ arr'[q].value >= arr[q].value
      BY <1>4, <2>1, <2>3
    <3> QED
      BY <2>1, <3>1
  <2>4. CASE p # x /\ q # x
    BY <2>1, <2>4
  <2> QED
    BY <2>2, <2>3, <2>4
<1>5. ASSUME NEW p \in Positions, NEW q \in Positions, ChildInHeap(p, x), ChildInHeap(x, q)
      PROVE  arr'[p].value <= arr'[q].value
  <2>1. arr[p].value <= arr[x].value /\ arr[x].value <= arr[q].value
    BY <1>1, <1>5
  <2>2. arr'[p].value = arr[p].value /\ arr'[q].value = arr[q].value
    BY <1>2, <1>5
  <2>3. arr[p].value \in Nat /\ arr[q].value \in Nat /\ arr[x].value \in Nat
    BY <1>0
  <2> QED
    BY <2>1, <2>2, <2>3
<1> QED
  BY <1>3, <1>4, <1>5 DEF HeapOrder

\* A step that keeps the counts of the heap between two operations.
LEMMA OrderParked ==
    ASSUME HInv, loop = "none", loop' = "none", nElInHeap' = nElInHeap,
           \A r \in Positions : r <= nElInHeap => arr'[r].value = arr[r].value
    PROVE  HeapOrder'
<1>1. \A p, q : ChildInHeap(p, q)' <=> ChildInHeap(p, q)
  BY DEF ChildInHeap
<1>2. ASSUME NEW p \in Positions, NEW q \in Positions, ChildInHeap(p, q)
      PROVE  arr'[p].value <= arr'[q].value
  <2>1. arr[p].value <= arr[q].value
    BY <1>2, PairOrdered DEF HInv
  <2>2. p < q /\ q <= nElInHeap /\ p \in Nat /\ q \in Nat /\ nElInHeap \in Nat
    BY <1>2, ChildFacts, HeapTypes DEF HInv
  <2>3. p <= nElInHeap /\ q <= nElInHeap
    BY <2>2
  <2> QED
    BY <2>1, <2>3
<1> QED
  BY <1>1, <1>2 DEF HeapOrder

\* decrementValidChunksAllByN keeps the order: the smaller of two counts is not
\* greater after it.
LEMMA OrderDecrementAll ==
    ASSUME HInv, loop = "none", NEW k \in 1..MaxValue, DecrementAll(k)
    PROVE  HeapOrder'
<1>0. \A r \in Positions : r \in Nat /\ arr[r].value \in Nat
  BY HeapTypes DEF HInv
<1>1. \A p, q : ChildInHeap(p, q)' <=> ChildInHeap(p, q)
  BY DEF ChildInHeap, DecrementAll
<1>2. ASSUME NEW r \in Positions, r <= nElInHeap
      PROVE  arr'[r].value = IF arr[r].value > k THEN arr[r].value - k ELSE 0
  <2>1. ~(r > nElInHeap)
    BY <1>0, <1>2, HeapTypes DEF HInv
  <2> QED
    BY <2>1 DEF DecrementAll
<1>3. ASSUME NEW p \in Positions, NEW q \in Positions, ChildInHeap(p, q)
      PROVE  arr'[p].value <= arr'[q].value
  <2>1. arr[p].value <= arr[q].value
    BY <1>3, PairOrdered DEF HInv
  <2>2. p < q /\ q <= nElInHeap /\ p \in Nat /\ q \in Nat /\ nElInHeap \in Nat
    BY <1>3, ChildFacts, HeapTypes DEF HInv
  <2>3. /\ arr'[p].value = IF arr[p].value > k THEN arr[p].value - k ELSE 0
        /\ arr'[q].value = IF arr[q].value > k THEN arr[q].value - k ELSE 0
    BY <1>2, <2>2
  <2>4. arr[p].value \in Nat /\ arr[q].value \in Nat /\ k \in Nat
    BY <1>0, ValueAssumption
  <2> QED
    BY <2>1, <2>3, <2>4
<1> QED
  BY <1>1, <1>3 DEF HeapOrder, DecrementAll, NoBubble

\* insertBlkInHeap: the block that comes to the end of the heap is the only one
\* that may be out of order.
LEMMA OrderInsert ==
    ASSUME HInv, loop = "none", NEW n, n = nElInHeap, n + 1 \in Positions,
           \A r \in Positions : r <= n => arr'[r] = arr[r],
           nElInHeap' = n + 1,
           IF n + 1 > 1 THEN loop' = "up" /\ at' = n + 1 ELSE loop' = "none"
    PROVE  HeapOrder'
<1>0. n \in Nat /\ \A r \in Positions : r \in Nat
  BY HeapTypes DEF HInv
<1>1. ASSUME NEW p \in Positions, NEW q \in Positions, ChildInHeap(p, q)', q # n + 1
      PROVE  arr'[p].value <= arr'[q].value
  <2>1. ChildInHeap(p, q)
    BY <1>0, <1>1 DEF ChildInHeap
  <2>2. p < q /\ q <= n
    BY <2>1, ChildFacts DEF HInv
  <2>3. p <= n
    BY <1>0, <2>2
  <2> QED
    BY <2>1, <2>2, <2>3, PairOrdered DEF HInv
<1>2. ASSUME NEW p \in Positions, NEW q \in Positions, ChildInHeap(p, q)', q = n + 1
      PROVE  n + 1 > 1
  BY <1>0, <1>2 DEF ChildInHeap
<1>3. ASSUME NEW q \in Positions, ChildInHeap(n + 1, q)'
      PROVE  FALSE
  BY <1>0, <1>3 DEF ChildInHeap
<1>4. CASE n + 1 > 1
  <2>1. loop' = "up" /\ at' = n + 1
    BY <1>4
  <2> QED
    BY <2>1, <1>1, <1>3 DEF HeapOrder
<1>5. CASE ~(n + 1 > 1)
  <2>1. loop' = "none"
    BY <1>5
  <2> QED
    BY <2>1, <1>1, <1>2, <1>5 DEF HeapOrder
<1> QED
  BY <1>4, <1>5

\* resetValidChunksAndRemove at the root or at a child of the root: the last
\* element may be too big for the place it takes, never too small.
LEMMA OrderRemove ==
    ASSUME HInv, loop = "none", NEW x \in Positions, x \in {1, 2, 3}, x <= nElInHeap,
           \A r \in Positions : r # x /\ r < nElInHeap => arr'[r].value = arr[r].value,
           x < nElInHeap => arr'[x].value = arr[nElInHeap].value,
           nElInHeap' = nElInHeap - 1, loop' = "down", at' = x
    PROVE  HeapOrder'
<1>0. /\ nElInHeap \in Nat /\ nElInHeap <= NumBlks
      /\ \A r \in Positions : r \in Nat /\ r >= 1 /\ arr[r].value \in Nat
  BY HeapTypes DEF HInv
<1>1. \A p, q \in Positions : ChildInHeap(p, q) => arr[p].value <= arr[q].value
  BY PairOrdered DEF HInv
<1>2. ASSUME NEW p \in Positions, NEW q \in Positions, ChildInHeap(p, q)'
      PROVE  ChildInHeap(p, q) /\ p < q /\ q < nElInHeap /\ p < nElInHeap
  <2>1. q <= nElInHeap - 1 /\ ChildInHeap(p, q)
    BY <1>0, <1>2 DEF ChildInHeap
  <2>2. p < q
    BY <2>1, ChildFacts DEF HInv
  <2> QED
    BY <1>0, <2>1, <2>2
<1>3. ASSUME NEW p \in Positions, NEW q \in Positions, ChildInHeap(p, q)', p # x
      PROVE  arr'[p].value <= arr'[q].value
  <2>1. CASE q = x
    <3>1. p = 1
      <4>1. ChildInHeap(p, q) /\ p < q /\ q \in {1, 2, 3}
        BY <1>2, <1>3, <2>1
      <4> QED
        BY <1>0, <4>1 DEF ChildInHeap
    <3>2. arr'[p].value = arr[1].value /\ arr'[q].value = arr[nElInHeap].value
      BY <1>2, <1>3, <2>1, <3>1
    <3>3. nElInHeap \in Positions
      BY <1>0, HeapTypes DEF HInv
    <3>4. arr[1].value <= arr[nElInHeap].value
      BY <1>0, <3>3, RootLeast DEF HInv
    <3> QED
      BY <3>2, <3>4
  <2>2. CASE q # x
    BY <1>1, <1>2, <1>3, <2>2
  <2> QED
    BY <2>1, <2>2
<1>4. ASSUME NEW p \in Positions, NEW q \in Positions,
             ChildInHeap(p, x)', ChildInHeap(x, q)'
      PROVE  arr'[p].value <= arr'[q].value
  <2>1. ChildInHeap(p, x) /\ p < x /\ p < nElInHeap
    BY <1>2, <1>4
  <2>2. ChildInHeap(x, q) /\ x < q /\ q < nElInHeap
    BY <1>2, <1>4
  <2>3. p # x /\ q # x
    BY <1>0, <2>1, <2>2
  <2>4. arr[p].value <= arr[x].value /\ arr[x].value <= arr[q].value
    BY <1>1, <2>1, <2>2
  <2>5. arr'[p].value = arr[p].value /\ arr'[q].value = arr[q].value
    BY <2>1, <2>2, <2>3
  <2>6. arr[p].value \in Nat /\ arr[x].value \in Nat /\ arr[q].value \in Nat
    BY <1>0
  <2> QED
    BY <2>4, <2>5, <2>6
<1> QED
  BY <1>3, <1>4 DEF HeapOrder

----------------------------------------------------------------------------
(* The order and the victim together                                       *)

LEMMA HInvInit == Init => HInv
<1> SUFFICES ASSUME Init PROVE HInv
  OBVIOUS
<1>1. \A p, q \in Positions : ~ChildInHeap(p, q)
  BY NumBlksAssumption DEF Init, ChildInHeap, Positions
<1> QED
  BY <1>1, PInvInit DEF Init, HInv, HeapOrder, VictimNearRoot, LoopAndVictim

\* A step that keeps the victim where it is and starts no loop.
LEMMA VictimStill ==
    ASSUME HInv, UNCHANGED <<pos, victim, insertedSince, nElInHeap>>, loop' = "none"
    PROVE  VictimNearRoot' /\ LoopAndVictim'
BY DEF HInv, VictimNearRoot, LoopAndVictim

\* A step after which the callers have no victim.
LEMMA VictimNone ==
    ASSUME victim' = NoBlock
    PROVE  VictimNearRoot' /\ LoopAndVictim'
BY DEF VictimNearRoot, LoopAndVictim, NoBlock

\* A swap exchanges the blocks of two positions and moves no other.
LEMMA SwapMoves ==
    ASSUME PInv, NEW p \in Positions, NEW q \in Positions, Swap(arr, p, q)
    PROVE  \A b \in Blocks : pos'[b] = IF pos[b] = p THEN q
                                      ELSE IF pos[b] = q THEN p ELSE pos[b]
<1>1. /\ arr \in [Positions -> [lbn : Blocks, value : Values]]
      /\ pos \in [Blocks -> Positions]
      /\ \A b \in Blocks, r \in Positions : pos[b] = r <=> arr[r].lbn = b
  BY DEF PInv, TypeOK, PositionsMatch
<1> QED
  BY <1>1, SwapKeepsMatch

LEMMA HInvBubbleUp == HInv /\ BubbleUp => HInv'
<1> SUFFICES ASSUME HInv, BubbleUp PROVE HInv'
  OBVIOUS
<1>1. PInv'
  BY PInvBubbleUp DEF HInv
<1>2. loop = "up" /\ UNCHANGED <<nElInHeap, victim, insertedSince>>
  BY DEF BubbleUp
<1>3. CASE at > 1 /\ arr[at].value < arr[Father(at)].value
  <2>1. Swap(arr, at, Father(at)) /\ loop' = "up" /\ at' = Father(at)
    BY <1>3 DEF BubbleUp, Bubble
  <2>2. HeapOrder'
    BY <1>2, <1>3, <2>1, OrderBubbleUpSwap
  <2>3. CASE victim = NoBlock
    BY <1>1, <1>2, <2>2, <2>3, VictimNone DEF HInv
  <2>4. CASE victim # NoBlock
    <3>1. /\ insertedSince /\ pos[victim] = 1 /\ victim \in Blocks
          /\ at \in Nat /\ at <= nElInHeap /\ at \in Positions
          /\ nElInHeap \in Nat /\ nElInHeap <= NumBlks
      BY <1>2, <1>3, <2>4, HeapTypes
      DEF HInv, VictimNearRoot, LoopAndVictim, PInv, TypeOK, LoopInHeap
    <3>2. /\ Father(at) \in Nat /\ 1 <= Father(at) /\ Father(at) < at
          /\ at = 2 * Father(at) \/ at = 2 * Father(at) + 1
      BY <1>3, <3>1, FatherIsSmaller
    <3>3. Father(at) \in Positions
      BY <3>1, <3>2, HeapTypes DEF HInv
    <3>4. pos'[victim] = IF pos[victim] = at THEN Father(at)
                         ELSE IF pos[victim] = Father(at) THEN at ELSE pos[victim]
      BY <2>1, <3>1, <3>3, SwapMoves DEF HInv
    <3>5. CASE Father(at) = 1
      <4>1. pos'[victim] = at /\ at \in {2, 3}
        BY <3>1, <3>2, <3>4, <3>5
      <4> QED
        BY <1>1, <1>2, <2>1, <2>2, <3>1, <3>5, <4>1 DEF HInv, VictimNearRoot, LoopAndVictim
    <3>6. CASE Father(at) # 1
      <4>1. pos'[victim] = 1
        BY <1>3, <3>1, <3>2, <3>4, <3>6
      <4>2. 1 <= nElInHeap
        BY <3>1, <3>2
      <4> QED
        BY <1>1, <1>2, <2>1, <2>2, <3>1, <4>1, <4>2 DEF HInv, VictimNearRoot, LoopAndVictim
    <3> QED
      BY <3>5, <3>6
  <2> QED
    BY <2>3, <2>4
<1>4. CASE ~(at > 1 /\ arr[at].value < arr[Father(at)].value)
  <2>1. loop' = "none" /\ UNCHANGED <<arr, pos>>
    BY <1>4 DEF BubbleUp, NoBubble
  <2>2. HeapOrder'
    BY <1>2, <1>4, <2>1, OrderBubbleUpStop
  <2> QED
    BY <1>1, <1>2, <2>1, <2>2, VictimStill DEF HInv
<1> QED
  BY <1>3, <1>4

LEMMA HInvBubbleDown == HInv /\ BubbleDown => HInv'
<1> SUFFICES ASSUME HInv, BubbleDown PROVE HInv'
  OBVIOUS
<1>1. PInv'
  BY PInvBubbleDown DEF HInv
<1>2. loop = "down" /\ UNCHANGED <<nElInHeap, victim, insertedSince>> /\ victim = NoBlock
  BY DEF BubbleDown, HInv, LoopAndVictim
<1>3. VictimNearRoot' /\ LoopAndVictim'
  BY <1>2, VictimNone DEF NoBlock
<1>4. CASE 2 * at <= nElInHeap /\ arr[SwapChild(at)].value < arr[at].value
  <2>1. Swap(arr, at, SwapChild(at)) /\ loop' = "down" /\ at' = SwapChild(at)
    BY <1>4 DEF BubbleDown, Bubble
  <2> QED
    BY <1>1, <1>2, <1>3, <1>4, <2>1, OrderBubbleDownSwap DEF HInv
<1>5. CASE ~(2 * at <= nElInHeap /\ arr[SwapChild(at)].value < arr[at].value)
  <2>1. loop' = "none" /\ UNCHANGED <<arr, pos>>
    BY <1>5 DEF BubbleDown, NoBubble
  <2> QED
    BY <1>1, <1>2, <1>3, <1>5, <2>1, OrderBubbleDownStop DEF HInv
<1> QED
  BY <1>4, <1>5

\* A step of an operation that writes the count of one block and starts the loop
\* that repairs its place.
LEMMA HInvCount ==
    ASSUME HInv, loop = "none", NEW b \in Blocks, InHeap(b) => victim = NoBlock,
           NEW v \in Values, arr' = WithValue(b, v),
           UNCHANGED <<pos, nElInHeap, victim, insertedSince>>,
           NEW direction \in {"up", "down"},
           IF InHeap(b) THEN Bubble(direction, pos[b]) ELSE NoBubble,
           InHeap(b) => \/ direction = "down" /\ v >= Value(b)
                        \/ direction = "up" /\ v <= Value(b)
    PROVE  HInv'
<1>1. PInv'
  BY PInvCount DEF HInv
<1>2. VictimNearRoot' /\ LoopAndVictim'
  <2>1. CASE InHeap(b)
    BY <2>1, VictimNone
  <2>2. CASE ~InHeap(b)
    <3>1. loop' = "none"
      BY <2>2 DEF NoBubble
    <3> QED
      BY <3>1, VictimStill
  <2> QED
    BY <2>1, <2>2
<1>3. /\ \A p \in Positions :
            WithValue(b, v)[p].value = IF p = pos[b] THEN v ELSE arr[p].value
      /\ pos[b] \in Positions
  BY WithValueKeepsMatch DEF HInv
<1>4. CASE InHeap(b)
  <2>1. loop' = direction /\ at' = pos[b] /\ pos[b] <= nElInHeap
    BY <1>4 DEF Bubble, InHeap
  <2>2. \A r \in Positions : r # pos[b] => arr'[r].value = arr[r].value
    BY <1>3
  <2>3. arr'[pos[b]].value = v /\ Value(b) = arr[pos[b]].value
    BY <1>3 DEF Value
  <2>4. \A r \in Positions : arr'[r].value \in Nat
    <3>1. \A r \in Positions : arr[r].value \in Nat
      BY HeapTypes DEF HInv
    <3>2. v \in Nat
      BY ValueAssumption DEF Values
    <3> QED
      BY <1>3, <3>1, <3>2
  <2>5. \/ loop' = "down" /\ arr'[pos[b]].value >= arr[pos[b]].value
        \/ loop' = "up" /\ arr'[pos[b]].value <= arr[pos[b]].value
    BY <1>4, <2>1, <2>3
  <2>6. HeapOrder'
    BY <1>3, <2>1, <2>2, <2>4, <2>5, OrderCount
  <2> QED
    BY <1>1, <1>2, <2>6 DEF HInv
<1>5. CASE ~InHeap(b)
  <2>1. loop' = "none"
    BY <1>5 DEF NoBubble
  <2>2. \A r \in Positions : r <= nElInHeap => arr'[r].value = arr[r].value
    BY <1>3, <1>5 DEF InHeap
  <2>3. HeapOrder'
    BY <2>1, <2>2, OrderParked
  <2> QED
    BY <1>1, <1>2, <2>3 DEF HInv
<1> QED
  BY <1>4, <1>5

LEMMA HInvIncrement ==
    ASSUME HInv, loop = "none", victim = NoBlock, NEW b \in Blocks, NEW k \in 1..MaxValue,
           InHeap(b) => Value(b) + k <= MaxValue, Increment(b, k)
    PROVE  HInv'
<1> DEFINE v == IF Value(b) + k <= MaxValue THEN Value(b) + k
                ELSE Value(b) + k - (MaxValue + 1)
<1>1. v \in Values
  BY CountsWrap DEF HInv
<1>2. arr' = WithValue(b, v) /\ UNCHANGED <<pos, nElInHeap, victim, insertedSince>>
  BY DEF Increment
<1>3. IF InHeap(b) THEN Bubble("down", pos[b]) ELSE NoBubble
  BY DEF Increment
<1>4. InHeap(b) => v >= Value(b)
  <2>1. Value(b) \in Values
    BY CountsWrap DEF HInv
  <2>2. Value(b) \in Nat /\ k \in Nat
    BY <2>1, ValueAssumption DEF Values
  <2> QED
    BY <2>2
<1> HIDE DEF v
<1> QED
  BY <1>1, <1>2, <1>3, <1>4, HInvCount

LEMMA HInvDecrement ==
    ASSUME HInv, loop = "none", NEW b \in Blocks, InHeap(b) => victim = NoBlock,
           NEW k \in 1..MaxValue, InHeap(b) => Value(b) >= k, Decrement(b, k)
    PROVE  HInv'
<1> DEFINE v == IF Value(b) >= k THEN Value(b) - k
                ELSE Value(b) + (MaxValue + 1) - k
<1>1. v \in Values
  BY CountsWrap DEF HInv
<1>2. arr' = WithValue(b, v) /\ UNCHANGED <<pos, nElInHeap, victim, insertedSince>>
  BY DEF Decrement
<1>3. IF InHeap(b) THEN Bubble("up", pos[b]) ELSE NoBubble
  BY DEF Decrement
<1>4. InHeap(b) => v <= Value(b)
  <2>1. Value(b) \in Values
    BY CountsWrap DEF HInv
  <2>2. Value(b) \in Nat /\ k \in Nat
    BY <2>1, ValueAssumption DEF Values
  <2> QED
    BY <2>2
<1> HIDE DEF v
<1> QED
  BY <1>1, <1>2, <1>3, <1>4, HInvCount

\* The victim an operation offers is the root.
LEMMA HInvGetVictim ==
    ASSUME HInv, loop = "none", nElInHeap > 0, GetVictim, PInv'
    PROVE  HInv'
<1>1. /\ victim' = arr[1].lbn /\ ~insertedSince' /\ loop' = "none"
      /\ UNCHANGED <<arr, pos, nElInHeap>>
  BY DEF GetVictim, NoBubble
<1>2. 1 \in Positions /\ 1 <= nElInHeap
  BY HeapTypes DEF HInv
<1>3. arr[1].lbn \in Blocks /\ pos[arr[1].lbn] = 1
  <2>1. arr[1].lbn \in Blocks
    BY <1>2 DEF HInv, PInv, TypeOK
  <2> QED
    BY <1>2, <2>1 DEF HInv, PInv, PositionsMatch
<1>4. VictimNearRoot' /\ LoopAndVictim'
  BY <1>1, <1>2, <1>3 DEF VictimNearRoot, LoopAndVictim
<1>5. HeapOrder'
  BY <1>1, OrderParked
<1> QED
  BY <1>4, <1>5 DEF HInv

\* insertBlkInHeap does not move the victim, which is still the root.
LEMMA HInvInsert ==
    ASSUME HInv, loop = "none", NEW b \in Blocks, ~InHeap(b), ~insertedSince, Insert(b),
           PInv'
    PROVE  HInv'
<1>1. /\ nElInHeap' = nElInHeap + 1 /\ victim' = victim
      /\ insertedSince' = (victim # NoBlock)
      /\ Swap(arr, pos[b], nElInHeap + 1)
      /\ IF nElInHeap + 1 > 1 THEN loop' = "up" /\ at' = nElInHeap + 1 ELSE loop' = "none"
  BY DEF Insert, Bubble, NoBubble
<1>2. /\ nElInHeap \in Nat /\ pos[b] \in Positions /\ pos[b] > nElInHeap
      /\ nElInHeap + 1 \in Positions /\ \A r \in Positions : r \in Nat
  <2>1. nElInHeap \in Nat /\ pos[b] \in Positions /\ \A r \in Positions : r \in Nat
    BY HeapTypes DEF HInv
  <2>2. pos[b] > nElInHeap /\ pos[b] <= NumBlks
    BY <2>1, HeapTypes DEF InHeap, HInv
  <2> QED
    BY <2>1, <2>2, HeapTypes DEF HInv
<1>3. \A r \in Positions : arr'[r] = IF r = pos[b] THEN arr[nElInHeap + 1]
                                     ELSE IF r = nElInHeap + 1 THEN arr[pos[b]] ELSE arr[r]
  <2>1. /\ arr \in [Positions -> [lbn : Blocks, value : Values]]
        /\ pos \in [Blocks -> Positions]
        /\ \A d \in Blocks, r \in Positions : pos[d] = r <=> arr[r].lbn = d
    BY DEF HInv, PInv, TypeOK, PositionsMatch
  <2> QED
    BY <1>1, <1>2, <2>1, SwapKeepsMatch
<1>4. \A r \in Positions : r <= nElInHeap => arr'[r] = arr[r]
  BY <1>2, <1>3
<1>5. HeapOrder'
  BY <1>1, <1>2, <1>4, OrderInsert
<1>6. CASE victim = NoBlock
  BY <1>1, <1>5, <1>6, VictimNone DEF HInv
<1>7. CASE victim # NoBlock
  <2>1. /\ pos[victim] = 1 /\ victim \in Blocks /\ 1 <= nElInHeap
    BY <1>7 DEF HInv, VictimNearRoot, PInv, TypeOK
  <2>2. pos'[victim] = IF pos[victim] = pos[b] THEN nElInHeap + 1
                       ELSE IF pos[victim] = nElInHeap + 1 THEN pos[b] ELSE pos[victim]
    BY <1>1, <1>2, <2>1, SwapMoves DEF HInv
  <2>3. pos'[victim] = 1 /\ 1 <= nElInHeap + 1
    BY <1>2, <2>1, <2>2
  <2>4. insertedSince'
    BY <1>7, Zenon DEF Insert
  <2> QED
    BY <1>1, <1>5, <2>3, <2>4 DEF HInv, VictimNearRoot, LoopAndVictim
<1> QED
  BY <1>6, <1>7

\* resetValidChunksAndRemove takes out the victim, or resets a parked block.
LEMMA HInvReset ==
    ASSUME HInv, loop = "none", NEW b \in Blocks, NEW v \in Values,
           ~InHeap(b) \/ b = victim, ResetAndRemove(b, v), PInv'
    PROVE  HInv'
<1>1. /\ WithValue(b, v) \in [Positions -> [lbn : Blocks, value : Values]]
      /\ \A p \in Positions : WithValue(b, v)[p].lbn = arr[p].lbn
      /\ \A p \in Positions :
            WithValue(b, v)[p].value = IF p = pos[b] THEN v ELSE arr[p].value
      /\ pos[b] \in Positions
  BY WithValueKeepsMatch DEF HInv
<1>2. /\ nElInHeap \in Nat /\ nElInHeap <= NumBlks
      /\ \A r \in Positions : r \in Nat /\ r >= 1
      /\ NoBlock \notin Blocks
  BY HeapTypes DEF HInv
<1>3. CASE InHeap(b)
  <2>1. b = victim /\ pos[b] <= nElInHeap /\ pos[b] \in {1, 2, 3} /\ victim # NoBlock
    BY <1>2, <1>3 DEF InHeap, HInv, VictimNearRoot
  <2>2. /\ victim' = NoBlock /\ loop' = "down" /\ at' = pos[b]
        /\ nElInHeap' = nElInHeap - 1
        /\ Swap(WithValue(b, v), pos[b], nElInHeap)
    BY <1>3, <2>1 DEF ResetAndRemove, Bubble
  <2>3. nElInHeap \in Positions
    BY <1>1, <1>2, <2>1, HeapTypes DEF HInv
  <2>4. \A r \in Positions :
           arr'[r] = IF r = pos[b] THEN WithValue(b, v)[nElInHeap]
                     ELSE IF r = nElInHeap THEN WithValue(b, v)[pos[b]]
                     ELSE WithValue(b, v)[r]
    <3>1. /\ pos \in [Blocks -> Positions]
          /\ \A d \in Blocks, r \in Positions : pos[d] = r <=> arr[r].lbn = d
      BY DEF HInv, PInv, TypeOK, PositionsMatch
    <3>2. \A d \in Blocks, r \in Positions : pos[d] = r <=> WithValue(b, v)[r].lbn = d
      BY <1>1, <3>1
    <3> DEFINE a == WithValue(b, v)
               x == pos[b]
    <3> HIDE DEF a, x
    <3>3. /\ a \in [Positions -> [lbn : Blocks, value : Values]] /\ x \in Positions
          /\ \A d \in Blocks, r \in Positions : pos[d] = r <=> a[r].lbn = d
          /\ Swap(a, x, nElInHeap)
      BY <1>1, <2>2, <3>2 DEF a, x
    <3>4. \A r \in Positions : arr'[r] = IF r = x THEN a[nElInHeap]
                                         ELSE IF r = nElInHeap THEN a[x] ELSE a[r]
      BY <2>3, <3>1, <3>3, SwapKeepsMatch
    <3> QED
      BY <3>4 DEF a, x
  <2>5. \A r \in Positions : r # pos[b] /\ r < nElInHeap => arr'[r].value = arr[r].value
    BY <1>1, <1>2, <2>4
  <2>6. ASSUME pos[b] < nElInHeap
        PROVE  arr'[pos[b]].value = arr[nElInHeap].value
    <3>1. arr'[pos[b]] = WithValue(b, v)[nElInHeap]
      BY <1>1, <2>4
    <3>2. nElInHeap # pos[b]
      BY <1>1, <1>2, <2>6
    <3> QED
      BY <1>1, <2>3, <3>1, <3>2
  <2>7. HeapOrder'
    BY <1>1, <2>1, <2>2, <2>5, <2>6, OrderRemove
  <2> QED
    BY <2>2, <2>7, VictimNone DEF HInv
<1>4. CASE ~InHeap(b)
  <2>1. b # victim
    BY <1>2, <1>4 DEF HInv, VictimNearRoot, InHeap
  <2>2. /\ arr' = WithValue(b, v) /\ loop' = "none"
        /\ UNCHANGED <<pos, nElInHeap, victim>> /\ insertedSince' = insertedSince
    <3>1. insertedSince \in BOOLEAN
      BY DEF HInv, PInv, TypeOK
    <3> QED
      BY <1>4, <2>1, <3>1 DEF ResetAndRemove, NoBubble
  <2>3. \A r \in Positions : r <= nElInHeap => arr'[r].value = arr[r].value
    BY <1>1, <1>4, <2>2 DEF InHeap
  <2>4. HeapOrder'
    BY <2>2, <2>3, OrderParked
  <2> QED
    BY <2>2, <2>4, VictimStill DEF HInv
<1> QED
  BY <1>3, <1>4

LEMMA HInvCalls == HInv /\ Calls => HInv'
<1> SUFFICES ASSUME HInv, Calls PROVE HInv'
  OBVIOUS
<1>1. PInv' /\ loop = "none"
  BY PInvCalls DEF HInv, Calls
<1>2. ASSUME victim = NoBlock, NEW k \in 1..MaxValue, DecrementAll(k)
      PROVE  HInv'
  <2>1. HeapOrder'
    BY <1>1, <1>2, OrderDecrementAll
  <2>2. victim' = NoBlock
    BY <1>2 DEF DecrementAll
  <2> QED
    BY <1>1, <2>1, <2>2, VictimNone DEF HInv
<1>3. ASSUME victim = NoBlock, NEW b \in Blocks, NEW v \in Values, ~InHeap(b),
             SetValue(b, v)
      PROVE  HInv'
  <2>1. IF InHeap(b) THEN Bubble("up", pos[b]) ELSE NoBubble
    BY <1>3 DEF SetValue
  <2>2. arr' = WithValue(b, v) /\ UNCHANGED <<pos, nElInHeap, victim, insertedSince>>
    BY <1>3 DEF SetValue
  <2> QED
    BY <1>1, <1>3, <2>1, <2>2, HInvCount
<1> QED
  BY <1>1, <1>2, <1>3, HInvIncrement, HInvDecrement, HInvGetVictim, HInvInsert, HInvReset
  DEF Calls

LEMMA HInvNext == HInv /\ [Next]_vars => HInv'
<1>1. HInv /\ UNCHANGED vars => HInv'
  BY DEF HInv, PInv, TypeOK, PositionsMatch, LoopInHeap, VictimInHeap, HeapOrder,
         ChildInHeap, VictimNearRoot, LoopAndVictim, vars
<1> QED
  BY <1>1, HInvBubbleUp, HInvBubbleDown, HInvCalls DEF Next

\* For every number of blocks, the heap is ordered at every step of every
\* operation except at the place the loop under way is about to repair.
THEOREM OrderCorrect == Spec => []HeapOrder
<1>1. HInv => HeapOrder
  BY DEF HInv
<1> QED
  BY HInvInit, HInvNext, <1>1, PTL DEF Spec

\* A victim stays at the root or right below it until it is removed, so that the
\* removal needs no bubbleUp.
THEOREM VictimCorrect == Spec => []VictimNearRoot
<1>1. HInv => VictimNearRoot
  BY DEF HInv
<1> QED
  BY HInvInit, HInvNext, <1>1, PTL DEF Spec

----------------------------------------------------------------------------
(* The heap implements VictimQueue                                         *)

\* A swap moves the elements of two blocks with their positions.
LEMMA SwapKeepsElements ==
    ASSUME PInv, NEW a \in [Positions -> [lbn : Blocks, value : Values]],
           \A r \in Positions : a[r].lbn = arr[r].lbn,
           NEW p \in Positions, NEW q \in Positions, Swap(a, p, q)
    PROVE  \A d \in Blocks :
              /\ arr'[pos'[d]] = a[pos[d]]
              /\ pos'[d] = IF pos[d] = p THEN q ELSE IF pos[d] = q THEN p ELSE pos[d]
<1>1. /\ pos \in [Blocks -> Positions]
      /\ \A d \in Blocks, r \in Positions : pos[d] = r <=> a[r].lbn = d
  BY DEF PInv, TypeOK, PositionsMatch
<1>2. /\ \A r \in Positions : arr'[r] = IF r = p THEN a[q] ELSE IF r = q THEN a[p] ELSE a[r]
      /\ \A d \in Blocks : pos'[d] = IF pos[d] = p THEN q
                                    ELSE IF pos[d] = q THEN p ELSE pos[d]
  BY <1>1, SwapKeepsMatch
<1> QED
  BY <1>1, <1>2

\* What the abstract queue sees of the heap.
Counts == [b \in Blocks |-> Value(b)]
Candidates == {b \in Blocks : InHeap(b)}

\* A step that keeps the count of every block and the candidates.
LEMMA QueueStutters ==
    ASSUME \A b \in Blocks : Value(b)' = Value(b) /\ (InHeap(b)' <=> InHeap(b)),
           victim' = victim
    PROVE  UNCHANGED Queue!queueVars
<1>1. Counts' = Counts
  BY DEF Counts
<1>2. Candidates' = Candidates
  BY DEF Candidates
<1> QED
  BY <1>1, <1>2 DEF Queue!queueVars, Counts, Candidates

\* A step of a bubbleUp or bubbleDown loop is a stutter of the queue.
LEMMA SwapStutters ==
    ASSUME PInv, NEW p \in Positions, NEW q \in Positions, p <= nElInHeap, q <= nElInHeap,
           Swap(arr, p, q), UNCHANGED <<nElInHeap, victim>>
    PROVE  UNCHANGED Queue!queueVars
<1>1. arr \in [Positions -> [lbn : Blocks, value : Values]]
  BY DEF PInv, TypeOK
<1>2. \A d \in Blocks :
         /\ arr'[pos'[d]] = arr[pos[d]]
         /\ pos'[d] = IF pos[d] = p THEN q ELSE IF pos[d] = q THEN p ELSE pos[d]
  BY <1>1, SwapKeepsElements
<1>3. \A d \in Blocks : Value(d)' = Value(d)
  BY <1>2 DEF Value
<1>4. \A d \in Blocks : InHeap(d)' <=> InHeap(d)
  BY <1>2 DEF InHeap
<1> QED
  BY <1>3, <1>4, QueueStutters

LEMMA BubbleUpStutters == HInv /\ BubbleUp => UNCHANGED Queue!queueVars
<1> SUFFICES ASSUME HInv, BubbleUp PROVE UNCHANGED Queue!queueVars
  OBVIOUS
<1>1. CASE at > 1 /\ arr[at].value < arr[Father(at)].value
  <2>1. Swap(arr, at, Father(at)) /\ UNCHANGED <<nElInHeap, victim>> /\ loop = "up"
    BY <1>1 DEF BubbleUp
  <2>2. /\ at \in Positions /\ at \in Nat /\ at > 1 /\ at <= nElInHeap
        /\ nElInHeap \in Nat /\ nElInHeap <= NumBlks
    BY <1>1, <2>1, HeapTypes DEF HInv, PInv, TypeOK, LoopInHeap
  <2>3. Father(at) \in Nat /\ 1 <= Father(at) /\ Father(at) < at
    BY <2>2, FatherIsSmaller
  <2>4. Father(at) \in Positions /\ Father(at) <= nElInHeap
    BY <2>2, <2>3, HeapTypes DEF HInv
  <2> QED
    BY <2>1, <2>2, <2>4, SwapStutters DEF HInv
<1>2. CASE ~(at > 1 /\ arr[at].value < arr[Father(at)].value)
  <2>1. UNCHANGED <<arr, pos, nElInHeap, victim>>
    BY <1>2 DEF BubbleUp
  <2> QED
    BY <2>1, QueueStutters DEF Value, InHeap
<1> QED
  BY <1>1, <1>2

LEMMA BubbleDownStutters == HInv /\ BubbleDown => UNCHANGED Queue!queueVars
<1> SUFFICES ASSUME HInv, BubbleDown PROVE UNCHANGED Queue!queueVars
  OBVIOUS
<1>1. CASE 2 * at <= nElInHeap /\ arr[SwapChild(at)].value < arr[at].value
  <2>1. Swap(arr, at, SwapChild(at)) /\ UNCHANGED <<nElInHeap, victim>>
    BY <1>1 DEF BubbleDown
  <2>2. /\ at \in Positions /\ at \in Nat /\ at >= 1
        /\ nElInHeap \in Nat /\ nElInHeap <= NumBlks
    BY HeapTypes DEF HInv, PInv, TypeOK
  <2>3. SwapChild(at) \in Nat /\ SwapChild(at) >= 1 /\ SwapChild(at) <= nElInHeap
    BY <1>1, <2>2 DEF SwapChild
  <2>4. SwapChild(at) \in Positions /\ at <= nElInHeap
    BY <1>1, <2>2, <2>3, HeapTypes DEF HInv
  <2> QED
    BY <2>1, <2>2, <2>3, <2>4, SwapStutters DEF HInv
<1>2. CASE ~(2 * at <= nElInHeap /\ arr[SwapChild(at)].value < arr[at].value)
  <2>1. UNCHANGED <<arr, pos, nElInHeap, victim>>
    BY <1>2 DEF BubbleDown
  <2> QED
    BY <2>1, QueueStutters DEF Value, InHeap
<1> QED
  BY <1>1, <1>2

\* Writing a count changes the count of that block alone.
LEMMA WriteIsRecount ==
    ASSUME PInv, NEW b \in Blocks, NEW v \in Values, arr' = WithValue(b, v),
           UNCHANGED <<pos, nElInHeap, victim>>
    PROVE  Queue!Recount
<1>1. \A d \in Blocks : Value(d)' = IF d = b THEN v ELSE Value(d)
  <2>1. \A p \in Positions :
           WithValue(b, v)[p].value = IF p = pos[b] THEN v ELSE arr[p].value
    BY WithValueKeepsMatch
  <2>2. \A d \in Blocks : pos[d] \in Positions /\ (pos[d] = pos[b] => d = b)
    BY DEF PInv, TypeOK, PositionsMatch
  <2> QED
    BY <2>1, <2>2 DEF Value
<1>2. Counts' = [Counts EXCEPT ![b] = v]
  BY <1>1 DEF Counts
<1>3. Candidates' = Candidates
  BY DEF Candidates, InHeap
<1>4. v \in 0..MaxValue
  BY DEF Values
<1> QED
  BY <1>2, <1>3, <1>4 DEF Queue!Recount, Counts, Candidates

LEMMA DecrementAllIsRecount ==
    ASSUME PInv, NEW k \in 1..MaxValue, DecrementAll(k)
    PROVE  Queue!RecountCandidates
<1>1. \A d \in Blocks : Value(d)' = IF ~InHeap(d) THEN Value(d)
                                   ELSE IF Value(d) > k THEN Value(d) - k ELSE 0
  <2>1. \A d \in Blocks : pos[d] \in Positions /\ pos[d] \in Nat /\ nElInHeap \in Nat
    BY HeapTypes
  <2>2. /\ arr' = [p \in Positions |->
                     IF p > nElInHeap THEN arr[p]
                     ELSE [lbn |-> arr[p].lbn,
                           value |-> IF arr[p].value > k THEN arr[p].value - k ELSE 0]]
        /\ pos' = pos
    BY DEF DecrementAll
  <2>3. ASSUME NEW d \in Blocks
        PROVE  Value(d)' = IF ~InHeap(d) THEN Value(d)
                           ELSE IF Value(d) > k THEN Value(d) - k ELSE 0
    <3>1. CASE InHeap(d)
      <4>1. ~(pos[d] > nElInHeap)
        BY <2>1, <3>1 DEF InHeap
      <4> QED
        BY <2>1, <2>2, <3>1, <4>1 DEF Value
    <3>2. CASE ~InHeap(d)
      <4>1. pos[d] > nElInHeap
        BY <2>1, <3>2 DEF InHeap
      <4> QED
        BY <2>1, <2>2, <3>2, <4>1 DEF Value
    <3> QED
      BY <3>1, <3>2
  <2> QED
    BY <2>3
<1>2. Counts' = [b \in Blocks |-> IF b \notin Candidates THEN Counts[b]
                                  ELSE IF Counts[b] > k THEN Counts[b] - k ELSE 0]
  BY <1>1, Zenon DEF Counts, Candidates
<1>3. Candidates' = Candidates /\ victim' = victim
  BY DEF Candidates, InHeap, DecrementAll
<1> QED
  BY <1>2, <1>3 DEF Queue!RecountCandidates, Counts, Candidates

LEMMA GetVictimIsOffer ==
    ASSUME HInv, loop = "none", victim = NoBlock, nElInHeap > 0, GetVictim
    PROVE  Queue!Offer
<1>1. victim' = arr[1].lbn /\ UNCHANGED <<arr, pos, nElInHeap>>
  BY DEF GetVictim
<1>2. 1 \in Positions /\ 1 <= nElInHeap
  BY HeapTypes DEF HInv
<1>3. victim' \in Blocks /\ pos[victim'] = 1
  <2>1. victim' \in Blocks
    BY <1>1, <1>2 DEF HInv, PInv, TypeOK
  <2> QED
    BY <1>1, <1>2, <2>1 DEF HInv, PInv, PositionsMatch
<1>4. \A c \in Blocks : InHeap(c) => Value(victim') <= Value(c)
  <2>1. \A c \in Blocks : pos[c] \in Positions
    BY HeapTypes DEF HInv
  <2>2. \A c \in Blocks : InHeap(c) => arr[1].value <= arr[pos[c]].value
    BY <2>1, RootLeast DEF HInv, InHeap
  <2> QED
    BY <1>3, <2>2 DEF Value
<1>5. victim' \in Candidates /\ \A c \in Candidates : Counts[victim'] <= Counts[c]
  BY <1>2, <1>3, <1>4 DEF Candidates, Counts, InHeap
<1>6. Counts' = Counts /\ Candidates' = Candidates
  BY <1>1 DEF Counts, Candidates, Value, InHeap
<1> QED
  BY <1>5, <1>6 DEF Queue!Offer, Counts, Candidates

LEMMA InsertIsAdmit ==
    ASSUME PInv, NEW b \in Blocks, ~InHeap(b), Insert(b)
    PROVE  Queue!Admit
<1>1. /\ nElInHeap' = nElInHeap + 1 /\ victim' = victim
      /\ Swap(arr, pos[b], nElInHeap + 1)
  BY DEF Insert
<1>2. /\ nElInHeap \in Nat /\ \A d \in Blocks : pos[d] \in Positions /\ pos[d] \in Nat
      /\ pos[b] > nElInHeap /\ nElInHeap + 1 \in Positions
  <2>1. nElInHeap \in Nat /\ \A d \in Blocks : pos[d] \in Positions /\ pos[d] \in Nat
    BY HeapTypes
  <2>2. pos[b] > nElInHeap /\ pos[b] <= NumBlks
    BY <2>1, HeapTypes DEF InHeap
  <2> QED
    BY <2>1, <2>2, HeapTypes
<1>3. \A d \in Blocks :
         /\ arr'[pos'[d]] = arr[pos[d]]
         /\ pos'[d] = IF pos[d] = pos[b] THEN nElInHeap + 1
                      ELSE IF pos[d] = nElInHeap + 1 THEN pos[b] ELSE pos[d]
  <2>1. arr \in [Positions -> [lbn : Blocks, value : Values]]
    BY DEF PInv, TypeOK
  <2> QED
    BY <1>1, <1>2, <2>1, SwapKeepsElements
<1>4. \A d \in Blocks : Value(d)' = Value(d)
  BY <1>3 DEF Value
<1>5. \A d \in Blocks : pos[d] = pos[b] => d = b
  BY DEF PInv, TypeOK, PositionsMatch
<1>6. ASSUME NEW d \in Blocks
      PROVE  InHeap(d)' <=> (InHeap(d) \/ d = b)
  <2>1. CASE d = b
    BY <1>1, <1>2, <1>3, <2>1 DEF InHeap
  <2>2. CASE d # b
    <3>1. pos'[d] = IF pos[d] = nElInHeap + 1 THEN pos[b] ELSE pos[d]
      BY <1>3, <1>5, <2>2
    <3>2. pos[d] # pos[b]
      BY <1>5, <2>2
    <3> QED
      BY <1>1, <1>2, <2>2, <3>1, <3>2 DEF InHeap
  <2> QED
    BY <2>1, <2>2
<1>7. Candidates' = Candidates \cup {b} /\ b \in Blocks \ Candidates
  BY <1>6 DEF Candidates
<1>8. Counts' = Counts
  BY <1>4 DEF Counts
<1> QED
  BY <1>1, <1>7, <1>8 DEF Queue!Admit, Counts, Candidates

LEMMA ResetIsWithdraw ==
    ASSUME PInv, NEW b \in Blocks, NEW v \in Values, ResetAndRemove(b, v)
    PROVE  Queue!Withdraw
<1>1. /\ WithValue(b, v) \in [Positions -> [lbn : Blocks, value : Values]]
      /\ \A p \in Positions : WithValue(b, v)[p].lbn = arr[p].lbn
      /\ \A p \in Positions :
            WithValue(b, v)[p].value = IF p = pos[b] THEN v ELSE arr[p].value
  BY WithValueKeepsMatch
<1>2. /\ nElInHeap \in Nat /\ nElInHeap <= NumBlks
      /\ \A d \in Blocks : pos[d] \in Positions /\ pos[d] \in Nat /\ pos[d] >= 1
      /\ \A d \in Blocks : pos[d] = pos[b] => d = b
  <2>1. /\ nElInHeap \in Nat /\ nElInHeap <= NumBlks
        /\ \A d \in Blocks : pos[d] \in Positions /\ pos[d] \in Nat /\ pos[d] >= 1
    BY HeapTypes
  <2> QED
    BY <2>1 DEF PInv, TypeOK, PositionsMatch
<1>3. \A d \in Blocks : WithValue(b, v)[pos[d]].value = IF d = b THEN v ELSE Value(d)
  BY <1>1, <1>2 DEF Value
<1>4. /\ \A d \in Blocks : Value(d)' = IF d = b THEN v ELSE Value(d)
      /\ \A d \in Blocks : InHeap(d)' <=> (InHeap(d) /\ d # b)
  <2>1. CASE InHeap(b)
    <3>1. Swap(WithValue(b, v), pos[b], nElInHeap) /\ nElInHeap' = nElInHeap - 1
      BY <2>1 DEF ResetAndRemove
    <3>2. nElInHeap \in Positions /\ pos[b] <= nElInHeap /\ nElInHeap >= 1
      BY <1>2, <2>1, HeapTypes DEF InHeap
    <3>3. \A d \in Blocks :
             /\ arr'[pos'[d]] = WithValue(b, v)[pos[d]]
             /\ pos'[d] = IF pos[d] = pos[b] THEN nElInHeap
                          ELSE IF pos[d] = nElInHeap THEN pos[b] ELSE pos[d]
      <4> DEFINE a == WithValue(b, v)
                 x == pos[b]
      <4>1. x \in Positions
        BY <1>2
      <4> HIDE DEF a, x
      <4>2. /\ a \in [Positions -> [lbn : Blocks, value : Values]]
            /\ \A r \in Positions : a[r].lbn = arr[r].lbn
            /\ Swap(a, x, nElInHeap)
        BY <1>1, <3>1 DEF a, x
      <4>3. \A d \in Blocks :
               /\ arr'[pos'[d]] = a[pos[d]]
               /\ pos'[d] = IF pos[d] = x THEN nElInHeap
                            ELSE IF pos[d] = nElInHeap THEN x ELSE pos[d]
        BY <3>2, <4>1, <4>2, SwapKeepsElements
      <4> QED
        BY <4>3 DEF a, x
    <3>4. \A d \in Blocks : Value(d)' = IF d = b THEN v ELSE Value(d)
      BY <1>3, <3>3 DEF Value
    <3>5. ASSUME NEW d \in Blocks
          PROVE  InHeap(d)' <=> (InHeap(d) /\ d # b)
      <4>1. CASE d = b
        BY <1>2, <3>1, <3>3, <4>1 DEF InHeap
      <4>2. CASE d # b
        <5>1. pos'[d] = IF pos[d] = nElInHeap THEN pos[b] ELSE pos[d]
          BY <1>2, <3>3, <4>2
        <5>2. pos[d] # pos[b]
          BY <1>2, <4>2
        <5> QED
          BY <1>2, <3>1, <3>2, <4>2, <5>1, <5>2 DEF InHeap
      <4> QED
        BY <4>1, <4>2
    <3> QED
      BY <3>4, <3>5
  <2>2. CASE ~InHeap(b)
    <3>1. arr' = WithValue(b, v) /\ UNCHANGED <<pos, nElInHeap>>
      BY <2>2 DEF ResetAndRemove
    <3>2. \A d \in Blocks : Value(d)' = IF d = b THEN v ELSE Value(d)
      BY <1>3, <3>1 DEF Value
    <3>3. \A d \in Blocks : InHeap(d)' <=> (InHeap(d) /\ d # b)
      BY <2>2, <3>1 DEF InHeap
    <3> QED
      BY <3>2, <3>3
  <2> QED
    BY <2>1, <2>2
<1>5. Counts' = [Counts EXCEPT ![b] = v]
  BY <1>4 DEF Counts
<1>6. Candidates' = Candidates \ {b}
  BY <1>4 DEF Candidates
<1>7. victim' = (IF b = victim THEN NoBlock ELSE victim) /\ v \in 0..MaxValue
  BY DEF ResetAndRemove, Values
<1> QED
  BY <1>5, <1>6, <1>7 DEF Queue!Withdraw, Counts, Candidates

LEMMA InitIsQueueInit == Init => Queue!QueueInit
<1> SUFFICES ASSUME Init PROVE Queue!QueueInit
  OBVIOUS
<1>1. \A b \in Blocks : Value(b) = InitialValue /\ ~InHeap(b)
  BY NumBlksAssumption DEF Init, Value, InHeap, Blocks, Positions
<1>2. Counts = [b \in Blocks |-> InitialValue] /\ Candidates = {}
  BY <1>1 DEF Counts, Candidates
<1> QED
  BY <1>2 DEF Init, Queue!QueueInit, Counts, Candidates

LEMMA CallsRefine == HInv /\ Calls => Queue!QueueNext
<1> SUFFICES ASSUME HInv, Calls PROVE Queue!QueueNext
  OBVIOUS
<1>0. PInv /\ loop = "none"
  BY DEF HInv, Calls
<1>1. ASSUME NEW b \in Blocks, NEW k \in 1..MaxValue, Increment(b, k)
      PROVE  Queue!Recount
  <2> DEFINE v == IF Value(b) + k <= MaxValue THEN Value(b) + k
                  ELSE Value(b) + k - (MaxValue + 1)
  <2>1. v \in Values
    BY <1>0, CountsWrap
  <2>2. arr' = WithValue(b, v) /\ UNCHANGED <<pos, nElInHeap, victim>>
    BY <1>1 DEF Increment
  <2> HIDE DEF v
  <2> QED
    BY <1>0, <2>1, <2>2, WriteIsRecount
<1>2. ASSUME NEW b \in Blocks, NEW k \in 1..MaxValue, Decrement(b, k)
      PROVE  Queue!Recount
  <2> DEFINE v == IF Value(b) >= k THEN Value(b) - k
                  ELSE Value(b) + (MaxValue + 1) - k
  <2>1. v \in Values
    BY <1>0, CountsWrap
  <2>2. arr' = WithValue(b, v) /\ UNCHANGED <<pos, nElInHeap, victim>>
    BY <1>2 DEF Decrement
  <2> HIDE DEF v
  <2> QED
    BY <1>0, <2>1, <2>2, WriteIsRecount
<1>3. ASSUME NEW b \in Blocks, NEW v \in Values, SetValue(b, v)
      PROVE  Queue!Recount
  <2>1. arr' = WithValue(b, v) /\ UNCHANGED <<pos, nElInHeap, victim>>
    BY <1>3 DEF SetValue
  <2> QED
    BY <1>0, <2>1, WriteIsRecount
<1> QED
  BY <1>0, <1>1, <1>2, <1>3, DecrementAllIsRecount, GetVictimIsOffer, InsertIsAdmit,
     ResetIsWithdraw
  DEF Calls, Queue!QueueNext

LEMMA NextRefines == HInv /\ [Next]_vars => [Queue!QueueNext]_(Queue!queueVars)
<1>1. UNCHANGED vars => UNCHANGED Queue!queueVars
  BY DEF vars, Queue!queueVars, Value, InHeap
<1> QED
  BY <1>1, BubbleUpStutters, BubbleDownStutters, CallsRefine DEF Next

\* The heap implements the queue: callers are offered a candidate with the
\* smallest count, and an operation changes the count of the block it names.
THEOREM Refinement == Spec => ImplementsQueue
<1>1. Spec => []HInv
  BY HInvInit, HInvNext, PTL DEF Spec
<1> QED
  BY <1>1, InitIsQueueInit, NextRefines, PTL DEF Spec, ImplementsQueue, Queue!QueueSpec
=============================================================================
