-------------------------- MODULE CleanListProofs --------------------------
(***************************************************************************)
(* Proofs about the clean list, for every set of blocks and every pool     *)
(* with a node per block: the pointers always form the two lists they      *)
(* should (ListShape), the pool never runs out (OnlyEmptyHangs), and the   *)
(* list is the queue its callers rely on (ImplementsFifo).                 *)
(*                                                                         *)
(* The inductive invariant is the shape of the lists together with the     *)
(* fact that the nodes in use name distinct blocks: without it a push of   *)
(* an unlisted block could find the pool empty.                            *)
(***************************************************************************)
EXTENDS CleanList, FiniteSetTheorems, TLAPS

\* The nodes of the list of erased blocks name distinct blocks.
DistinctBlocks ==
    /\ \A i \in 1..Len(chain) : lbn[chain[i]] \in Blocks
    /\ \A i, j \in 1..Len(chain) : lbn[chain[i]] = lbn[chain[j]] => i = j

IInv == TypeOK /\ ListShape /\ DistinctBlocks /\ OnlyEmptyHangs

----------------------------------------------------------------------------
(* Sequences                                                               *)

\* What Append gives.
LEMMA AppendFacts ==
    ASSUME NEW T, NEW s \in Seq(T), NEW e \in T
    PROVE  /\ Append(s, e) \in Seq(T)
           /\ Len(Append(s, e)) = Len(s) + 1
           /\ \A i \in 1..Len(s) : Append(s, e)[i] = s[i]
           /\ Append(s, e)[Len(s) + 1] = e
OBVIOUS

\* What Tail gives.
LEMMA TailFacts ==
    ASSUME NEW T, NEW s \in Seq(T), s # <<>>
    PROVE  /\ Len(s) > 0
           /\ s[1] \in T
           /\ Tail(s) \in Seq(T)
           /\ Len(Tail(s)) = Len(s) - 1
           /\ \A i \in 1..(Len(s) - 1) : Tail(s)[i] = s[i + 1]
OBVIOUS

\* What pushing on a stack gives.
LEMMA ConsFacts ==
    ASSUME NEW T, NEW s \in Seq(T), NEW e \in T
    PROVE  /\ <<e>> \o s \in Seq(T)
           /\ Len(<<e>> \o s) = Len(s) + 1
           /\ (<<e>> \o s)[1] = e
           /\ \A i \in 2..(Len(s) + 1) : (<<e>> \o s)[i] = s[i - 1]
OBVIOUS

----------------------------------------------------------------------------
(* The invariant                                                           *)

\* The lists cleanListInit builds have the shape.
LEMMA InitInv == Init => IInv
<1> SUFFICES ASSUME Init PROVE IInv
  OBVIOUS
<1>1. TypeOK
  BY NumNodesAssumption DEF Init, TypeOK, Nodes, NULL
<1>2. ListShape
  <2>1. Len(chain) = 0 /\ Len(free) = NumNodes /\ free # <<>>
    BY NumNodesAssumption DEF Init
  <2> QED
    BY <2>1, NumNodesAssumption
    DEF Init, ListShape, LinkedAs, NodesPartitioned, Nodes, NULL
<1>3. DistinctBlocks /\ OnlyEmptyHangs
  BY DEF Init, DistinctBlocks, OnlyEmptyHangs
<1> QED
  BY <1>1, <1>2, <1>3 DEF IInv

\* A pool with a node per block has an unused node while a block is not listed:
\* otherwise its nodes would name NumNodes distinct blocks, all but one.
LEMMA PoolNeverEmpty ==
    ASSUME IInv, NEW b \in Blocks \ Listed
    PROVE  unused # NULL
<1> SUFFICES ASSUME unused = NULL PROVE FALSE
  OBVIOUS
<1>1. free = <<>>
  <2> SUFFICES ASSUME free # <<>> PROVE FALSE
    OBVIOUS
  <2>1. unused = free[1] /\ free[1] \in Nodes
    BY TailFacts DEF IInv, TypeOK, ListShape, LinkedAs
  <2> QED
    BY <2>1 DEF Nodes, NULL
<1>2. Len(chain) = NumNodes /\ NumNodes \in Nat
  BY <1>1, NumNodesAssumption DEF IInv, ListShape, NodesPartitioned, TypeOK
<1> DEFINE f == [i \in 1..NumNodes |-> lbn[chain[i]]]
<1>3. f \in [1..NumNodes -> Blocks \ {b}]
  BY <1>2 DEF IInv, DistinctBlocks, Listed
<1>4. /\ IsFiniteSet(Blocks \ {b})
      /\ Cardinality(Blocks \ {b}) = Cardinality(Blocks) - 1
  BY PoolAssumption, FS_RemoveElement
<1>5. IsFiniteSet(1..NumNodes) /\ Cardinality(1..NumNodes) = NumNodes
  BY <1>2, FS_Interval
<1>6. Cardinality(Blocks \ {b}) < Cardinality(1..NumNodes)
  BY <1>2, <1>4, <1>5, PoolAssumption, FS_CardinalityType
<1>7. PICK i, j \in 1..NumNodes : i # j /\ f[i] = f[j]
  <2> HIDE DEF f
  <2> QED
    BY <1>3, <1>4, <1>5, <1>6, FS_PigeonHole, Zenon
<1>8. lbn[chain[i]] = lbn[chain[j]]
  BY <1>7
<1> QED
  BY <1>2, <1>7, <1>8 DEF IInv, DistinctBlocks

\* What a push of an unlisted block does to the two lists.
LEMMA PushFacts ==
    ASSUME IInv, NEW b \in Blocks \ Listed, Push(b)
    PROVE  /\ free # <<>> /\ unused = free[1] /\ unused \in Nodes
           /\ chain' = Append(chain, unused) /\ free' = Tail(free)
           /\ lbn' = [lbn EXCEPT ![unused] = b]
           /\ next' = LinkAtTail(unused)
           /\ \A i \in 1..Len(chain) : chain[i] # unused
           /\ UNCHANGED <<returned, hung>>
           /\ unused' = next[unused] /\ tail' = unused /\ size' = size + 1
           /\ head' = IF head = NULL THEN unused ELSE head
<1>1. unused # NULL
  BY PoolNeverEmpty
<1>2. free # <<>> /\ unused = free[1] /\ unused \in Nodes
  BY <1>1 DEF IInv, TypeOK, ListShape, LinkedAs
<1>3. Len(free) > 0
  BY <1>2, TailFacts DEF IInv, TypeOK
<1>4. \A i \in 1..Len(chain) : chain[i] # unused
  BY <1>2, <1>3 DEF IInv, TypeOK, ListShape, NodesPartitioned
<1> QED
  BY <1>1, <1>2, <1>4 DEF Push

\* cleanListPush keeps the invariant.
LEMMA PushInv ==
    ASSUME IInv, NEW b \in Blocks \ Listed, Push(b)
    PROVE  IInv'
<1>p. /\ free # <<>> /\ unused = free[1] /\ unused \in Nodes
      /\ chain' = Append(chain, unused) /\ free' = Tail(free)
      /\ lbn' = [lbn EXCEPT ![unused] = b]
      /\ next' = LinkAtTail(unused)
      /\ \A i \in 1..Len(chain) : chain[i] # unused
      /\ UNCHANGED <<returned, hung>>
      /\ unused' = next[unused] /\ tail' = unused /\ size' = size + 1
      /\ head' = IF head = NULL THEN unused ELSE head
  BY PushFacts
<1> USE <1>p
<1> DEFINE n == unused
<1>s. chain \in Seq(Nodes) /\ free \in Seq(Nodes)
  BY DEF IInv, TypeOK
<1>c. /\ chain' \in Seq(Nodes) /\ Len(chain') = Len(chain) + 1
      /\ \A i \in 1..Len(chain) : chain'[i] = chain[i] /\ chain[i] \in Nodes
      /\ chain'[Len(chain) + 1] = n
      /\ Len(chain) \in Nat
  BY <1>s, AppendFacts
<1>f. /\ free' \in Seq(Nodes) /\ Len(free') = Len(free) - 1 /\ Len(free) > 0
      /\ \A i \in 1..(Len(free) - 1) : free'[i] = free[i + 1]
      /\ \A i \in 1..Len(free) : free[i] \in Nodes
      /\ Len(free) \in Nat
  BY <1>s, TailFacts
<1>n. \A m \in Nodes : next'[m] = IF m = n THEN NULL ELSE IF m = tail THEN n ELSE next[m]
  BY DEF LinkAtTail
<1>t. tail = IF Len(chain) = 0 THEN NULL ELSE chain[Len(chain)]
  BY <1>c DEF IInv, ListShape, TypeOK
<1>h. head' = chain'[1]
  <2>1. CASE chain = <<>>
    BY <2>1, <1>c DEF IInv, ListShape, LinkedAs, NULL, Nodes
  <2>2. CASE chain # <<>>
    <3>1. Len(chain) > 0 /\ head = chain[1] /\ head # NULL
      BY <2>2, <1>c, TailFacts DEF IInv, TypeOK, ListShape, LinkedAs, NULL, Nodes
    <3> QED
      BY <3>1, <1>c DEF NULL, Nodes
  <2> QED
    BY <2>1, <2>2
<1>1. TypeOK'
  <2>1. size' \in 0..NumNodes
    <3>1. size = Len(chain) /\ Len(chain) + Len(free) = NumNodes
      BY DEF IInv, ListShape, NodesPartitioned
    <3> QED
      BY <3>1, <1>c, <1>f, NumNodesAssumption
  <2>2. next' \in [Nodes -> Nodes \cup {NULL}]
    BY DEF LinkAtTail, IInv, TypeOK
  <2>3. /\ lbn' \in [Nodes -> Blocks \cup {None}]
        /\ unused' \in Nodes \cup {NULL} /\ head' \in Nodes \cup {NULL}
        /\ tail' \in Nodes \cup {NULL}
    BY DEF IInv, TypeOK
  <2> QED
    BY <2>1, <2>2, <2>3, <1>c, <1>f DEF IInv, TypeOK
<1>2. ListShape'
  <2>1. LinkedAs(head, chain)'
    <3>1. ASSUME NEW i \in 1..Len(chain')
          PROVE  next'[chain'[i]] = IF i = Len(chain') THEN NULL ELSE chain'[i + 1]
      <4>1. CASE i = Len(chain) + 1
        BY <4>1, <1>c, <1>n
      <4>2. CASE i = Len(chain)
        BY <4>2, <1>c, <1>n, <1>t
      <4>3. CASE i < Len(chain)
        <5>1. chain[i] # tail
          BY <4>3, <1>c, <1>t DEF IInv, ListShape, NodesPartitioned
        <5>2. next[chain[i]] = chain[i + 1]
          BY <4>3, <1>c DEF IInv, ListShape, LinkedAs
        <5> QED
          BY <4>3, <5>1, <5>2, <1>c, <1>n
      <4> QED
        BY <4>1, <4>2, <4>3, <1>c
    <3>2. chain' # <<>>
      BY <1>c
    <3> QED
      BY <3>1, <3>2, <1>h DEF LinkedAs
  <2>2. LinkedAs(unused, free)'
    <3>1. \A i \in 1..Len(free) : next[free[i]] = IF i = Len(free) THEN NULL ELSE free[i + 1]
      BY DEF IInv, ListShape, LinkedAs
    <3>2. unused' = IF free' = <<>> THEN NULL ELSE free'[1]
      <4>1. unused' = IF 1 = Len(free) THEN NULL ELSE free[2]
        <5>1. 1 \in 1..Len(free) /\ 1 + 1 = 2
          BY <1>f
        <5>2. next[free[1]] = IF 1 = Len(free) THEN NULL ELSE free[1 + 1]
          BY ONLY <3>1, <5>1
        <5> QED
          BY <5>1, <5>2
      <4> QED
        BY <4>1, <1>f
    <3>3. ASSUME NEW i \in 1..Len(free')
          PROVE  next'[free'[i]] = IF i = Len(free') THEN NULL ELSE free'[i + 1]
      <4>1. free'[i] = free[i + 1] /\ free[i + 1] \in Nodes /\ i + 1 \in 1..Len(free)
        BY <1>f
      <4>2. free[i + 1] # n
        BY <4>1, <1>f DEF IInv, ListShape, NodesPartitioned
      <4>3. free[i + 1] # tail
        BY <4>1, <1>t, <1>c DEF IInv, ListShape, NodesPartitioned, NULL, Nodes
      <4> QED
        <5>1. next'[free'[i]] = next[free[i + 1]]
          BY <4>1, <4>2, <4>3, <1>n
        <5>2. next[free[i + 1]] = IF i + 1 = Len(free) THEN NULL ELSE free[(i + 1) + 1]
          BY <3>1, <4>1
        <5>3. i # Len(free') => free'[i + 1] = free[(i + 1) + 1]
          <6> SUFFICES ASSUME i # Len(free') PROVE free'[i + 1] = free[(i + 1) + 1]
            OBVIOUS
          <6> HIDE <1>p
          <6>1. i + 1 \in 1..(Len(free) - 1)
            <7>1. /\ i \in 1..(Len(free) - 1) /\ i # Len(free) - 1
                  /\ Len(free) \in Nat
              BY <1>f
            <7> QED
              BY ONLY <7>1
          <6>2. \A j \in 1..(Len(free) - 1) : free'[j] = free[j + 1]
            BY <1>f
          <6> QED
            BY ONLY <6>1, <6>2
        <5>4. i = Len(free') <=> i + 1 = Len(free)
          BY <1>f
        <5> QED
          BY <5>1, <5>2, <5>3, <5>4
    <3> QED
      BY <3>2, <3>3 DEF LinkedAs
  <2>3. tail' = IF chain' = <<>> THEN NULL ELSE chain'[Len(chain')]
    BY <1>c
  <2>4. size' = Len(chain')
    BY <1>c DEF IInv, ListShape
  <2>5. NodesPartitioned'
    BY <1>c, <1>f DEF IInv, ListShape, NodesPartitioned
  <2> QED
    BY <2>1, <2>2, <2>3, <2>4, <2>5 DEF ListShape
<1>3. DistinctBlocks'
  <2>1. lbn'[n] = b
    BY DEF IInv, TypeOK
  <2>2. \A i \in 1..Len(chain) : lbn'[chain'[i]] = lbn[chain[i]] /\ lbn[chain[i]] # b
    BY <1>c DEF IInv, TypeOK, Listed
  <2> QED
    BY <2>1, <2>2, <1>c DEF IInv, DistinctBlocks
<1> QED
  BY <1>1, <1>2, <1>3 DEF IInv, OnlyEmptyHangs

\* A pop of an empty list only stops the firmware.
LEMMA PopOfEmpty ==
    ASSUME IInv, Pop, head = NULL
    PROVE  IInv' /\ UNCHANGED <<lbn, returned, chain>>
<1>1. /\ hung' = "empty"
      /\ UNCHANGED <<next, lbn, unused, head, tail, size, returned, chain, free>>
  BY DEF Pop
<1>2. TypeOK'
  BY <1>1 DEF IInv, TypeOK
<1>3. ListShape'
  BY <1>1 DEF IInv, ListShape, LinkedAs, NodesPartitioned
<1>4. DistinctBlocks' /\ OnlyEmptyHangs'
  BY <1>1 DEF IInv, DistinctBlocks, OnlyEmptyHangs
<1> QED
  BY <1>1, <1>2, <1>3, <1>4 DEF IInv

\* What a pop of a list that is not empty does to the two lists.
LEMMA PopFacts ==
    ASSUME IInv, Pop, head # NULL
    PROVE  /\ chain # <<>> /\ head = chain[1] /\ head \in Nodes /\ size > 0
           /\ chain' = Tail(chain) /\ free' = <<head>> \o free
           /\ next' = [next EXCEPT ![head] = unused]
           /\ unused' = head /\ head' = next[head] /\ size' = size - 1
           /\ tail' = IF head = tail THEN NULL ELSE tail
           /\ returned' = lbn[head]
           /\ UNCHANGED <<lbn, hung>>
<1>1. chain # <<>> /\ head = chain[1] /\ head \in Nodes
  BY DEF IInv, TypeOK, ListShape, LinkedAs
<1>2. size > 0
  BY <1>1, TailFacts DEF IInv, TypeOK, ListShape
<1> QED
  BY <1>1, <1>2 DEF Pop, TailAfterPop, UnusedAfterPop, SizeAfterPop

\* cleanListPop keeps the invariant.
LEMMA PopInv ==
    ASSUME IInv, Pop
    PROVE  IInv'
<1>1. CASE head = NULL
  BY <1>1, PopOfEmpty
<1>2. CASE head # NULL
  <2>p. /\ chain # <<>> /\ head = chain[1] /\ head \in Nodes /\ size > 0
        /\ chain' = Tail(chain) /\ free' = <<head>> \o free
        /\ next' = [next EXCEPT ![head] = unused]
        /\ unused' = head /\ head' = next[head] /\ size' = size - 1
        /\ tail' = IF head = tail THEN NULL ELSE tail
        /\ returned' = lbn[head]
        /\ UNCHANGED <<lbn, hung>>
    BY <1>2, PopFacts
  <2>s. chain \in Seq(Nodes) /\ free \in Seq(Nodes)
    BY DEF IInv, TypeOK
  <2>c. /\ chain' \in Seq(Nodes) /\ Len(chain') = Len(chain) - 1 /\ Len(chain) > 0
        /\ \A i \in 1..(Len(chain) - 1) : chain'[i] = chain[i + 1]
        /\ \A i \in 1..Len(chain) : chain[i] \in Nodes
        /\ Len(chain) \in Nat
    BY <2>p, <2>s, TailFacts
  <2>f. /\ free' \in Seq(Nodes) /\ Len(free') = Len(free) + 1
        /\ free'[1] = head
        /\ \A i \in 2..(Len(free) + 1) : free'[i] = free[i - 1]
        /\ \A i \in 1..Len(free) : free[i] \in Nodes
        /\ Len(free) \in Nat
    BY <2>p, <2>s, ConsFacts
  <2>n. \A m \in Nodes : next'[m] = IF m = head THEN unused ELSE next[m]
    BY <2>p DEF IInv, TypeOK
  <2>h. \A i \in 2..Len(chain) : chain[i] # head
    BY <2>p, <2>c DEF IInv, ListShape, NodesPartitioned
  <2>g. \A i \in 1..Len(free) : free[i] # head
    BY <2>p, <2>c DEF IInv, ListShape, NodesPartitioned
  <2>k. \A i \in 1..Len(chain) : next[chain[i]] = IF i = Len(chain) THEN NULL ELSE chain[i + 1]
    BY DEF IInv, ListShape, LinkedAs
  <2>1. TypeOK'
    <3>1. size = Len(chain) /\ Len(chain) + Len(free) = NumNodes
      BY DEF IInv, ListShape, NodesPartitioned
    <3>2. size' \in 0..NumNodes
      BY <3>1, <2>p, <2>c, <2>f, NumNodesAssumption
    <3> QED
      BY <3>2, <2>p, <2>c, <2>f DEF IInv, TypeOK
  <2>2. LinkedAs(head, chain)'
    <3>1. head' = IF chain' = <<>> THEN NULL ELSE chain'[1]
      <4>1. 1 \in 1..Len(chain) /\ head' = next[chain[1]]
        BY <2>c, <2>p
      <4>2. head' = IF Len(chain) = 1 THEN NULL ELSE chain[1 + 1]
        BY ONLY <4>1, <2>k
      <4>3. CASE Len(chain) = 1
        BY <4>2, <4>3, <2>c
      <4>4. CASE Len(chain) # 1
        <5>1. 1 \in 1..(Len(chain) - 1) /\ chain' # <<>>
          BY <4>4, <2>c
        <5> QED
          BY <5>1, <4>2, <4>4, <2>c
      <4> QED
        BY <4>3, <4>4
    <3>2. ASSUME NEW i \in 1..Len(chain')
          PROVE  next'[chain'[i]] = IF i = Len(chain') THEN NULL ELSE chain'[i + 1]
      <4>1. /\ i \in 1..(Len(chain) - 1) /\ i + 1 \in 2..Len(chain)
            /\ i + 1 \in 1..Len(chain)
        BY <2>c
      <4>2. chain'[i] = chain[i + 1] /\ chain[i + 1] # head /\ chain[i + 1] \in Nodes
        BY <4>1, <2>c, <2>h
      <4>3. next'[chain'[i]] = next[chain[i + 1]]
        BY <4>2, <2>n
      <4>4. next[chain[i + 1]] = IF i + 1 = Len(chain) THEN NULL ELSE chain[(i + 1) + 1]
        BY <4>1, <2>k
      <4>5. i = Len(chain') <=> i + 1 = Len(chain)
        BY <2>c
      <4>6. ASSUME i # Len(chain') PROVE chain'[i + 1] = chain[(i + 1) + 1]
        <5>1. i # Len(chain) - 1 /\ Len(chain) \in Nat
          BY <4>6, <2>c
        <5>2. i + 1 \in 1..(Len(chain) - 1)
          BY ONLY <4>1, <5>1
        <5> QED
          BY <5>2, <2>c
      <4> QED
        BY <4>3, <4>4, <4>5, <4>6
    <3> QED
      BY <3>1, <3>2 DEF LinkedAs
  <2>3. LinkedAs(unused, free)'
    <3>1. ASSUME NEW i \in 1..Len(free')
          PROVE  next'[free'[i]] = IF i = Len(free') THEN NULL ELSE free'[i + 1]
      <4>1. unused = IF Len(free) = 0 THEN NULL ELSE free[1]
        BY <2>s DEF IInv, ListShape, LinkedAs
      <4>2. CASE i = 1
        <5>1. next'[free'[i]] = unused
          BY <4>2, <2>f, <2>n, <2>p
        <5>2. Len(free) # 0 => free'[2] = free[1]
          BY <2>f
        <5> QED
          BY <4>1, <4>2, <5>1, <5>2, <2>f
      <4>3. CASE i # 1
        <5>1. i \in 2..(Len(free) + 1) /\ i - 1 \in 1..Len(free)
          BY <4>3, <2>f
        <5>2. free'[i] = free[i - 1] /\ free[i - 1] # head /\ free[i - 1] \in Nodes
          BY <5>1, <2>f, <2>g
        <5>3. next'[free'[i]] = next[free[i - 1]]
          BY <5>2, <2>n
        <5>4. next[free[i - 1]] = IF i - 1 = Len(free) THEN NULL ELSE free[(i - 1) + 1]
          BY <5>1 DEF IInv, ListShape, LinkedAs
        <5>5. i = Len(free') <=> i - 1 = Len(free)
          BY <5>1, <2>f
        <5>6. ASSUME i # Len(free') PROVE free'[i + 1] = free[(i - 1) + 1]
          <6>1. i + 1 \in 2..(Len(free) + 1) /\ (i + 1) - 1 = (i - 1) + 1
            BY <5>1, <5>6, <2>f
          <6> QED
            BY <6>1, <2>f
        <5> QED
          BY <5>3, <5>4, <5>5, <5>6
      <4> QED
        BY <4>2, <4>3
    <3>2. free' # <<>> /\ unused' = free'[1]
      BY <2>f, <2>p
    <3> QED
      BY <3>1, <3>2 DEF LinkedAs
  <2>4. tail' = IF chain' = <<>> THEN NULL ELSE chain'[Len(chain')]
    <3>1. tail = chain[Len(chain)]
      BY <2>p DEF IInv, ListShape
    <3>2. CASE Len(chain) = 1
      BY <3>1, <3>2, <2>p, <2>c
    <3>3. CASE Len(chain) # 1
      <4>1. Len(chain) \in 2..Len(chain) /\ Len(chain) - 1 \in 1..(Len(chain) - 1)
        BY <3>3, <2>c
      <4>2. tail # head /\ chain' # <<>> /\ chain'[Len(chain) - 1] = chain[(Len(chain) - 1) + 1]
        BY <4>1, <3>1, <2>h, <2>c
      <4> QED
        BY <4>2, <3>1, <2>p, <2>c
    <3> QED
      BY <3>2, <3>3
  <2>5. size' = Len(chain')
    BY <2>p, <2>c DEF IInv, ListShape
  <2>6. NodesPartitioned'
    <3>1. \A i, j \in 1..Len(chain') : chain'[i] = chain'[j] => i = j
      BY <2>c DEF IInv, ListShape, NodesPartitioned
    <3>2. \A i, j \in 1..Len(free') : free'[i] = free'[j] => i = j
      <4>1. ASSUME NEW i \in 1..Len(free'), NEW j \in 1..Len(free'), free'[i] = free'[j]
            PROVE  i = j
        <5>1. CASE i # 1 /\ j # 1
          <6>1. i - 1 \in 1..Len(free) /\ j - 1 \in 1..Len(free)
            BY <5>1, <2>f
          <6>2. free[i - 1] = free[j - 1]
            BY <5>1, <4>1, <2>f
          <6>3. i - 1 = j - 1
            BY <6>1, <6>2 DEF IInv, ListShape, NodesPartitioned
          <6> QED
            BY <6>3, <2>f
        <5>2. CASE i = 1 \/ j = 1
          BY <5>2, <4>1, <2>f, <2>g
        <5> QED
          BY <5>1, <5>2
      <4> QED
        BY <4>1
    <3>3. \A i \in 1..Len(chain'), j \in 1..Len(free') : chain'[i] # free'[j]
      <4>1. ASSUME NEW i \in 1..Len(chain'), NEW j \in 1..Len(free')
            PROVE  chain'[i] # free'[j]
        <5>1. /\ i + 1 \in 2..Len(chain) /\ i + 1 \in 1..Len(chain)
              /\ chain'[i] = chain[i + 1]
          BY <2>c
        <5>2. CASE j = 1
          BY <5>1, <5>2, <2>f, <2>h
        <5>3. CASE j # 1
          <6>1. j - 1 \in 1..Len(free) /\ free'[j] = free[j - 1]
            BY <5>3, <2>f
          <6> QED
            BY <5>1, <6>1 DEF IInv, ListShape, NodesPartitioned
        <5> QED
          BY <5>2, <5>3
      <4> QED
        BY <4>1
    <3>4. Len(chain') + Len(free') = NumNodes
      BY <2>c, <2>f DEF IInv, ListShape, NodesPartitioned
    <3> QED
      BY <3>1, <3>2, <3>3, <3>4 DEF NodesPartitioned
  <2>7. DistinctBlocks'
    BY <2>p, <2>c DEF IInv, DistinctBlocks
  <2> QED
    BY <2>1, <2>2, <2>3, <2>4, <2>5, <2>6, <2>7, <2>p
    DEF IInv, ListShape, OnlyEmptyHangs
<1> QED
  BY <1>1, <1>2

----------------------------------------------------------------------------
(* The theorems                                                            *)

\* Every operation keeps the invariant.
LEMMA NextInv == IInv /\ [Next]_vars => IInv'
<1> SUFFICES ASSUME IInv, [Next]_vars PROVE IInv'
  OBVIOUS
<1>1. CASE \E b \in Blocks \ Listed : Push(b)
  BY <1>1, PushInv
<1>2. CASE Pop
  BY <1>2, PopInv
<1>3. CASE UNCHANGED vars
  BY <1>3
  DEF vars, IInv, TypeOK, ListShape, LinkedAs, NodesPartitioned, DistinctBlocks, OnlyEmptyHangs
<1> QED
  BY <1>1, <1>2, <1>3 DEF Next

\* The inductive invariant holds in every state of cleanList.c.
THEOREM InvariantHolds == Spec => []IInv
<1>1. Init => IInv
  BY InitInv
<1>2. IInv /\ [Next]_vars => IInv'
  BY NextInv
<1> QED
  BY <1>1, <1>2, PTL DEF Spec

\* Pointers, fields and counters keep their types; the size never exceeds the pool.
THEOREM TypeCorrect == Spec => []TypeOK
<1>1. IInv => TypeOK
  BY DEF IInv
<1> QED
  BY <1>1, InvariantHolds, PTL

\* Head, tail, size and next pointers always form the list of erased blocks and
\* the list of unused nodes, whatever the sequence of pushes and pops.
THEOREM ShapeCorrect == Spec => []ListShape
<1>1. IInv => ListShape
  BY DEF IInv
<1> QED
  BY <1>1, InvariantHolds, PTL

\* With a node per block the pool never runs out and the size never underflows.
THEOREM NeverFull == Spec => []OnlyEmptyHangs
<1>1. IInv => OnlyEmptyHangs
  BY DEF IInv
<1> QED
  BY <1>1, InvariantHolds, PTL

----------------------------------------------------------------------------
(* The clean list implements the queue                                     *)

queue == [i \in 1..Len(chain) |-> lbn[chain[i]]]

\* Two sequences with the same length and elements are the same.
LEMMA SeqExtensionality ==
    ASSUME NEW T, NEW s \in Seq(T), NEW t \in Seq(T), Len(s) = Len(t),
           \A i \in 1..Len(s) : s[i] = t[i]
    PROVE  s = t
OBVIOUS

\* The blocks listed, in order, are a sequence of blocks.
LEMMA QueueType ==
    ASSUME IInv
    PROVE  /\ queue \in Seq(Blocks) /\ Len(queue) = Len(chain)
           /\ Len(chain) \in Nat
           /\ \A i \in 1..Len(chain) : queue[i] = lbn[chain[i]]
<1>1. Len(chain) \in Nat
  BY DEF IInv, TypeOK
<1>2. \A i \in 1..Len(chain) : lbn[chain[i]] \in Blocks
  BY DEF IInv, DistinctBlocks
<1> QED
  BY <1>1, <1>2 DEF queue

\* A push puts its block at the end of the queue.
LEMMA PushIsFifo ==
    ASSUME IInv, NEW b \in Blocks \ Listed, Push(b)
    PROVE  queue' = Append(queue, b) /\ UNCHANGED returned
<1>1. IInv'
  BY PushInv
<1>2. /\ unused \in Nodes
      /\ chain' = Append(chain, unused)
      /\ lbn' = [lbn EXCEPT ![unused] = b]
      /\ \A i \in 1..Len(chain) : chain[i] # unused
      /\ UNCHANGED returned
  BY PushFacts
<1>q. /\ queue \in Seq(Blocks) /\ Len(queue) = Len(chain) /\ Len(chain) \in Nat
      /\ \A i \in 1..Len(chain) : queue[i] = lbn[chain[i]]
  BY QueueType
<1>r. /\ queue' \in Seq(Blocks) /\ Len(queue') = Len(chain')
      /\ \A i \in 1..Len(chain') : queue'[i] = lbn'[chain'[i]]
  BY <1>1 DEF queue, IInv, TypeOK, DistinctBlocks
<1>c. /\ Len(chain') = Len(chain) + 1
      /\ \A i \in 1..Len(chain) : chain'[i] = chain[i] /\ chain[i] \in Nodes
      /\ chain'[Len(chain) + 1] = unused
  BY <1>2, AppendFacts DEF IInv, TypeOK
<1>a. /\ Append(queue, b) \in Seq(Blocks) /\ Len(Append(queue, b)) = Len(queue) + 1
      /\ \A i \in 1..Len(queue) : Append(queue, b)[i] = queue[i]
      /\ Append(queue, b)[Len(queue) + 1] = b
  BY <1>q, AppendFacts
<1>3. ASSUME NEW i \in 1..Len(queue') PROVE queue'[i] = Append(queue, b)[i]
  <2>1. lbn \in [Nodes -> Blocks \cup {None}]
    BY DEF IInv, TypeOK
  <2>2. CASE i = Len(chain) + 1
    BY <2>1, <2>2, <1>2, <1>c, <1>r, <1>a, <1>q
  <2>3. CASE i # Len(chain) + 1
    <3>1. i \in 1..Len(chain)
      BY <2>3, <1>r, <1>c, <1>q
    <3> QED
      BY <3>1, <2>1, <1>2, <1>c, <1>r, <1>a, <1>q
  <2> QED
    BY <2>2, <2>3
<1>4. Len(queue') = Len(Append(queue, b))
  BY <1>r, <1>c, <1>a, <1>q
<1>5. queue' = Append(queue, b)
  BY <1>3, <1>4, <1>r, <1>a, SeqExtensionality
<1> QED
  BY <1>5, <1>2

\* A pop takes the block at the head of the queue.
LEMMA PopIsFifo ==
    ASSUME IInv, Pop, head # NULL
    PROVE  queue # <<>> /\ returned' = queue[1] /\ queue' = Tail(queue)
<1>1. IInv'
  BY PopInv
<1>2. /\ chain # <<>> /\ head = chain[1] /\ chain' = Tail(chain)
      /\ returned' = lbn[head] /\ lbn' = lbn
  BY PopFacts
<1>q. /\ queue \in Seq(Blocks) /\ Len(queue) = Len(chain) /\ Len(chain) \in Nat
      /\ \A i \in 1..Len(chain) : queue[i] = lbn[chain[i]]
  BY QueueType
<1>r. /\ queue' \in Seq(Blocks) /\ Len(queue') = Len(chain')
      /\ \A i \in 1..Len(chain') : queue'[i] = lbn'[chain'[i]]
  BY <1>1 DEF queue, IInv, TypeOK, DistinctBlocks
<1>c. /\ Len(chain') = Len(chain) - 1 /\ Len(chain) > 0
      /\ \A i \in 1..(Len(chain) - 1) : chain'[i] = chain[i + 1]
  BY <1>2, TailFacts DEF IInv, TypeOK
<1>3. queue # <<>>
  BY <1>q, <1>c
<1>a. /\ Tail(queue) \in Seq(Blocks) /\ Len(Tail(queue)) = Len(queue) - 1
      /\ \A i \in 1..(Len(queue) - 1) : Tail(queue)[i] = queue[i + 1]
  BY <1>q, <1>3, TailFacts
<1>4. ASSUME NEW i \in 1..Len(queue') PROVE queue'[i] = Tail(queue)[i]
  <2>1. i \in 1..(Len(chain) - 1) /\ i + 1 \in 1..Len(chain)
    BY <1>r, <1>c, <1>q
  <2> QED
    BY <2>1, <1>2, <1>r, <1>c, <1>q, <1>a
<1>5. queue' = Tail(queue)
  BY <1>4, <1>r, <1>a, <1>c, <1>q, SeqExtensionality
<1>6. 1 \in 1..Len(chain)
  BY <1>c, <1>q
<1> QED
  BY <1>3, <1>5, <1>6, <1>2, <1>q

\* Every push and pop of cleanList.c is a step of the queue, and one that only
\* stops the firmware leaves the queue as it is.
THEOREM Refinement == Spec => ImplementsFifo
<1>1. Init => Fifo!FifoInit
  BY DEF Init, Fifo!FifoInit
<1>2. IInv /\ [Next]_vars => [Fifo!FifoNext]_(Fifo!fifoVars)
  <2> SUFFICES ASSUME IInv, [Next]_vars
               PROVE  Fifo!FifoNext \/ UNCHANGED Fifo!fifoVars
    OBVIOUS
  <2>1. ASSUME NEW b \in Blocks \ Listed, Push(b) PROVE Fifo!FifoNext
    BY <2>1, PushIsFifo DEF Fifo!FifoNext, Fifo!FifoPush, queue
  <2>2. CASE Pop /\ head # NULL
    BY <2>2, PopIsFifo DEF Fifo!FifoNext, Fifo!FifoPop, queue
  <2>3. CASE Pop /\ head = NULL
    BY <2>3, PopOfEmpty DEF Fifo!fifoVars
  <2>4. CASE UNCHANGED vars
    BY <2>4 DEF vars, Fifo!fifoVars
  <2> QED
    BY <2>1, <2>2, <2>3, <2>4 DEF Next
<1> QED
  BY <1>1, <1>2, InvariantHolds, PTL DEF Spec, ImplementsFifo, Fifo!FifoSpec

=============================================================================
