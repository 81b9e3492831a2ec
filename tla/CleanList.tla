----------------------------- MODULE CleanList -----------------------------
(***************************************************************************)
(* The clean list of one bank (cleanList.c): two singly linked lists over  *)
(* one pool of DRAM nodes, the list of erased blocks, with a head, a tail  *)
(* and a size, and the stack of unused nodes.  The lists of different      *)
(* banks share nothing, so one bank stands for all of them.                *)
(*                                                                         *)
(* chain and free are ghosts: the nodes the two lists should hold.  No     *)
(* action reads them to decide what the code does.                         *)
(***************************************************************************)
EXTENDS Naturals, Sequences, FiniteSets

CONSTANTS Blocks,     \* the log blocks of the bank
          NumNodes,   \* nodes of the pool (numNodesPerBank)
          None        \* no block

ASSUME NumNodesAssumption == NumNodes \in Nat \ {0}
\* cleanListInit is called with LOG_BLK_PER_BANK nodes per bank.
ASSUME PoolAssumption == IsFiniteSet(Blocks) /\ Cardinality(Blocks) <= NumNodes
ASSUME NoneAssumption == None \notin Blocks

NULL == 0
Nodes == 1..NumNodes

VARIABLES next,       \* node -> the node after it, or NULL
          lbn,        \* node -> the block it names
          unused,     \* cleanListUnusedNodes
          head,       \* cleanListHead
          tail,       \* cleanListTail
          size,       \* size
          returned,   \* the block the last pop returned
          hung,       \* the while(1) the firmware spins in: "full", "empty",
                      \* "underflow", or "no"
          chain, free \* ghosts: the nodes of the two lists, in order

vars == <<next, lbn, unused, head, tail, size, returned, hung, chain, free>>

----------------------------------------------------------------------------

\* cleanListInit: every node is on the unused list, in address order.
Init == /\ next = [n \in Nodes |-> IF n = NumNodes THEN NULL ELSE n + 1]
        /\ lbn = [n \in Nodes |-> None]
        /\ unused = 1
        /\ head = NULL
        /\ tail = NULL
        /\ size = 0
        /\ returned = None
        /\ hung = "no"
        /\ chain = <<>>
        /\ free = [i \in 1..NumNodes |-> i]

UnlinkedTail(n) == [next EXCEPT ![n] = NULL]              \* faulty variant

\* The next pointers after a push: the node taken from the pool ends the list
\* and, unless the list is empty, the old tail points to it.
LinkAtTail(n) == [[m \in Nodes |-> IF m = tail THEN n ELSE next[m]] EXCEPT ![n] = NULL]

\* cleanListPush
Push(b) ==
    IF unused = NULL
    THEN /\ hung' = "full"
         /\ UNCHANGED <<next, lbn, unused, head, tail, size, returned, chain, free>>
    ELSE /\ lbn' = [lbn EXCEPT ![unused] = b]
         /\ next' = LinkAtTail(unused)
         /\ tail' = unused
         /\ head' = IF head = NULL THEN unused ELSE head
         /\ unused' = next[unused]
         /\ size' = size + 1
         /\ chain' = Append(chain, unused)
         /\ free' = Tail(free)
         /\ UNCHANGED <<returned, hung>>

\* The tail after a pop: popping the only node empties the list.
StaleTail == tail                                         \* faulty variant
TailAfterPop == IF head = tail THEN NULL ELSE tail

\* The node popped goes back on top of the unused nodes.
NodeLeaked == next[head]                                  \* faulty variant
UnusedAfterPop == head

SizeKept == size                                          \* faulty variant
SizeAfterPop == IF size = 0 THEN 0 ELSE size - 1

\* cleanListPop
Pop ==
    IF head = NULL
    THEN /\ hung' = "empty"
         /\ UNCHANGED <<next, lbn, unused, head, tail, size, returned, chain, free>>
    ELSE /\ returned' = lbn[head]
         /\ tail' = TailAfterPop
         /\ next' = [next EXCEPT ![head] = unused]
         /\ unused' = UnusedAfterPop
         /\ head' = next[head]
         /\ hung' = IF size = 0 THEN "underflow" ELSE hung
         /\ size' = SizeAfterPop
         /\ chain' = Tail(chain)
         /\ free' = <<head>> \o free
         /\ UNCHANGED lbn

\* The FTL pushes a block after erasing it, and never one that is listed.
Listed == {lbn[chain[i]] : i \in 1..Len(chain)}

Next == /\ hung = "no"
        /\ \/ \E b \in Blocks \ Listed : Push(b)
           \/ Pop

Spec == Init /\ [][Next]_vars

----------------------------------------------------------------------------

\* Type invariant of the two lists' pointers, fields and counters.
TypeOK == /\ next \in [Nodes -> Nodes \cup {NULL}]
          /\ lbn \in [Nodes -> Blocks \cup {None}]
          /\ unused \in Nodes \cup {NULL}
          /\ head \in Nodes \cup {NULL}
          /\ tail \in Nodes \cup {NULL}
          /\ size \in 0..NumNodes
          /\ returned \in Blocks \cup {None}
          /\ hung \in {"no", "full", "empty", "underflow"}
          /\ chain \in Seq(Nodes)
          /\ free \in Seq(Nodes)

\* The linked list that starts at "first" runs through the nodes of s.
LinkedAs(first, s) ==
    /\ first = IF s = <<>> THEN NULL ELSE s[1]
    /\ \A i \in 1..Len(s) : next[s[i]] = IF i = Len(s) THEN NULL ELSE s[i + 1]

\* No node is on two lists or twice on one, and none is lost.
NodesPartitioned ==
    /\ \A i, j \in 1..Len(chain) : chain[i] = chain[j] => i = j
    /\ \A i, j \in 1..Len(free) : free[i] = free[j] => i = j
    /\ \A i \in 1..Len(chain), j \in 1..Len(free) : chain[i] # free[j]
    /\ Len(chain) + Len(free) = NumNodes

\* Following the pointers from the head and from the unused list meets exactly
\* the nodes each list should hold, in order: a push or a pop that forgets one
\* pointer (the tail of a list that becomes empty, the head of a list that was)
\* loses erased blocks several operations later.
ListShape ==
    /\ LinkedAs(head, chain)
    /\ LinkedAs(unused, free)
    /\ tail = IF chain = <<>> THEN NULL ELSE chain[Len(chain)]
    /\ size = Len(chain)
    /\ NodesPartitioned

\* A pool with a node per block never runs out, and the size never underflows:
\* as long as no block is pushed while it is listed, cleanListPush does not
\* reach its "list is full" loop, nor cleanListPop its "decreasing size below
\* zero" loop.  Only a pop of an empty list hangs.
OnlyEmptyHangs == hung \in {"no", "empty"}

\* To its callers the list is a first-in first-out queue of blocks: what is
\* reached through the head is what was pushed and not yet popped, oldest first.
Fifo == INSTANCE CleanListFifo
            WITH queue <- [i \in 1..Len(chain) |-> lbn[chain[i]]]
ImplementsFifo == Fifo!FifoSpec
=============================================================================
