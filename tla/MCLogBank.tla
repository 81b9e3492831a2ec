----------------------------- MODULE MCLogBank -----------------------------
(* Bounds of the model-checked bank, and a view that leaves out what no    *)
(* later step reads.                                                       *)
EXTENDS LogBank, TLC

Symmetry == Permutations(Chunks)

\* A block is seen as its counts, the valid chunks it holds, and whether the
\* list the collector will read names them: which block it is does not matter.
BlkView(b, h, list) ==
    [count |-> heap[h].value[b],
     victim |-> Collecting(b),
     valid |-> {<<c, map[c].at, map[c].page, map[c].slot, list[map[c].page][map[c].slot]>> :
                   c \in {d \in Chunks : InBlk(map[d], b)}},
     programs |-> IF h = "first" THEN programs[b] ELSE <<>>]

MemberList(b, h) == IF h = "first" THEN lists[b].low ELSE lists[b].high
HeapView(h) ==
    LET views == {BlkView(b, h, MemberList(b, h)) : b \in heap[h].in}
    IN [v \in views |-> Cardinality({b \in heap[h].in : BlkView(b, h, MemberList(b, h)) = v})]

LogView(log, h, buffer) ==
    <<BlkView(log.blk, h, log.list), log.page, log.ptr, log.allValid, log.second,
      log.recycled, log.nextLow, log.precacheDone, [p \in log.page..(P - 1) |-> programs[log.blk][p]],
      [s \in Slots |-> IF log.chunk[s] # None /\ map[log.chunk[s]] = buffer[s]
                       THEN log.chunk[s] ELSE None]>>

View ==
    <<pc, Len(clean), [h \in Heaps |-> HeapView(h)],
      LogView(hot, IF hot.second THEN "second" ELSE "first", HotBuffer),
      LogView(cold, "cold", ColdBuffer),
      IF gc.state = "idle" THEN <<>>
      ELSE <<gc.state, gc.page, gc.fromHeap, gc.inBlk, gc.valid, gc.encoded>>,
      [i \in 1..Len(frames) |-> IF frames[i].kind = "copy"
                                THEN <<frames[i].page, frames[i].encoded, Collecting(frames[i].blk)>>
                                ELSE <<frames[i].kind>>],
      [c \in Chunks |-> map[c] = Invalid \/ map[c] \in latest[c]]>>
=============================================================================
