--------------------------- MODULE MCLogBankFill ---------------------------
(* A host that first stores every chunk it has and then overwrites them in *)
(* any order: the collector's victims are as full as they can be.  Chunks  *)
(* are numbers; those of HotChunks are always hot, the others always cold, *)
(* and none goes to another bank.                                          *)
EXTENDS LogBank

CONSTANT HotChunks

VARIABLE steps     \* ghost: steps of the firmware since the host's last write

Unwritten == {c \in Chunks : map[c] = Invalid}
NextChunks == IF Unwritten = {} THEN Chunks ELSE {CHOOSE c \in Unwritten : \A d \in Unwritten : c <= d}

FillInit == Init /\ steps = 0
FillNext == \/ /\ \E c \in NextChunks : IF c \in HotChunks THEN WriteHot(c) ELSE WriteCold(c)
               /\ steps' = 0
            \/ Firmware /\ steps' = steps + 1
FillSpec == FillInit /\ [][FillNext]_<<vars, steps>>

\* While the collector runs one block is clean at most and two are in the logs.  If
\* none is half-written, NumBlks - 3 or more are full, and when the host has fewer
\* chunks than their places one of them has an invalid place, so that the victim, the
\* emptiest, gains a place or more: after as many collections as a block has places
\* the copies have left a block clean.  A collection takes each page of its victim in
\* a few steps and each chunk of the page in one, with the flushes between them.
StepsOfCollection == P * (S + 6)
MaxSteps == SecondUsageInit * StepsOfCollection

\* Every host write returns, and within a bounded number of steps: the loop that
\* collects until two blocks are clean (log.c:229) gains more than its copies, and
\* the collections inside them, use.  This is so while the host has fewer chunks than
\* the places of NumBlks - 3 blocks (the run almost_full, one chunk below); the
\* code gives the host more (ftl_parameters.h:74), and there the loop does not end (the
\* run full_bank).
WritesReturn == steps <= MaxSteps

----------------------------------------------------------------------------
(* A view without the names of the chunks and the blocks                   *)

FillBlkView(b, h, list) ==
    [count |-> heap[h].value[b],
     victim |-> Collecting(b),
     valid |-> {LET a == map[c] IN
                 <<a.at, a.page, a.slot, list[a.page][a.slot] = [chunk |-> c, encoded |-> a.at # "FlashWLog"],
                   list[a.page][a.slot].encoded, c \in HotChunks, a \in latest[c]>> :
                   c \in {d \in Chunks : InBlk(map[d], b)}}]

FillMemberList(b, h) == IF h = "first" THEN lists[b].low ELSE lists[b].high
FillHeapView(h) ==
    LET View(b) == FillBlkView(b, h, FillMemberList(b, h))
        views == {View(b) : b \in heap[h].in}
    IN [v \in views |-> Cardinality({b \in heap[h].in : View(b) = v})]

FillLogView(log, h, buffer) ==
    <<FillBlkView(log.blk, h, log.list), log.page, log.ptr, log.allValid, log.second,
      log.recycled, log.nextLow, log.precacheDone,
      [s \in Slots |-> LET c == log.chunk[s] IN
                       IF c # None /\ map[c] = buffer[s]
                       THEN <<c \in HotChunks, map[c] \in latest[c]>> ELSE None]>>

FillView ==
    <<steps, pc, Len(clean), Cardinality(Unwritten), [h \in Heaps |-> FillHeapView(h)],
      FillLogView(hot, IF hot.second THEN "second" ELSE "first", HotBuffer),
      FillLogView(cold, "cold", ColdBuffer),
      IF gc.state = "idle" THEN <<>>
      ELSE <<gc.state, gc.page, gc.fromHeap, gc.inBlk, gc.valid, gc.encoded>>,
      [i \in 1..Len(frames) |-> IF frames[i].kind = "copy"
                                THEN <<frames[i].page, frames[i].encoded, Collecting(frames[i].blk)>>
                                ELSE <<frames[i].kind>>]>>
=============================================================================
