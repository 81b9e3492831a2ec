------------------------------ MODULE LogBank ------------------------------
(***************************************************************************)
(* One bank of the flash translation layer: the chunk map, the hot and the *)
(* cold write log with their DRAM buffers (write.c, log.c), the three      *)
(* valid-chunks heaps and the clean list as their callers see them         *)
(* (VictimQueue, CleanListFifo), the reuse of half-written blocks by WOM   *)
(* encoding, and the garbage collector (garbage_collection.c).             *)
(*                                                                         *)
(* A piece of a request goes to the bank of the chunk it begins in, chunk  *)
(* % NUM_BANKS (write.c:589), and one that begins inside a chunk takes the *)
(* next chunk along, to a bank that is not its own.  Chunks are those that *)
(* come to this bank on either way; map has their places in this bank, and *)
(* Invalid for a chunk that is nowhere or in another bank.  Blocks, logs   *)
(* and collector state are the bank's own.  What the firmware stores of a  *)
(* chunk, the pair (dataLpn, chunkIdx), leads to its entry of the map.     *)
(*                                                                         *)
(* The firmware is one thread.  pc names the function that runs next and   *)
(* frames the activations that wait for it to return: a copy of the        *)
(* collector can fill the cold log, which starts another collection inside *)
(* the first.  In "idle" the bank waits for the next host write.           *)
(*                                                                         *)
(* A collection also advances the other banks of the channel whose clean   *)
(* list is shorter than CleanBlksBackgroundGcThreshold, 1: CleanReserve    *)
(* shows that an idle bank's never is, so no other bank's step is modelled.*)
(***************************************************************************)
EXTENDS Integers, Sequences, FiniteSets

CONSTANTS Chunks,        \* the logical chunks of the bank
          NumBlks,       \* log blocks of the bank (LOG_BLK_PER_BANK)
          P,             \* pages of a block (PAGES_PER_BLK)
          S,             \* chunks of a page (CHUNKS_PER_PAGE)
          R,             \* chunks of an encoded page (CHUNKS_PER_RECYCLED_PAGE)
          HotFirst,      \* the values hotFirstAccumulated may have
          None           \* INVALID: no chunk, page or block

ASSUME GeometryAssumption ==
    /\ NumBlks \in Nat /\ NumBlks >= 5
    /\ P \in Nat /\ P >= 6 /\ P % 2 = 0
    /\ R \in Nat /\ S \in Nat /\ 0 < R /\ R < S
ASSUME ChunksAssumption == IsFiniteSet(Chunks)
\* The threshold grows only below 112 (log.c:411) and the bank has 512 blocks
\* (NUM_LSECTORS, jasmine.h:222): it never reaches all the blocks a bank can have
\* half written.
ASSUME TuningAssumption == HotFirst \subseteq 0..(NumBlks - 4)
ASSUME NoneAssumption == None \notin Chunks \cup Int

Blks == 0..(NumBlks - 1)
Pages == 0..(P - 1)
Slots == 0..(S - 1)
Heaps == {"first", "second", "cold"}

\* Faulty variant: the list of a half-written block is saved on the last page.
ListOnLastPage == P - 1
\* Faulty variant: the last page counts as a data page.
LastPage == P - 1

LastDataPage == P - 2    \* UsedPagesPerLogBlk - 1: the last page has the list of chunks
MaxLowPage == P - 3      \* where the list is saved after the first usage

VARIABLES map,       \* chunk -> its address (CHUNKS_MAP_TABLE)
          hot, cold, \* the control blocks (hotLogCtrl, coldLogCtrl)
          heap,      \* the counts and the members of the three heaps
          clean,     \* cleanListDataWrite
          gc,        \* the state of the collector
          lists,     \* block -> the list saved on its highest low page (low)
                     \* and the one saved on its last page (high)
          precached, \* the page the encoding buffer holds (PrecacheForEncoding)
          programs,  \* ghost: block -> page -> programs since the erasure
          latest,    \* ghost: chunk -> the places with its newest data
          pc, frames

vars == <<map, hot, cold, heap, clean, gc, lists, precached, programs, latest,
          pc, frames>>

----------------------------------------------------------------------------
(* Addresses                                                               *)

Invalid == [at |-> "Invalid"]
FlashWLog(b, p, s) == [at |-> "FlashWLog", blk |-> b, page |-> p, slot |-> s]
Encoded(b, p, s) == [at |-> "FlashWLogEncoded", blk |-> b, page |-> p, slot |-> s]
DRAMHotLog(s) == [at |-> "DRAMHotLog", slot |-> s]
DRAMColdLog(s) == [at |-> "DRAMColdLog", slot |-> s]
PlaceOf(b, p, s, encoded) == IF encoded THEN Encoded(b, p, s) ELSE FlashWLog(b, p, s)
HotBuffer == [s \in Slots |-> DRAMHotLog(s)]
ColdBuffer == [s \in Slots |-> DRAMColdLog(s)]

InFlash(a) == a.at \in {"FlashWLog", "FlashWLogEncoded"}
InBlk(a, b) == InFlash(a) /\ a.blk = b
InPage(a, b, p) == InBlk(a, b) /\ a.page = p

\* An entry of a list of chunks: the chunk, and the flag (bit 31) of an encoded one.
NoEntry == [chunk |-> None, encoded |-> FALSE]
Entry(c) == [chunk |-> c, encoded |-> FALSE]
EncodedEntry(c) == IF c = None THEN NoEntry ELSE [chunk |-> c, encoded |-> TRUE]
EmptyPage == [s \in Slots |-> NoEntry]
EmptyList == [p \in Pages |-> EmptyPage]

----------------------------------------------------------------------------
(* Counts of valid chunks, heaps, clean list                               *)

FirstUsageInit == (P - 2) * S    \* CHUNKS_PER_LOG_BLK_FIRST_USAGE
SecondUsageInit == (P - 1) * S   \* CHUNKS_PER_LOG_BLK_SECOND_USAGE
HighPages == P \div 2 - 1        \* the 63 pages that wait for the second usage
NoVictim == P * S + 1            \* getVictimValidPagesNumber of an empty heap: INVALID

InitialCount(h) == IF h = "first" THEN FirstUsageInit ELSE SecondUsageInit

\* The heaps after n chunks of block b became invalid.
Decremented(b, n) == [h \in Heaps |-> [heap[h] EXCEPT !.value[b] = @ - n]]
\* The heap h after block b was removed with count v.
Removed(h, b, v) == [value |-> [heap[h].value EXCEPT ![b] = v],
                     in |-> heap[h].in \ {b}]

Roots(h) == {b \in heap[h].in : \A d \in heap[h].in : heap[h].value[b] <= heap[h].value[d]}
RootCount(h) == IF heap[h].in = {} THEN NoVictim
                ELSE heap[h].value[CHOOSE b \in Roots(h) : TRUE]

----------------------------------------------------------------------------
(* Control blocks (LogCtrlBlock).  second and recycled stand for the two   *)
(* function pointers: increaseLpn of the second usage, updateChunkPtr of   *)
(* an encoded page.                                                        *)

FreshLog(b) == [blk |-> b, page |-> 0, ptr |-> 0, chunk |-> [s \in Slots |-> None],
                allValid |-> TRUE, list |-> EmptyList, second |-> FALSE,
                recycled |-> FALSE, nextLow |-> None, precacheDone |-> TRUE]

\* initLog, after ValidChunksHeapInit and with every block good.
Init == /\ map = [c \in Chunks |-> Invalid]
        /\ hot = FreshLog(0)
        /\ cold = FreshLog(1)
        /\ heap = [h \in Heaps |-> [value |-> [b \in Blks |-> InitialCount(h)], in |-> {}]]
        /\ clean = [i \in 1..(NumBlks - 2) |-> i + 1]
        /\ gc = [state |-> "idle", victim |-> None, page |-> 0, fromHeap |-> None,
                 inBlk |-> 0, valid |-> {}, encoded |-> FALSE]
        /\ lists = [b \in Blks |-> [low |-> EmptyList, high |-> EmptyList]]
        /\ precached = None
        /\ programs = [b \in Blks |-> [p \in Pages |-> 0]]
        /\ latest = [c \in Chunks |-> {}]
        /\ pc = "idle"
        /\ frames = <<>>

Goto(label) == pc' = label
Hang(reason) == pc' = reason
Hangs == {"precache mismatch", "pop of an empty list", "no candidate",
          "inconsistent lpns", "count mismatch"}

----------------------------------------------------------------------------
(* Places of data (ghost)                                                  *)

\* The newest data of c is now at the place a and nowhere else.
Written(c, a) == [d \in Chunks |-> IF d = c THEN {a} ELSE latest[d] \ {a}]
\* What was at the place a is replaced by a copy of what is at "from".
Copied(c, from, a) ==
    [d \in Chunks |-> IF d = c /\ from \in latest[c] THEN latest[d] \cup {a}
                      ELSE latest[d] \ {a}]
\* The first n slots of a buffer were programmed to page p of block b; buf has
\* the place of each slot.
AfterProgram(buf, n, encoded, b, p) ==
    [c \in Chunks |-> {a \in latest[c] : ~InPage(a, b, p)}
                      \cup {PlaceOf(b, p, s, encoded) :
                               s \in {t \in 0..(n - 1) : buf[t] \in latest[c]}}]

Program(b, p) == programs' = [programs EXCEPT ![b][p] = @ + 1]

----------------------------------------------------------------------------
(* Writes of the host: writeChunkOld                                       *)

Forget(log, s) == [log EXCEPT !.chunk[s] = None, !.allValid = FALSE]
HotWithoutOld(c) == IF map[c].at = "DRAMHotLog" THEN Forget(hot, map[c].slot) ELSE hot
ColdWithoutOld(c) == IF map[c].at = "DRAMColdLog" THEN Forget(cold, map[c].slot) ELSE cold
HeapWithoutOld(c) == IF InFlash(map[c]) THEN Decremented(map[c].blk, 1) ELSE heap
GcWithoutOld(c) == IF InFlash(map[c]) /\ gc.state # "idle" /\ map[c].blk = gc.victim
                   THEN [gc EXCEPT !.fromHeap = @ - 1]
                   ELSE gc

\* The chunk in the next slot of the DRAM buffer; the pointer wraps when the
\* page is full.
Buffered(log, c) == [log EXCEPT !.chunk[log.ptr] = c,
                                !.ptr = (@ + 1) % (IF log.recycled THEN R ELSE S)]

PrecachePending(log) == log.nextLow # None /\ ~log.precacheDone

WriteHot(c) ==
    LET log == Buffered(HotWithoutOld(c), c) IN
    /\ pc = "idle"
    /\ \/ hot' = log /\ UNCHANGED precached
       \/ /\ log.ptr # 0 /\ PrecachePending(log)    \* and the bank is not busy
          /\ hot' = [log EXCEPT !.precacheDone = TRUE]
          /\ precached' = <<log.blk, log.nextLow>>
    /\ cold' = ColdWithoutOld(c)
    /\ map' = [map EXCEPT ![c] = DRAMHotLog(hot.ptr)]
    /\ latest' = Written(c, DRAMHotLog(hot.ptr))
    /\ heap' = HeapWithoutOld(c)
    /\ gc' = GcWithoutOld(c)
    /\ Goto(IF log.ptr = 0 THEN "flushHot" ELSE "idle")
    /\ UNCHANGED <<clean, lists, programs, frames>>

WriteCold(c) ==
    /\ pc = "idle"
    /\ cold' = Buffered(ColdWithoutOld(c), c)
    /\ hot' = HotWithoutOld(c)
    /\ map' = [map EXCEPT ![c] = DRAMColdLog(cold.ptr)]
    /\ latest' = Written(c, DRAMColdLog(cold.ptr))
    /\ heap' = HeapWithoutOld(c)
    /\ gc' = GcWithoutOld(c)
    /\ Goto(IF cold'.ptr = 0 THEN "flushCold" ELSE "idle")
    /\ UNCHANGED <<clean, lists, precached, programs, frames>>

\* A piece that begins inside the chunk before takes this chunk along to that
\* chunk's bank: here its old place is given up.
MoveAway(c) ==
    /\ pc = "idle" /\ map[c] # Invalid
    /\ map' = [map EXCEPT ![c] = Invalid]
    /\ latest' = [latest EXCEPT ![c] = {}]
    /\ hot' = HotWithoutOld(c)
    /\ cold' = ColdWithoutOld(c)
    /\ heap' = HeapWithoutOld(c)
    /\ gc' = GcWithoutOld(c)
    /\ UNCHANGED <<clean, lists, precached, programs, pc, frames>>

----------------------------------------------------------------------------
(* Flushes of a full DRAM buffer                                           *)

\* The first n slots that hold a chunk, the map and the list after the flush.
Held(log, n) == {s \in 0..(n - 1) : log.chunk[s] # None}
\* Faulty variant: the last slot of the buffer keeps its DRAM address.
MapButLast(log, n, encoded) ==
    [c \in Chunks |->
       IF \E s \in Held(log, n - 1) : log.chunk[s] = c
       THEN PlaceOf(log.blk, log.page, CHOOSE s \in Held(log, n) : log.chunk[s] = c, encoded)
       ELSE map[c]]
MapAfterFlush(log, n, encoded) ==
    [c \in Chunks |->
       IF \E s \in Held(log, n) : log.chunk[s] = c
       THEN PlaceOf(log.blk, log.page, CHOOSE s \in Held(log, n) : log.chunk[s] = c, encoded)
       ELSE map[c]]
ListAfterFlush(log) == [log.list EXCEPT ![log.page] = [s \in Slots |-> Entry(log.chunk[s])]]

\* flushLogBuffer and flushLogBufferDuringGC: every slot invalidated while it
\* was in DRAM is a chunk the block will never have.
\* Faulty variant: slots invalidated while in DRAM are counted as valid chunks.
HeapIgnoringHoles(log) == heap
HeapAfterFlush(log) == IF log.allValid THEN heap
                       ELSE Decremented(log.blk, S - Cardinality(Held(log, S)))
Flush(log, buf) ==
    /\ map' = MapAfterFlush(log, S, FALSE)
    /\ latest' = AfterProgram(buf, S, FALSE, log.blk, log.page)
    /\ heap' = HeapAfterFlush(log)
    /\ Program(log.blk, log.page)
Flushed(log) == [log EXCEPT !.list = ListAfterFlush(log), !.allValid = TRUE]

FlushHot == /\ pc = "flushHot" /\ ~hot.recycled
            /\ Flush(hot, HotBuffer)
            /\ hot' = Flushed(hot)
            /\ Goto("advanceHot")
            /\ UNCHANGED <<cold, clean, gc, lists, precached, frames>>

FlushCold == /\ pc = "flushCold"
             /\ Flush(cold, ColdBuffer)
             /\ cold' = Flushed(cold)
             /\ Goto("advanceCold")
             /\ UNCHANGED <<hot, clean, gc, lists, precached, frames>>

\* flushLogBufferRecycledPage: the page was counted as S coming chunks when it
\* was chosen, and gets at most R.
RecycledShortfall(log) == S - (IF log.allValid THEN R ELSE Cardinality(Held(log, R)))
FlushRecycled ==
    /\ pc = "flushHot" /\ hot.recycled
    /\ IF hot.nextLow # hot.page
       THEN /\ Hang("precache mismatch")
            /\ UNCHANGED <<map, hot, heap, lists, precached, programs, latest>>
       ELSE /\ precached' = IF hot.precacheDone THEN precached ELSE <<hot.blk, hot.nextLow>>
            /\ map' = MapAfterFlush(hot, R, TRUE)
            /\ latest' = AfterProgram(HotBuffer, R, TRUE, hot.blk, hot.page)
            /\ heap' = [heap EXCEPT !["second"].value[hot.blk] = @ - RecycledShortfall(hot)]
            /\ Program(hot.blk, hot.page)
            /\ lists' = IF hot.page = MaxLowPage THEN [lists EXCEPT ![hot.blk].low = EmptyList]
                        ELSE lists
            /\ hot' = [hot EXCEPT !.precacheDone = TRUE, !.allValid = TRUE,
                                  !.list[hot.page] =
                                     [s \in Slots |-> IF s < R THEN EncodedEntry(hot.chunk[s])
                                                      ELSE @[s]]]
            /\ Goto("advanceHot")
    /\ UNCHANGED <<cold, clean, gc, frames>>

----------------------------------------------------------------------------
(* The next page of the hot log                                            *)

\* increaseLpnHotBlkFirstUsage: pages 0, 1, 3, 5, ..., P - 5.
AdvanceFirst ==
    /\ pc = "advanceHot" /\ ~hot.second /\ hot.page # P - 5
    /\ hot' = [hot EXCEPT !.page = IF @ = 0 THEN 1 ELSE @ + 2]
    /\ Goto("idle")
    /\ UNCHANGED <<map, cold, heap, clean, gc, lists, precached, programs, latest, frames>>

FillFirst ==
    /\ pc = "advanceHot" /\ ~hot.second /\ hot.page = P - 5
    /\ Program(hot.blk, MaxLowPage)
    /\ lists' = [lists EXCEPT ![hot.blk].low = hot.list]
    /\ hot' = [hot EXCEPT !.list = EmptyList]
    /\ heap' = [heap EXCEPT !["first"].in = @ \cup {hot.blk}]
    /\ Goto("findHot")
    /\ UNCHANGED <<map, cold, clean, gc, precached, latest, frames>>

\* Faulty variant: one invalid chunk is enough.
ReuseIfOneInvalid(log, p) ==
    \E s \in Slots : log.list[p][s].chunk # None =>
                        map[log.list[p][s].chunk] # FlashWLog(log.blk, p, s)
\* canReuseLowPage: no chunk of the first usage of the page is valid.
CanReuseLowPage(log, p) ==
    \A s \in Slots : log.list[p][s].chunk # None =>
                        map[log.list[p][s].chunk] # FlashWLog(log.blk, p, s)
\* Faulty variant: the page read ahead is not noted.
ReusingUnnamed(log, p) == [log EXCEPT !.list[p] = EmptyPage, !.precacheDone = FALSE]
\* The low page p will be encoded: its entries are cleared and it counts as S
\* chunks to come.
Reusing(log, p) == [log EXCEPT !.list[p] = EmptyPage, !.nextLow = p, !.precacheDone = FALSE]
HeapReusing(b) == [heap EXCEPT !["second"].value[b] = @ + S]

\* increaseLpnHotBlkSecondUsage tests the next low page ahead of its turn.
TestLowPage(log, p) ==
    IF p < LastDataPage /\ CanReuseLowPage(log, p)
    THEN hot' = Reusing(log, p) /\ heap' = HeapReusing(log.blk)
    ELSE /\ hot' = [log EXCEPT !.nextLow = None, !.precacheDone = FALSE]
         /\ UNCHANGED heap

InSecondUsage(label) == pc = label /\ hot.second /\ hot.page # LastDataPage
NextPage == hot.page + 1

AdvanceToHigh ==
    /\ InSecondUsage("advanceHot") /\ NextPage % 2 = 0
    /\ TestLowPage([hot EXCEPT !.page = NextPage, !.recycled = FALSE], NextPage + 1)
    /\ Goto("idle")
    /\ UNCHANGED <<map, cold, clean, gc, lists, precached, programs, latest, frames>>

AdvanceToTestedLow ==
    /\ InSecondUsage("advanceHot") /\ NextPage % 2 = 1 /\ hot.nextLow = NextPage
    /\ hot' = [hot EXCEPT !.page = NextPage, !.recycled = TRUE]
    /\ Goto("idle")
    /\ UNCHANGED <<map, cold, heap, clean, gc, lists, precached, programs, latest, frames>>

\* Page 1 follows a low page, so it was not tested ahead.
AdvanceToPage1 ==
    /\ InSecondUsage("advanceHot") /\ NextPage = 1 /\ hot.nextLow # 1
    /\ CanReuseLowPage(hot, 1)
    /\ hot' = Reusing([hot EXCEPT !.page = 1, !.recycled = TRUE], 1)
    /\ heap' = HeapReusing(hot.blk)
    /\ Goto("idle")
    /\ UNCHANGED <<map, cold, clean, gc, lists, precached, programs, latest, frames>>

SkipLow ==
    LET log == [hot EXCEPT !.page = NextPage + 1, !.recycled = FALSE] IN
    /\ InSecondUsage("advanceHot") /\ NextPage % 2 = 1 /\ hot.nextLow # NextPage
    /\ NextPage = 1 => ~CanReuseLowPage(hot, 1)
    /\ IF NextPage + 2 < LastDataPage THEN TestLowPage(log, NextPage + 2)
       ELSE hot' = log /\ UNCHANGED heap
    /\ Goto("idle")
    /\ UNCHANGED <<map, cold, clean, gc, lists, precached, programs, latest, frames>>

FillSecond ==
    /\ pc = "advanceHot" /\ hot.second /\ hot.page = LastDataPage
    /\ Program(hot.blk, P - 1)
    /\ lists' = [lists EXCEPT ![hot.blk].high = hot.list]
    /\ hot' = [hot EXCEPT !.list = EmptyList]
    /\ heap' = [heap EXCEPT !["second"].in = @ \cup {hot.blk}]
    /\ Goto("findHot")
    /\ UNCHANGED <<map, cold, clean, gc, precached, latest, frames>>

----------------------------------------------------------------------------
(* The next block of the hot log: findNewLpnForHotLog                      *)

HotOnCleanBlk(b) == [hot EXCEPT !.blk = b, !.page = 0, !.second = FALSE, !.recycled = FALSE]

\* reuseCondition, hotFirstAccumulated having any of its values: the best
\* half-written block has no valid chunk left, or there are many of them.
ReuseCondition(hotFirst) == \/ RootCount("first") = HighPages * S
                            \/ Cardinality(heap["first"].in) > hotFirst

UseCleanBlk ==
    /\ pc = "findHot" /\ Len(clean) > 2
    /\ hot' = HotOnCleanBlk(Head(clean))
    /\ clean' = Tail(clean)
    /\ Goto("idle")
    /\ UNCHANGED <<map, cold, heap, gc, lists, precached, programs, latest, frames>>

\* The block's second usage starts at page 0 or 1 if it can be encoded, else at
\* page 2.  precacheLowPage reads the page nextLowPageOffset names before it is set.
ReuseBlk(hotFirst) ==
    /\ pc = "findHot" /\ Len(clean) <= 2 /\ ReuseCondition(hotFirst)
    /\ \E b \in Roots("first") :
       LET n == heap["first"].value[b]
           removed == [h \in Heaps |-> Removed(h, b, CASE h = "first" -> FirstUsageInit
                                                       [] h = "second" -> n
                                                       [] h = "cold" -> SecondUsageInit)]
           log == [hot EXCEPT !.blk = b, !.page = 0, !.second = TRUE,
                              !.list = lists[b].low]
           first == {p \in {0, 1} : CanReuseLowPage(log, p)}
           p == IF 0 \in first THEN 0 ELSE 1
       IN IF first # {}
          THEN /\ hot' = [Reusing([log EXCEPT !.page = p, !.recycled = TRUE], p)
                             EXCEPT !.precacheDone = TRUE]
               /\ heap' = [removed EXCEPT !["second"].value[b] = @ + S]
               /\ precached' = <<b, hot.nextLow>>
               /\ Goto("idle")
          ELSE /\ hot' = [log EXCEPT !.page = 1, !.recycled = FALSE,
                                     !.precacheDone = FALSE, !.nextLow = None]
               /\ heap' = removed
               /\ UNCHANGED precached
               /\ Goto("advanceHot")
    /\ UNCHANGED <<map, cold, clean, gc, lists, programs, latest, frames>>

UseLastCleanBlk(hotFirst) ==
    /\ pc = "findHot" /\ Len(clean) <= 2 /\ ~ReuseCondition(hotFirst)
    /\ IF clean = <<>>
       THEN Hang("pop of an empty list") /\ UNCHANGED <<hot, clean>>
       ELSE /\ hot' = HotOnCleanBlk(Head(clean))
            /\ clean' = Tail(clean)
            /\ Goto("while")
    /\ UNCHANGED <<map, cold, heap, gc, lists, precached, programs, latest, frames>>

----------------------------------------------------------------------------
(* The next page of the cold log: increaseLpnColdBlk                       *)

Top == frames[Len(frames)]
PopFrame == frames' = SubSeq(frames, 1, Len(frames) - 1)
PushFrame(f) == frames' = Append(frames, f)

\* Back to the host, or to the copy of the collector that filled the cold log.
Return == CASE frames = <<>>       -> Goto("idle") /\ UNCHANGED frames
            [] frames # <<>> /\ Top.kind = "copy" -> Goto("copy") /\ UNCHANGED frames
            [] OTHER               -> Goto("collect") /\ PopFrame

AdvanceCold ==
    /\ pc = "advanceCold" /\ cold.page # LastDataPage
    /\ cold' = [cold EXCEPT !.page = @ + 1]
    /\ Return
    /\ UNCHANGED <<map, hot, heap, clean, gc, lists, precached, programs, latest>>

FillCold ==
    /\ pc = "advanceCold" /\ cold.page = LastDataPage
    /\ Program(cold.blk, P - 1)
    /\ lists' = [lists EXCEPT ![cold.blk].high = cold.list]
    /\ heap' = [heap EXCEPT !["cold"].in = @ \cup {cold.blk}]
    /\ IF clean = <<>>
       THEN Hang("pop of an empty list") /\ UNCHANGED <<cold, clean>>
       ELSE /\ cold' = [cold EXCEPT !.list = EmptyList, !.blk = Head(clean), !.page = 0]
            /\ clean' = Tail(clean)
            /\ Goto("while")
    /\ UNCHANGED <<map, hot, gc, precached, latest, frames>>

----------------------------------------------------------------------------
(* The collector                                                           *)

\* Faulty variants: the victim stays in its heap; it never gets to the clean list.
ReclaimInHeap(b) ==
    /\ heap' = [h \in Heaps |-> [heap[h] EXCEPT !.value[b] = InitialCount(h)]]
    /\ clean' = Append(clean, b)
    /\ lists' = [lists EXCEPT ![b] = [low |-> EmptyList, high |-> EmptyList]]
    /\ programs' = [programs EXCEPT ![b] = [p \in Pages |-> 0]]
    /\ latest' = [c \in Chunks |-> {a \in latest[c] : ~InBlk(a, b)}]
ReclaimLost(b) ==
    /\ heap' = [h \in Heaps |-> Removed(h, b, InitialCount(h))]
    /\ lists' = [lists EXCEPT ![b] = [low |-> EmptyList, high |-> EmptyList]]
    /\ programs' = [programs EXCEPT ![b] = [p \in Pages |-> 0]]
    /\ latest' = [c \in Chunks |-> {a \in latest[c] : ~InBlk(a, b)}]
    /\ UNCHANGED clean
\* The victim is erased and its counts start again.
Reclaim(b) ==
    /\ heap' = [h \in Heaps |-> Removed(h, b, InitialCount(h))]
    /\ clean' = Append(clean, b)
    /\ lists' = [lists EXCEPT ![b] = [low |-> EmptyList, high |-> EmptyList]]
    /\ programs' = [programs EXCEPT ![b] = [p \in Pages |-> 0]]
    /\ latest' = [c \in Chunks |-> {a \in latest[c] : ~InBlk(a, b)}]

\* Faulty variant: the comparison of the two heaps is turned round.
VictimHeapFuller == IF /\ heap["cold"].in # {}
                       /\ heap["second"].in = {} \/ RootCount("cold") > RootCount("second")
                    THEN "cold" ELSE "second"
\* initGC: the candidate with the fewest valid chunks; one without any is
\* erased at once.  An empty heap answers INVALID, which is above every count.
VictimHeap == IF /\ heap["cold"].in # {}
                 /\ heap["second"].in = {} \/ RootCount("cold") < RootCount("second")
              THEN "cold" ELSE "second"
InitGC ==
    LET h == VictimHeap IN
    IF heap[h].in = {}
    THEN /\ Hang("no candidate")
         /\ UNCHANGED <<heap, clean, gc, lists, programs, latest>>
    ELSE \E b \in Roots(h) :
          LET n == heap[h].value[b]
              started == [gc EXCEPT !.victim = b, !.fromHeap = n, !.inBlk = 0] IN
          /\ Goto("collect")
          /\ IF n > 0
             THEN /\ gc' = [started EXCEPT !.state = "read", !.page = 0, !.encoded = FALSE]
                  /\ UNCHANGED <<heap, clean, lists, programs, latest>>
             ELSE /\ gc' = [started EXCEPT !.state = "idle"]
                  /\ Reclaim(b)

\* while (cleanListSize < 2) garbageCollectLog
\* Faulty variant: one clean block is enough.
OneCleanBlk == 1
CleanBlksAfterGc == 2
CollectAgain ==
    /\ pc = "while" /\ Len(clean) < CleanBlksAfterGc
    /\ IF gc.state = "idle" THEN InitGC
       ELSE Goto("collect") /\ UNCHANGED <<heap, clean, gc, lists, programs, latest>>
    /\ UNCHANGED <<map, hot, cold, precached, frames>>

EnoughClean ==
    /\ pc = "while" /\ Len(clean) >= CleanBlksAfterGc
    /\ Return
    /\ UNCHANGED <<map, hot, cold, heap, clean, gc, lists, precached, programs, latest>>

GcIdle ==
    /\ pc = "collect" /\ gc.state = "idle"
    /\ Goto("while")
    /\ UNCHANGED <<map, hot, cold, heap, clean, gc, lists, precached, programs, latest, frames>>

\* readPage
VictimEntry(p, s) == lists[gc.victim].high[p][s]
IsEncoded(p) == \E s \in 0..(R - 1) : VictimEntry(p, s).encoded
Inconsistent(p) == \E s, t \in 0..(R - 1) : /\ s < t /\ VictimEntry(p, s).encoded
                                            /\ VictimEntry(p, t).chunk # None
                                            /\ ~VictimEntry(p, t).encoded
ValidSlots(p) == {s \in (IF IsEncoded(p) THEN 0..(R - 1) ELSE Slots) :
                    /\ VictimEntry(p, s).chunk # None
                    /\ map[VictimEntry(p, s).chunk] = PlaceOf(gc.victim, p, s, IsEncoded(p))}
ScannedTo(p) == gc.page <= p /\ p <= LastDataPage /\ \A q \in gc.page..(p - 1) : ValidSlots(q) = {}

MeetsInconsistent == \E p \in Pages : ScannedTo(p) /\ Inconsistent(p)
MeetsValid == \E p \in Pages : ScannedTo(p) /\ ValidSlots(p) # {}

ReadPage ==
    /\ pc = "collect" /\ gc.state = "read" /\ (MeetsInconsistent \/ MeetsValid)
    /\ IF MeetsInconsistent
       THEN Hang("inconsistent lpns") /\ UNCHANGED gc
       ELSE /\ \E p \in Pages :
                  /\ ScannedTo(p) /\ ValidSlots(p) # {}
                  /\ gc' = [gc EXCEPT !.state = "write", !.page = p, !.valid = ValidSlots(p),
                                      !.encoded = IsEncoded(p),
                                      !.inBlk = @ + Cardinality(ValidSlots(p))]
            /\ UNCHANGED pc
    /\ UNCHANGED <<map, hot, cold, heap, clean, lists, precached, programs, latest, frames>>

\* The whole victim was read: the firmware stops if the chunks it found are not
\* as many as the heap promised.
EndOfVictim ==
    /\ pc = "collect" /\ gc.state = "read"
    /\ ~MeetsInconsistent /\ ~MeetsValid
    /\ IF gc.inBlk # gc.fromHeap
       THEN Hang("count mismatch") /\ UNCHANGED <<heap, clean, gc, lists, programs, latest>>
       ELSE /\ Reclaim(gc.victim)
            /\ gc' = [gc EXCEPT !.state = "idle", !.page = P - 1, !.encoded = FALSE]
            /\ UNCHANGED pc
    /\ UNCHANGED <<map, hot, cold, precached, frames>>

\* writePage
SlotChunk(s) == VictimEntry(gc.page, s).chunk
Moved == {s \in Slots : map[SlotChunk(s)] # PlaceOf(gc.victim, gc.page, s, gc.encoded)}
FullPageValid == Cardinality(gc.valid) = S

\* A page whose chunks are all valid goes to the cold log in one program.
CopyWholePage ==
    /\ pc = "collect" /\ gc.state = "write" /\ FullPageValid /\ Moved = {}
    /\ Program(cold.blk, cold.page)
    /\ cold' = [cold EXCEPT !.list[cold.page] = [s \in Slots |-> Entry(SlotChunk(s))]]
    /\ map' = [c \in Chunks |->
                 IF \E s \in Slots : SlotChunk(s) = c
                 THEN FlashWLog(cold.blk, cold.page, CHOOSE s \in Slots : SlotChunk(s) = c)
                 ELSE map[c]]
    /\ latest' = AfterProgram([s \in Slots |-> FlashWLog(gc.victim, gc.page, s)], S, FALSE,
                              cold.blk, cold.page)
    /\ gc' = [gc EXCEPT !.state = "read", !.page = @ + 1, !.valid = {}, !.encoded = FALSE]
    /\ Goto("advanceCold")
    /\ PushFrame([kind |-> "tail"])
    /\ UNCHANGED <<hot, heap, clean, lists, precached>>

\* Otherwise its valid chunks go through the DRAM buffer one by one.
CopyByChunk ==
    /\ pc = "collect" /\ gc.state = "write" /\ (FullPageValid => Moved # {})
    /\ gc' = IF FullPageValid
             THEN [gc EXCEPT !.valid = @ \ {CHOOSE s \in Moved : \A t \in Moved : s <= t},
                             !.inBlk = @ - 1]
             ELSE gc
    /\ Goto("copy")
    /\ PushFrame([kind |-> "copy", blk |-> gc.victim, page |-> gc.page, encoded |-> gc.encoded])
    /\ UNCHANGED <<map, hot, cold, heap, clean, lists, precached, programs, latest>>

CopyChunk ==
    /\ pc = "copy" /\ gc.valid # {}
    /\ LET s == CHOOSE t \in gc.valid : \A u \in gc.valid : t <= u
           c == SlotChunk(s)
           from == PlaceOf(Top.blk, Top.page, s, Top.encoded)
           done == [gc EXCEPT !.valid = @ \ {s}]
       IN IF map[c] = from
          THEN /\ gc' = done
               /\ cold' = Buffered(cold, c)
               /\ map' = [map EXCEPT ![c] = DRAMColdLog(cold.ptr)]
               /\ latest' = Copied(c, from, DRAMColdLog(cold.ptr))
               /\ Goto(IF cold'.ptr = 0 THEN "flushCold" ELSE "copy")
          ELSE /\ gc' = [done EXCEPT !.inBlk = @ - 1]
               /\ UNCHANGED <<cold, map, latest, pc>>
    /\ UNCHANGED <<hot, heap, clean, lists, precached, programs, frames>>

EndOfPage ==
    /\ pc = "copy" /\ gc.valid = {}
    /\ gc' = IF gc.state = "write"
             THEN [gc EXCEPT !.state = "read", !.page = @ + 1, !.encoded = FALSE]
             ELSE gc
    /\ Goto("collect")
    /\ PopFrame
    /\ UNCHANGED <<map, hot, cold, heap, clean, lists, precached, programs, latest>>

----------------------------------------------------------------------------

HostWrite == \E c \in Chunks : WriteHot(c) \/ WriteCold(c) \/ MoveAway(c)
HotLog == \/ FlushHot \/ FlushRecycled
          \/ AdvanceFirst \/ FillFirst
          \/ AdvanceToHigh \/ AdvanceToTestedLow \/ AdvanceToPage1 \/ SkipLow \/ FillSecond
          \/ UseCleanBlk
          \/ \E hotFirst \in HotFirst : ReuseBlk(hotFirst) \/ UseLastCleanBlk(hotFirst)
ColdLog == FlushCold \/ AdvanceCold \/ FillCold
Collector == \/ CollectAgain \/ EnoughClean \/ GcIdle
             \/ ReadPage \/ EndOfVictim
             \/ CopyWholePage \/ CopyByChunk \/ CopyChunk \/ EndOfPage
Firmware == HotLog \/ ColdLog \/ Collector
Next == HostWrite \/ Firmware

Spec == Init /\ [][Next]_vars

----------------------------------------------------------------------------
(* Properties                                                              *)

Address == {Invalid} \cup {DRAMHotLog(s) : s \in Slots} \cup {DRAMColdLog(s) : s \in Slots}
           \cup {FlashWLog(b, p, s) : b \in Blks, p \in 0..(P - 2), s \in Slots}
           \cup {Encoded(b, p, s) : b \in Blks, p \in 0..(P - 2), s \in 0..(R - 1)}
Lists == [Pages -> [Slots -> [chunk : Chunks \cup {None}, encoded : BOOLEAN]]]
LogType == [blk : Blks, page : 0..(P - 2), ptr : Slots, chunk : [Slots -> Chunks \cup {None}],
            allValid : BOOLEAN, list : Lists, second : BOOLEAN, recycled : BOOLEAN,
            nextLow : Pages \cup {None}, precacheDone : BOOLEAN]
FrameType == [kind : {"tail"}] \cup [kind : {"copy"}, blk : Blks, page : Pages, encoded : BOOLEAN]

\* Type invariant.  A chunk is never at the last page of a block: the address of
\* the DRAM buffers is that of the last page of the last block (DramLogBufLpn).
TypeOK ==
    /\ map \in [Chunks -> Address]
    /\ hot \in LogType
    /\ cold \in LogType
    /\ \A h \in Heaps : heap[h].in \subseteq Blks /\ heap[h].value \in [Blks -> Int]
    /\ clean \in Seq(Blks)
    /\ gc.state \in {"idle", "read", "write"}
    /\ gc.valid \subseteq Slots
    /\ frames \in Seq(FrameType)
    /\ lists \in [Blks -> [low : Lists, high : Lists]]
    /\ programs \in [Blks -> [Pages -> Nat]]
    /\ pc \in {"idle", "flushHot", "advanceHot", "findHot", "flushCold", "advanceCold",
               "while", "collect", "copy"} \cup Hangs

\* Read your writes: at every moment, in the middle of flushes, of collections
\* and of the encoding of a used page, the address of a chunk leads to the last
\* data the host wrote to it: nothing was overwritten, erased or left behind.
NewestData == \A c \in Chunks : map[c] # Invalid => map[c] \in latest[c]

\* No two chunks share a place.
NoSharedPlace == \A c, d \in Chunks : map[c] = map[d] /\ map[c] # Invalid => c = d

\* The firmware never stops in one of its while(1): the collector finds as many
\* valid chunks as the heap counted, a page to encode is the page tested, and a
\* clean block is there whenever one is popped, with no test before the pop.
NeverHangs == pc \notin Hangs

\* A page that is read ahead for the encoding is a page of a block, as
\* nand_page_ptread asserts (ASSERT(page_num < PAGES_PER_BLK)).
PrecachesAPage == precached # None => precached[2] \in Pages

Live(b) == Cardinality({c \in Chunks : InBlk(map[c], b)})
Collecting(b) == gc.state # "idle" /\ gc.victim = b

\* Pages of the hot log still to be programmed in this usage, and the chunks its
\* low page to encode was counted for.
FirstPagesLeft == IF hot.page = 0 THEN P \div 2 - 1 ELSE (P - 5 - hot.page) \div 2 + 1
HighPagesLeft == Cardinality({p \in hot.page..(P - 2) : p % 2 = 0 /\ p > 0})
LowPageLeft == IF hot.nextLow # None /\ hot.nextLow >= hot.page THEN 1 ELSE 0

\* What a heap counts is what the map knows: the valid chunks of a full block,
\* those and the pages of the second usage for a half-written one, those and the
\* slots still to come for the blocks of the logs.  The four functions that keep
\* the counts (a new write, a flush with holes, a reuse, an erasure) agree.
CountsExact ==
    /\ \A h \in {"second", "cold"} : \A b \in heap[h].in :
          Collecting(b) \/ heap[h].value[b] = Live(b)
    /\ \A b \in heap["first"].in : heap["first"].value[b] = HighPages * S + Live(b)
    /\ pc = "idle" =>
         /\ heap["cold"].value[cold.blk] = (P - 1 - cold.page) * S + Live(cold.blk)
         /\ IF hot.second
            THEN heap["second"].value[hot.blk] =
                    (HighPagesLeft + LowPageLeft) * S + Live(hot.blk)
            ELSE heap["first"].value[hot.blk] =
                    (FirstPagesLeft + HighPages) * S + Live(hot.blk)

\* Between two host writes two clean blocks are in reserve: one for the log
\* that fills next, one for the collector's copies.
CleanReserve == pc = "idle" => Len(clean) >= 2

CleanBlks == {clean[i] : i \in 1..Len(clean)}
\* A block has one role: clean, in one log, or in one heap.  No block is lost
\* and none is handed out while it is in use.
OneRole ==
    /\ \A i, j \in 1..Len(clean) : clean[i] = clean[j] => i = j
    /\ pc \notin {"findHot"} \cup Hangs =>
         \A b \in Blks :
            Cardinality({r \in {"clean", "hot", "coldLog"} \cup Heaps :
                           CASE r = "clean"   -> b \in CleanBlks
                             [] r = "hot"     -> b = hot.blk
                             [] r = "coldLog" -> b = cold.blk
                             [] OTHER         -> b \in heap[r].in}) = 1

\* A page is programmed once between two erasures, and a low page, which the second
\* usage of its block may encode, twice at most; a clean block is erased.
ProgramDiscipline ==
    \A b \in Blks, p \in Pages :
        /\ programs[b][p] <= IF p = 0 \/ (p % 2 = 1 /\ p < P - 1) THEN 2 ELSE 1
        /\ b \in CleanBlks => programs[b][p] = 0

\* The collector calls itself through the cold log it fills, and nothing but the empty
\* places of its victims bounds how deep: each level must leave room for the next.  So
\* for a host of few chunks; an almost full bank goes deeper.
NestingBounded == Len(frames) <= 2
=============================================================================
