-------------------------- MODULE LogBankDataProofs --------------------------
(***************************************************************************)
(* Proofs about the bank, for every geometry, every finite set of chunks   *)
(* and all the tunings: where the newest data of a chunk is, what the      *)
(* heaps count, that the firmware never stops, and how deep the collector  *)
(* nests; then the same with the trims of the host, as far as it holds.    *)
(* The parts of the invariant need one another (a victim is erased when    *)
(* its count is 0, and the count is that of the chunks the map has in it). *)
(***************************************************************************)
EXTENDS LogBankProofs

----------------------------------------------------------------------------
(* The invariant, without the trims of the host and with them: a trim      *)
(* clears a slot of the hot buffer behind the buffer's back, and from then *)
(* on a heap may count more than there is.                                 *)

Counted(trims, x, y) == x >= y /\ (trims = "none" => x = y)

\* The DRAM buffers: the map has a chunk in a slot exactly if the slot is filled
\* and holds it, and a buffer without holes is said to be so only then.
Width == IF hot.recycled THEN R ELSE S
HotFilled == {s \in Slots : IF pc = "flushHot" THEN s < Width ELSE s < hot.ptr}
ColdFilled == {s \in Slots : pc = "flushCold" \/ s < cold.ptr}
HotBuf(trims) ==
    /\ hot.ptr < Width
    /\ pc \in {"flushHot", "advanceHot", "findHot"} => hot.ptr = 0
    /\ \A c \in Chunks, s \in Slots : map[c] = DRAMHotLog(s) <=> s \in HotFilled /\ hot.chunk[s] = c
    /\ trims = "none" /\ hot.allValid => \A s \in HotFilled : hot.chunk[s] # None
ColdBuf ==
    /\ ~cold.recycled
    /\ pc = "flushCold" => cold.ptr = 0
    /\ \A c \in Chunks, s \in Slots : map[c] = DRAMColdLog(s) <=> s \in ColdFilled /\ cold.chunk[s] = c
    /\ cold.allValid => \A s \in ColdFilled : cold.chunk[s] # None

\* In the second usage the pages that are not encoded are the high ones; the low page
\* to encode is at most one page ahead, and the list says it is empty.
HotPos ==
    hot.second /\ pc # "findHot" =>
       /\ pc # "advanceHot" /\ ~hot.recycled => hot.page % 2 = 0 /\ hot.page > 0
       /\ hot.nextLow # None =>
             /\ LowPage(hot.nextLow)
             /\ \/ hot.nextLow <= hot.page
                \/ hot.nextLow = hot.page + 1 /\ hot.page % 2 = 0 /\ hot.page > 0
             /\ hot.nextLow > hot.page \/ (hot.nextLow = hot.page /\ pc # "advanceHot") =>
                   hot.list[hot.nextLow] = EmptyPage

\* The place a of chunk c, when it is in flash: on a page that was programmed in this
\* usage or is left from the first, and named by the list that goes with the block.
NamedBy(list, c, a) == list[a.page][a.slot] = [chunk |-> c, encoded |-> a.at = "FlashWLogEncoded"]
FirstUsage(a) == a.at = "FlashWLog" /\ LowPage(a.page)
StoredAt(c, a) ==
    InFlash(a) =>
       /\ a.blk \notin CleanBlks
       /\ a.blk \in heap["first"].in => FirstUsage(a) /\ NamedBy(lists[a.blk].low, c, a)
       /\ a.blk \in heap["second"].in \cup heap["cold"].in => NamedBy(lists[a.blk].high, c, a)
       /\ a.blk = cold.blk => ColdDone(a.page) /\ NamedBy(cold.list, c, a)
       /\ a.blk = hot.blk /\ pc # "findHot" =>
             /\ IF hot.second THEN HotDone(a.page) \/ FirstUsage(a)
                ELSE HotDone(a.page) /\ FirstUsage(a)
             /\ NamedBy(hot.list, c, a)
Stored == \A c \in Chunks : StoredAt(c, map[c])

\* The entries of a page are all of one kind.
UniformPage(page) == \/ \A s \in Slots : ~page[s].encoded
                     \/ \A s \in Slots : page[s].chunk = None \/ (s < R /\ page[s].encoded)
UniformList(list) == \A p \in Pages : UniformPage(list[p])
Uniform == /\ UniformList(hot.list) /\ UniformList(cold.list)
           /\ \A b \in Blks : UniformList(lists[b].low) /\ UniformList(lists[b].high)

\* The collector: the copy on top is of the page it is at, and what the map still
\* has in the victim is on that page among the slots left, or on a later page.
TopMatches ==
    /\ pc \in {"copy", "flushCold", "advanceCold", "while"}
    /\ frames # <<>> /\ Top.kind = "copy" /\ gc.valid # {}
    => Top.blk = gc.victim /\ Top.page = gc.page /\ Top.encoded = gc.encoded
PageRead == gc.state = "write" => /\ gc.encoded = IsEncoded(gc.page)
                                  /\ \A s \in gc.valid : SlotChunk(s) \in Chunks
AheadAt(a) == gc.state # "idle" /\ InBlk(a, gc.victim) =>
                 /\ a.page >= gc.page
                 /\ gc.state = "write" /\ a.page = gc.page => a.slot \in gc.valid
Ahead == \A c \in Chunks : AheadAt(map[c])

\* The counts of the blocks in heaps, and of those that are clean or in a log.
HeapCounts(trims) ==
    /\ \A h \in {"second", "cold"} : \A b \in heap[h].in :
          Collecting(b) \/ Counted(trims, heap[h].value[b], Live(b))
    /\ \A b \in heap["first"].in : Counted(trims, heap["first"].value[b], HighPages * S + Live(b))
Half == P \div 2
HotNext == IF pc = "advanceHot" THEN hot.page + 1 ELSE hot.page
HighLeft == Half - (IF HotNext <= 2 THEN 1 ELSE (HotNext + 1) \div 2)
LowLeft == IF hot.nextLow # None /\ hot.nextLow >= HotNext THEN 1 ELSE 0
FirstLeft == (IF hot.page = 0 THEN Half - 1 ELSE (P - 5 - hot.page) \div 2 + 1)
             - (IF pc = "advanceHot" THEN 1 ELSE 0)
ColdLeft == P - 1 - cold.page - (IF pc = "advanceCold" THEN 1 ELSE 0)
LogCounts(trims) ==
    /\ \A b \in CleanBlks, h \in Heaps : heap[h].value[b] = InitialCount(h)
    /\ heap["cold"].value[cold.blk] = ColdLeft * S + Live(cold.blk)
    /\ pc # "findHot" =>
          IF hot.second
          THEN Counted(trims, heap["second"].value[hot.blk], (HighLeft + LowLeft) * S + Live(hot.blk))
          ELSE Counted(trims, heap["first"].value[hot.blk], (FirstLeft + HighPages) * S + Live(hot.blk))

\* What holds while the firmware runs, and what holds even after it stopped.
Inner(trims) == /\ HotBuf(trims) /\ ColdBuf /\ HotPos /\ Stored /\ TopMatches /\ PageRead /\ Ahead
                /\ LogCounts(trims)
DataInv(trims) == /\ NewestData /\ NoSharedPlace /\ Uniform /\ HeapCounts(trims)
                  /\ pc \notin Hangs => Inner(trims)

----------------------------------------------------------------------------
(* Addresses.                                                              *)

LEMMA DramLemma ==
    ASSUME NEW s, NEW t
    PROVE  /\ DRAMHotLog(s) = DRAMHotLog(t) => s = t
           /\ DRAMColdLog(s) = DRAMColdLog(t) => s = t
           /\ DRAMHotLog(s) # DRAMColdLog(t)
           /\ DRAMHotLog(s) # Invalid /\ DRAMColdLog(s) # Invalid
           /\ ~InFlash(DRAMHotLog(s)) /\ ~InFlash(DRAMColdLog(s)) /\ ~InFlash(Invalid)
           /\ DRAMHotLog(s).at = "DRAMHotLog" /\ DRAMHotLog(s).slot = s
           /\ DRAMColdLog(s).at = "DRAMColdLog" /\ DRAMColdLog(s).slot = s
<1>1. DRAMHotLog(s) = DRAMHotLog(t) => s = t
  <2>1. DRAMHotLog(s).slot = s /\ DRAMHotLog(t).slot = t
    BY DEF DRAMHotLog
  <2>2. QED
    BY <2>1
<1>2. DRAMColdLog(s) = DRAMColdLog(t) => s = t
  <2>1. DRAMColdLog(s).slot = s /\ DRAMColdLog(t).slot = t
    BY DEF DRAMColdLog
  <2>2. QED
    BY <2>1
<1>3. /\ DRAMHotLog(s).at = "DRAMHotLog" /\ DRAMColdLog(s).at = "DRAMColdLog"
      /\ DRAMColdLog(t).at = "DRAMColdLog" /\ Invalid.at = "Invalid"
      /\ DRAMHotLog(s).slot = s /\ DRAMColdLog(s).slot = s
  BY DEF DRAMHotLog, DRAMColdLog, Invalid
<1>4. DRAMHotLog(s) # DRAMColdLog(t) /\ DRAMHotLog(s) # Invalid /\ DRAMColdLog(s) # Invalid
  BY <1>3
<1>5. QED
  BY <1>1, <1>2, <1>3, <1>4 DEF InFlash

LEMMA PlaceLemma ==
    ASSUME NEW b, NEW p, NEW s, NEW e \in BOOLEAN
    PROVE  /\ InFlash(PlaceOf(b, p, s, e))
           /\ PlaceOf(b, p, s, e).blk = b /\ PlaceOf(b, p, s, e).page = p /\ PlaceOf(b, p, s, e).slot = s
           /\ PlaceOf(b, p, s, e).at = IF e THEN "FlashWLogEncoded" ELSE "FlashWLog"
           /\ PlaceOf(b, p, s, e) # Invalid
           /\ \A t : PlaceOf(b, p, s, e) # DRAMHotLog(t) /\ PlaceOf(b, p, s, e) # DRAMColdLog(t)
           /\ InBlk(PlaceOf(b, p, s, e), b) /\ InPage(PlaceOf(b, p, s, e), b, p)
<1>1. /\ InFlash(PlaceOf(b, p, s, e))
      /\ PlaceOf(b, p, s, e).blk = b /\ PlaceOf(b, p, s, e).page = p /\ PlaceOf(b, p, s, e).slot = s
      /\ PlaceOf(b, p, s, e).at = IF e THEN "FlashWLogEncoded" ELSE "FlashWLog"
  BY DEF PlaceOf, FlashWLog, Encoded, InFlash
<1>2. QED
  BY <1>1, DramLemma DEF InBlk, InPage

\* Two places in flash with the same parts are the same.
LEMMA SamePlace ==
    ASSUME NEW a \in Address, NEW d \in Address, InFlash(a), InFlash(d),
           a.blk = d.blk, a.page = d.page, a.slot = d.slot, a.at = d.at
    PROVE  a = d
BY PartsLemma

LEMMA MapTypes ==
    ASSUME TypeInv, NEW c \in Chunks
    PROVE  map[c] \in Address
BY DEF TypeInv, MapOK

----------------------------------------------------------------------------
(* The buffers.                                                            *)

LEMMA WithoutOldHot ==
    ASSUME NEW trims, TypeInv, HotBuf(trims), NEW c \in Chunks
    PROVE  /\ \A s \in HotFilled, d \in Chunks :
                 HotWithoutOld(c).chunk[s] = d <=> hot.chunk[s] = d /\ d # c
           /\ HotWithoutOld(c).allValid => hot.allValid /\ HotWithoutOld(c).chunk = hot.chunk
<1>1. hot \in LogType /\ hot.chunk \in [Slots -> Chunks \cup {None}] /\ map[c] \in Address
  BY LogFields, MapTypes DEF TypeInv, HotOK
<1>2. CASE map[c].at = "DRAMHotLog"
  <2>1. PICK t \in Slots : t = map[c].slot /\ map[c] = DRAMHotLog(t)
    BY <1>1, <1>2, PartsLemma
  <2>2. HotWithoutOld(c) = Forget(hot, t)
    BY <1>2, <2>1 DEF HotWithoutOld
  <2>3. Forget(hot, t).chunk = [hot.chunk EXCEPT ![t] = None] /\ Forget(hot, t).allValid = FALSE
    BY <1>1, ForgetType
  <2>4. hot.chunk[t] = c /\ t \in HotFilled
    BY <2>1 DEF HotBuf
  <2>5. ASSUME NEW s \in HotFilled, NEW d \in Chunks
        PROVE  Forget(hot, t).chunk[s] = d <=> hot.chunk[s] = d /\ d # c
    <3>1. s \in Slots
      BY DEF HotFilled
    <3>2. s # t => hot.chunk[s] # c
      <4>1. hot.chunk[s] = c => map[c] = DRAMHotLog(s)
        BY <3>1 DEF HotBuf
      <4>2. QED
        BY <4>1, <2>1, DramLemma
    <3>3. QED
      BY <1>1, <2>3, <2>4, <3>1, <3>2, SizeLemma
  <2>6. QED
    BY <2>2, <2>3, <2>5
<1>3. CASE map[c].at # "DRAMHotLog"
  <2>1. HotWithoutOld(c) = hot
    BY <1>3 DEF HotWithoutOld
  <2>2. \A s \in HotFilled : hot.chunk[s] # c
    <3>1. SUFFICES ASSUME NEW s \in HotFilled, hot.chunk[s] = c PROVE FALSE
      OBVIOUS
    <3>2. map[c] = DRAMHotLog(s)
      BY <3>1 DEF HotBuf, HotFilled
    <3>3. QED
      BY <1>3, <3>2, DramLemma
  <2>3. QED
    BY <2>1, <2>2
<1>4. QED
  BY <1>2, <1>3

LEMMA WithoutOldCold ==
    ASSUME TypeInv, ColdBuf, NEW c \in Chunks
    PROVE  /\ \A s \in ColdFilled, d \in Chunks :
                 ColdWithoutOld(c).chunk[s] = d <=> cold.chunk[s] = d /\ d # c
           /\ ColdWithoutOld(c).allValid => cold.allValid /\ ColdWithoutOld(c).chunk = cold.chunk
<1>1. cold \in LogType /\ cold.chunk \in [Slots -> Chunks \cup {None}] /\ map[c] \in Address
  BY LogFields, MapTypes DEF TypeInv, ColdOK
<1>2. CASE map[c].at = "DRAMColdLog"
  <2>1. PICK t \in Slots : t = map[c].slot /\ map[c] = DRAMColdLog(t)
    BY <1>1, <1>2, PartsLemma
  <2>2. ColdWithoutOld(c) = Forget(cold, t)
    BY <1>2, <2>1 DEF ColdWithoutOld
  <2>3. Forget(cold, t).chunk = [cold.chunk EXCEPT ![t] = None] /\ Forget(cold, t).allValid = FALSE
    BY <1>1, ForgetType
  <2>4. cold.chunk[t] = c /\ t \in ColdFilled
    BY <2>1 DEF ColdBuf
  <2>5. ASSUME NEW s \in ColdFilled, NEW d \in Chunks
        PROVE  Forget(cold, t).chunk[s] = d <=> cold.chunk[s] = d /\ d # c
    <3>1. s \in Slots
      BY DEF ColdFilled
    <3>2. s # t => cold.chunk[s] # c
      <4>1. cold.chunk[s] = c => map[c] = DRAMColdLog(s)
        BY <3>1 DEF ColdBuf
      <4>2. QED
        BY <4>1, <2>1, DramLemma
    <3>3. QED
      BY <1>1, <2>3, <2>4, <3>1, <3>2, SizeLemma
  <2>6. QED
    BY <2>2, <2>3, <2>5
<1>3. CASE map[c].at # "DRAMColdLog"
  <2>1. ColdWithoutOld(c) = cold
    BY <1>3 DEF ColdWithoutOld
  <2>2. \A s \in ColdFilled : cold.chunk[s] # c
    <3>1. SUFFICES ASSUME NEW s \in ColdFilled, cold.chunk[s] = c PROVE FALSE
      OBVIOUS
    <3>2. map[c] = DRAMColdLog(s)
      BY <3>1 DEF ColdBuf, ColdFilled
    <3>3. QED
      BY <1>3, <3>2, DramLemma
  <2>3. QED
    BY <2>1, <2>2
<1>4. QED
  BY <1>2, <1>3

\* What a write of the host changes.
LEMMA WriteHotEffect ==
    ASSUME TypeInv, NEW c \in Chunks, WriteHot(c)
    PROVE  /\ pc = "idle" /\ pc' = IF hot'.ptr = 0 THEN "flushHot" ELSE "idle"
           /\ cold' = ColdWithoutOld(c) /\ gc' = GcWithoutOld(c) /\ heap' = HeapWithoutOld(c)
           /\ map' = [map EXCEPT ![c] = DRAMHotLog(hot.ptr)]
           /\ latest' = Written(c, DRAMHotLog(hot.ptr))
           /\ UNCHANGED <<clean, lists, programs, frames>>
           /\ hot'.chunk = [HotWithoutOld(c).chunk EXCEPT ![hot.ptr] = c]
           /\ hot'.ptr = (hot.ptr + 1) % (IF hot.recycled THEN R ELSE S)
           /\ hot'.allValid = HotWithoutOld(c).allValid
           /\ hot'.page = hot.page /\ hot'.second = hot.second /\ hot'.recycled = hot.recycled
           /\ hot'.blk = hot.blk /\ hot'.list = hot.list /\ hot'.nextLow = hot.nextLow
<1>. DEFINE log == Buffered(HotWithoutOld(c), c)
<1>1. /\ log \in LogType
      /\ log.chunk = [HotWithoutOld(c).chunk EXCEPT ![hot.ptr] = c]
      /\ log.ptr = (hot.ptr + 1) % (IF hot.recycled THEN R ELSE S)
      /\ log.allValid = HotWithoutOld(c).allValid
      /\ log.page = hot.page /\ log.second = hot.second /\ log.recycled = hot.recycled
      /\ log.blk = hot.blk /\ log.list = hot.list /\ log.nextLow = hot.nextLow
  BY WithoutOldType, BufferedType
<1>2. /\ hot' = log \/ hot' = [log EXCEPT !.precacheDone = TRUE]
      /\ pc' = IF log.ptr = 0 THEN "flushHot" ELSE "idle"
  BY DEF WriteHot, Goto
<1>3. /\ pc = "idle"
      /\ cold' = ColdWithoutOld(c) /\ gc' = GcWithoutOld(c) /\ heap' = HeapWithoutOld(c)
      /\ map' = [map EXCEPT ![c] = DRAMHotLog(hot.ptr)]
      /\ latest' = Written(c, DRAMHotLog(hot.ptr))
      /\ UNCHANGED <<clean, lists, programs, frames>>
  BY DEF WriteHot
<1>. HIDE DEF log
<1>4. /\ hot'.chunk = log.chunk /\ hot'.ptr = log.ptr /\ hot'.allValid = log.allValid
      /\ hot'.page = log.page /\ hot'.second = log.second /\ hot'.recycled = log.recycled
      /\ hot'.blk = log.blk /\ hot'.list = log.list /\ hot'.nextLow = log.nextLow
  BY <1>1, <1>2 DEF LogType
<1>5. QED
  BY <1>1, <1>2, <1>3, <1>4

LEMMA WriteColdEffect ==
    ASSUME TypeInv, ~cold.recycled, NEW c \in Chunks, WriteCold(c)
    PROVE  /\ pc = "idle" /\ pc' = IF cold'.ptr = 0 THEN "flushCold" ELSE "idle"
           /\ hot' = HotWithoutOld(c) /\ gc' = GcWithoutOld(c) /\ heap' = HeapWithoutOld(c)
           /\ map' = [map EXCEPT ![c] = DRAMColdLog(cold.ptr)]
           /\ latest' = Written(c, DRAMColdLog(cold.ptr))
           /\ UNCHANGED <<clean, lists, programs, frames>>
           /\ cold'.chunk = [ColdWithoutOld(c).chunk EXCEPT ![cold.ptr] = c]
           /\ cold'.ptr = (cold.ptr + 1) % S
           /\ cold'.allValid = ColdWithoutOld(c).allValid
           /\ cold'.page = cold.page /\ ~cold'.recycled
           /\ cold'.blk = cold.blk /\ cold'.list = cold.list
<1>. DEFINE log == Buffered(ColdWithoutOld(c), c)
<1>1. /\ log \in LogType
      /\ log.chunk = [ColdWithoutOld(c).chunk EXCEPT ![cold.ptr] = c]
      /\ log.ptr = (cold.ptr + 1) % S
      /\ log.allValid = ColdWithoutOld(c).allValid
      /\ log.page = cold.page /\ ~log.recycled
      /\ log.blk = cold.blk /\ log.list = cold.list
  BY WithoutOldType, BufferedType
<1>2. cold' = log /\ pc' = IF log.ptr = 0 THEN "flushCold" ELSE "idle"
  BY DEF WriteCold, Goto
<1>3. /\ pc = "idle"
      /\ hot' = HotWithoutOld(c) /\ gc' = GcWithoutOld(c) /\ heap' = HeapWithoutOld(c)
      /\ map' = [map EXCEPT ![c] = DRAMColdLog(cold.ptr)]
      /\ latest' = Written(c, DRAMColdLog(cold.ptr))
      /\ UNCHANGED <<clean, lists, programs, frames>>
  BY DEF WriteCold
<1>. HIDE DEF log
<1>4. QED
  BY <1>1, <1>2, <1>3

----------------------------------------------------------------------------
(* What a step that leaves a part alone keeps.                             *)

LEMMA NewestKept ==
    ASSUME NewestData, NoSharedPlace, map' = map, latest' = latest
    PROVE  NewestData' /\ NoSharedPlace'
BY DEF NewestData, NoSharedPlace

LEMMA UniformKept ==
    ASSUME Uniform, hot'.list = hot.list, cold'.list = cold.list, lists' = lists
    PROVE  Uniform'
BY DEF Uniform, UniformList

\* The hot buffer is empty while the log looks for its next page or block.
LEMMA HotEmpty ==
    ASSUME NEW trims, TypeInv, HotBuf(trims), pc \in {"advanceHot", "findHot"}
    PROVE  hot.ptr = 0 /\ \A c \in Chunks : map[c].at # "DRAMHotLog"
<1>1. hot.ptr = 0
  BY DEF HotBuf
<1>2. ASSUME NEW c \in Chunks, map[c].at = "DRAMHotLog" PROVE FALSE
  <2>1. map[c].slot \in Slots /\ map[c] = DRAMHotLog(map[c].slot)
    BY <1>2, MapTypes, PartsLemma
  <2>2. map[c].slot \in HotFilled
    BY <2>1 DEF HotBuf
  <2>3. map[c].slot < 0
    BY <1>1, <2>2 DEF HotFilled
  <2>4. QED
    BY <2>1, <2>3 DEF Slots
<1>3. QED
  BY <1>1, <1>2

LEMMA HotBufEmpty ==
    ASSUME NEW trims, hot'.ptr = 0, pc' # "flushHot", \A c \in Chunks : map'[c].at # "DRAMHotLog"
    PROVE  HotBuf(trims)'
<1>1. HotFilled' = {}
  <2>1. ASSUME NEW s \in HotFilled' PROVE FALSE
    BY <2>1, SizeLemma DEF HotFilled, Slots
  <2>2. QED
    BY <2>1
<1>2. \A c \in Chunks, s \in Slots : map'[c] # DRAMHotLog(s)
  BY DramLemma
<1>3. hot'.ptr < Width'
  BY SizeLemma DEF Width
<1>4. QED
  BY <1>1, <1>2, <1>3 DEF HotBuf

LEMMA HotBufKept ==
    ASSUME NEW trims,
           HotBuf(trims), pc # "flushHot", pc' # "flushHot", pc' \in {"advanceHot", "findHot"} => hot.ptr = 0,
           hot'.ptr = hot.ptr, hot'.chunk = hot.chunk, hot'.allValid = hot.allValid,
           hot'.recycled = hot.recycled,
           \A c \in Chunks : map'[c] = map[c] \/ (map[c].at # "DRAMHotLog" /\ map'[c].at # "DRAMHotLog")
    PROVE  HotBuf(trims)'
<1>1. HotFilled' = HotFilled /\ Width' = Width
  BY DEF HotFilled, Width
<1>2. \A c \in Chunks, s \in Slots : map'[c] = DRAMHotLog(s) <=> map[c] = DRAMHotLog(s)
  BY DramLemma
<1>3. QED
  BY <1>1, <1>2 DEF HotBuf

LEMMA ColdBufKept ==
    ASSUME ColdBuf, pc # "flushCold", pc' # "flushCold",
           cold'.ptr = cold.ptr, cold'.chunk = cold.chunk, cold'.allValid = cold.allValid,
           cold'.recycled = cold.recycled,
           \A c \in Chunks : map'[c] = map[c] \/ (map[c].at # "DRAMColdLog" /\ map'[c].at # "DRAMColdLog")
    PROVE  ColdBuf'
<1>1. ColdFilled' = ColdFilled
  BY DEF ColdFilled
<1>2. \A c \in Chunks, s \in Slots : map'[c] = DRAMColdLog(s) <=> map[c] = DRAMColdLog(s)
  BY DramLemma
<1>3. QED
  BY <1>1, <1>2 DEF ColdBuf

\* The hot log does not move.
LEMMA HotPosKept ==
    ASSUME HotPos, hot'.second = hot.second, hot'.page = hot.page, hot'.recycled = hot.recycled,
           hot'.nextLow = hot.nextLow, hot'.list = hot.list, pc # "findHot", pc' # "findHot",
           pc' = "advanceHot" <=> pc = "advanceHot"
    PROVE  HotPos'
BY DEF HotPos

\* A chunk stays where it is, and the list that names it keeps the page.
LEMMA StoredKept ==
    ASSUME KeepsRoles, NEW c, NEW a, StoredAt(c, a),
           InFlash(a) =>
              /\ a.blk = hot.blk => /\ hot'.list[a.page] = hot.list[a.page] /\ hot'.second = hot.second
                                    /\ HotDone(a.page) => HotDone(a.page)'
              /\ a.blk = cold.blk => /\ cold'.list[a.page] = cold.list[a.page]
                                     /\ ColdDone(a.page) => ColdDone(a.page)'
              /\ a.blk \in heap["first"].in => lists'[a.blk].low = lists[a.blk].low
              /\ a.blk \in heap["second"].in \cup heap["cold"].in => lists'[a.blk].high = lists[a.blk].high
    PROVE  StoredAt(c, a)'
<1>1. /\ CleanBlks' = CleanBlks /\ heap'["first"].in = heap["first"].in
      /\ heap'["second"].in = heap["second"].in /\ heap'["cold"].in = heap["cold"].in
      /\ hot'.blk = hot.blk /\ cold'.blk = cold.blk /\ pc # "findHot" /\ pc' # "findHot"
  BY DEF KeepsRoles, CleanBlks, Heaps
<1>2. CASE InFlash(a)
  BY <1>1, <1>2 DEF StoredAt, NamedBy, InFlash, FirstUsage
<1>3. CASE ~InFlash(a)
  BY <1>3 DEF StoredAt, InFlash
<1>4. QED
  BY <1>2, <1>3

\* The same for every chunk that does not leave flash.
LEMMA AllStoredKept ==
    ASSUME TypeInv, KeepsRoles, Stored, hot'.list = hot.list, hot'.second = hot.second,
           cold'.list = cold.list, lists' = lists,
           \A p \in Pages : (HotDone(p) => HotDone(p)') /\ (ColdDone(p) => ColdDone(p)'),
           \A c \in Chunks : map'[c] = map[c] \/ ~InFlash(map'[c])
    PROVE  Stored'
<1>1. SUFFICES ASSUME NEW c \in Chunks PROVE StoredAt(c, map[c])'
  BY DEF Stored
<1>2. PICK a : a = map'[c]
  OBVIOUS
<1>3. CASE InFlash(a)
  <2>1. StoredAt(c, a)
    BY <1>2, <1>3 DEF Stored
  <2>2. a \in Address
    BY <1>2, <1>3, MapTypes
  <2>3. a.page \in Pages
    BY <1>3, <2>2, PartsLemma, SizeLemma
  <2>4. StoredAt(c, a)'
    BY <2>1, <2>3, StoredKept
  <2>5. QED
    BY <1>2, <2>4 DEF StoredAt, FirstUsage, NamedBy
<1>4. CASE ~InFlash(a)
  BY <1>2, <1>4 DEF StoredAt
<1>5. QED
  BY <1>3, <1>4

\* What the copy on top, the page at hand and the chunks ahead depend on.
LEMMA TopKept ==
    ASSUME TopMatches, frames' = frames, pc \in {"copy", "flushCold", "advanceCold", "while"},
           gc'.valid # {} => /\ gc.valid # {} /\ gc'.victim = gc.victim /\ gc'.page = gc.page
                             /\ gc'.encoded = gc.encoded
    PROVE  TopMatches'
BY DEF TopMatches, Top

LEMMA PageReadKept ==
    ASSUME PageRead, gc'.state = "write" =>
              /\ gc.state = "write" /\ gc'.victim = gc.victim /\ gc'.page = gc.page
              /\ gc'.encoded = gc.encoded /\ gc'.valid \subseteq gc.valid
              /\ lists'[gc.victim].high = lists[gc.victim].high
    PROVE  PageRead'
BY DEF PageRead, IsEncoded, SlotChunk, VictimEntry

LEMMA AheadKept ==
    ASSUME Ahead,
           gc'.state # "idle" => /\ gc'.state = gc.state /\ gc'.victim = gc.victim
                                 /\ gc'.page = gc.page /\ gc'.valid = gc.valid,
           \A c \in Chunks : map'[c] = map[c] \/ gc'.state = "idle" \/ ~InBlk(map'[c], gc.victim)
    PROVE  Ahead'
<1>1. SUFFICES ASSUME NEW c \in Chunks, gc'.state # "idle", InBlk(map'[c], gc'.victim)
               PROVE  /\ map'[c].page >= gc'.page
                      /\ gc'.state = "write" /\ map'[c].page = gc'.page => map'[c].slot \in gc'.valid
  BY DEF Ahead, AheadAt, InBlk, InFlash
<1>2. map'[c] = map[c]
  BY <1>1
<1>3. QED
  BY <1>1, <1>2 DEF Ahead, AheadAt

----------------------------------------------------------------------------
(* The steps: first where the data is.                                     *)

\* The invariant without the counts, and all that a step starts from.
Places(trims) == /\ NewestData /\ NoSharedPlace /\ Uniform
                 /\ HotBuf(trims) /\ ColdBuf /\ HotPos /\ Stored /\ TopMatches /\ PageRead /\ Ahead
Running(trims) == /\ TypeInv /\ RoleInv /\ Partition /\ Reserve
                  /\ Places(trims) /\ HeapCounts(trims) /\ LogCounts(trims)

\* A chunk that is in the victim is named by the victim's list, and a look at its
\* page finds it.
LEMMA OnPage ==
    ASSUME TypeInv, RoleInv, Stored, Uniform, gc.state # "idle",
           NEW c \in Chunks, InBlk(map[c], gc.victim)
    PROVE  /\ map[c].page \in 0..(P - 2) /\ map[c].slot \in Slots
           /\ VictimEntry(map[c].page, map[c].slot).chunk = c
           /\ map[c] = PlaceOf(gc.victim, map[c].page, map[c].slot, IsEncoded(map[c].page))
           /\ map[c].slot \in ValidSlots(map[c].page)
<1>. DEFINE a == map[c]
            page == lists[gc.victim].high[a.page]
<1>1. /\ a \in Address /\ InFlash(a) /\ a.blk = gc.victim
      /\ gc.victim \in heap["second"].in \cup heap["cold"].in /\ gc.victim \in Blks
  BY MapTypes DEF InBlk, RoleInv, TypeInv, GcOK
<1>2. /\ a.page \in 0..(P - 2) /\ a.page \in Pages /\ a.slot \in Slots
      /\ a = PlaceOf(gc.victim, a.page, a.slot, a.at = "FlashWLogEncoded")
      /\ a.at = "FlashWLogEncoded" => a.slot \in 0..(R - 1)
  BY <1>1, PartsLemma, SizeLemma
<1>3. page[a.slot] = [chunk |-> c, encoded |-> a.at = "FlashWLogEncoded"]
  <2>1. StoredAt(c, a)
    BY DEF Stored
  <2>2. QED
    BY <1>1, <2>1 DEF StoredAt, NamedBy
<1>4. UniformPage(page)
  BY <1>1, <1>2 DEF Uniform, UniformList
<1>5. IsEncoded(a.page) <=> \E s \in 0..(R - 1) : page[s].encoded
  BY DEF IsEncoded, VictimEntry
<1>6. page[a.slot].chunk = c /\ (page[a.slot].encoded <=> a.at = "FlashWLogEncoded") /\ c # None
  <2>1. page[a.slot].chunk = c /\ page[a.slot].encoded = (a.at = "FlashWLogEncoded")
    BY <1>3
  <2>. HIDE DEF page, a
  <2>2. QED
    BY <2>1, SizeLemma
<1>. HIDE DEF page, a
<1>7. IsEncoded(a.page) <=> a.at = "FlashWLogEncoded"
  <2>1. CASE \A s \in Slots : ~page[s].encoded
    BY <1>2, <1>5, <1>6, <2>1, SizeLemma
  <2>2. CASE \A s \in Slots : page[s].chunk = None \/ (s < R /\ page[s].encoded)
    <3>1. a.slot < R /\ page[a.slot].encoded
      BY <1>2, <1>6, <2>2
    <3>2. a.slot \in 0..(R - 1)
      BY <1>2, <3>1, SizeLemma DEF Slots
    <3>3. QED
      BY <1>5, <1>6, <3>1, <3>2
  <2>3. QED
    BY <1>4, <2>1, <2>2 DEF UniformPage
<1>8. a = PlaceOf(gc.victim, a.page, a.slot, IsEncoded(a.page))
  <2>1. IsEncoded(a.page) = (a.at = "FlashWLogEncoded")
    BY <1>7 DEF IsEncoded
  <2>2. QED
    BY <1>2, <2>1
<1>9. VictimEntry(a.page, a.slot).chunk = c
  BY <1>6 DEF page, VictimEntry
<1>10. a.slot \in ValidSlots(a.page)
  <2>1. a.slot \in (IF IsEncoded(a.page) THEN 0..(R - 1) ELSE Slots)
    BY <1>2, <1>7
  <2>2. map[VictimEntry(a.page, a.slot).chunk] = PlaceOf(gc.victim, a.page, a.slot, IsEncoded(a.page))
    BY <1>8, <1>9 DEF a
  <2>3. QED
    BY <1>2, <1>6, <1>9, <2>1, <2>2 DEF ValidSlots
<1>11. QED
  BY <1>2, <1>8, <1>9, <1>10 DEF a

\* What the collector reads and how it moves on.
LEMMA ReadPageAhead ==
    ASSUME NEW trims, TypeInv, RoleInv, Places(trims), ReadPage, pc' \notin Hangs
    PROVE  TopMatches' /\ PageRead' /\ Ahead'
<1>1. ~MeetsInconsistent
  BY DEF ReadPage, Hang, Hangs
<1>2. PICK p \in Pages :
          /\ ScannedTo(p) /\ ValidSlots(p) # {}
          /\ gc' = [gc EXCEPT !.state = "write", !.page = p, !.valid = ValidSlots(p),
                              !.encoded = IsEncoded(p),
                              !.inBlk = @ + Cardinality(ValidSlots(p))]
  BY <1>1 DEF ReadPage
<1>3. /\ gc'.state = "write" /\ gc'.page = p /\ gc'.valid = ValidSlots(p) /\ gc'.victim = gc.victim
      /\ gc'.encoded = IsEncoded(p)
  BY <1>2 DEF TypeInv, GcOK, GcType
<1>4. gc.state = "read" /\ pc' = "collect" /\ UNCHANGED <<map, lists>>
  BY <1>1 DEF ReadPage
<1>5. TopMatches'
  BY <1>4 DEF TopMatches
<1>6. PageRead'
  <2>1. IsEncoded(p)' = IsEncoded(p)
    BY <1>3, <1>4 DEF IsEncoded, VictimEntry
  <2>2. ASSUME NEW s \in ValidSlots(p)
        PROVE  VictimEntry(p, s).chunk \in Chunks
    <3>1. VictimEntry(p, s).chunk # None /\ s \in Slots
      BY ValidSlotsLemma DEF ValidSlots
    <3>2. gc.victim \in Blks
      BY <1>4 DEF TypeInv, GcOK
    <3>3. lists[gc.victim].high[p] \in PageType
      BY <3>2, ListsLemma DEF TypeInv, ListsOK
    <3>4. QED
      BY <3>1, <3>3 DEF PageType, EntryType, VictimEntry
  <2>3. \A s \in gc'.valid : SlotChunk(s)' \in Chunks
    BY <1>3, <1>4, <2>2 DEF SlotChunk, VictimEntry
  <2>4. gc'.encoded = IsEncoded(gc.page)'
    BY <1>3, <2>1 DEF IsEncoded, VictimEntry
  <2>5. QED
    BY <2>3, <2>4 DEF PageRead
<1>7. Ahead'
  <2>1. SUFFICES ASSUME NEW c \in Chunks, InBlk(map[c], gc.victim)
                 PROVE  map[c].page >= p /\ (map[c].page = p => map[c].slot \in ValidSlots(p))
    BY <1>3, <1>4 DEF Ahead, AheadAt, InBlk, InFlash
  <2>2. map[c].slot \in ValidSlots(map[c].page) /\ map[c].page \in 0..(P - 2)
    BY <1>4, <2>1, OnPage DEF Places
  <2>3. map[c].page >= gc.page /\ gc.page \in Nat
    BY <1>4, <2>1 DEF Places, Ahead, AheadAt, TypeInv, GcOK, GcType
  <2>4. ~(map[c].page < p)
    <3>1. SUFFICES ASSUME map[c].page < p PROVE FALSE
      OBVIOUS
    <3>2. map[c].page \in gc.page..(p - 1)
      BY <2>2, <2>3, <3>1, SizeLemma
    <3>3. QED
      BY <1>2, <2>2, <3>2 DEF ScannedTo
  <2>5. map[c].page >= p
    BY <2>2, <2>4, SizeLemma
  <2>6. QED
    BY <2>2, <2>5
<1>8. QED
  BY <1>5, <1>6, <1>7

LEMMA ReturnAhead ==
    ASSUME NEW trims, Reserve, Places(trims), Return, gc' = gc, lists' = lists, map' = map,
           pc \in {"advanceCold", "while"}
    PROVE  TopMatches' /\ PageRead' /\ Ahead'
<1>1. TopMatches'
  <2>1. CASE pc' = "copy"
    BY <2>1, ReturnLabel, TopKept DEF Places
  <2>2. CASE pc' # "copy"
    BY <2>2, ReturnLabel DEF TopMatches
  <2>3. QED
    BY <2>1, <2>2
<1>2. PageRead' /\ Ahead'
  BY PageReadKept, AheadKept DEF Places
<1>3. QED
  BY <1>1, <1>2

LEMMA GcIdleAhead ==
    ASSUME NEW trims, TypeInv, Places(trims), GcIdle
    PROVE  TopMatches' /\ PageRead' /\ Ahead'
<1>1. UNCHANGED <<gc, lists, map>> /\ gc.state = "idle" /\ gc.valid = {}
  BY DEF GcIdle, TypeInv, GcOK
<1>2. QED
  BY <1>1, PageReadKept, AheadKept DEF TopMatches, Places

LEMMA CopyByChunkAhead ==
    ASSUME NEW trims, TypeInv, RoleInv, Places(trims), CopyByChunk
    PROVE  TopMatches' /\ PageRead' /\ Ahead'
<1>1. /\ gc \in GcType /\ gc.state = "write" /\ gc.victim \in Blks /\ gc.page \in Pages
      /\ UNCHANGED <<map, lists>>
  BY SizeLemma DEF CopyByChunk, TypeInv, GcOK, GcType, Pages
<1>2. /\ gc'.state = "write" /\ gc'.victim = gc.victim /\ gc'.page = gc.page /\ gc'.encoded = gc.encoded
      /\ gc'.valid \subseteq gc.valid
      /\ \A s \in gc.valid : s \in gc'.valid \/ s \in Moved
  <2>1. CASE FullPageValid
    <3>1. Moved # {}
      BY <2>1 DEF CopyByChunk
    <3>2. \E s \in Moved : \A t \in Moved : s <= t
      <4>1. Moved \subseteq 0..(S - 1) /\ S - 1 \in Nat
        BY SizeLemma DEF Moved, Slots
      <4>2. QED
        BY <3>1, <4>1, LeastElement
    <3>3. PICK s \in Moved : s = CHOOSE t \in Moved : \A u \in Moved : t <= u
      BY <3>2
    <3>4. gc' = [gc EXCEPT !.valid = @ \ {s}, !.inBlk = @ - 1]
      BY <2>1, <3>3 DEF CopyByChunk
    <3>5. /\ gc'.state = gc.state /\ gc'.victim = gc.victim /\ gc'.page = gc.page
          /\ gc'.encoded = gc.encoded /\ gc'.valid = gc.valid \ {s}
      BY <1>1, <3>4 DEF GcType
    <3>6. QED
      BY <1>1, <3>5
  <2>2. CASE ~FullPageValid
    BY <1>1, <2>2 DEF CopyByChunk
  <2>3. QED
    BY <2>1, <2>2
<1>3. TopMatches'
  <2>1. PICK f : f = [kind |-> "copy", blk |-> gc.victim, page |-> gc.page, encoded |-> gc.encoded]
    OBVIOUS
  <2>2. f \in FrameType /\ f.blk = gc.victim /\ f.page = gc.page /\ f.encoded = gc.encoded
    <3>1. gc.encoded \in BOOLEAN
      BY <1>1 DEF GcType
    <3>2. QED
      BY <1>1, <2>1, <3>1 DEF FrameType
  <2>3. Append(frames, f)[Len(Append(frames, f))] = f
    BY <2>2, AppendTop DEF TypeInv
  <2>4. frames' = Append(frames, f)
    BY <2>1 DEF CopyByChunk, PushFrame
  <2>5. Top' = f
    BY <2>3, <2>4 DEF Top
  <2>6. QED
    BY <1>2, <2>2, <2>5 DEF TopMatches
<1>4. PageRead'
  BY <1>1, <1>2, PageReadKept DEF Places
<1>5. Ahead'
  <2>1. SUFFICES ASSUME NEW c \in Chunks, InBlk(map[c], gc.victim)
                 PROVE  map[c].page >= gc.page /\ (map[c].page = gc.page => map[c].slot \in gc'.valid)
    BY <1>1, <1>2 DEF Ahead, AheadAt, InBlk, InFlash
  <2>2. map[c].page >= gc.page /\ (map[c].page = gc.page => map[c].slot \in gc.valid)
    BY <1>1, <2>1 DEF Places, Ahead, AheadAt
  <2>3. ASSUME map[c].page = gc.page PROVE map[c].slot \notin Moved
    <3>1. /\ VictimEntry(gc.page, map[c].slot).chunk = c
          /\ map[c] = PlaceOf(gc.victim, gc.page, map[c].slot, IsEncoded(gc.page))
      BY <1>1, <2>1, <2>3, OnPage DEF Places
    <3>2. gc.encoded = IsEncoded(gc.page)
      BY <1>1 DEF Places, PageRead
    <3>3. map[SlotChunk(map[c].slot)] = PlaceOf(gc.victim, gc.page, map[c].slot, gc.encoded)
      BY <3>1, <3>2 DEF SlotChunk
    <3>4. QED
      BY <3>3 DEF Moved
  <2>4. QED
    BY <1>2, <2>2, <2>3
<1>6. QED
  BY <1>3, <1>4, <1>5

LEMMA EndOfPageAhead ==
    ASSUME NEW trims, TypeInv, Places(trims), EndOfPage
    PROVE  TopMatches' /\ PageRead' /\ Ahead'
<1>1. /\ gc \in GcType /\ gc.valid = {} /\ UNCHANGED <<map, lists>> /\ pc' = "collect"
  BY DEF EndOfPage, TypeInv, GcOK, Goto
<1>2. TopMatches'
  BY <1>1 DEF TopMatches
<1>3. CASE gc.state = "write"
  <2>1. gc' = [gc EXCEPT !.state = "read", !.page = @ + 1, !.encoded = FALSE]
    BY <1>3 DEF EndOfPage
  <2>2. gc'.state = "read" /\ gc'.page = gc.page + 1 /\ gc'.victim = gc.victim
    BY <1>1, <2>1 DEF GcType
  <2>3. PageRead'
    BY <2>2 DEF PageRead
  <2>4. Ahead'
    <3>1. SUFFICES ASSUME NEW c \in Chunks, InBlk(map[c], gc.victim)
                   PROVE  map[c].page >= gc.page + 1
      BY <1>1, <2>2 DEF Ahead, AheadAt, InBlk, InFlash
    <3>2. map[c].page >= gc.page /\ map[c].page # gc.page
      BY <1>1, <1>3, <3>1 DEF Places, Ahead, AheadAt
    <3>3. map[c].page \in Int /\ gc.page \in Int
      BY <1>1, <3>1, MapTypes, PartsLemma, SizeLemma DEF GcType, InBlk
    <3>4. QED
      BY <3>2, <3>3
  <2>5. QED
    BY <1>2, <2>3, <2>4
<1>4. CASE gc.state # "write"
  <2>1. gc' = gc
    BY <1>4 DEF EndOfPage
  <2>2. QED
    BY <1>1, <1>2, <2>1, PageReadKept, AheadKept DEF Places
<1>5. QED
  BY <1>3, <1>4

\* The steps of the collector that move no data.
LEMMA MovesPlaces ==
    ASSUME NEW trims, Running(trims), EnoughClean \/ GcIdle \/ ReadPage \/ CopyByChunk \/ EndOfPage
    PROVE  NewestData' /\ NoSharedPlace' /\ Uniform' /\ (pc' \notin Hangs => Places(trims)')
<1>1. /\ UNCHANGED <<map, hot, cold, heap, clean, lists, latest>>
      /\ pc \in {"while", "collect", "copy"}
  BY DEF EnoughClean, GcIdle, ReadPage, CopyByChunk, EndOfPage
<1>2. NewestData' /\ NoSharedPlace' /\ Uniform'
  BY <1>1, NewestKept, UniformKept DEF Running, Places
<1>3. pc' \in {"idle", "copy", "collect", "while"} \cup Hangs
  BY ReturnLabel DEF EnoughClean, GcIdle, ReadPage, CopyByChunk, EndOfPage, Goto, Hang, Hangs
<1>4. ASSUME pc' \notin Hangs PROVE HotBuf(trims)' /\ ColdBuf' /\ HotPos' /\ Stored'
  <2>1. HotBuf(trims)' /\ ColdBuf' /\ HotPos'
    BY <1>1, <1>3, <1>4, HotBufKept, ColdBufKept, HotPosKept DEF Running, Places
  <2>2. KeepsRoles
    BY CollectorKeeps DEF Running
  <2>3. \A p \in Pages : (HotDone(p) => HotDone(p)') /\ (ColdDone(p) => ColdDone(p)')
    BY <1>1 DEF HotDone, ColdDone
  <2>4. Stored'
    BY <1>1, <2>2, <2>3, AllStoredKept DEF Running, Places
  <2>5. QED
    BY <2>1, <2>4
<1>5. ASSUME pc' \notin Hangs PROVE TopMatches' /\ PageRead' /\ Ahead'
  <2>1. CASE EnoughClean
    BY <1>1, <2>1, ReturnAhead DEF Running, EnoughClean
  <2>2. CASE GcIdle
    BY <2>2, GcIdleAhead DEF Running
  <2>3. CASE ReadPage
    BY <1>5, <2>3, ReadPageAhead DEF Running
  <2>4. CASE CopyByChunk
    BY <2>4, CopyByChunkAhead DEF Running
  <2>5. CASE EndOfPage
    BY <2>5, EndOfPageAhead DEF Running
  <2>6. QED
    BY <2>1, <2>2, <2>3, <2>4, <2>5
<1>6. QED
  BY <1>2, <1>4, <1>5 DEF Places

LEMMA AdvanceColdPlaces ==
    ASSUME NEW trims, Running(trims), AdvanceCold
    PROVE  Places(trims)'
<1>1. /\ UNCHANGED <<map, hot, heap, clean, gc, lists, latest>> /\ pc = "advanceCold"
      /\ Return /\ cold \in LogType /\ cold.page \in Nat
  BY LogFields, SizeLemma DEF AdvanceCold, Running, TypeInv, ColdOK
<1>2. /\ cold'.page = cold.page + 1 /\ cold'.list = cold.list /\ cold'.ptr = cold.ptr
      /\ cold'.chunk = cold.chunk /\ cold'.allValid = cold.allValid /\ cold'.recycled = cold.recycled
  BY <1>1 DEF AdvanceCold, LogType
<1>3. pc' \in {"idle", "copy", "collect"}
  BY <1>1, ReturnLabel
<1>4. NewestData' /\ NoSharedPlace' /\ Uniform'
  BY <1>1, <1>2, NewestKept, UniformKept DEF Running, Places
<1>5. HotBuf(trims)' /\ ColdBuf' /\ HotPos'
  BY <1>1, <1>2, <1>3, HotBufKept, ColdBufKept, HotPosKept DEF Running, Places
<1>6. Stored'
  <2>1. KeepsRoles
    BY CollectorKeeps DEF Running
  <2>2. ASSUME NEW p \in Pages PROVE (HotDone(p) => HotDone(p)') /\ (ColdDone(p) => ColdDone(p)')
    <3>1. HotDone(p) => HotDone(p)'
      BY <1>1 DEF HotDone
    <3>2. ColdDone(p) => ColdDone(p)'
      BY <1>1, <1>2, SizeLemma DEF ColdDone
    <3>3. QED
      BY <3>1, <3>2
  <2>3. QED
    BY <1>1, <1>2, <2>1, <2>2, AllStoredKept DEF Running, Places
<1>7. TopMatches' /\ PageRead' /\ Ahead'
  BY <1>1, ReturnAhead DEF Running
<1>8. QED
  BY <1>4, <1>5, <1>6, <1>7 DEF Places

----------------------------------------------------------------------------
(* The hot log moves on in its block.                                      *)

\* The low page p is tested and found free of valid chunks.
LEMMA TestFree ==
    ASSUME TypeInv, Stored, pc # "findHot", NEW log, log.blk = hot.blk, log.list = hot.list,
           NEW p, ~HotDone(p), CanReuseLowPage(log, p)
    PROVE  \A c \in Chunks : ~InPage(map[c], hot.blk, p)
<1>1. SUFFICES ASSUME NEW c \in Chunks, InPage(map[c], hot.blk, p) PROVE FALSE
  OBVIOUS
<1>2. InFlash(map[c]) /\ map[c].blk = hot.blk /\ map[c].page = p /\ map[c] \in Address
  BY <1>1, MapTypes DEF InPage, InBlk
<1>3. FirstUsage(map[c]) /\ NamedBy(hot.list, c, map[c])
  BY <1>2 DEF Stored, StoredAt
<1>4. /\ map[c].slot \in Slots
      /\ map[c] = PlaceOf(map[c].blk, map[c].page, map[c].slot, map[c].at = "FlashWLogEncoded")
  BY <1>2, PartsLemma
<1>5. map[c] = FlashWLog(log.blk, p, map[c].slot)
  BY <1>2, <1>3, <1>4 DEF PlaceOf, FirstUsage
<1>6. log.list[p][map[c].slot].chunk = c /\ c # None
  BY <1>2, <1>3, SizeLemma DEF NamedBy
<1>7. QED
  BY <1>4, <1>5, <1>6 DEF CanReuseLowPage

LEMMA HotFirstPages ==
    ASSUME TypeInv, hot.second, hot.page # LastDataPage
    PROVE  /\ NextPage = hot.page + 1 /\ hot.page \in Nat /\ hot.page < P - 2
           /\ hot.page % 2 \in {0, 1} /\ NextPage % 2 = 1 - (hot.page % 2)
<1>1. hot.page \in 0..(P - 2)
  BY LogFields DEF TypeInv, HotOK
<1>2. QED
  BY <1>1, SizeLemma DEF NextPage, LastDataPage

\* The fields that no step to another page of the block changes.
SameBuffer == /\ hot'.blk = hot.blk /\ hot'.second = hot.second /\ hot'.ptr = hot.ptr
              /\ hot'.chunk = hot.chunk /\ hot'.allValid = hot.allValid

\* The outcomes of a step to the next page in the second usage.
ReusesLow(p) == /\ p \in Pages /\ LowPage(p) /\ ~HotDone(p)
                /\ \A c \in Chunks : ~InPage(map[c], hot.blk, p)
                /\ hot'.nextLow = p /\ hot'.list = [hot.list EXCEPT ![p] = EmptyPage]
                /\ heap' = HeapReusing(hot.blk)
                /\ \/ hot'.page = p - 1 /\ hot'.page % 2 = 0 /\ hot'.page > 0
                   \/ p = 1 /\ hot'.page = 1 /\ hot'.recycled
SkipsLow == /\ hot'.list = hot.list /\ heap' = heap
            /\ hot'.page % 2 = 0 /\ hot'.page > 0
            /\ hot'.nextLow = None \/ hot'.nextLow = hot.nextLow
EncodesLow == /\ hot'.list = hot.list /\ heap' = heap /\ hot'.recycled /\ hot'.nextLow = hot.nextLow

LEMMA TestLowEffect ==
    ASSUME TypeInv, Stored, pc = "advanceHot", hot.second,
           NEW log \in LogType, log.second, log.page % 2 = 0, log.page > hot.page,
           log.blk = hot.blk, log.list = hot.list, log.ptr = hot.ptr, log.chunk = hot.chunk,
           log.allValid = hot.allValid, log.nextLow = hot.nextLow,
           TestLowPage(log, log.page + 1)
    PROVE  /\ SameBuffer /\ hot'.page = log.page /\ (hot'.recycled <=> log.recycled)
           /\ ReusesLow(log.page + 1) \/ (SkipsLow /\ hot'.nextLow = None)
<1>. DEFINE p == log.page + 1
<1>1. log.page \in Nat /\ hot.page \in Nat /\ log.page \in 0..(P - 2) /\ hot.second \in BOOLEAN
      /\ log.second \in BOOLEAN /\ hot.second = log.second
  <2>1. log.page \in 0..(P - 2) /\ hot.page \in 0..(P - 2) /\ hot.second = TRUE /\ log.second = TRUE
    BY LogFields DEF TypeInv, HotOK, LogType
  <2>2. QED
    BY <2>1, SizeLemma
<1>2. CASE p < LastDataPage /\ CanReuseLowPage(log, p)
  <2>1. hot' = Reusing(log, p) /\ heap' = HeapReusing(hot.blk)
    BY <1>2 DEF TestLowPage
  <2>2. p \in Pages /\ LowPage(p)
    BY <1>1, <1>2, SizeLemma DEF Pages, LastDataPage, LowPage
  <2>3. ~HotDone(p)
    BY <1>1 DEF HotDone
  <2>4. \A c \in Chunks : ~InPage(map[c], hot.blk, p)
    BY <1>2, <2>3, TestFree
  <2>5. /\ Reusing(log, p).page = log.page /\ Reusing(log, p).second = log.second
        /\ Reusing(log, p).recycled = log.recycled /\ Reusing(log, p).blk = log.blk
        /\ Reusing(log, p).ptr = log.ptr /\ Reusing(log, p).nextLow = p
        /\ Reusing(log, p).chunk = log.chunk /\ Reusing(log, p).allValid = log.allValid
        /\ Reusing(log, p).list = [log.list EXCEPT ![p] = EmptyPage]
    BY <2>2, ReusingType
  <2>6. SameBuffer /\ hot'.page = log.page /\ hot'.recycled = log.recycled /\ hot'.nextLow = p
        /\ hot'.list = [hot.list EXCEPT ![p] = EmptyPage]
    BY <1>1, <2>1, <2>5 DEF SameBuffer
  <2>7. hot'.page = p - 1 /\ hot'.page % 2 = 0 /\ hot'.page > 0
    BY <1>1, <2>6
  <2>8. ReusesLow(p)
    BY <2>1, <2>2, <2>3, <2>4, <2>6, <2>7 DEF ReusesLow
  <2>9. QED
    BY <2>6, <2>8
<1>3. CASE ~(p < LastDataPage /\ CanReuseLowPage(log, p))
  <2>1. hot' = [log EXCEPT !.nextLow = None, !.precacheDone = FALSE] /\ heap' = heap
    BY <1>3 DEF TestLowPage
  <2>2. /\ hot'.page = log.page /\ hot'.recycled = log.recycled /\ hot'.nextLow = None
        /\ hot'.list = hot.list /\ SameBuffer
    BY <1>1, <2>1 DEF LogType, SameBuffer
  <2>3. SkipsLow
    BY <1>1, <2>1, <2>2 DEF SkipsLow
  <2>4. QED
    BY <2>2, <2>3
<1>4. QED
  BY <1>2, <1>3

LowBehind == hot.nextLow # None => hot.nextLow <= hot.page

LEMMA AdvanceSecondEffect ==
    ASSUME TypeInv, Stored, HotPos, AdvanceToHigh \/ AdvanceToTestedLow \/ AdvanceToPage1 \/ SkipLow
    PROVE  /\ pc = "advanceHot" /\ pc' = "idle" /\ hot.second /\ hot.page < P - 2
           /\ UNCHANGED <<map, cold, clean, gc, lists, latest, frames>>
           /\ SameBuffer /\ hot'.page <= P - 2 /\ hot'.page \in Nat
           /\ hot'.page = hot.page + 1 \/ (hot'.page = hot.page + 2 /\ hot.page % 2 = 0)
           /\ \/ LowBehind /\ \E p \in Pages : ReusesLow(p)
              \/ LowBehind /\ SkipsLow
              \/ EncodesLow /\ hot.nextLow = hot.page + 1 /\ hot'.page = hot.page + 1
<1>1. /\ pc = "advanceHot" /\ pc' = "idle" /\ hot.second /\ hot.page # LastDataPage
      /\ UNCHANGED <<map, cold, clean, gc, lists, latest, frames>>
  BY DEF AdvanceToHigh, AdvanceToTestedLow, AdvanceToPage1, SkipLow, InSecondUsage, Goto
<1>2. hot \in LogType /\ hot.nextLow \in Pages \cup {None} /\ hot.page \in 0..(P - 2)
  BY LogFields DEF TypeInv, HotOK
<1>3. /\ NextPage = hot.page + 1 /\ hot.page \in Nat /\ hot.page < P - 2
      /\ hot.page % 2 \in {0, 1} /\ NextPage % 2 = 1 - (hot.page % 2)
  BY <1>1, HotFirstPages
<1>4. hot.nextLow # None => /\ LowPage(hot.nextLow) /\ hot.nextLow \in Nat
                            /\ \/ hot.nextLow <= hot.page
                               \/ hot.nextLow = hot.page + 1 /\ hot.page % 2 = 0
  BY <1>1, <1>2, SizeLemma DEF HotPos
<1>5. CASE AdvanceToHigh
  <2>1. NextPage % 2 = 0 /\ NextPage \in 0..(P - 2) /\ NextPage > 0
    BY <1>1, <1>3, <1>5, SecondPages DEF AdvanceToHigh
  <2>2. LowBehind
    BY <1>3, <1>4, <2>1 DEF LowBehind
  <2>3. PICK log : log = [hot EXCEPT !.page = NextPage, !.recycled = FALSE]
    OBVIOUS
  <2>4. /\ log \in LogType /\ log.page = NextPage /\ log.blk = hot.blk /\ log.list = hot.list
        /\ log.ptr = hot.ptr /\ log.chunk = hot.chunk /\ log.allValid = hot.allValid
        /\ log.nextLow = hot.nextLow /\ log.second = hot.second
    BY <1>2, <2>1, <2>3 DEF LogType
  <2>5. TestLowPage(log, log.page + 1) /\ log.page > hot.page /\ log.page % 2 = 0 /\ log.second
    BY <1>1, <1>3, <1>5, <2>1, <2>3, <2>4 DEF AdvanceToHigh
  <2>6. /\ SameBuffer /\ hot'.page = log.page
        /\ ReusesLow(log.page + 1) \/ (SkipsLow /\ hot'.nextLow = None)
    BY <1>1, <2>4, <2>5, TestLowEffect
  <2>7. QED
    BY <1>1, <1>3, <2>1, <2>2, <2>4, <2>6 DEF ReusesLow
<1>6. CASE AdvanceToTestedLow
  <2>1. NextPage \in 0..(P - 2) /\ hot.nextLow = NextPage
    BY <1>1, <1>6, SecondPages DEF AdvanceToTestedLow
  <2>2. hot' = [hot EXCEPT !.page = NextPage, !.recycled = TRUE] /\ heap' = heap
    BY <1>6 DEF AdvanceToTestedLow
  <2>3. /\ SameBuffer /\ hot'.page = NextPage /\ hot'.recycled /\ hot'.list = hot.list
        /\ hot'.nextLow = hot.nextLow
    BY <1>2, <2>2 DEF LogType, SameBuffer
  <2>4. EncodesLow
    BY <2>2, <2>3 DEF EncodesLow
  <2>5. QED
    BY <1>1, <1>3, <2>1, <2>3, <2>4
<1>7. CASE AdvanceToPage1
  <2>1. hot.page = 0 /\ hot.nextLow # 1 /\ CanReuseLowPage(hot, 1)
    BY <1>3, <1>7 DEF AdvanceToPage1
  <2>2. LowBehind
    BY <1>4, <2>1 DEF LowBehind
  <2>3. PICK log : log = [hot EXCEPT !.page = 1, !.recycled = TRUE]
    OBVIOUS
  <2>4. /\ log \in LogType /\ log.page = 1 /\ log.blk = hot.blk /\ log.list = hot.list
        /\ log.ptr = hot.ptr /\ log.chunk = hot.chunk /\ log.allValid = hot.allValid
        /\ log.second = hot.second /\ log.recycled = TRUE
    <3>1. 1 \in 0..(P - 2)
      BY SizeLemma
    <3>2. QED
      BY <1>2, <2>3, <3>1 DEF LogType
  <2>5. hot' = Reusing(log, 1) /\ heap' = HeapReusing(hot.blk)
    BY <1>7, <2>3 DEF AdvanceToPage1
  <2>6. /\ Reusing(log, 1).page = log.page /\ Reusing(log, 1).second = log.second
        /\ Reusing(log, 1).recycled = log.recycled /\ Reusing(log, 1).blk = log.blk
        /\ Reusing(log, 1).ptr = log.ptr /\ Reusing(log, 1).nextLow = 1
        /\ Reusing(log, 1).chunk = log.chunk /\ Reusing(log, 1).allValid = log.allValid
        /\ Reusing(log, 1).list = [log.list EXCEPT ![1] = EmptyPage]
    BY <2>4, SizeLemma, ReusingType
  <2>7. /\ SameBuffer /\ hot'.page = 1 /\ hot'.recycled /\ hot'.nextLow = 1
        /\ hot'.list = [hot.list EXCEPT ![1] = EmptyPage]
    BY <2>4, <2>5, <2>6 DEF SameBuffer
  <2>8. 1 \in Pages /\ LowPage(1) /\ ~HotDone(1)
    BY <2>1, SizeLemma DEF LowPage, HotDone
  <2>9. \A c \in Chunks : ~InPage(map[c], hot.blk, 1)
    BY <1>1, <2>1, <2>8, TestFree
  <2>10. ReusesLow(1)
    BY <2>5, <2>7, <2>8, <2>9 DEF ReusesLow
  <2>11. QED
    BY <1>1, <1>3, <2>1, <2>2, <2>7, <2>8, <2>10, SizeLemma
<1>8. CASE SkipLow
  <2>1. /\ NextPage % 2 = 1 /\ hot.nextLow # NextPage
        /\ NextPage + 1 \in 0..(P - 2) /\ (NextPage + 1) % 2 = 0 /\ NextPage + 1 > 0
        /\ hot.page % 2 = 0 /\ NextPage + 1 = hot.page + 2
    <3>1. NextPage % 2 = 1 /\ hot.nextLow # NextPage
      BY <1>8 DEF SkipLow
    <3>2. NextPage + 1 \in 0..(P - 2)
      BY <1>1, <3>1, SecondPages
    <3>3. QED
      BY <1>3, <3>1, <3>2
  <2>2. LowBehind
    BY <1>3, <1>4, <2>1 DEF LowBehind
  <2>3. PICK log : log = [hot EXCEPT !.page = NextPage + 1, !.recycled = FALSE]
    OBVIOUS
  <2>4. /\ log \in LogType /\ log.page = NextPage + 1 /\ log.blk = hot.blk /\ log.list = hot.list
        /\ log.ptr = hot.ptr /\ log.chunk = hot.chunk /\ log.allValid = hot.allValid
        /\ log.nextLow = hot.nextLow /\ log.second = hot.second
    <3>1. PICK q \in 0..(P - 2) : q = NextPage + 1
      BY <2>1
    <3>2. log = [hot EXCEPT !.page = q, !.recycled = FALSE]
      BY <2>3, <3>1
    <3>3. QED
      BY <1>2, <3>1, <3>2 DEF LogType
  <2>5. IF NextPage + 2 < LastDataPage THEN TestLowPage(log, NextPage + 2)
        ELSE hot' = log /\ UNCHANGED heap
    BY <1>8, <2>3 DEF SkipLow
  <2>6. log.page > hot.page /\ log.page % 2 = 0 /\ log.second /\ NextPage + 2 = log.page + 1
    <3>1. hot.page \in Nat /\ NextPage = hot.page + 1
      BY <1>3
    <3>2. log.page = hot.page + 2 /\ log.page % 2 = 0
      BY <2>1, <2>4
    <3>3. QED
      BY <1>1, <2>4, <3>1, <3>2
  <2>7. /\ SameBuffer /\ hot'.page = log.page
        /\ ReusesLow(log.page + 1) \/ SkipsLow
    <3>1. CASE NextPage + 2 < LastDataPage
      <4>1. TestLowPage(log, log.page + 1)
        BY <2>5, <2>6, <3>1
      <4>2. QED
        BY <1>1, <2>4, <2>6, <4>1, TestLowEffect
    <3>2. CASE ~(NextPage + 2 < LastDataPage)
      BY <2>1, <2>4, <2>5, <3>2 DEF SameBuffer, SkipsLow
    <3>3. QED
      BY <3>1, <3>2
  <2>8. /\ hot'.page = hot.page + 2 /\ hot'.page <= P - 2 /\ hot'.page \in Nat /\ hot.page < P - 2
        /\ hot.page % 2 = 0
    <3>1. hot.page \in Nat /\ hot.page < P - 2
      BY <1>3
    <3>2. hot'.page = hot.page + 2 /\ hot.page + 2 \in 0..(P - 2) /\ hot.page % 2 = 0
      BY <2>1, <2>4, <2>7
    <3>3. QED
      BY <3>1, <3>2, SizeLemma
  <2>9. ReusesLow(log.page + 1) => \E p \in Pages : ReusesLow(p)
    BY DEF ReusesLow
  <2>10. QED
    BY <1>1, <2>2, <2>7, <2>8, <2>9
<1>9. QED
  BY <1>5, <1>6, <1>7, <1>8

\* A list that loses a page keeps its kind.
LEMMA UniformLemma ==
    ASSUME NEW list \in [Pages -> PageType], UniformList(list), NEW p \in Pages, NEW page, UniformPage(page)
    PROVE  UniformList([list EXCEPT ![p] = page])
BY DEF UniformList

LEMMA UniformEmpty == UniformPage(EmptyPage) /\ UniformList(EmptyList)
BY DEF UniformPage, UniformList, EmptyPage, EmptyList, NoEntry

LEMMA AdvanceHotPlaces ==
    ASSUME NEW trims, Running(trims),
           AdvanceFirst \/ AdvanceToHigh \/ AdvanceToTestedLow \/ AdvanceToPage1 \/ SkipLow
    PROVE  Places(trims)'
<1>. USE DEF Running, Places
<1>1. KeepsRoles /\ hot \in LogType /\ hot.list \in [Pages -> PageType] /\ hot.page \in Nat
  BY AdvanceHotKeeps, LogFields, ListsLemma, SizeLemma DEF TypeInv, HotOK
<1>2. /\ pc = "advanceHot" /\ pc' = "idle" /\ UNCHANGED <<map, cold, clean, gc, lists, latest, frames>>
      /\ SameBuffer
  <2>1. CASE AdvanceFirst
    BY <1>1, <2>1 DEF AdvanceFirst, Goto, SameBuffer, LogType
  <2>2. CASE ~AdvanceFirst
    BY <2>2, AdvanceSecondEffect
  <2>3. QED
    BY <2>1, <2>2
<1>3. NewestData' /\ NoSharedPlace'
  BY <1>2, NewestKept
<1>4. HotBuf(trims)'
  BY <1>2, HotEmpty, HotBufEmpty DEF SameBuffer
<1>5. ColdBuf'
  BY <1>2, ColdBufKept
<1>6. TopMatches' /\ PageRead' /\ Ahead'
  BY <1>2, PageReadKept, AheadKept DEF TopMatches
<1>7. hot'.page > hot.page /\ hot'.page \in Nat /\ hot'.second = hot.second
  BY AdvanceHotPage
<1>8. \A p \in Pages : (HotDone(p) => HotDone(p)') /\ (ColdDone(p) => ColdDone(p)')
  <2>1. ASSUME NEW p \in Pages, HotDone(p) PROVE HotDone(p)'
    <3>1. p \in Nat /\ p <= hot.page
      BY <1>1, <2>1, SizeLemma DEF HotDone
    <3>2. p < hot'.page
      BY <1>1, <1>7, <3>1
    <3>3. QED
      BY <3>2 DEF HotDone
  <2>2. \A p \in Pages : ColdDone(p) => ColdDone(p)'
    BY <1>2 DEF ColdDone
  <2>3. QED
    BY <2>1, <2>2
<1>9. CASE hot'.list = hot.list
  <2>1. Uniform' /\ Stored'
    BY <1>1, <1>2, <1>7, <1>8, <1>9, UniformKept, AllStoredKept
  <2>2. HotPos'
    <3>1. CASE AdvanceFirst
      <4>1. hot'.second = FALSE
        BY <1>1, <1>7, <3>1 DEF AdvanceFirst, LogType
      <4>2. QED
        BY <4>1 DEF HotPos
    <3>2. CASE ~AdvanceFirst
      <4>0. hot.second /\ hot.nextLow \in Pages \cup {None}
        BY <1>1, <3>2, LogFields, AdvanceSecondEffect
      <4>1. CASE EncodesLow /\ hot.nextLow = hot.page + 1 /\ hot'.page = hot.page + 1
        BY <1>1, <1>2, <1>9, <4>0, <4>1, SizeLemma DEF HotPos, EncodesLow
      <4>2. CASE LowBehind /\ SkipsLow
        <5>1. hot'.nextLow # None => /\ hot'.nextLow = hot.nextLow /\ hot.nextLow <= hot.page
                                     /\ hot.nextLow \in Nat
          BY <4>0, <4>2, SizeLemma DEF LowBehind, SkipsLow
        <5>2. hot'.nextLow # None => hot'.nextLow < hot'.page /\ hot'.nextLow \in Nat
          BY <1>1, <1>7, <5>1
        <5>3. hot'.nextLow # None => LowPage(hot'.nextLow)
          BY <1>2, <4>0, <5>1 DEF HotPos
        <5>4. QED
          BY <1>7, <4>2, <5>2, <5>3 DEF HotPos, SkipsLow
      <4>3. CASE \E p \in Pages : ReusesLow(p)
        <5>1. PICK p \in Pages : ReusesLow(p)
          BY <4>3
        <5>2. hot'.list[p] = EmptyPage
          BY <1>1, <5>1 DEF ReusesLow
        <5>3. QED
          BY <5>1, <5>2, <1>7, SizeLemma DEF HotPos, ReusesLow
      <4>4. QED
        BY <3>2, <4>1, <4>2, <4>3, AdvanceSecondEffect
    <3>3. QED
      BY <3>1, <3>2
  <2>3. QED
    BY <1>3, <1>4, <1>5, <1>6, <2>1, <2>2
<1>10. CASE hot'.list # hot.list
  <2>1. ~AdvanceFirst
    BY <1>1, <1>10 DEF AdvanceFirst, LogType
  <2>2. PICK p \in Pages : ReusesLow(p)
    BY <1>10, <2>1, AdvanceSecondEffect DEF SkipsLow, EncodesLow
  <2>3. hot'.list = [hot.list EXCEPT ![p] = EmptyPage] /\ hot'.list[p] = EmptyPage
    BY <1>1, <2>2 DEF ReusesLow
  <2>4. Uniform'
    <3>1. UniformList(hot'.list)
      BY <1>1, <2>3, UniformLemma, UniformEmpty DEF Uniform
    <3>2. QED
      BY <1>2, <3>1 DEF Uniform, UniformList
  <2>5. HotPos'
    BY <1>7, <2>2, <2>3, SizeLemma DEF HotPos, ReusesLow
  <2>6. Stored'
    <3>1. SUFFICES ASSUME NEW c \in Chunks PROVE StoredAt(c, map[c])'
      BY DEF Stored
    <3>2. PICK a \in Address : a = map[c] /\ map'[c] = a
      BY <1>2, MapTypes
    <3>3. StoredAt(c, a)
      BY <3>2 DEF Stored
    <3>4. InFlash(a) => /\ a.page \in Pages
                        /\ a.blk = hot.blk => hot'.list[a.page] = hot.list[a.page]
      <4>1. SUFFICES ASSUME InFlash(a), a.blk = hot.blk PROVE a.page \in Pages /\ a.page # p
        BY <1>1, <2>3, PartsLemma, SizeLemma
      <4>2. ~InPage(a, hot.blk, p)
        BY <2>2, <3>2 DEF ReusesLow
      <4>3. QED
        BY <4>1, <4>2, PartsLemma, SizeLemma DEF InPage, InBlk
    <3>5. StoredAt(c, a)'
      BY <1>1, <1>2, <1>7, <1>8, <3>3, <3>4, StoredKept
    <3>6. QED
      BY <3>2, <3>5 DEF StoredAt, FirstUsage, NamedBy
  <2>7. QED
    BY <1>3, <1>4, <1>5, <1>6, <2>4, <2>5, <2>6
<1>11. QED
  BY <1>9, <1>10

----------------------------------------------------------------------------
(* Chunks that go to a buffer.                                             *)

\* One chunk gets a place nothing else has.
LEMMA MovedTo ==
    ASSUME TypeInv, NewestData, NoSharedPlace, NEW c \in Chunks, NEW a, a # Invalid,
           \A d \in Chunks : map[d] # a,
           map' = [map EXCEPT ![c] = a], a \in latest'[c],
           \A d \in Chunks \ {c} : latest[d] \ {a} \subseteq latest'[d]
    PROVE  NewestData' /\ NoSharedPlace'
<1>1. map'[c] = a /\ \A d \in Chunks \ {c} : map'[d] = map[d]
  BY DEF TypeInv, MapOK
<1>2. NewestData'
  BY <1>1 DEF NewestData
<1>3. NoSharedPlace'
  BY <1>1 DEF NoSharedPlace
<1>4. QED
  BY <1>2, <1>3

\* The pointer of a buffer of w slots moves on, and what is below it.
LEMMA NextSlot ==
    ASSUME NEW w \in Nat, NEW n \in Nat, n < w
    PROVE  /\ n + 1 = w => (n + 1) % w = 0
           /\ n + 1 # w => (n + 1) % w = n + 1 /\ n + 1 < w
OBVIOUS

LEMMA BelowNext ==
    ASSUME NEW T, T \subseteq Nat, NEW n \in T
    PROVE  {s \in T : s < n + 1} = {s \in T : s < n} \cup {n} /\ n \notin {s \in T : s < n}
<1>1. ~(n < n) /\ n < n + 1
  OBVIOUS
<1>2. \A s \in T : s < n + 1 <=> s < n \/ s = n
  OBVIOUS
<1>3. QED
  BY <1>1, <1>2

\* The next slot of a buffer is filled.
LEMMA FilledHot ==
    ASSUME NEW trims, TypeInv,
           HotBuf(trims), pc = "idle", pc' = IF hot'.ptr = 0 THEN "flushHot" ELSE "idle",
           hot'.ptr = (hot.ptr + 1) % Width, hot'.recycled = hot.recycled
    PROVE  HotFilled' = HotFilled \cup {hot.ptr} /\ hot.ptr \notin HotFilled /\ hot.ptr \in Slots
           /\ hot'.ptr < Width'
<1>1. /\ hot.ptr \in Slots /\ hot.ptr < Width /\ Width \in Nat /\ Width > 0 /\ Width' = Width
      /\ hot.ptr \in Nat /\ Slots \subseteq Nat
  <2>1. hot.ptr \in Slots /\ Slots \subseteq Nat /\ hot.ptr < Width
    BY LogFields, SizeLemma DEF HotBuf, TypeInv, HotOK
  <2>2. Width \in Nat /\ Width > 0 /\ Width' = Width
    BY SizeLemma DEF Width
  <2>3. QED
    BY <2>1, <2>2
<1>2. HotFilled = {s \in Slots : s < hot.ptr}
  BY DEF HotFilled
<1>3. hot'.ptr < Width /\ HotFilled' = {s \in Slots : s < hot.ptr + 1}
  <2>1. CASE hot.ptr + 1 = Width
    <3>1. hot'.ptr = 0
      BY <1>1, <2>1, NextSlot
    <3>2. HotFilled' = {s \in Slots : s < Width}
      BY <1>1, <3>1 DEF HotFilled
    <3>3. QED
      BY <1>1, <2>1, <3>1, <3>2
  <2>2. CASE hot.ptr + 1 # Width
    <3>1. hot'.ptr = hot.ptr + 1 /\ hot.ptr + 1 < Width
      BY <1>1, <2>2, NextSlot
    <3>2. hot'.ptr # 0
      BY <1>1, <3>1
    <3>3. HotFilled' = {s \in Slots : s < hot.ptr + 1}
      BY <3>1, <3>2 DEF HotFilled
    <3>4. QED
      BY <3>1, <3>3
  <2>3. QED
    BY <2>1, <2>2
<1>4. QED
  BY <1>1, <1>2, <1>3, BelowNext

LEMMA FilledCold ==
    ASSUME TypeInv, pc # "flushCold",
           pc' = "flushCold" <=> cold'.ptr = 0, cold'.ptr = (cold.ptr + 1) % S
    PROVE  ColdFilled' = ColdFilled \cup {cold.ptr} /\ cold.ptr \notin ColdFilled /\ cold.ptr \in Slots
<1>1. cold.ptr \in Slots /\ cold.ptr < S /\ cold.ptr \in Nat /\ S \in Nat /\ Slots \subseteq Nat
  BY LogFields, SizeLemma DEF TypeInv, ColdOK, Slots
<1>2. ColdFilled = {s \in Slots : s < cold.ptr}
  BY DEF ColdFilled
<1>3. ColdFilled' = {s \in Slots : s < cold.ptr + 1}
  <2>1. CASE cold.ptr + 1 = S
    <3>1. cold'.ptr = 0
      BY <1>1, <2>1, NextSlot
    <3>2. ColdFilled' = Slots
      BY <3>1 DEF ColdFilled
    <3>3. \A s \in Slots : s < cold.ptr + 1
      BY <1>1, <2>1 DEF Slots
    <3>4. QED
      BY <3>2, <3>3
  <2>2. CASE cold.ptr + 1 # S
    <3>1. cold'.ptr = cold.ptr + 1 /\ cold.ptr + 1 # 0
      BY <1>1, <2>2, NextSlot
    <3>2. QED
      BY <3>1 DEF ColdFilled
  <2>3. QED
    BY <2>1, <2>2
<1>4. QED
  BY <1>1, <1>2, <1>3, BelowNext

\* What a write of the host leaves alone besides the buffers.
LEMMA WriteRest ==
    ASSUME NEW trims, Running(trims), NEW c \in Chunks, WriteHot(c) \/ WriteCold(c) \/ MoveAway(c), NEW a, ~InFlash(a),
           map' = [map EXCEPT ![c] = a], gc' = GcWithoutOld(c),
           hot'.list = hot.list, cold'.list = cold.list, hot'.recycled = hot.recycled,
           hot'.nextLow = hot.nextLow, pc' # "advanceHot"
    PROVE  Uniform' /\ HotPos' /\ Stored' /\ TopMatches' /\ PageRead' /\ Ahead'
<1>. USE DEF Running, Places
<1>1. KeepsRoles /\ hot'.page = hot.page /\ hot'.second = hot.second /\ cold'.page = cold.page
  BY WriteKeeps, WritePages
<1>2. pc = "idle" /\ lists' = lists /\ frames' = frames /\ pc' # "findHot"
  BY <1>1 DEF WriteHot, WriteCold, MoveAway, KeepsRoles
<1>3. \A d \in Chunks : map'[d] = map[d] \/ ~InFlash(map'[d])
  BY DEF TypeInv, MapOK
<1>4. Uniform' /\ HotPos'
  BY <1>1, <1>2, UniformKept, HotPosKept
<1>5. Stored'
  <2>1. \A p \in Pages : (HotDone(p) => HotDone(p)') /\ (ColdDone(p) => ColdDone(p)')
    BY <1>1, <1>2 DEF HotDone, ColdDone
  <2>2. QED
    BY <1>1, <1>2, <1>3, <2>1, AllStoredKept
<1>6. TopMatches'
  <2>1. frames' = <<>>
    BY <1>2 DEF Reserve
  <2>2. QED
    BY <2>1 DEF TopMatches
<1>7. /\ gc'.state = gc.state /\ gc'.victim = gc.victim /\ gc'.page = gc.page /\ gc'.valid = gc.valid
      /\ gc'.encoded = gc.encoded
  BY WithoutOldType
<1>8. PageRead'
  BY <1>2, <1>7, PageReadKept
<1>9. Ahead'
  <2>1. \A d \in Chunks : map'[d] = map[d] \/ ~InBlk(map'[d], gc.victim)
    BY <1>3 DEF InBlk
  <2>2. QED
    BY <1>7, <2>1, AheadKept
<1>10. QED
  BY <1>4, <1>5, <1>6, <1>8, <1>9

LEMMA WriteHotPlaces ==
    ASSUME NEW trims, Running(trims), NEW c \in Chunks, WriteHot(c)
    PROVE  Places(trims)'
<1>. USE DEF Running, Places
<1>e. /\ pc = "idle" /\ pc' = IF hot'.ptr = 0 THEN "flushHot" ELSE "idle"
      /\ cold' = ColdWithoutOld(c) /\ gc' = GcWithoutOld(c)
      /\ map' = [map EXCEPT ![c] = DRAMHotLog(hot.ptr)]
      /\ latest' = Written(c, DRAMHotLog(hot.ptr))
      /\ hot'.chunk = [HotWithoutOld(c).chunk EXCEPT ![hot.ptr] = c]
      /\ hot'.ptr = (hot.ptr + 1) % Width
      /\ hot'.allValid = HotWithoutOld(c).allValid
      /\ hot'.recycled = hot.recycled /\ hot'.list = hot.list /\ hot'.nextLow = hot.nextLow
  BY WriteHotEffect DEF Width
<1>f. /\ HotFilled' = HotFilled \cup {hot.ptr} /\ hot.ptr \notin HotFilled /\ hot.ptr \in Slots
      /\ hot'.ptr < Width'
  BY <1>e, FilledHot
<1>m. /\ map'[c] = DRAMHotLog(hot.ptr) /\ \A d \in Chunks \ {c} : map'[d] = map[d]
      /\ map \in [Chunks -> Address]
  BY <1>e DEF TypeInv, MapOK
<1>h. HotWithoutOld(c).chunk \in [Slots -> Chunks \cup {None}]
  BY WithoutOldType, LogFields
<1>1. NewestData' /\ NoSharedPlace'
  <2>1. \A d \in Chunks : map[d] # DRAMHotLog(hot.ptr)
    BY <1>f DEF HotBuf
  <2>2. /\ DRAMHotLog(hot.ptr) \in latest'[c]
        /\ \A d \in Chunks \ {c} : latest[d] \ {DRAMHotLog(hot.ptr)} \subseteq latest'[d]
    BY <1>e DEF Written
  <2>3. QED
    BY <1>e, <2>1, <2>2, MovedTo, DramLemma
<1>2. HotBuf(trims)'
  <2>1. ASSUME NEW d \in Chunks, NEW s \in Slots
        PROVE  map'[d] = DRAMHotLog(s) <=> s \in HotFilled' /\ hot'.chunk[s] = d
    <3>1. CASE s = hot.ptr
      <4>1. hot'.chunk[s] = c
        BY <1>e, <1>h, <3>1
      <4>2. d # c => map[d] # DRAMHotLog(s)
        BY <1>f, <3>1 DEF HotBuf
      <4>3. QED
        BY <1>f, <1>m, <3>1, <4>1, <4>2
    <3>2. CASE s # hot.ptr
      <4>1. hot'.chunk[s] = HotWithoutOld(c).chunk[s] /\ (s \in HotFilled' <=> s \in HotFilled)
        BY <1>e, <1>f, <1>h, <3>2
      <4>2. s \in HotFilled => (HotWithoutOld(c).chunk[s] = d <=> hot.chunk[s] = d /\ d # c)
        BY WithoutOldHot
      <4>3. map[d] = DRAMHotLog(s) <=> s \in HotFilled /\ hot.chunk[s] = d
        BY DEF HotBuf
      <4>4. map'[c] # DRAMHotLog(s)
        BY <1>m, <3>2, DramLemma
      <4>5. QED
        BY <1>m, <4>1, <4>2, <4>3, <4>4
    <3>3. QED
      BY <3>1, <3>2
  <2>2. ASSUME trims = "none", hot'.allValid, NEW s \in HotFilled' PROVE hot'.chunk[s] # None
    <3>1. hot.allValid /\ HotWithoutOld(c).chunk = hot.chunk
      BY <1>e, <2>2, WithoutOldHot
    <3>2. s # hot.ptr => s \in HotFilled /\ s \in Slots /\ hot.chunk[s] # None
      BY <1>f, <2>2, <3>1 DEF HotBuf, HotFilled
    <3>3. s \in Slots /\ c # None
      BY <1>f, <3>2, SizeLemma
    <3>4. QED
      BY <1>e, <1>h, <3>1, <3>2, <3>3
  <2>3. pc' \notin {"advanceHot", "findHot"} /\ (pc' = "flushHot" => hot'.ptr = 0)
    BY <1>e
  <2>4. QED
    BY <1>f, <2>1, <2>2, <2>3 DEF HotBuf
<1>3. ColdBuf'
  <2>1. pc' # "flushCold" /\ cold'.ptr = cold.ptr /\ cold'.recycled = cold.recycled
    BY <1>e, WithoutOldType
  <2>2. ColdFilled' = ColdFilled /\ ColdFilled \subseteq Slots
    BY <1>e, <2>1 DEF ColdFilled
  <2>3. ASSUME NEW d \in Chunks, NEW s \in Slots
        PROVE  map'[d] = DRAMColdLog(s) <=> s \in ColdFilled' /\ cold'.chunk[s] = d
    <3>1. map[d] = DRAMColdLog(s) <=> s \in ColdFilled /\ cold.chunk[s] = d
      BY DEF ColdBuf
    <3>2. s \in ColdFilled => (cold'.chunk[s] = d <=> cold.chunk[s] = d /\ d # c)
      BY <1>e, WithoutOldCold
    <3>3. map'[c] # DRAMColdLog(s)
      BY <1>m, DramLemma
    <3>4. QED
      BY <1>m, <2>2, <3>1, <3>2, <3>3
  <2>4. ASSUME cold'.allValid, NEW s \in ColdFilled' PROVE cold'.chunk[s] # None
    <3>1. cold.allValid /\ cold'.chunk = cold.chunk
      BY <1>e, <2>4, WithoutOldCold
    <3>2. QED
      BY <2>2, <2>4, <3>1 DEF ColdBuf
  <2>5. QED
    BY <2>1, <2>3, <2>4 DEF ColdBuf
<1>4. Uniform' /\ HotPos' /\ Stored' /\ TopMatches' /\ PageRead' /\ Ahead'
  <2>1. cold'.list = cold.list /\ pc' # "advanceHot"
    BY <1>e, WithoutOldType
  <2>2. QED
    BY <1>e, <2>1, WriteRest, DramLemma
<1>5. QED
  BY <1>1, <1>2, <1>3, <1>4

\* The cold buffer after chunk c was put in it; kept is what it held without c.
LEMMA ColdBufFilled ==
    ASSUME TypeInv, ColdBuf, pc # "flushCold", pc' = "flushCold" <=> cold'.ptr = 0,
           cold'.ptr = (cold.ptr + 1) % S, ~cold'.recycled, NEW c \in Chunks,
           map' = [map EXCEPT ![c] = DRAMColdLog(cold.ptr)],
           NEW kept \in [Slots -> Chunks \cup {None}], cold'.chunk = [kept EXCEPT ![cold.ptr] = c],
           \A s \in ColdFilled, d \in Chunks : kept[s] = d <=> cold.chunk[s] = d /\ d # c,
           cold'.allValid => cold.allValid /\ kept = cold.chunk
    PROVE  ColdBuf' /\ \A d \in Chunks : map[d] # DRAMColdLog(cold.ptr)
<1>f. ColdFilled' = ColdFilled \cup {cold.ptr} /\ cold.ptr \notin ColdFilled /\ cold.ptr \in Slots
  BY FilledCold
<1>m. map'[c] = DRAMColdLog(cold.ptr) /\ \A d \in Chunks \ {c} : map'[d] = map[d]
  BY DEF TypeInv, MapOK
<1>1. \A d \in Chunks : map[d] # DRAMColdLog(cold.ptr)
  BY <1>f DEF ColdBuf
<1>2. ASSUME NEW d \in Chunks, NEW s \in Slots
      PROVE  map'[d] = DRAMColdLog(s) <=> s \in ColdFilled' /\ cold'.chunk[s] = d
  <2>1. CASE s = cold.ptr
    <3>1. cold'.chunk[s] = c
      BY <2>1
    <3>2. QED
      BY <1>f, <1>m, <1>1, <2>1, <3>1
  <2>2. CASE s # cold.ptr
    <3>1. cold'.chunk[s] = kept[s] /\ (s \in ColdFilled' <=> s \in ColdFilled)
      BY <1>f, <2>2
    <3>2. map[d] = DRAMColdLog(s) <=> s \in ColdFilled /\ cold.chunk[s] = d
      BY DEF ColdBuf
    <3>3. map'[c] # DRAMColdLog(s)
      BY <1>m, <2>2, DramLemma
    <3>4. QED
      BY <1>m, <3>1, <3>2, <3>3
  <2>3. QED
    BY <2>1, <2>2
<1>3. ASSUME cold'.allValid, NEW s \in ColdFilled' PROVE cold'.chunk[s] # None
  <2>1. cold.allValid /\ kept = cold.chunk
    BY <1>3
  <2>2. s # cold.ptr => s \in ColdFilled /\ s \in Slots /\ cold.chunk[s] # None
    BY <1>f, <1>3, <2>1 DEF ColdBuf, ColdFilled
  <2>3. c # None
    BY SizeLemma
  <2>4. QED
    BY <1>f, <2>1, <2>2, <2>3
<1>4. pc' = "flushCold" => cold'.ptr = 0
  OBVIOUS
<1>5. QED
  BY <1>1, <1>2, <1>3, <1>4 DEF ColdBuf

LEMMA WriteColdPlaces ==
    ASSUME NEW trims, Running(trims), NEW c \in Chunks, WriteCold(c)
    PROVE  Places(trims)'
<1>. USE DEF Running, Places
<1>e. /\ pc = "idle" /\ pc' = IF cold'.ptr = 0 THEN "flushCold" ELSE "idle"
      /\ hot' = HotWithoutOld(c) /\ gc' = GcWithoutOld(c)
      /\ map' = [map EXCEPT ![c] = DRAMColdLog(cold.ptr)]
      /\ latest' = Written(c, DRAMColdLog(cold.ptr))
      /\ cold'.chunk = [ColdWithoutOld(c).chunk EXCEPT ![cold.ptr] = c]
      /\ cold'.ptr = (cold.ptr + 1) % S
      /\ cold'.allValid = ColdWithoutOld(c).allValid
      /\ ~cold'.recycled /\ cold'.list = cold.list
  BY WriteColdEffect DEF ColdBuf
<1>m. /\ map'[c] = DRAMColdLog(cold.ptr) /\ \A d \in Chunks \ {c} : map'[d] = map[d]
      /\ map \in [Chunks -> Address]
  BY <1>e DEF TypeInv, MapOK
<1>h. ColdWithoutOld(c).chunk \in [Slots -> Chunks \cup {None}]
  BY WithoutOldType, LogFields
<1>2. ColdBuf' /\ \A d \in Chunks : map[d] # DRAMColdLog(cold.ptr)
  <2>1. PICK kept \in [Slots -> Chunks \cup {None}] : kept = ColdWithoutOld(c).chunk
    BY <1>h
  <2>2. /\ \A s \in ColdFilled, d \in Chunks : kept[s] = d <=> cold.chunk[s] = d /\ d # c
        /\ cold'.allValid => cold.allValid /\ kept = cold.chunk
    BY <1>e, <2>1, WithoutOldCold
  <2>3. pc # "flushCold" /\ (pc' = "flushCold" <=> cold'.ptr = 0)
    BY <1>e
  <2>4. QED
    BY <1>e, <2>1, <2>2, <2>3, ColdBufFilled
<1>1. NewestData' /\ NoSharedPlace'
  <2>1. /\ DRAMColdLog(cold.ptr) \in latest'[c]
        /\ \A d \in Chunks \ {c} : latest[d] \ {DRAMColdLog(cold.ptr)} \subseteq latest'[d]
    BY <1>e DEF Written
  <2>2. QED
    BY <1>e, <1>2, <2>1, MovedTo, DramLemma
<1>3. HotBuf(trims)'
  <2>1. /\ pc' \in {"idle", "flushCold"} /\ hot'.ptr = hot.ptr /\ hot'.recycled = hot.recycled
    BY <1>e, WithoutOldType
  <2>2. HotFilled' = HotFilled /\ HotFilled \subseteq Slots /\ Width' = Width
    BY <1>e, <2>1 DEF HotFilled, Width
  <2>3. ASSUME NEW d \in Chunks, NEW s \in Slots
        PROVE  map'[d] = DRAMHotLog(s) <=> s \in HotFilled' /\ hot'.chunk[s] = d
    <3>1. map[d] = DRAMHotLog(s) <=> s \in HotFilled /\ hot.chunk[s] = d
      BY DEF HotBuf
    <3>2. s \in HotFilled => (hot'.chunk[s] = d <=> hot.chunk[s] = d /\ d # c)
      BY <1>e, WithoutOldHot
    <3>3. map'[c] # DRAMHotLog(s)
      BY <1>m, DramLemma
    <3>4. QED
      BY <1>m, <2>2, <3>1, <3>2, <3>3
  <2>4. ASSUME trims = "none", hot'.allValid, NEW s \in HotFilled' PROVE hot'.chunk[s] # None
    <3>1. hot.allValid /\ hot'.chunk = hot.chunk
      BY <1>e, <2>4, WithoutOldHot
    <3>2. QED
      BY <2>2, <2>4, <3>1 DEF HotBuf
  <2>5. QED
    BY <2>1, <2>2, <2>3, <2>4 DEF HotBuf
<1>4. Uniform' /\ HotPos' /\ Stored' /\ TopMatches' /\ PageRead' /\ Ahead'
  <2>1. /\ hot'.list = hot.list /\ hot'.recycled = hot.recycled /\ hot'.nextLow = hot.nextLow
        /\ pc' # "advanceHot"
    BY <1>e, WithoutOldType
  <2>2. QED
    BY <1>e, <2>1, WriteRest, DramLemma
<1>5. QED
  BY <1>1, <1>2, <1>3, <1>4

\* A chunk that goes to another bank leaves a hole where it was.
LEMMA MoveAwayPlaces ==
    ASSUME NEW trims, Running(trims), NEW c \in Chunks, MoveAway(c)
    PROVE  Places(trims)'
<1>. USE DEF Running, Places
<1>1. /\ pc = "idle" /\ pc' = "idle" /\ map' = [map EXCEPT ![c] = Invalid]
      /\ hot' = HotWithoutOld(c) /\ cold' = ColdWithoutOld(c) /\ gc' = GcWithoutOld(c)
      /\ latest' = [latest EXCEPT ![c] = {}]
  BY DEF MoveAway
<1>2. map'[c] = Invalid /\ \A d \in Chunks \ {c} : map'[d] = map[d]
  BY <1>1 DEF TypeInv, MapOK
<1>3. NewestData' /\ NoSharedPlace'
  <2>1. \A d \in Chunks \ {c} : latest'[d] = latest[d]
    BY <1>1 DEF TypeInv
  <2>2. NewestData'
    BY <1>2, <2>1 DEF NewestData
  <2>3. NoSharedPlace'
    BY <1>2 DEF NoSharedPlace
  <2>4. QED
    BY <2>2, <2>3
<1>4. HotBuf(trims)'
  <2>1. hot'.ptr = hot.ptr /\ hot'.recycled = hot.recycled
    BY <1>1, WithoutOldType
  <2>2. HotFilled' = HotFilled /\ HotFilled \subseteq Slots /\ Width' = Width
    BY <1>1, <2>1 DEF HotFilled, Width
  <2>3. ASSUME NEW d \in Chunks, NEW s \in Slots
        PROVE  map'[d] = DRAMHotLog(s) <=> s \in HotFilled' /\ hot'.chunk[s] = d
    <3>1. map[d] = DRAMHotLog(s) <=> s \in HotFilled /\ hot.chunk[s] = d
      BY DEF HotBuf
    <3>2. s \in HotFilled => (hot'.chunk[s] = d <=> hot.chunk[s] = d /\ d # c)
      BY <1>1, WithoutOldHot
    <3>3. map'[c] # DRAMHotLog(s)
      BY <1>2, DramLemma
    <3>4. QED
      BY <1>2, <2>2, <3>1, <3>2, <3>3
  <2>4. ASSUME trims = "none", hot'.allValid, NEW s \in HotFilled' PROVE hot'.chunk[s] # None
    <3>1. hot.allValid /\ hot'.chunk = hot.chunk
      BY <1>1, <2>4, WithoutOldHot
    <3>2. QED
      BY <2>2, <2>4, <3>1 DEF HotBuf
  <2>5. QED
    BY <1>1, <2>1, <2>2, <2>3, <2>4 DEF HotBuf
<1>5. ColdBuf'
  <2>1. cold'.ptr = cold.ptr /\ cold'.recycled = cold.recycled
    BY <1>1, WithoutOldType
  <2>2. ColdFilled' = ColdFilled /\ ColdFilled \subseteq Slots
    BY <1>1, <2>1 DEF ColdFilled
  <2>3. ASSUME NEW d \in Chunks, NEW s \in Slots
        PROVE  map'[d] = DRAMColdLog(s) <=> s \in ColdFilled' /\ cold'.chunk[s] = d
    <3>1. map[d] = DRAMColdLog(s) <=> s \in ColdFilled /\ cold.chunk[s] = d
      BY DEF ColdBuf
    <3>2. s \in ColdFilled => (cold'.chunk[s] = d <=> cold.chunk[s] = d /\ d # c)
      BY <1>1, WithoutOldCold
    <3>3. map'[c] # DRAMColdLog(s)
      BY <1>2, DramLemma
    <3>4. QED
      BY <1>2, <2>2, <3>1, <3>2, <3>3
  <2>4. ASSUME cold'.allValid, NEW s \in ColdFilled' PROVE cold'.chunk[s] # None
    <3>1. cold.allValid /\ cold'.chunk = cold.chunk
      BY <1>1, <2>4, WithoutOldCold
    <3>2. QED
      BY <2>2, <2>4, <3>1 DEF ColdBuf
  <2>5. QED
    BY <1>1, <2>1, <2>2, <2>3, <2>4 DEF ColdBuf
<1>6. Uniform' /\ HotPos' /\ Stored' /\ TopMatches' /\ PageRead' /\ Ahead'
  <2>1. /\ hot'.list = hot.list /\ cold'.list = cold.list /\ hot'.recycled = hot.recycled
        /\ hot'.nextLow = hot.nextLow /\ pc' # "advanceHot"
    BY <1>1, WithoutOldType
  <2>2. QED
    BY <1>1, <2>1, WriteRest, DramLemma
<1>7. QED
  BY <1>3, <1>4, <1>5, <1>6

\* The collector puts the next valid chunk of the page in the cold buffer, or
\* passes over a slot whose chunk was written since.
LEMMA CopyChunkEffect ==
    ASSUME NEW trims, Running(trims), CopyChunk
    PROVE  \E s \in gc.valid, c \in Chunks :
              /\ c = SlotChunk(s) /\ gc.state = "write"
              /\ gc'.state = gc.state /\ gc'.victim = gc.victim /\ gc'.page = gc.page
              /\ gc'.encoded = gc.encoded /\ gc'.valid = gc.valid \ {s}
              /\ \/ /\ map[c] = PlaceOf(gc.victim, gc.page, s, gc.encoded)
                    /\ cold' = Buffered(cold, c) /\ map' = [map EXCEPT ![c] = DRAMColdLog(cold.ptr)]
                    /\ latest' = Copied(c, map[c], DRAMColdLog(cold.ptr))
                    /\ pc' = IF cold'.ptr = 0 THEN "flushCold" ELSE "copy"
                    /\ gc'.inBlk = gc.inBlk /\ gc'.fromHeap = gc.fromHeap
                 \/ /\ map[c] # PlaceOf(gc.victim, gc.page, s, gc.encoded)
                    /\ UNCHANGED <<cold, map, latest>> /\ pc' = "copy"
                    /\ gc'.inBlk = gc.inBlk - 1 /\ gc'.fromHeap = gc.fromHeap
<1>1. gc \in GcType /\ gc.state = "write" /\ gc.valid \subseteq Slots /\ gc.valid # {} /\ pc = "copy"
  BY DEF Running, TypeInv, GcOK, GcType, CopyChunk
<1>2. \E t \in gc.valid : \A u \in gc.valid : t <= u
  <2>1. gc.valid \subseteq 0..(S - 1) /\ S - 1 \in Nat
    BY <1>1, SizeLemma DEF Slots
  <2>2. QED
    BY <1>1, <2>1, LeastElement
<1>3. PICK s \in gc.valid : s = CHOOSE t \in gc.valid : \A u \in gc.valid : t <= u
  BY <1>2
<1>4. PICK c : c = SlotChunk(s)
  OBVIOUS
<1>5. c \in Chunks
  BY <1>1, <1>4 DEF Running, Places, PageRead
<1>6. Top.blk = gc.victim /\ Top.page = gc.page /\ Top.encoded = gc.encoded
  BY <1>1 DEF Running, Places, TopMatches, Reserve
<1>7. PICK done : done = [gc EXCEPT !.valid = @ \ {s}]
  OBVIOUS
<1>8. IF map[c] = PlaceOf(gc.victim, gc.page, s, gc.encoded)
      THEN /\ gc' = done
           /\ cold' = Buffered(cold, c)
           /\ map' = [map EXCEPT ![c] = DRAMColdLog(cold.ptr)]
           /\ latest' = Copied(c, PlaceOf(gc.victim, gc.page, s, gc.encoded), DRAMColdLog(cold.ptr))
           /\ pc' = IF cold'.ptr = 0 THEN "flushCold" ELSE "copy"
      ELSE /\ gc' = [done EXCEPT !.inBlk = @ - 1]
           /\ UNCHANGED <<cold, map, latest, pc>>
  BY <1>3, <1>4, <1>6, <1>7 DEF CopyChunk, Goto
<1>9. /\ gc'.state = gc.state /\ gc'.victim = gc.victim /\ gc'.page = gc.page
      /\ gc'.encoded = gc.encoded /\ gc'.valid = gc.valid \ {s} /\ gc'.fromHeap = gc.fromHeap
      /\ gc'.inBlk = IF map[c] = PlaceOf(gc.victim, gc.page, s, gc.encoded) THEN gc.inBlk
                     ELSE gc.inBlk - 1
  BY <1>1, <1>7, <1>8 DEF GcType
<1>10. QED
  BY <1>1, <1>4, <1>5, <1>8, <1>9

LEMMA CopyChunkPlaces ==
    ASSUME NEW trims, Running(trims), CopyChunk
    PROVE  Places(trims)'
<1>. USE DEF Running, Places
<1>1. PICK s \in gc.valid, c \in Chunks :
              /\ c = SlotChunk(s) /\ gc.state = "write"
              /\ gc'.state = gc.state /\ gc'.victim = gc.victim /\ gc'.page = gc.page
              /\ gc'.encoded = gc.encoded /\ gc'.valid = gc.valid \ {s}
              /\ \/ /\ map[c] = PlaceOf(gc.victim, gc.page, s, gc.encoded)
                    /\ cold' = Buffered(cold, c) /\ map' = [map EXCEPT ![c] = DRAMColdLog(cold.ptr)]
                    /\ latest' = Copied(c, map[c], DRAMColdLog(cold.ptr))
                    /\ pc' = IF cold'.ptr = 0 THEN "flushCold" ELSE "copy"
                 \/ /\ map[c] # PlaceOf(gc.victim, gc.page, s, gc.encoded)
                    /\ UNCHANGED <<cold, map, latest>> /\ pc' = "copy"
  BY CopyChunkEffect
<1>2. pc = "copy" /\ UNCHANGED <<hot, heap, clean, lists, frames>> /\ gc.encoded \in BOOLEAN
  BY DEF CopyChunk, TypeInv, GcOK, GcType
<1>3. TopMatches' /\ PageRead'
  BY <1>1, <1>2, TopKept, PageReadKept
<1>4. Ahead'
  <2>1. SUFFICES ASSUME NEW d \in Chunks, InBlk(map'[d], gc.victim)
                 PROVE  map'[d].page >= gc.page /\ (map'[d].page = gc.page => map'[d].slot \in gc.valid \ {s})
    BY <1>1 DEF Ahead, AheadAt, InBlk, InFlash
  <2>2. map'[d] = map[d] /\ (d = c => map[c] # PlaceOf(gc.victim, gc.page, s, gc.encoded))
    <3>1. ~InFlash(DRAMColdLog(cold.ptr))
      BY DramLemma
    <3>2. QED
      BY <1>1, <2>1, <3>1 DEF TypeInv, MapOK, InBlk
  <2>3. map[d].page >= gc.page /\ (map[d].page = gc.page => map[d].slot \in gc.valid)
    BY <1>1, <2>1, <2>2 DEF Ahead, AheadAt
  <2>4. ASSUME map[d].page = gc.page, map[d].slot = s PROVE FALSE
    <3>1. /\ VictimEntry(gc.page, s).chunk = d
          /\ map[d] = PlaceOf(gc.victim, gc.page, s, IsEncoded(gc.page))
      BY <1>1, <2>1, <2>2, <2>4, OnPage
    <3>2. d = c /\ gc.encoded = IsEncoded(gc.page)
      BY <1>1, <3>1 DEF SlotChunk, PageRead
    <3>3. QED
      BY <2>2, <3>1, <3>2
  <2>5. QED
    BY <2>2, <2>3, <2>4
<1>5. CASE UNCHANGED <<cold, map, latest>> /\ pc' = "copy"
  <2>1. NewestData' /\ NoSharedPlace' /\ Uniform'
    BY <1>2, <1>5, NewestKept, UniformKept
  <2>2. HotBuf(trims)' /\ ColdBuf' /\ HotPos'
    BY <1>2, <1>5, HotBufKept, ColdBufKept, HotPosKept
  <2>3. Stored'
    <3>1. KeepsRoles
      BY CollectorKeeps
    <3>2. \A p \in Pages : (HotDone(p) => HotDone(p)') /\ (ColdDone(p) => ColdDone(p)')
      BY <1>2, <1>5 DEF HotDone, ColdDone
    <3>3. QED
      BY <1>2, <1>5, <3>1, <3>2, AllStoredKept
  <2>4. QED
    BY <1>3, <1>4, <2>1, <2>2, <2>3
<1>6. CASE /\ map[c] = PlaceOf(gc.victim, gc.page, s, gc.encoded)
           /\ cold' = Buffered(cold, c) /\ map' = [map EXCEPT ![c] = DRAMColdLog(cold.ptr)]
           /\ latest' = Copied(c, map[c], DRAMColdLog(cold.ptr))
           /\ pc' = IF cold'.ptr = 0 THEN "flushCold" ELSE "copy"
  <2>1. cold \in LogType /\ cold.chunk \in [Slots -> Chunks \cup {None}]
    BY LogFields DEF TypeInv, ColdOK
  <2>2. /\ cold'.page = cold.page /\ cold'.list = cold.list /\ cold'.allValid = cold.allValid
        /\ cold'.chunk = [cold.chunk EXCEPT ![cold.ptr] = c] /\ ~cold'.recycled
        /\ cold'.ptr = (cold.ptr + 1) % S
    <3>1. /\ Buffered(cold, c).page = cold.page /\ Buffered(cold, c).list = cold.list
          /\ Buffered(cold, c).allValid = cold.allValid
          /\ Buffered(cold, c).chunk = [cold.chunk EXCEPT ![cold.ptr] = c]
          /\ Buffered(cold, c).recycled = cold.recycled
          /\ Buffered(cold, c).ptr = (cold.ptr + 1) % (IF cold.recycled THEN R ELSE S)
      BY <2>1, BufferedType
    <3>2. QED
      BY <1>6, <3>1 DEF ColdBuf
  <2>3. InFlash(map[c]) /\ map[c] # Invalid /\ \A t : map[c] # DRAMColdLog(t) /\ map[c] # DRAMHotLog(t)
    BY <1>2, <1>6, PlaceLemma
  <2>4. ColdBuf' /\ \A d \in Chunks : map[d] # DRAMColdLog(cold.ptr)
    <3>1. \A t \in ColdFilled, d \in Chunks : cold.chunk[t] = d <=> cold.chunk[t] = d /\ d # c
      BY <2>3 DEF ColdBuf, ColdFilled
    <3>2. pc # "flushCold" /\ (pc' = "flushCold" <=> cold'.ptr = 0)
      BY <1>2, <1>6
    <3>3. PICK kept \in [Slots -> Chunks \cup {None}] : kept = cold.chunk
      BY <2>1
    <3>4. QED
      BY <1>6, <2>2, <3>1, <3>2, <3>3, ColdBufFilled
  <2>5. NewestData' /\ NoSharedPlace'
    <3>1. map[c] \in latest[c]
      BY <2>3 DEF NewestData
    <3>2. /\ DRAMColdLog(cold.ptr) \in latest'[c]
          /\ \A d \in Chunks \ {c} : latest[d] \ {DRAMColdLog(cold.ptr)} \subseteq latest'[d]
      BY <1>6, <3>1 DEF Copied
    <3>3. QED
      BY <1>6, <2>4, <3>2, MovedTo, DramLemma
  <2>6. Uniform' /\ HotPos'
    BY <1>2, <1>6, <2>2, UniformKept, HotPosKept
  <2>7. map'[c] = DRAMColdLog(cold.ptr) /\ \A d \in Chunks \ {c} : map'[d] = map[d]
    BY <1>6 DEF TypeInv, MapOK
  <2>8. HotBuf(trims)'
    <3>1. \A d \in Chunks : map'[d] = map[d] \/ (map[d].at # "DRAMHotLog" /\ map'[d].at # "DRAMHotLog")
      BY <2>3, <2>7, DramLemma DEF InFlash
    <3>2. QED
      BY <1>2, <1>6, <3>1, HotBufKept
  <2>9. Stored'
    <3>1. KeepsRoles
      BY CollectorKeeps
    <3>2. \A p \in Pages : (HotDone(p) => HotDone(p)') /\ (ColdDone(p) => ColdDone(p)')
      BY <1>2, <1>6, <2>2 DEF HotDone, ColdDone
    <3>3. \A d \in Chunks : map'[d] = map[d] \/ ~InFlash(map'[d])
      BY <2>7, DramLemma
    <3>4. QED
      BY <1>2, <2>2, <3>1, <3>2, <3>3, AllStoredKept
  <2>10. QED
    BY <1>3, <1>4, <2>4, <2>5, <2>6, <2>8, <2>9
<1>7. QED
  BY <1>1, <1>5, <1>6

----------------------------------------------------------------------------
(* Pages that are programmed.                                              *)

\* The slot of the n first ones of a page that holds chunk c.
SlotOf(ch, n, c) == CHOOSE s \in 0..(n - 1) : ch[s] = c

\* Page p of block b is programmed with the chunks ch, which were at the places buf;
\* nothing is on that page before.
LEMMA Programmed ==
    ASSUME NewestData, NoSharedPlace, NEW n, NEW ch, NEW buf, NEW b, NEW p, NEW e \in BOOLEAN,
           \A s \in 0..(n - 1) : buf[s] # Invalid,
           \A s \in 0..(n - 1), c \in Chunks : map[c] = buf[s] <=> ch[s] = c,
           \A c \in Chunks : ~InPage(map[c], b, p),
           \A c \in Chunks :
              map'[c] = IF \E s \in 0..(n - 1) : ch[s] = c
                        THEN PlaceOf(b, p, SlotOf(ch, n, c), e) ELSE map[c],
           latest' = AfterProgram(buf, n, e, b, p)
    PROVE  /\ NewestData' /\ NoSharedPlace'
           /\ \A c \in Chunks :
                 \/ \E s \in 0..(n - 1) : ch[s] = c /\ map[c] = buf[s] /\ map'[c] = PlaceOf(b, p, s, e)
                 \/ map'[c] = map[c] /\ \A s \in 0..(n - 1) : ch[s] # c /\ map[c] # buf[s]
<1>1. ASSUME NEW c \in Chunks
      PROVE  \/ \E s \in 0..(n - 1) : ch[s] = c /\ map[c] = buf[s] /\ map'[c] = PlaceOf(b, p, s, e)
             \/ map'[c] = map[c] /\ \A s \in 0..(n - 1) : ch[s] # c /\ map[c] # buf[s]
  <2>1. CASE \E s \in 0..(n - 1) : ch[s] = c
    <3>1. PICK s \in 0..(n - 1) : s = SlotOf(ch, n, c) /\ ch[s] = c
      BY <2>1 DEF SlotOf
    <3>2. map'[c] = PlaceOf(b, p, s, e)
      BY <2>1, <3>1
    <3>3. QED
      BY <3>1, <3>2
  <2>2. CASE ~\E s \in 0..(n - 1) : ch[s] = c
    BY <2>2
  <2>3. QED
    BY <2>1, <2>2
<1>2. \A c \in Chunks : latest'[c] = {a \in latest[c] : ~InPage(a, b, p)}
                      \cup {PlaceOf(b, p, s, e) : s \in {t \in 0..(n - 1) : buf[t] \in latest[c]}}
  BY DEF AfterProgram
<1>3. NewestData'
  <2>1. SUFFICES ASSUME NEW c \in Chunks, map'[c] # Invalid PROVE map'[c] \in latest'[c]
    BY DEF NewestData
  <2>2. CASE \E s \in 0..(n - 1) : ch[s] = c /\ map[c] = buf[s] /\ map'[c] = PlaceOf(b, p, s, e)
    <3>1. PICK s \in 0..(n - 1) : map[c] = buf[s] /\ map'[c] = PlaceOf(b, p, s, e)
      BY <2>2
    <3>2. buf[s] \in latest[c]
      BY <3>1 DEF NewestData
    <3>3. QED
      BY <1>2, <3>1, <3>2
  <2>3. CASE map'[c] = map[c]
    BY <1>2, <2>1, <2>3 DEF NewestData
  <2>4. QED
    BY <1>1, <2>2, <2>3
<1>4. NoSharedPlace'
  <2>1. ASSUME NEW c \in Chunks, NEW d \in Chunks, map'[c] = map'[d], map'[c] # Invalid,
               NEW s \in 0..(n - 1), ch[s] = c, map'[c] = PlaceOf(b, p, s, e)
        PROVE  c = d
    <3>1. InPage(map'[d], b, p)
      BY <2>1, PlaceLemma
    <3>2. map'[d] # map[d]
      BY <3>1
    <3>3. PICK t \in 0..(n - 1) : ch[t] = d /\ map'[d] = PlaceOf(b, p, t, e)
      BY <1>1, <3>2
    <3>4. PlaceOf(b, p, s, e).slot = s /\ PlaceOf(b, p, t, e).slot = t
      BY PlaceLemma
    <3>5. PlaceOf(b, p, s, e) = PlaceOf(b, p, t, e)
      BY <2>1, <3>3
    <3>6. s = t
      BY <3>4, <3>5
    <3>7. QED
      BY <2>1, <3>3, <3>6
  <2>2. SUFFICES ASSUME NEW c \in Chunks, NEW d \in Chunks, map'[c] = map'[d], map'[c] # Invalid
                 PROVE  c = d
    BY DEF NoSharedPlace
  <2>3. CASE map'[c] = map[c] /\ map'[d] = map[d]
    <3>1. map[c] = map[d] /\ map[c] # Invalid
      BY <2>2, <2>3
    <3>2. QED
      BY <3>1, Zenon DEF NoSharedPlace
  <2>4. CASE map'[c] # map[c]
    BY <1>1, <2>1, <2>2, <2>4
  <2>5. CASE map'[d] # map[d]
    BY <1>1, <2>1, <2>2, <2>5
  <2>6. QED
    BY <2>3, <2>4, <2>5
<1>5. QED
  BY <1>1, <1>3, <1>4

\* The map after a flush, with every slot of the page.
LEMMA MapFlushed ==
    ASSUME NEW log \in LogType, NEW n, NEW e, NEW c \in Chunks
    PROVE  MapAfterFlush(log, n, e)[c] =
              IF \E s \in 0..(n - 1) : log.chunk[s] = c
              THEN PlaceOf(log.blk, log.page, SlotOf(log.chunk, n, c), e) ELSE map[c]
<1>1. c # None
  BY SizeLemma
<1>2. (\E s \in Held(log, n) : log.chunk[s] = c) <=> \E s \in 0..(n - 1) : log.chunk[s] = c
  BY <1>1 DEF Held
<1>3. (CHOOSE s \in Held(log, n) : log.chunk[s] = c) = SlotOf(log.chunk, n, c)
  <2>1. \A s : (s \in Held(log, n) /\ log.chunk[s] = c) <=> (s \in 0..(n - 1) /\ log.chunk[s] = c)
    BY <1>1 DEF Held
  <2>2. QED
    BY <2>1 DEF SlotOf
<1>4. QED
  BY <1>2, <1>3 DEF MapAfterFlush

\* Nothing is on the page a log is about to program.
LEMMA HotPageFree ==
    ASSUME TypeInv, Stored, HotPos, pc = "flushHot", hot.recycled => hot.nextLow = hot.page
    PROVE  \A c \in Chunks : ~InPage(map[c], hot.blk, hot.page)
<1>1. SUFFICES ASSUME NEW c \in Chunks, InPage(map[c], hot.blk, hot.page) PROVE FALSE
  OBVIOUS
<1>2. /\ InFlash(map[c]) /\ map[c].blk = hot.blk /\ map[c].page = hot.page
      /\ map[c].slot \in Slots /\ hot.page \in Nat
  BY <1>1, MapTypes, PartsLemma, LogFields, SizeLemma DEF InPage, InBlk, TypeInv, HotOK
<1>3. ~HotDone(map[c].page)
  BY <1>2 DEF HotDone
<1>4. hot.second /\ LowPage(hot.page) /\ NamedBy(hot.list, c, map[c])
  BY <1>2, <1>3 DEF Stored, StoredAt, FirstUsage
<1>5. hot.recycled
  BY <1>2, <1>4 DEF HotPos, LowPage
<1>6. hot.list[hot.page] = EmptyPage
  <2>1. hot.nextLow = hot.page /\ hot.nextLow # None
    BY <1>2, <1>5, SizeLemma
  <2>2. QED
    BY <1>4, <2>1 DEF HotPos
<1>7. QED
  BY <1>2, <1>4, <1>6, SizeLemma DEF NamedBy, EmptyPage, NoEntry

LEMMA ColdPageFree ==
    ASSUME TypeInv, Stored, pc # "advanceCold"
    PROVE  \A c \in Chunks : ~InPage(map[c], cold.blk, cold.page)
<1>1. SUFFICES ASSUME NEW c \in Chunks, InPage(map[c], cold.blk, cold.page) PROVE FALSE
  OBVIOUS
<1>2. ColdDone(cold.page) /\ cold.page \in Nat
  BY <1>1, LogFields, SizeLemma DEF InPage, InBlk, Stored, StoredAt, TypeInv, ColdOK
<1>3. QED
  BY <1>2 DEF ColdDone

\* The data of the page the hot log programmed is stored, and the rest stays so.
LEMMA HotStored ==
    ASSUME TypeInv, RoleInv, Partition, Stored, Uniform, KeepsRoles, HotPos,
           pc = "flushHot", pc' = "advanceHot", hot.recycled => hot.nextLow = hot.page,
           hot'.page = hot.page, hot'.second = hot.second, hot'.nextLow = hot.nextLow,
           NEW page, UniformPage(page), hot'.list = [hot.list EXCEPT ![hot.page] = page],
           NEW n \in 0..S, NEW ch,
           \A s \in 0..(n - 1), c \in Chunks :
              ch[s] = c => page[s] = [chunk |-> c, encoded |-> hot.recycled],
           UNCHANGED <<cold, gc>>, \A d \in Blks : d = hot.blk \/ lists'[d] = lists[d],
           UniformList(lists'[hot.blk].low), UniformList(lists'[hot.blk].high),
           \A c \in Chunks :
              \/ \E s \in 0..(n - 1) : ch[s] = c /\ map'[c] = PlaceOf(hot.blk, hot.page, s, hot.recycled)
              \/ map'[c] = map[c]
    PROVE  Uniform' /\ HotPos' /\ Stored'
<1>1. /\ hot.list \in [Pages -> PageType] /\ hot.page \in Pages /\ hot.page \in Nat /\ hot.blk \in Blks
      /\ hot.recycled \in BOOLEAN /\ hot.nextLow \in Pages \cup {None}
      /\ cold.list \in [Pages -> PageType]
  BY LogFields, ListsLemma, SizeLemma DEF TypeInv, HotOK, ColdOK
<1>2. Uniform'
  <2>1. UniformList(hot'.list)
    BY <1>1, UniformLemma DEF Uniform
  <2>2. UniformList(cold'.list)
    BY DEF Uniform
  <2>3. \A d \in Blks : UniformList(lists'[d].low) /\ UniformList(lists'[d].high)
    BY DEF Uniform
  <2>4. QED
    BY <2>1, <2>2, <2>3 DEF Uniform, UniformList
<1>3. HotPos'
  <2>1. SUFFICES ASSUME hot.second, hot.nextLow # None
                 PROVE  /\ LowPage(hot.nextLow)
                        /\ \/ hot.nextLow <= hot.page
                           \/ hot.nextLow = hot.page + 1 /\ hot.page % 2 = 0 /\ hot.page > 0
                        /\ hot.nextLow > hot.page => hot'.list[hot.nextLow] = EmptyPage
    BY DEF HotPos
  <2>2. hot.nextLow > hot.page => hot.list[hot.nextLow] = EmptyPage
    BY <2>1 DEF HotPos
  <2>3. hot.nextLow \in Nat /\ hot.nextLow \in Pages
    BY <1>1, <2>1, SizeLemma
  <2>4. hot.nextLow > hot.page => hot'.list[hot.nextLow] = hot.list[hot.nextLow]
    BY <1>1, <2>3
  <2>5. QED
    BY <2>1, <2>2, <2>4 DEF HotPos
<1>4. Stored'
  <2>1. SUFFICES ASSUME NEW c \in Chunks PROVE StoredAt(c, map[c])'
    BY DEF Stored
  <2>2. CASE \E s \in 0..(n - 1) : ch[s] = c /\ map'[c] = PlaceOf(hot.blk, hot.page, s, hot.recycled)
    <3>1. PICK s \in 0..(n - 1) : ch[s] = c /\ map'[c] = PlaceOf(hot.blk, hot.page, s, hot.recycled)
      BY <2>2
    <3>2. PICK a : a = map'[c]
      OBVIOUS
    <3>3. /\ InFlash(a) /\ a.blk = hot.blk /\ a.page = hot.page /\ a.slot = s
          /\ a.at = IF hot.recycled THEN "FlashWLogEncoded" ELSE "FlashWLog"
      BY <1>1, <3>1, <3>2, PlaceLemma
    <3>4. hot'.list[a.page] = page
      BY <1>1, <3>3
    <3>5. NamedBy(hot.list, c, a)'
      <4>1. page[s] = [chunk |-> c, encoded |-> hot.recycled]
        BY <3>1
      <4>2. (a.at = "FlashWLogEncoded") = hot.recycled
        BY <1>1, <3>3
      <4>3. hot'.list[a.page][a.slot] = [chunk |-> c, encoded |-> a.at = "FlashWLogEncoded"]
        BY <3>3, <3>4, <4>1, <4>2
      <4>4. QED
        BY <4>3 DEF NamedBy
    <3>6. /\ hot.blk \notin CleanBlks' /\ hot.blk \notin heap'["first"].in
          /\ hot.blk \notin heap'["second"].in \cup heap'["cold"].in /\ hot.blk # cold'.blk
      BY DEF KeepsRoles, Partition, InHeaps, CleanBlks, Heaps
    <3>7. HotDone(a.page)'
      BY <1>1, <3>3 DEF HotDone
    <3>8. ~hot'.second => FirstUsage(a)
      BY <3>3 DEF FirstUsage, TypeInv, HotOK
    <3>9. StoredAt(c, a)'
      BY <3>3, <3>5, <3>6, <3>7, <3>8 DEF StoredAt, FirstUsage, KeepsRoles
    <3>10. QED
      BY <3>2, <3>9 DEF StoredAt, FirstUsage, NamedBy
  <2>3. CASE map'[c] = map[c]
    <3>1. PICK a \in Address : a = map[c] /\ map'[c] = a
      BY <2>3, MapTypes
    <3>2. StoredAt(c, a)
      BY <3>1 DEF Stored
    <3>3. ~InPage(a, hot.blk, hot.page)
      BY <3>1, HotPageFree
    <3>4. InFlash(a) =>
            /\ a.blk = hot.blk => hot'.list[a.page] = hot.list[a.page]
            /\ a.blk \in Blks /\ a.page \in Pages
      BY <1>1, <3>3, PartsLemma, SizeLemma DEF InPage, InBlk
    <3>5. InFlash(a) /\ a.blk \in heap["first"].in \cup heap["second"].in \cup heap["cold"].in =>
             lists'[a.blk] = lists[a.blk]
      BY <3>4 DEF Partition, InHeaps
    <3>6. (HotDone(a.page) => HotDone(a.page)') /\ (ColdDone(a.page) => ColdDone(a.page)')
      BY DEF HotDone, ColdDone
    <3>7. StoredAt(c, a)'
      BY <3>2, <3>4, <3>5, <3>6, StoredKept
    <3>8. QED
      BY <3>1, <3>7 DEF StoredAt, FirstUsage, NamedBy
  <2>4. QED
    BY <2>2, <2>3
<1>5. QED
  BY <1>2, <1>3, <1>4

\* A flush of the hot buffer, to a page as it is or to an encoded one.
LEMMA HotFlushed ==
    ASSUME NEW trims, Running(trims), KeepsRoles,
           pc = "flushHot", pc' = "advanceHot", hot.recycled => hot.nextLow = hot.page,
           map' = MapAfterFlush(hot, Width, hot.recycled),
           latest' = AfterProgram(HotBuffer, Width, hot.recycled, hot.blk, hot.page),
           hot'.page = hot.page, hot'.second = hot.second, hot'.nextLow = hot.nextLow,
           hot'.ptr = hot.ptr,
           NEW page, UniformPage(page), hot'.list = [hot.list EXCEPT ![hot.page] = page],
           \A s \in 0..(Width - 1), c \in Chunks :
              hot.chunk[s] = c => page[s] = [chunk |-> c, encoded |-> hot.recycled],
           UNCHANGED <<cold, gc, frames>>, \A d \in Blks : d = hot.blk \/ lists'[d] = lists[d],
           UniformList(lists'[hot.blk].low), UniformList(lists'[hot.blk].high)
    PROVE  /\ Places(trims)'
           /\ \A c \in Chunks : \/ \E s \in 0..(Width - 1) : hot.chunk[s] = c /\ InBlk(map'[c], hot.blk)
                                                             /\ ~InFlash(map[c])
                                \/ map'[c] = map[c] /\ \A s \in 0..(Width - 1) : hot.chunk[s] # c
<1>. USE DEF Running, Places
<1>1. /\ Width \in Nat /\ Width \in 0..S /\ 0..(Width - 1) \subseteq Slots
      /\ HotFilled = 0..(Width - 1) /\ hot.recycled \in BOOLEAN
  <2>1. Width \in Nat /\ Width \in 0..S /\ 0..(Width - 1) \subseteq Slots
    BY SizeLemma DEF Width, Slots
  <2>2. HotFilled = {s \in Slots : s < Width}
    BY DEF HotFilled
  <2>3. \A s \in Slots : s < Width <=> s \in 0..(Width - 1)
    BY <2>1, SizeLemma DEF Slots
  <2>4. hot.recycled \in BOOLEAN
    BY LogFields DEF TypeInv, HotOK
  <2>5. QED
    BY <2>1, <2>2, <2>3, <2>4
<1>2. \A s \in 0..(Width - 1) : HotBuffer[s] = DRAMHotLog(s)
  BY <1>1 DEF HotBuffer
<1>3. \A s \in 0..(Width - 1), c \in Chunks : map[c] = HotBuffer[s] <=> hot.chunk[s] = c
  BY <1>1, <1>2 DEF HotBuf
<1>4. \A c \in Chunks : ~InPage(map[c], hot.blk, hot.page)
  BY HotPageFree
<1>5. \A s \in 0..(Width - 1) : HotBuffer[s] # Invalid
  BY <1>2, DramLemma
<1>6. \A c \in Chunks : map'[c] =
         IF \E s \in 0..(Width - 1) : hot.chunk[s] = c
         THEN PlaceOf(hot.blk, hot.page, SlotOf(hot.chunk, Width, c), hot.recycled) ELSE map[c]
  <2>1. SUFFICES ASSUME NEW c \in Chunks
                 PROVE  map'[c] =
                          IF \E s \in 0..(Width - 1) : hot.chunk[s] = c
                          THEN PlaceOf(hot.blk, hot.page, SlotOf(hot.chunk, Width, c), hot.recycled)
                          ELSE map[c]
    OBVIOUS
  <2>2. hot \in LogType
    BY DEF TypeInv, HotOK
  <2>3. QED
    BY <2>2, MapFlushed
<1>7. /\ NewestData' /\ NoSharedPlace'
      /\ \A c \in Chunks :
            \/ \E s \in 0..(Width - 1) : /\ hot.chunk[s] = c /\ map[c] = HotBuffer[s]
                                         /\ map'[c] = PlaceOf(hot.blk, hot.page, s, hot.recycled)
            \/ map'[c] = map[c] /\ \A s \in 0..(Width - 1) : hot.chunk[s] # c /\ map[c] # HotBuffer[s]
  <2>1. PICK n : n = Width
    OBVIOUS
  <2>2. PICK ch : ch = hot.chunk
    OBVIOUS
  <2>3. PICK buf : buf = HotBuffer
    OBVIOUS
  <2>4. PICK b : b = hot.blk
    OBVIOUS
  <2>5. PICK p : p = hot.page
    OBVIOUS
  <2>6. PICK e \in BOOLEAN : e = hot.recycled
    BY <1>1
  <2>7. /\ \A s \in 0..(n - 1) : buf[s] # Invalid
        /\ \A s \in 0..(n - 1), c \in Chunks : map[c] = buf[s] <=> ch[s] = c
        /\ \A c \in Chunks : ~InPage(map[c], b, p)
        /\ latest' = AfterProgram(buf, n, e, b, p)
    BY <1>3, <1>4, <1>5, <2>1, <2>2, <2>3, <2>4, <2>5, <2>6
  <2>8. \A c \in Chunks :
           map'[c] = IF \E s \in 0..(n - 1) : ch[s] = c
                     THEN PlaceOf(b, p, SlotOf(ch, n, c), e) ELSE map[c]
    BY <1>6, <2>1, <2>2, <2>4, <2>5, <2>6
  <2>9. NewestData /\ NoSharedPlace
    OBVIOUS
  <2>10. /\ NewestData' /\ NoSharedPlace'
         /\ \A c \in Chunks :
               \/ \E s \in 0..(n - 1) : ch[s] = c /\ map[c] = buf[s] /\ map'[c] = PlaceOf(b, p, s, e)
               \/ map'[c] = map[c] /\ \A s \in 0..(n - 1) : ch[s] # c /\ map[c] # buf[s]
    BY <2>7, <2>8, <2>9, Programmed
  <2>11. QED
    BY <2>1, <2>2, <2>3, <2>4, <2>5, <2>6, <2>10
<1>8. Uniform' /\ HotPos' /\ Stored'
  <2>1. \A c \in Chunks :
            \/ \E s \in 0..(Width - 1) : /\ hot.chunk[s] = c
                                         /\ map'[c] = PlaceOf(hot.blk, hot.page, s, hot.recycled)
            \/ map'[c] = map[c]
    BY <1>7
  <2>2. PICK n \in 0..S : n = Width
    BY <1>1
  <2>3. PICK ch : ch = hot.chunk
    OBVIOUS
  <2>4. QED
    BY <2>1, <2>2, <2>3, HotStored
<1>9. HotBuf(trims)'
  <2>1. hot.ptr = 0
    BY DEF HotBuf
  <2>2. ASSUME NEW c \in Chunks, map'[c].at = "DRAMHotLog" PROVE FALSE
    <3>1. map'[c] = map[c] /\ \A s \in 0..(Width - 1) : hot.chunk[s] # c
      <4>1. \A s : PlaceOf(hot.blk, hot.page, s, hot.recycled).at # "DRAMHotLog"
        BY <1>1, PlaceLemma
      <4>2. QED
        BY <1>7, <2>2, <4>1
    <3>2. map[c].slot \in Slots /\ map[c] = DRAMHotLog(map[c].slot)
      BY <2>2, <3>1, MapTypes, PartsLemma
    <3>3. map[c].slot \in HotFilled /\ hot.chunk[map[c].slot] = c
      BY <3>2 DEF HotBuf
    <3>4. QED
      BY <1>1, <3>1, <3>3
  <2>3. QED
    BY <2>1, <2>2, HotBufEmpty
<1>10. \A c \in Chunks : \/ \E s \in 0..(Width - 1) : /\ hot.chunk[s] = c /\ InBlk(map'[c], hot.blk)
                                                      /\ map[c] = DRAMHotLog(s) /\ InFlash(map'[c])
                         \/ map'[c] = map[c] /\ \A s \in 0..(Width - 1) : hot.chunk[s] # c
  <2>1. \A s : InBlk(PlaceOf(hot.blk, hot.page, s, hot.recycled), hot.blk)
               /\ InFlash(PlaceOf(hot.blk, hot.page, s, hot.recycled))
    BY <1>1, PlaceLemma
  <2>2. QED
    BY <1>2, <1>7, <2>1
<1>11. ColdBuf'
  <2>1. \A c \in Chunks : map'[c] = map[c] \/ (map[c].at # "DRAMColdLog" /\ map'[c].at # "DRAMColdLog")
    BY <1>10, DramLemma DEF InFlash
  <2>2. QED
    BY <2>1, ColdBufKept
<1>12. TopMatches'
  BY DEF TopMatches
<1>13. PageRead'
  <2>1. gc.state # "idle" => lists'[gc.victim] = lists[gc.victim]
    BY DEF RoleInv, Partition, InHeaps, TypeInv, GcOK
  <2>2. QED
    BY <2>1, PageReadKept
<1>14. Ahead'
  <2>1. gc.state # "idle" => gc.victim # hot.blk
    BY DEF RoleInv, Partition, InHeaps
  <2>2. \A c \in Chunks : map'[c] = map[c] \/ gc'.state = "idle" \/ ~InBlk(map'[c], gc.victim)
    BY <1>10, <2>1 DEF InBlk
  <2>3. QED
    BY <2>2, AheadKept
<1>15. \A c \in Chunks : \/ \E s \in 0..(Width - 1) : /\ hot.chunk[s] = c /\ InBlk(map'[c], hot.blk)
                                                      /\ ~InFlash(map[c])
                         \/ map'[c] = map[c] /\ \A s \in 0..(Width - 1) : hot.chunk[s] # c
  BY <1>10, DramLemma
<1>16. QED
  BY <1>7, <1>8, <1>9, <1>11, <1>12, <1>13, <1>14, <1>15

\* The chunks of ch moved to block b, each from outside flash or from the victim, and
\* the rest stays.
MovesIn(ch, n, b) ==
    \A c \in Chunks : \/ \E s \in 0..(n - 1) :
                            /\ ch[s] = c /\ InBlk(map'[c], b)
                            /\ InFlash(map[c]) => Collecting(map[c].blk) /\ map[c].blk # b
                      \/ map'[c] = map[c] /\ \A s \in 0..(n - 1) : ch[s] # c

LEMMA FlushHotPlaces ==
    ASSUME NEW trims, Running(trims), FlushHot
    PROVE  Places(trims)' /\ MovesIn(hot.chunk, S, hot.blk)
<1>1. /\ hot \in LogType /\ hot.chunk \in [Slots -> Chunks \cup {None}] /\ hot.recycled = FALSE
  BY LogFields DEF Running, TypeInv, HotOK, FlushHot
<1>2. Width = S /\ 0..(S - 1) = Slots
  BY <1>1 DEF Width, Slots
<1>3. KeepsRoles
  BY FlushKeeps DEF Running
<1>4. /\ pc = "flushHot" /\ pc' = "advanceHot" /\ UNCHANGED <<cold, gc, frames, lists>>
      /\ hot' = Flushed(hot) /\ map' = MapAfterFlush(hot, S, FALSE)
      /\ latest' = AfterProgram(HotBuffer, S, FALSE, hot.blk, hot.page)
  BY DEF FlushHot, Flush, Goto
<1>5. PICK page : page = [s \in Slots |-> Entry(hot.chunk[s])]
  OBVIOUS
<1>6. /\ hot'.page = hot.page /\ hot'.second = hot.second /\ hot'.nextLow = hot.nextLow
      /\ hot'.ptr = hot.ptr /\ hot'.list = [hot.list EXCEPT ![hot.page] = page]
  BY <1>1, <1>4, <1>5, FlushedType
<1>7. UniformPage(page) /\ \A s \in 0..(Width - 1), c \in Chunks :
                              hot.chunk[s] = c => page[s] = [chunk |-> c, encoded |-> hot.recycled]
  BY <1>1, <1>2, <1>5 DEF UniformPage, Entry
<1>8. UniformList(lists'[hot.blk].low) /\ UniformList(lists'[hot.blk].high)
  BY <1>1, <1>4, LogFields DEF Running, Places, Uniform
<1>9. /\ map' = MapAfterFlush(hot, Width, hot.recycled)
      /\ latest' = AfterProgram(HotBuffer, Width, hot.recycled, hot.blk, hot.page)
      /\ hot.recycled => hot.nextLow = hot.page
      /\ \A d \in Blks : d = hot.blk \/ lists'[d] = lists[d]
  BY <1>1, <1>2, <1>4
<1>10. /\ Places(trims)'
       /\ \A c \in Chunks : \/ \E s \in 0..(Width - 1) : hot.chunk[s] = c /\ InBlk(map'[c], hot.blk)
                                                         /\ ~InFlash(map[c])
                            \/ map'[c] = map[c] /\ \A s \in 0..(Width - 1) : hot.chunk[s] # c
  BY <1>3, <1>4, <1>6, <1>7, <1>8, <1>9, HotFlushed
<1>11. QED
  BY <1>2, <1>10 DEF MovesIn

LEMMA FlushRecycledPlaces ==
    ASSUME NEW trims, Running(trims), FlushRecycled
    PROVE  /\ NewestData' /\ NoSharedPlace' /\ Uniform'
           /\ hot.nextLow = hot.page => Places(trims)' /\ MovesIn(hot.chunk, R, hot.blk) /\ pc' = "advanceHot"
           /\ hot.nextLow # hot.page => map' = map /\ heap' = heap /\ pc' \in Hangs
<1>1. CASE hot.nextLow # hot.page
  <2>1. UNCHANGED <<map, hot, heap, lists, latest, cold>> /\ pc' \in Hangs
    BY <1>1 DEF FlushRecycled, Hang, Hangs
  <2>2. QED
    BY <1>1, <2>1, NewestKept, UniformKept DEF Running, Places
<1>2. CASE hot.nextLow = hot.page
  <2>1. /\ hot \in LogType /\ hot.chunk \in [Slots -> Chunks \cup {None}] /\ hot.recycled = TRUE
        /\ hot.page \in Pages /\ hot.blk \in Blks
    BY LogFields DEF Running, TypeInv, HotOK, FlushRecycled
  <2>2. Width = R /\ 0..(R - 1) \subseteq Slots /\ \A s \in 0..(R - 1) : s < R
    BY <2>1, SizeLemma DEF Width
  <2>3. KeepsRoles
    BY FlushKeeps DEF Running
  <2>4. /\ pc = "flushHot" /\ pc' = "advanceHot" /\ UNCHANGED <<cold, gc, frames>>
        /\ map' = MapAfterFlush(hot, R, TRUE)
        /\ latest' = AfterProgram(HotBuffer, R, TRUE, hot.blk, hot.page)
        /\ lists' = IF hot.page = MaxLowPage THEN [lists EXCEPT ![hot.blk].low = EmptyList] ELSE lists
    BY <1>2 DEF FlushRecycled, Goto
  <2>5. hot.second
    BY <2>1 DEF Running, TypeInv, HotOK
  <2>6. hot.list[hot.page] = EmptyPage
    <3>1. hot.nextLow # None
      BY <1>2, <2>1, SizeLemma
    <3>2. HotPos
      BY DEF Running, Places
    <3>3. QED
      BY <1>2, <2>4, <2>5, <3>1, <3>2 DEF HotPos
  <2>7. PICK page : page = RecycledPage(hot, hot.page)
    OBVIOUS
  <2>8. /\ hot'.page = hot.page /\ hot'.second = hot.second /\ hot'.nextLow = hot.nextLow
        /\ hot'.ptr = hot.ptr /\ hot'.list = [hot.list EXCEPT ![hot.page] = page]
    BY <1>2, <2>1, <2>7, FlushRecycledLog
  <2>9. \A s \in Slots : page[s] = IF s < R THEN EncodedEntry(hot.chunk[s]) ELSE NoEntry
    BY <2>6, <2>7 DEF RecycledPage, EmptyPage
  <2>10. UniformPage(page)
    <3>1. NoEntry.chunk = None
      BY DEF NoEntry
    <3>2. \A c : EncodedEntry(c).chunk = None \/ EncodedEntry(c).encoded
      BY <3>1 DEF EncodedEntry
    <3>3. \A s \in Slots : page[s].chunk = None \/ (s < R /\ page[s].encoded)
      BY <2>9, <3>1, <3>2
    <3>4. QED
      BY <3>3 DEF UniformPage
  <2>11. \A s \in 0..(Width - 1), c \in Chunks :
            hot.chunk[s] = c => page[s] = [chunk |-> c, encoded |-> hot.recycled]
    BY <2>1, <2>2, <2>9, SizeLemma DEF EncodedEntry
  <2>12. \A b \in Blks : /\ lists'[b].low = lists[b].low \/ lists'[b].low = EmptyList
                         /\ lists'[b].high = lists[b].high
                         /\ b = hot.blk \/ lists'[b] = lists[b]
    BY <2>1, <2>4 DEF Running, TypeInv, ListsOK
  <2>13. UniformList(lists'[hot.blk].low) /\ UniformList(lists'[hot.blk].high)
    BY <2>1, <2>12, UniformEmpty DEF Running, Places, Uniform
  <2>14. /\ map' = MapAfterFlush(hot, Width, hot.recycled)
         /\ latest' = AfterProgram(HotBuffer, Width, hot.recycled, hot.blk, hot.page)
         /\ \A d \in Blks : d = hot.blk \/ lists'[d] = lists[d]
    BY <2>1, <2>2, <2>4, <2>12
  <2>15. /\ Places(trims)'
         /\ \A c \in Chunks : \/ \E s \in 0..(Width - 1) : hot.chunk[s] = c /\ InBlk(map'[c], hot.blk)
                                                           /\ ~InFlash(map[c])
                              \/ map'[c] = map[c] /\ \A s \in 0..(Width - 1) : hot.chunk[s] # c
    BY <1>2, <2>3, <2>4, <2>8, <2>10, <2>11, <2>13, <2>14, HotFlushed
  <2>16. MovesIn(hot.chunk, R, hot.blk)
    BY <2>2, <2>15 DEF MovesIn
  <2>17. QED
    BY <1>2, <2>4, <2>15, <2>16 DEF Places
<1>3. QED
  BY <1>1, <1>2

LEMMA FlashLemma ==
    ASSUME NEW b, NEW p, NEW s
    PROVE  /\ InFlash(FlashWLog(b, p, s)) /\ InBlk(FlashWLog(b, p, s), b)
           /\ FlashWLog(b, p, s).blk = b /\ FlashWLog(b, p, s).page = p
           /\ FlashWLog(b, p, s).slot = s /\ FlashWLog(b, p, s).at = "FlashWLog"
           /\ FlashWLog(b, p, s) # Invalid
           /\ \A t : FlashWLog(b, p, s) # DRAMHotLog(t) /\ FlashWLog(b, p, s) # DRAMColdLog(t)
<1>1. /\ FlashWLog(b, p, s).blk = b /\ FlashWLog(b, p, s).page = p
      /\ FlashWLog(b, p, s).slot = s /\ FlashWLog(b, p, s).at = "FlashWLog"
  BY DEF FlashWLog
<1>2. InFlash(FlashWLog(b, p, s)) /\ InBlk(FlashWLog(b, p, s), b)
  BY <1>1 DEF InFlash, InBlk
<1>3. QED
  BY <1>1, <1>2, DramLemma

\* The slots of a whole page, as Programmed counts them.
LEMMA WholePage == \A s : s \in 0..(S - 1) <=> s \in Slots
BY DEF Slots

\* The data of a page the cold log programmed is stored, and the rest stays so.
LEMMA ColdStored ==
    ASSUME TypeInv, RoleInv, Partition, Stored, Uniform, KeepsRoles, HotPos,
           pc \in {"flushCold", "collect"}, pc' = "advanceCold", cold'.page = cold.page,
           NEW page, UniformPage(page), cold'.list = [cold.list EXCEPT ![cold.page] = page],
           NEW ch, \A s \in Slots, c \in Chunks : ch[s] = c => page[s] = Entry(c),
           UNCHANGED <<hot, lists>>,
           \A c \in Chunks :
              \/ \E s \in Slots : ch[s] = c /\ map'[c] = FlashWLog(cold.blk, cold.page, s)
              \/ map'[c] = map[c]
    PROVE  Uniform' /\ HotPos' /\ Stored'
<1>1. cold.list \in [Pages -> PageType] /\ cold.page \in Pages /\ cold.page \in Nat /\ cold.blk \in Blks
  BY LogFields, ListsLemma, SizeLemma DEF TypeInv, ColdOK
<1>2. Uniform'
  <2>1. UniformList(cold'.list)
    BY <1>1, UniformLemma DEF Uniform
  <2>2. UniformList(hot'.list)
    BY DEF Uniform
  <2>3. \A d \in Blks : UniformList(lists'[d].low) /\ UniformList(lists'[d].high)
    BY DEF Uniform
  <2>4. QED
    BY <2>1, <2>2, <2>3 DEF Uniform, UniformList
<1>3. HotPos'
  BY HotPosKept
<1>4. Stored'
  <2>1. SUFFICES ASSUME NEW c \in Chunks PROVE StoredAt(c, map[c])'
    BY DEF Stored
  <2>2. CASE \E s \in Slots : ch[s] = c /\ map'[c] = FlashWLog(cold.blk, cold.page, s)
    <3>1. PICK s \in Slots : ch[s] = c /\ map'[c] = FlashWLog(cold.blk, cold.page, s)
      BY <2>2
    <3>2. PICK a : a = map'[c]
      OBVIOUS
    <3>3. /\ InFlash(a) /\ a.blk = cold.blk /\ a.page = cold.page /\ a.slot = s
          /\ a.at = "FlashWLog"
      BY <3>1, <3>2, FlashLemma
    <3>4. cold'.list[a.page] = page
      BY <1>1, <3>3
    <3>5. NamedBy(cold.list, c, a)'
      <4>1. page[s] = [chunk |-> c, encoded |-> FALSE]
        BY <3>1 DEF Entry
      <4>2. (a.at = "FlashWLogEncoded") = FALSE
        BY <3>3
      <4>3. cold'.list[a.page][a.slot] = [chunk |-> c, encoded |-> a.at = "FlashWLogEncoded"]
        BY <3>3, <3>4, <4>1, <4>2
      <4>4. QED
        BY <4>3 DEF NamedBy
    <3>6. /\ cold.blk \notin CleanBlks' /\ cold.blk \notin heap'["first"].in
          /\ cold.blk \notin heap'["second"].in \cup heap'["cold"].in /\ cold.blk # hot'.blk
      BY DEF KeepsRoles, Partition, InHeaps, CleanBlks, Heaps
    <3>7. ColdDone(a.page)'
      BY <1>1, <3>3 DEF ColdDone
    <3>8. StoredAt(c, a)'
      BY <3>3, <3>5, <3>6, <3>7 DEF StoredAt, FirstUsage, KeepsRoles
    <3>9. QED
      BY <3>2, <3>8 DEF StoredAt, FirstUsage, NamedBy
  <2>3. CASE map'[c] = map[c]
    <3>1. PICK a \in Address : a = map[c] /\ map'[c] = a
      BY <2>3, MapTypes
    <3>2. StoredAt(c, a)
      BY <3>1 DEF Stored
    <3>3. ~InPage(a, cold.blk, cold.page)
      BY <3>1, ColdPageFree
    <3>4. InFlash(a) =>
            /\ a.blk = cold.blk => cold'.list[a.page] = cold.list[a.page]
            /\ a.blk \in Blks /\ a.page \in Pages
      BY <1>1, <3>3, PartsLemma, SizeLemma DEF InPage, InBlk
    <3>5. (HotDone(a.page) => HotDone(a.page)') /\ (ColdDone(a.page) => ColdDone(a.page)')
      BY DEF HotDone, ColdDone
    <3>6. StoredAt(c, a)'
      BY <3>2, <3>4, <3>5, StoredKept
    <3>7. QED
      BY <3>1, <3>6 DEF StoredAt, FirstUsage, NamedBy
  <2>4. QED
    BY <2>2, <2>3
<1>5. QED
  BY <1>2, <1>3, <1>4

LEMMA ColdBufEmpty ==
    ASSUME cold'.ptr = 0, ~cold'.recycled, pc' # "flushCold", \A c \in Chunks : map'[c].at # "DRAMColdLog"
    PROVE  ColdBuf'
<1>1. ColdFilled' = {}
  BY SizeLemma DEF ColdFilled, Slots
<1>2. \A c \in Chunks, s \in Slots : map'[c] # DRAMColdLog(s)
  BY DramLemma
<1>3. QED
  BY <1>1, <1>2 DEF ColdBuf

LEMMA FlushColdPlaces ==
    ASSUME NEW trims, Running(trims), FlushCold
    PROVE  Places(trims)' /\ MovesIn(cold.chunk, S, cold.blk)
<1>. USE DEF Running, Places
<1>1. /\ cold \in LogType /\ cold.chunk \in [Slots -> Chunks \cup {None}]
      /\ cold.ptr = 0 /\ ~cold.recycled /\ 0..(S - 1) = Slots /\ ColdFilled = Slots
  BY LogFields DEF TypeInv, ColdOK, FlushCold, ColdBuf, Slots, ColdFilled
<1>2. KeepsRoles
  BY FlushKeeps
<1>3. /\ pc = "flushCold" /\ pc' = "advanceCold" /\ UNCHANGED <<hot, gc, frames, lists>>
      /\ cold' = Flushed(cold) /\ map' = MapAfterFlush(cold, S, FALSE)
      /\ latest' = AfterProgram(ColdBuffer, S, FALSE, cold.blk, cold.page)
  BY DEF FlushCold, Flush, Goto
<1>4. PICK page : page = [s \in Slots |-> Entry(cold.chunk[s])]
  OBVIOUS
<1>5. /\ cold'.page = cold.page /\ cold'.ptr = cold.ptr /\ cold'.recycled = cold.recycled
      /\ cold'.list = [cold.list EXCEPT ![cold.page] = page]
  BY <1>1, <1>3, <1>4, FlushedType
<1>6. UniformPage(page) /\ \A s \in Slots, c \in Chunks : cold.chunk[s] = c => page[s] = Entry(c)
  BY <1>4 DEF UniformPage, Entry
<1>7. PICK ch : ch = cold.chunk
  OBVIOUS
<1>8. PICK buf : buf = ColdBuffer
  OBVIOUS
<1>9. \A s \in Slots : buf[s] = DRAMColdLog(s) /\ buf[s] # Invalid
  BY <1>8, DramLemma DEF ColdBuffer
<1>10. /\ NewestData' /\ NoSharedPlace'
       /\ \A c \in Chunks :
             \/ \E s \in Slots : /\ ch[s] = c /\ map[c] = buf[s]
                                 /\ map'[c] = FlashWLog(cold.blk, cold.page, s)
             \/ map'[c] = map[c] /\ \A s \in Slots : ch[s] # c /\ map[c] # buf[s]
  <2>1. PICK b : b = cold.blk
    OBVIOUS
  <2>2. PICK p : p = cold.page
    OBVIOUS
  <2>3. PICK e \in BOOLEAN : e = FALSE
    OBVIOUS
  <2>4. \A s \in 0..(S - 1), c \in Chunks : map[c] = buf[s] <=> ch[s] = c
    BY <1>1, <1>7, <1>9, WholePage DEF ColdBuf
  <2>5. \A s \in 0..(S - 1) : buf[s] # Invalid
    BY <1>9, WholePage
  <2>6. \A c \in Chunks : ~InPage(map[c], b, p)
    BY <1>3, <2>1, <2>2, ColdPageFree
  <2>7. map' = MapAfterFlush(cold, S, e) /\ latest' = AfterProgram(buf, S, e, b, p)
    BY <1>3, <1>8, <2>1, <2>2, <2>3
  <2>8. \A c \in Chunks :
           map'[c] = IF \E s \in 0..(S - 1) : ch[s] = c
                     THEN PlaceOf(b, p, SlotOf(ch, S, c), e) ELSE map[c]
    BY <1>1, <1>7, <2>1, <2>2, <2>7, MapFlushed
  <2>9. NewestData /\ NoSharedPlace
    OBVIOUS
  <2>10. /\ NewestData' /\ NoSharedPlace'
         /\ \A c \in Chunks :
               \/ \E s \in 0..(S - 1) : ch[s] = c /\ map[c] = buf[s] /\ map'[c] = PlaceOf(b, p, s, e)
               \/ map'[c] = map[c] /\ \A s \in 0..(S - 1) : ch[s] # c /\ map[c] # buf[s]
    BY <2>4, <2>5, <2>6, <2>7, <2>8, <2>9, Programmed
  <2>11. \A s : PlaceOf(b, p, s, e) = FlashWLog(cold.blk, cold.page, s)
    BY <2>1, <2>2, <2>3 DEF PlaceOf
  <2>12. QED
    BY <2>10, <2>11, WholePage
<1>11. Uniform' /\ HotPos' /\ Stored'
  <2>1. \A c \in Chunks :
           \/ \E s \in Slots : ch[s] = c /\ map'[c] = FlashWLog(cold.blk, cold.page, s)
           \/ map'[c] = map[c]
    BY <1>10
  <2>2. \A s \in Slots, c \in Chunks : ch[s] = c => page[s] = Entry(c)
    BY <1>6, <1>7
  <2>3. UNCHANGED <<hot, lists>> /\ pc \in {"flushCold", "collect"} /\ pc' = "advanceCold"
    BY <1>3
  <2>4. TypeInv /\ RoleInv /\ Partition /\ Stored /\ Uniform /\ HotPos
    OBVIOUS
  <2>5. UniformPage(page) /\ cold'.page = cold.page /\ cold'.list = [cold.list EXCEPT ![cold.page] = page]
    BY <1>5, <1>6
  <2>6. QED
    BY <1>2, <2>1, <2>2, <2>3, <2>4, <2>5, ColdStored
<1>12. \A c \in Chunks : \/ \E s \in Slots : /\ ch[s] = c /\ InBlk(map'[c], cold.blk) /\ InFlash(map'[c])
                                             /\ map[c] = DRAMColdLog(s)
                         \/ map'[c] = map[c] /\ \A s \in Slots : ch[s] # c
  <2>1. \A s : InBlk(FlashWLog(cold.blk, cold.page, s), cold.blk)
               /\ InFlash(FlashWLog(cold.blk, cold.page, s))
    BY FlashLemma
  <2>2. QED
    BY <1>9, <1>10, <2>1
<1>13. HotBuf(trims)'
  <2>1. \A c \in Chunks : map'[c] = map[c] \/ (map[c].at # "DRAMHotLog" /\ map'[c].at # "DRAMHotLog")
    BY <1>12, DramLemma DEF InFlash
  <2>2. QED
    BY <1>3, <2>1, HotBufKept
<1>14. ColdBuf'
  <2>1. ASSUME NEW c \in Chunks, map'[c].at = "DRAMColdLog" PROVE FALSE
    <3>1. map'[c] = map[c] /\ \A s \in Slots : ch[s] # c
      BY <1>12, <2>1 DEF InFlash
    <3>2. map[c].slot \in Slots /\ map[c] = DRAMColdLog(map[c].slot)
      BY <2>1, <3>1, MapTypes, PartsLemma
    <3>3. cold.chunk[map[c].slot] = c
      BY <3>2 DEF ColdBuf
    <3>4. QED
      BY <1>7, <3>1, <3>2, <3>3
  <2>2. QED
    BY <1>1, <1>3, <1>5, <2>1, ColdBufEmpty
<1>15. TopMatches' /\ PageRead'
  BY <1>3, TopKept, PageReadKept
<1>16. Ahead'
  <2>1. gc.state # "idle" => gc.victim # cold.blk
    BY DEF RoleInv, Partition, InHeaps
  <2>2. \A c \in Chunks : map'[c] = map[c] \/ gc'.state = "idle" \/ ~InBlk(map'[c], gc.victim)
    BY <1>3, <1>12, <2>1 DEF InBlk
  <2>3. QED
    BY <1>3, <2>2, AheadKept
<1>17. MovesIn(cold.chunk, S, cold.blk)
  <2>1. \A s : ~InFlash(DRAMColdLog(s))
    BY DramLemma
  <2>2. QED
    BY <1>7, <1>12, <2>1, WholePage DEF MovesIn
<1>18. QED
  BY <1>10, <1>11, <1>13, <1>14, <1>15, <1>16, <1>17

\* A page whose slots all hold valid chunks: it is not an encoded one.
LEMMA CopyWholePageEffect ==
    ASSUME NEW trims, Running(trims), CopyWholePage
    PROVE  /\ pc = "collect" /\ pc' = "advanceCold" /\ gc.state = "write" /\ gc.valid = Slots
           /\ gc'.state = "read" /\ gc'.victim = gc.victim /\ gc'.page = gc.page + 1 /\ gc'.valid = {}
           /\ UNCHANGED <<hot, heap, clean, lists>>
           /\ cold'.page = cold.page /\ cold'.ptr = cold.ptr /\ cold'.chunk = cold.chunk
           /\ cold'.allValid = cold.allValid /\ cold'.recycled = cold.recycled
           /\ cold'.list = [cold.list EXCEPT ![cold.page] = [s \in Slots |-> Entry(SlotChunk(s))]]
           /\ \A s \in Slots : /\ SlotChunk(s) \in Chunks
                               /\ map[SlotChunk(s)] = FlashWLog(gc.victim, gc.page, s)
           /\ \A c \in Chunks : map'[c] =
                 IF \E s \in 0..(S - 1) : [t \in Slots |-> SlotChunk(t)][s] = c
                 THEN FlashWLog(cold.blk, cold.page, SlotOf([t \in Slots |-> SlotChunk(t)], S, c))
                 ELSE map[c]
           /\ latest' = AfterProgram([s \in Slots |-> FlashWLog(gc.victim, gc.page, s)], S, FALSE,
                                     cold.blk, cold.page)
<1>1. /\ gc \in GcType /\ gc.valid \subseteq Slots /\ gc.encoded \in BOOLEAN /\ gc.state = "write"
      /\ cold \in LogType
  BY DEF Running, TypeInv, GcOK, GcType, ColdOK, CopyWholePage
<1>2. gc.valid = Slots
  <2>1. IsFiniteSet(Slots) /\ Cardinality(Slots) = S
    <3>1. 0 \in Int /\ S - 1 \in Int /\ S \in Int /\ 0 < S
      BY SizeLemma
    <3>2. IsFiniteSet(0..(S - 1)) /\ Cardinality(0..(S - 1)) = IF 0 > S - 1 THEN 0 ELSE (S - 1) - 0 + 1
      BY <3>1, FS_Interval
    <3>3. QED
      BY <3>1, <3>2 DEF Slots
  <2>2. Cardinality(gc.valid) = S
    BY DEF CopyWholePage, FullPageValid
  <2>3. QED
    BY <1>1, <2>1, <2>2, FS_Subset
<1>3. \A s \in Slots : SlotChunk(s) \in Chunks
  BY <1>1, <1>2 DEF Running, Places, PageRead
<1>4. \A s \in Slots : map[SlotChunk(s)] = PlaceOf(gc.victim, gc.page, s, gc.encoded)
  BY DEF CopyWholePage, Moved
<1>5. gc.encoded = FALSE
  <2>1. SUFFICES ASSUME gc.encoded = TRUE PROVE FALSE
    BY <1>1
  <2>2. R \in Slots /\ R \notin 0..(R - 1)
    BY SizeLemma DEF Slots
  <2>3. PICK a \in Address : a = map[SlotChunk(R)]
    BY <1>3, <2>2, MapTypes DEF Running
  <2>4. a.at = "FlashWLogEncoded" /\ a.slot = R
    <3>1. a = PlaceOf(gc.victim, gc.page, R, gc.encoded)
      BY <1>4, <2>2, <2>3
    <3>2. a = Encoded(gc.victim, gc.page, R)
      BY <2>1, <3>1 DEF PlaceOf
    <3>3. QED
      BY <3>2 DEF Encoded
  <2>5. QED
    BY <2>2, <2>4, PartsLemma
<1>6. \A s \in Slots : map[SlotChunk(s)] = FlashWLog(gc.victim, gc.page, s)
  BY <1>4, <1>5 DEF PlaceOf
<1>7. \A c \in Chunks : map'[c] =
         IF \E s \in 0..(S - 1) : [t \in Slots |-> SlotChunk(t)][s] = c
         THEN FlashWLog(cold.blk, cold.page, SlotOf([t \in Slots |-> SlotChunk(t)], S, c))
         ELSE map[c]
  <2>1. SUFFICES ASSUME NEW c \in Chunks
                 PROVE  map'[c] =
                    IF \E s \in 0..(S - 1) : [t \in Slots |-> SlotChunk(t)][s] = c
                    THEN FlashWLog(cold.blk, cold.page, SlotOf([t \in Slots |-> SlotChunk(t)], S, c))
                    ELSE map[c]
    OBVIOUS
  <2>2. PICK ch : ch = [t \in Slots |-> SlotChunk(t)]
    OBVIOUS
  <2>3. \A s : (s \in Slots /\ SlotChunk(s) = c) <=> (s \in 0..(S - 1) /\ ch[s] = c)
    BY <2>2, WholePage
  <2>4. (CHOOSE s \in Slots : SlotChunk(s) = c) = SlotOf(ch, S, c)
    BY <2>3 DEF SlotOf
  <2>5. map'[c] = IF \E s \in Slots : SlotChunk(s) = c
                  THEN FlashWLog(cold.blk, cold.page, CHOOSE s \in Slots : SlotChunk(s) = c)
                  ELSE map[c]
    BY DEF CopyWholePage
  <2>6. map'[c] = IF \E s \in 0..(S - 1) : ch[s] = c
                  THEN FlashWLog(cold.blk, cold.page, SlotOf(ch, S, c)) ELSE map[c]
    BY <2>3, <2>4, <2>5
  <2>7. QED
    BY <2>2, <2>6
<1>8. /\ gc'.state = "read" /\ gc'.victim = gc.victim /\ gc'.page = gc.page + 1 /\ gc'.valid = {}
  BY <1>1 DEF CopyWholePage, GcType
<1>9. /\ cold'.page = cold.page /\ cold'.ptr = cold.ptr /\ cold'.chunk = cold.chunk
      /\ cold'.allValid = cold.allValid /\ cold'.recycled = cold.recycled
      /\ cold'.list = [cold.list EXCEPT ![cold.page] = [s \in Slots |-> Entry(SlotChunk(s))]]
  BY <1>1 DEF CopyWholePage, LogType
<1>10. /\ pc = "collect" /\ pc' = "advanceCold" /\ UNCHANGED <<hot, heap, clean, lists>>
       /\ latest' = AfterProgram([s \in Slots |-> FlashWLog(gc.victim, gc.page, s)], S, FALSE,
                                 cold.blk, cold.page)
  BY DEF CopyWholePage, Goto
<1>11. QED
  BY <1>1, <1>2, <1>3, <1>6, <1>7, <1>8, <1>9, <1>10

LEMMA CopyWholePagePlaces ==
    ASSUME NEW trims, Running(trims), CopyWholePage
    PROVE  Places(trims)' /\ MovesIn([t \in Slots |-> SlotChunk(t)], S, cold.blk)
<1>. USE DEF Running, Places
<1>1. PICK ch : ch = [t \in Slots |-> SlotChunk(t)]
  OBVIOUS
<1>2. PICK buf : buf = [s \in Slots |-> FlashWLog(gc.victim, gc.page, s)]
  OBVIOUS
<1>3. PICK page : page = [s \in Slots |-> Entry(SlotChunk(s))]
  OBVIOUS
<1>4. /\ pc = "collect" /\ pc' = "advanceCold" /\ gc.state = "write" /\ gc.valid = Slots
      /\ gc'.state = "read" /\ gc'.victim = gc.victim /\ gc'.page = gc.page + 1 /\ gc'.valid = {}
      /\ UNCHANGED <<hot, heap, clean, lists>>
      /\ cold'.page = cold.page /\ cold'.ptr = cold.ptr /\ cold'.chunk = cold.chunk
      /\ cold'.allValid = cold.allValid /\ cold'.recycled = cold.recycled
      /\ cold'.list = [cold.list EXCEPT ![cold.page] = page]
      /\ latest' = AfterProgram(buf, S, FALSE, cold.blk, cold.page)
  BY <1>2, <1>3, CopyWholePageEffect
<1>5. \A s \in Slots : /\ ch[s] \in Chunks /\ ch[s] = SlotChunk(s)
                       /\ map[ch[s]] = buf[s] /\ buf[s] = FlashWLog(gc.victim, gc.page, s)
  BY <1>1, <1>2, CopyWholePageEffect
<1>6. \A s \in Slots, c \in Chunks : map[c] = buf[s] <=> ch[s] = c
  <2>1. SUFFICES ASSUME NEW s \in Slots, NEW c \in Chunks, map[c] = buf[s] PROVE ch[s] = c
    BY <1>5
  <2>2. map[c] = map[ch[s]] /\ map[c] # Invalid
    BY <1>5, <2>1, FlashLemma
  <2>3. QED
    BY <1>5, <2>2 DEF NoSharedPlace
<1>7. /\ NewestData' /\ NoSharedPlace'
      /\ \A c \in Chunks :
            \/ \E s \in Slots : /\ ch[s] = c /\ map[c] = buf[s]
                                /\ map'[c] = FlashWLog(cold.blk, cold.page, s)
            \/ map'[c] = map[c] /\ \A s \in Slots : ch[s] # c /\ map[c] # buf[s]
  <2>1. PICK b : b = cold.blk
    OBVIOUS
  <2>2. PICK p : p = cold.page
    OBVIOUS
  <2>3. PICK e \in BOOLEAN : e = FALSE
    OBVIOUS
  <2>4. \A s \in 0..(S - 1), c \in Chunks : map[c] = buf[s] <=> ch[s] = c
    BY <1>6, WholePage
  <2>5. \A s \in 0..(S - 1) : buf[s] # Invalid
    BY <1>5, WholePage, FlashLemma
  <2>6. \A c \in Chunks : ~InPage(map[c], b, p)
    BY <1>4, <2>1, <2>2, ColdPageFree
  <2>7. latest' = AfterProgram(buf, S, e, b, p)
    BY <1>4, <2>1, <2>2, <2>3
  <2>8. \A s : PlaceOf(b, p, s, e) = FlashWLog(cold.blk, cold.page, s)
    BY <2>1, <2>2, <2>3 DEF PlaceOf
  <2>9. \A c \in Chunks :
           map'[c] = IF \E s \in 0..(S - 1) : ch[s] = c
                     THEN PlaceOf(b, p, SlotOf(ch, S, c), e) ELSE map[c]
    <3>1. \A c \in Chunks :
             map'[c] = IF \E s \in 0..(S - 1) : ch[s] = c
                       THEN FlashWLog(cold.blk, cold.page, SlotOf(ch, S, c)) ELSE map[c]
      BY <1>1, CopyWholePageEffect
    <3>2. QED
      BY <2>8, <3>1
  <2>10. NewestData /\ NoSharedPlace
    OBVIOUS
  <2>11. /\ NewestData' /\ NoSharedPlace'
         /\ \A c \in Chunks :
               \/ \E s \in 0..(S - 1) : ch[s] = c /\ map[c] = buf[s] /\ map'[c] = PlaceOf(b, p, s, e)
               \/ map'[c] = map[c] /\ \A s \in 0..(S - 1) : ch[s] # c /\ map[c] # buf[s]
    BY <2>4, <2>5, <2>6, <2>7, <2>9, <2>10, Programmed
  <2>12. QED
    BY <2>8, <2>11, WholePage
<1>8. Uniform' /\ HotPos' /\ Stored'
  <2>1. \A c \in Chunks :
           \/ \E s \in Slots : ch[s] = c /\ map'[c] = FlashWLog(cold.blk, cold.page, s)
           \/ map'[c] = map[c]
    BY <1>7
  <2>2. \A s \in Slots, c \in Chunks : ch[s] = c => page[s] = Entry(c)
    BY <1>3, <1>5
  <2>3. UNCHANGED <<hot, lists>> /\ pc \in {"flushCold", "collect"} /\ pc' = "advanceCold"
    BY <1>4
  <2>4. TypeInv /\ RoleInv /\ Partition /\ Stored /\ Uniform /\ HotPos /\ KeepsRoles
    BY CollectorKeeps
  <2>5. UniformPage(page) /\ cold'.page = cold.page /\ cold'.list = [cold.list EXCEPT ![cold.page] = page]
    BY <1>3, <1>4 DEF UniformPage, Entry
  <2>6. QED
    BY <2>1, <2>2, <2>3, <2>4, <2>5, ColdStored
<1>9. gc.victim # cold.blk
  BY <1>4 DEF RoleInv, Partition, InHeaps
<1>10. \A c \in Chunks : \/ \E s \in Slots : /\ ch[s] = c /\ InBlk(map'[c], cold.blk) /\ InFlash(map'[c])
                                             /\ InBlk(map[c], gc.victim) /\ InFlash(map[c])
                         \/ map'[c] = map[c] /\ \A s \in Slots : ch[s] # c
  BY <1>5, <1>7, FlashLemma
<1>11. HotBuf(trims)' /\ ColdBuf'
  <2>1. \A c \in Chunks : map'[c] = map[c] \/ (map[c].at # "DRAMHotLog" /\ map'[c].at # "DRAMHotLog")
    BY <1>10 DEF InFlash
  <2>2. \A c \in Chunks : map'[c] = map[c] \/ (map[c].at # "DRAMColdLog" /\ map'[c].at # "DRAMColdLog")
    BY <1>10 DEF InFlash
  <2>3. QED
    BY <1>4, <2>1, <2>2, HotBufKept, ColdBufKept
<1>12. TopMatches' /\ PageRead'
  BY <1>4 DEF TopMatches, PageRead
<1>13. Ahead'
  <2>1. SUFFICES ASSUME NEW c \in Chunks, InBlk(map'[c], gc.victim)
                 PROVE  map'[c].page >= gc.page + 1
    BY <1>4 DEF Ahead, AheadAt
  <2>2. map'[c] = map[c] /\ \A s \in Slots : ch[s] # c
    BY <1>9, <1>10, <2>1 DEF InBlk
  <2>3. /\ map[c].page >= gc.page /\ map[c].page \in 0..(P - 2) /\ map[c].slot \in Slots
        /\ VictimEntry(map[c].page, map[c].slot).chunk = c
    BY <1>4, <2>1, <2>2, OnPage DEF Ahead, AheadAt
  <2>4. map[c].page # gc.page
    BY <1>5, <2>2, <2>3 DEF SlotChunk
  <2>5. gc.page \in Nat /\ map[c].page \in Nat
    BY <2>3, SizeLemma DEF TypeInv, GcOK, GcType
  <2>6. QED
    BY <2>2, <2>3, <2>4, <2>5
<1>14. MovesIn([t \in Slots |-> SlotChunk(t)], S, cold.blk)
  <2>1. \A c \in Chunks : InBlk(map[c], gc.victim) =>
                             map[c].blk = gc.victim /\ Collecting(map[c].blk) /\ map[c].blk # cold.blk
    BY <1>4, <1>9 DEF InBlk, Collecting
  <2>2. \A c \in Chunks : \/ \E s \in 0..(S - 1) :
                               /\ ch[s] = c /\ InBlk(map'[c], cold.blk)
                               /\ InFlash(map[c]) => Collecting(map[c].blk) /\ map[c].blk # cold.blk
                          \/ map'[c] = map[c] /\ \A s \in 0..(S - 1) : ch[s] # c
    BY <1>10, <2>1, WholePage
  <2>3. QED
    BY <1>1, <2>2 DEF MovesIn
<1>15. QED
  BY <1>7, <1>8, <1>11, <1>12, <1>13, <1>14

----------------------------------------------------------------------------
(* The steps that give a block another role.                               *)

LEMMA FillHotEffect ==
    ASSUME NEW trims, Running(trims), FillFirst \/ FillSecond
    PROVE  /\ pc = "advanceHot" /\ pc' = "findHot" /\ UNCHANGED <<map, cold, clean, gc, latest, frames>>
           /\ hot'.list = EmptyList /\ hot'.ptr = hot.ptr /\ hot'.blk = hot.blk
           /\ \A h \in Heaps : heap'[h].value = heap[h].value
           /\ heap'["cold"].in = heap["cold"].in
           /\ \A d \in Blks \ {hot.blk} : lists'[d] = lists[d]
           /\ \/ /\ ~hot.second /\ hot.page = P - 5
                 /\ lists'[hot.blk].low = hot.list /\ lists'[hot.blk].high = lists[hot.blk].high
                 /\ heap'["first"].in = heap["first"].in \cup {hot.blk}
                 /\ heap'["second"].in = heap["second"].in
              \/ /\ hot.second /\ hot.page = P - 2
                 /\ lists'[hot.blk].high = hot.list /\ lists'[hot.blk].low = lists[hot.blk].low
                 /\ heap'["second"].in = heap["second"].in \cup {hot.blk}
                 /\ heap'["first"].in = heap["first"].in
<1>1. /\ hot \in LogType /\ hot.blk \in Blks /\ HeapOK
      /\ lists \in [Blks -> [low : Lists, high : Lists]]
  BY LogFields DEF Running, TypeInv, HotOK, ListsOK
<1>2. /\ pc = "advanceHot" /\ pc' = "findHot" /\ UNCHANGED <<map, cold, clean, gc, latest, frames>>
      /\ hot' = [hot EXCEPT !.list = EmptyList]
  BY DEF FillFirst, FillSecond, Goto
<1>3. hot'.list = EmptyList /\ hot'.ptr = hot.ptr /\ hot'.blk = hot.blk
  BY <1>1, <1>2 DEF LogType
<1>4. CASE FillFirst
  <2>1. /\ heap' = [heap EXCEPT !["first"].in = @ \cup {hot.blk}]
        /\ lists' = [lists EXCEPT ![hot.blk].low = hot.list] /\ ~hot.second /\ hot.page = P - 5
    BY <1>4 DEF FillFirst
  <2>2. /\ heap'["first"].in = heap["first"].in \cup {hot.blk}
        /\ heap'["second"].in = heap["second"].in /\ heap'["cold"].in = heap["cold"].in
        /\ \A h \in Heaps : heap'[h].value = heap[h].value
    BY <1>1, <2>1 DEF HeapOK, Heaps
  <2>3. /\ lists'[hot.blk].low = hot.list /\ lists'[hot.blk].high = lists[hot.blk].high
        /\ \A d \in Blks \ {hot.blk} : lists'[d] = lists[d]
    BY <1>1, <2>1
  <2>4. QED
    BY <1>2, <1>3, <2>1, <2>2, <2>3
<1>5. CASE FillSecond
  <2>1. /\ heap' = [heap EXCEPT !["second"].in = @ \cup {hot.blk}]
        /\ lists' = [lists EXCEPT ![hot.blk].high = hot.list] /\ hot.second /\ hot.page = P - 2
    BY <1>5 DEF FillSecond, LastDataPage
  <2>2. /\ heap'["second"].in = heap["second"].in \cup {hot.blk}
        /\ heap'["first"].in = heap["first"].in /\ heap'["cold"].in = heap["cold"].in
        /\ \A h \in Heaps : heap'[h].value = heap[h].value
    BY <1>1, <2>1 DEF HeapOK, Heaps
  <2>3. /\ lists'[hot.blk].high = hot.list /\ lists'[hot.blk].low = lists[hot.blk].low
        /\ \A d \in Blks \ {hot.blk} : lists'[d] = lists[d]
    BY <1>1, <2>1
  <2>4. QED
    BY <1>2, <1>3, <2>1, <2>2, <2>3
<1>6. QED
  BY <1>4, <1>5

LEMMA FillHotPlaces ==
    ASSUME NEW trims, Running(trims), FillFirst \/ FillSecond
    PROVE  Places(trims)'
<1>. USE DEF Running, Places
<1>1. /\ pc = "advanceHot" /\ pc' = "findHot" /\ UNCHANGED <<map, cold, clean, gc, latest, frames>>
      /\ hot'.list = EmptyList /\ hot'.ptr = hot.ptr /\ hot'.blk = hot.blk
      /\ \A d \in Blks \ {hot.blk} : lists'[d] = lists[d]
  BY FillHotEffect
<1>2. \/ /\ ~hot.second
         /\ lists'[hot.blk].low = hot.list /\ lists'[hot.blk].high = lists[hot.blk].high
         /\ heap'["first"].in = heap["first"].in \cup {hot.blk}
         /\ heap'["second"].in = heap["second"].in /\ heap'["cold"].in = heap["cold"].in
      \/ /\ hot.second
         /\ lists'[hot.blk].high = hot.list /\ lists'[hot.blk].low = lists[hot.blk].low
         /\ heap'["second"].in = heap["second"].in \cup {hot.blk}
         /\ heap'["first"].in = heap["first"].in /\ heap'["cold"].in = heap["cold"].in
  BY FillHotEffect
<1>3. NewestData' /\ NoSharedPlace'
  BY <1>1, NewestKept
<1>4. Uniform'
  <2>1. \A d \in Blks : UniformList(lists'[d].low) /\ UniformList(lists'[d].high)
    BY <1>1, <1>2 DEF Uniform
  <2>2. UniformList(hot'.list) /\ UniformList(cold'.list)
    BY <1>1, UniformEmpty DEF Uniform
  <2>3. QED
    BY <2>1, <2>2 DEF Uniform, UniformList
<1>5. HotBuf(trims)' /\ ColdBuf'
  <2>1. hot.ptr = 0 /\ \A c \in Chunks : map[c].at # "DRAMHotLog"
    BY <1>1, HotEmpty
  <2>2. QED
    BY <1>1, <2>1, HotBufEmpty, ColdBufKept
<1>6. HotPos' /\ TopMatches'
  BY <1>1 DEF HotPos, TopMatches
<1>7. Stored'
  <2>1. SUFFICES ASSUME NEW c \in Chunks PROVE StoredAt(c, map[c])'
    BY DEF Stored
  <2>2. PICK a \in Address : a = map[c] /\ map'[c] = a
    BY <1>1, MapTypes
  <2>3. StoredAt(c, a)
    BY <2>2 DEF Stored
  <2>4. StoredAt(c, a)'
    <3>1. SUFFICES ASSUME InFlash(a)
                   PROVE  /\ a.blk \notin CleanBlks
                          /\ a.blk \in heap'["first"].in => FirstUsage(a) /\ NamedBy(lists'[a.blk].low, c, a)
                          /\ a.blk \in heap'["second"].in \cup heap'["cold"].in =>
                                NamedBy(lists'[a.blk].high, c, a)
                          /\ a.blk = cold.blk => ColdDone(a.page)' /\ NamedBy(cold.list, c, a)
      BY <1>1 DEF StoredAt, CleanBlks, FirstUsage, NamedBy
    <3>2. CASE a.blk = hot.blk
      <4>1. hot.blk \notin CleanBlks \cup InHeaps \cup {cold.blk}
        BY <1>1 DEF Partition
      <4>2. (~hot.second => FirstUsage(a)) /\ NamedBy(hot.list, c, a)
        BY <1>1, <2>3, <3>1, <3>2 DEF StoredAt
      <4>3. QED
        BY <1>2, <3>2, <4>1, <4>2 DEF InHeaps
    <3>3. CASE a.blk # hot.blk
      <4>1. lists'[a.blk] = lists[a.blk]
        BY <1>1, <3>1, <3>3, PartsLemma
      <4>2. ColdDone(a.page) => ColdDone(a.page)'
        BY <1>1 DEF ColdDone
      <4>3. QED
        BY <1>2, <2>3, <3>1, <3>3, <4>1, <4>2 DEF StoredAt
    <3>4. QED
      BY <3>2, <3>3
  <2>5. QED
    BY <2>2, <2>4 DEF StoredAt, FirstUsage, NamedBy
<1>8. PageRead' /\ Ahead'
  <2>1. gc.state # "idle" => gc.victim \in Blks \ {hot.blk}
    BY <1>1 DEF RoleInv, Partition, InHeaps, TypeInv, GcOK
  <2>2. gc.state # "idle" => lists'[gc.victim] = lists[gc.victim]
    BY <1>1, <2>1
  <2>3. QED
    BY <1>1, <2>2, PageReadKept, AheadKept
<1>9. QED
  BY <1>3, <1>4, <1>5, <1>6, <1>7, <1>8

\* The hot log goes on on a clean block; nothing is there.
LEMMA CleanBlkPlaces ==
    ASSUME NEW trims, Running(trims), UseCleanBlk \/ \E f \in HotFirst : UseLastCleanBlk(f)
    PROVE  /\ NewestData' /\ NoSharedPlace' /\ Uniform' /\ UNCHANGED <<map, cold, heap, gc, lists>>
           /\ pc = "findHot"
           /\ pc' \notin Hangs =>
                 /\ Places(trims)' /\ pc' \in {"idle", "while"} /\ hot'.page = 0 /\ hot'.second = FALSE
                 /\ hot'.blk \in CleanBlks /\ CleanBlks' = CleanBlks \ {hot'.blk}
<1>. USE DEF Running, Places
<1>1. /\ pc = "findHot" /\ UNCHANGED <<map, cold, heap, gc, lists, latest, frames>>
      /\ \/ clean # <<>> /\ hot' = HotOnCleanBlk(Head(clean)) /\ clean' = Tail(clean) /\ pc' \in {"idle", "while"}
         \/ hot' = hot /\ pc' \in Hangs
  <2>1. CASE UseCleanBlk
    <3>1. clean # <<>>
      BY <2>1 DEF UseCleanBlk
    <3>2. QED
      BY <2>1, <3>1 DEF UseCleanBlk, Goto
  <2>2. ASSUME NEW f \in HotFirst, UseLastCleanBlk(f)
        PROVE  /\ pc = "findHot" /\ UNCHANGED <<map, cold, heap, gc, lists, latest, frames>>
               /\ \/ clean # <<>> /\ hot' = HotOnCleanBlk(Head(clean)) /\ clean' = Tail(clean)
                     /\ pc' \in {"idle", "while"}
                  \/ hot' = hot /\ pc' \in Hangs
    BY <2>2 DEF UseLastCleanBlk, Goto, Hang, Hangs
  <2>3. QED
    BY <2>1, <2>2
<1>2. \A b : HotOnCleanBlk(b).list = hot.list
  BY DEF HotOnCleanBlk, TypeInv, HotOK, LogType
<1>3. NewestData' /\ NoSharedPlace' /\ Uniform'
  BY <1>1, <1>2, NewestKept, UniformKept
<1>4. ASSUME pc' \notin Hangs
      PROVE  /\ Places(trims)' /\ pc' \in {"idle", "while"} /\ hot'.page = 0 /\ hot'.second = FALSE
             /\ hot'.blk \in CleanBlks /\ CleanBlks' = CleanBlks \ {hot'.blk}
  <2>1. clean # <<>> /\ hot' = HotOnCleanBlk(Head(clean)) /\ clean' = Tail(clean) /\ pc' \in {"idle", "while"}
    BY <1>1, <1>4
  <2>2. /\ hot'.page = 0 /\ hot'.second = FALSE /\ hot'.blk = Head(clean) /\ hot'.ptr = hot.ptr
        /\ hot'.list = hot.list
    BY <2>1 DEF HotOnCleanBlk, TypeInv, HotOK, LogType
  <2>3. CleanBlks' = CleanBlks \ {hot'.blk} /\ hot'.blk \in CleanBlks
    BY <2>1, <2>2, PopClean DEF RoleInv, TypeInv
  <2>4. HotBuf(trims)' /\ ColdBuf'
    <3>1. hot.ptr = 0 /\ \A c \in Chunks : map[c].at # "DRAMHotLog"
      BY <1>1, HotEmpty
    <3>2. QED
      BY <1>1, <2>1, <2>2, <3>1, HotBufEmpty, ColdBufKept
  <2>5. HotPos'
    BY <2>2 DEF HotPos
  <2>6. Stored'
    <3>1. SUFFICES ASSUME NEW c \in Chunks PROVE StoredAt(c, map[c])'
      BY DEF Stored
    <3>2. PICK a \in Address : a = map[c] /\ map'[c] = a
      BY <1>1, MapTypes
    <3>3. StoredAt(c, a)
      BY <3>2 DEF Stored
    <3>4. InFlash(a) => a.blk # hot'.blk
      BY <2>3, <3>3 DEF StoredAt
    <3>5. ColdDone(a.page) => ColdDone(a.page)'
      BY <1>1 DEF ColdDone
    <3>6. StoredAt(c, a)'
      BY <1>1, <2>3, <3>3, <3>4, <3>5 DEF StoredAt, FirstUsage, NamedBy
    <3>7. QED
      BY <3>2, <3>6 DEF StoredAt, FirstUsage, NamedBy
  <2>7. TopMatches'
    <3>1. frames' = <<>>
      BY <1>1 DEF Reserve
    <3>2. QED
      BY <3>1 DEF TopMatches
  <2>8. PageRead' /\ Ahead'
    BY <1>1, PageReadKept, AheadKept
  <2>9. QED
    BY <1>3, <2>1, <2>2, <2>3, <2>4, <2>5, <2>6, <2>7, <2>8
<1>5. QED
  BY <1>1, <1>3, <1>4

\* The outcomes of the reuse of a block: its first page is encoded, or page 2 is next.
Reused(b) ==
    /\ b \in heap["first"].in /\ pc = "findHot"
    /\ UNCHANGED <<map, cold, clean, gc, lists, latest, frames>>
    /\ hot'.blk = b /\ hot'.second /\ hot'.ptr = hot.ptr
    /\ \A h \in Heaps : /\ heap'[h].in = heap[h].in \ {b}
                        /\ \A d \in Blks \ {b} : heap'[h].value[d] = heap[h].value[d]
ReusedLow(b, p) ==
    /\ CanReuseLowPage(ReuseLog(b), p) /\ hot'.page = p /\ hot'.recycled /\ hot'.nextLow = p
    /\ hot'.list = [lists[b].low EXCEPT ![p] = EmptyPage] /\ pc' = "idle"
    /\ heap'["second"].value[b] = heap["first"].value[b] + S
ReusedHigh(b) ==
    /\ hot'.page = 1 /\ ~hot'.recycled /\ hot'.nextLow = None /\ hot'.list = lists[b].low
    /\ pc' = "advanceHot" /\ heap'["second"].value[b] = heap["first"].value[b]

LEMMA ReuseFields ==
    ASSUME TypeInv, NEW f \in HotFirst, ReuseBlk(f)
    PROVE  \E b \in Blks : Reused(b) /\ ((\E p \in {0, 1} : ReusedLow(b, p)) \/ ReusedHigh(b))
<1>1. PICK b \in Roots("first") : (\E p \in {0, 1} : ReuseEncoding(b, p)) \/ ReuseHighOnly(b)
  BY ReuseBlkEffect
<1>2. HeapOK /\ hot \in LogType /\ b \in Blks /\ b \in heap["first"].in
  BY RootsLemma DEF TypeInv, HotOK, Heaps
<1>3. pc = "findHot" /\ UNCHANGED <<map, cold, clean, gc, lists, latest, frames>>
  BY ReuseBlkEffect
<1>4. lists[b].low \in Lists /\ 0 \in 0..(P - 2)
  BY <1>2, SizeLemma DEF TypeInv, ListsOK
<1>5. /\ ReuseLog(b) \in LogType /\ ReuseLog(b).second = TRUE /\ ReuseLog(b).blk = b
      /\ ReuseLog(b).ptr = hot.ptr /\ ReuseLog(b).list = lists[b].low
  BY <1>2, <1>4 DEF ReuseLog, LogType
<1>6. /\ ReuseRemoved(b) \in HeapType
      /\ \A h \in Heaps : /\ ReuseRemoved(b)[h].in = heap[h].in \ {b}
                          /\ \A d \in Blks \ {b} : ReuseRemoved(b)[h].value[d] = heap[h].value[d]
      /\ ReuseRemoved(b)["second"].value[b] = heap["first"].value[b]
  BY <1>2, ReuseRemovedType
<1>7. ASSUME NEW p \in {0, 1}, ReuseEncoding(b, p) PROVE Reused(b) /\ ReusedLow(b, p)
  <2>1. p \in Pages /\ p \in 0..(P - 2)
    BY SizeLemma DEF Pages
  <2>2. PICK log : log = [ReuseLog(b) EXCEPT !.page = p, !.recycled = TRUE]
    OBVIOUS
  <2>3. /\ log \in LogType /\ log.second = TRUE /\ log.blk = b /\ log.ptr = hot.ptr
        /\ log.list = lists[b].low /\ log.page = p /\ log.recycled = TRUE
    BY <1>5, <2>1, <2>2 DEF LogType
  <2>4. PICK used \in LogType : used = Reusing(log, p)
    BY <2>1, <2>3, ReusingType
  <2>5. /\ used.second = TRUE /\ used.blk = b /\ used.ptr = hot.ptr /\ used.page = p /\ used.recycled = TRUE
        /\ used.nextLow = p /\ used.list = [lists[b].low EXCEPT ![p] = EmptyPage]
    BY <2>1, <2>3, <2>4, ReusingType
  <2>6. hot' = [used EXCEPT !.precacheDone = TRUE]
    BY <1>7, <2>2, <2>4 DEF ReuseEncoding
  <2>7. /\ hot'.second = TRUE /\ hot'.blk = b /\ hot'.ptr = hot.ptr /\ hot'.page = p /\ hot'.recycled = TRUE
        /\ hot'.nextLow = p /\ hot'.list = [lists[b].low EXCEPT ![p] = EmptyPage]
    BY <2>5, <2>6 DEF LogType
  <2>8. PICK removed \in HeapType : removed = ReuseRemoved(b)
    BY <1>6
  <2>9. heap' = [removed EXCEPT !["second"].value[b] = @ + S]
    BY <1>7, <2>8 DEF ReuseEncoding
  <2>10. /\ \A h \in Heaps : /\ heap'[h].in = removed[h].in
                             /\ \A d \in Blks \ {b} : heap'[h].value[d] = removed[h].value[d]
         /\ heap'["second"].value[b] = removed["second"].value[b] + S
    BY <1>2, <2>9 DEF HeapType, Heaps
  <2>11. Reused(b)
    BY <1>2, <1>3, <1>6, <2>7, <2>8, <2>10 DEF Reused
  <2>12. ReusedLow(b, p)
    BY <1>6, <1>7, <2>7, <2>8, <2>10 DEF ReusedLow, ReuseEncoding
  <2>13. QED
    BY <2>11, <2>12
<1>8. ASSUME ReuseHighOnly(b) PROVE Reused(b) /\ ReusedHigh(b)
  <2>1. PICK log \in LogType : log = ReuseLog(b)
    BY <1>5
  <2>2. hot' = [log EXCEPT !.page = 1, !.recycled = FALSE, !.precacheDone = FALSE, !.nextLow = None]
    BY <1>8, <2>1 DEF ReuseHighOnly
  <2>3. /\ hot'.second = TRUE /\ hot'.blk = b /\ hot'.ptr = hot.ptr /\ hot'.page = 1
        /\ hot'.recycled = FALSE /\ hot'.nextLow = None /\ hot'.list = lists[b].low
    BY <1>5, <2>1, <2>2 DEF LogType
  <2>4. heap' = ReuseRemoved(b) /\ pc' = "advanceHot"
    BY <1>8 DEF ReuseHighOnly
  <2>5. Reused(b)
    BY <1>2, <1>3, <1>6, <2>3, <2>4 DEF Reused
  <2>6. ReusedHigh(b)
    BY <1>6, <2>3, <2>4 DEF ReusedHigh
  <2>7. QED
    BY <2>5, <2>6
<1>9. QED
  BY <1>1, <1>2, <1>7, <1>8

LEMMA ReusePlaces ==
    ASSUME NEW trims, Running(trims),
           NEW b \in Blks, Reused(b), (\E p \in {0, 1} : ReusedLow(b, p)) \/ ReusedHigh(b)
    PROVE  Places(trims)'
<1>. USE DEF Running, Places
<1>1. /\ b \in heap["first"].in /\ pc = "findHot" /\ pc' \in {"idle", "advanceHot"}
      /\ UNCHANGED <<map, cold, clean, gc, lists, latest, frames>>
      /\ hot'.blk = b /\ hot'.second /\ hot'.ptr = hot.ptr
      /\ heap'["first"].in = heap["first"].in \ {b} /\ heap'["second"].in = heap["second"].in \ {b}
      /\ heap'["cold"].in = heap["cold"].in \ {b}
  BY DEF Reused, ReusedLow, ReusedHigh, Heaps
<1>2. lists[b].low \in [Pages -> PageType] /\ UniformList(lists[b].low)
  BY ListsLemma DEF TypeInv, ListsOK, Uniform
<1>3. \A p \in {0, 1} : p \in Pages /\ LowPage(p)
  BY SizeLemma DEF LowPage
<1>4. NewestData' /\ NoSharedPlace'
  BY <1>1, NewestKept
<1>5. Uniform'
  <2>1. UniformList(hot'.list)
    <3>1. CASE \E p \in {0, 1} : ReusedLow(b, p)
      <4>1. PICK p \in {0, 1} : ReusedLow(b, p)
        BY <3>1
      <4>2. UniformList([lists[b].low EXCEPT ![p] = EmptyPage])
        BY <1>2, <1>3, UniformLemma, UniformEmpty
      <4>3. QED
        BY <4>1, <4>2 DEF ReusedLow
    <3>2. CASE ReusedHigh(b)
      BY <1>2, <3>2 DEF ReusedHigh
    <3>3. QED
      BY <3>1, <3>2
  <2>2. QED
    BY <1>1, <2>1 DEF Uniform, UniformList
<1>6. HotBuf(trims)' /\ ColdBuf'
  <2>1. hot.ptr = 0 /\ \A c \in Chunks : map[c].at # "DRAMHotLog"
    BY <1>1, HotEmpty
  <2>2. QED
    BY <1>1, <2>1, HotBufEmpty, ColdBufKept
<1>7. HotPos'
  <2>1. CASE \E p \in {0, 1} : ReusedLow(b, p)
    <3>1. PICK p \in {0, 1} : ReusedLow(b, p)
      BY <2>1
    <3>2. /\ hot'.page = p /\ hot'.recycled /\ hot'.nextLow = p /\ pc' = "idle"
          /\ hot'.list = [lists[b].low EXCEPT ![p] = EmptyPage]
      BY <3>1 DEF ReusedLow
    <3>3. hot'.list[p] = EmptyPage /\ LowPage(p) /\ p <= p /\ ~(p > p)
      BY <1>2, <1>3, <3>2
    <3>4. QED
      BY <3>2, <3>3 DEF HotPos
  <2>2. CASE ReusedHigh(b)
    BY <2>2 DEF ReusedHigh, HotPos
  <2>3. QED
    BY <2>1, <2>2
<1>8. Stored'
  <2>1. SUFFICES ASSUME NEW c \in Chunks PROVE StoredAt(c, map[c])'
    BY DEF Stored
  <2>2. PICK a \in Address : a = map[c] /\ map'[c] = a
    BY <1>1, MapTypes
  <2>3. StoredAt(c, a)
    BY <2>2 DEF Stored
  <2>4. SUFFICES ASSUME InFlash(a) PROVE StoredAt(c, a)'
    BY <2>2 DEF StoredAt, FirstUsage, NamedBy
  <2>5. a.blk = b => b \notin CleanBlks /\ b \notin heap["second"].in \cup heap["cold"].in /\ b # cold.blk
    BY <1>1 DEF Partition, InHeaps
  <2>6. a.blk = b => FirstUsage(a) /\ NamedBy(hot.list, c, a)'
    <3>1. SUFFICES ASSUME a.blk = b PROVE FirstUsage(a) /\ NamedBy(hot.list, c, a)'
      OBVIOUS
    <3>2. FirstUsage(a) /\ NamedBy(lists[b].low, c, a)
      BY <1>1, <2>3, <2>4, <3>1 DEF StoredAt
    <3>3. hot'.list[a.page] = lists[b].low[a.page]
      <4>1. CASE \E p \in {0, 1} : ReusedLow(b, p)
        <5>1. PICK p \in {0, 1} : ReusedLow(b, p)
          BY <4>1
        <5>2. a.page # p
          <6>1. SUFFICES ASSUME a.page = p PROVE FALSE
            OBVIOUS
          <6>2. /\ a.slot \in Slots /\ lists[b].low[p][a.slot].chunk = c /\ c # None
                /\ a = FlashWLog(b, p, a.slot)
            BY <2>4, <3>1, <3>2, <6>1, PartsLemma, SizeLemma DEF NamedBy, FirstUsage, PlaceOf
          <6>3. ReuseLog(b).list = lists[b].low /\ ReuseLog(b).blk = b
            BY DEF ReuseLog, TypeInv, HotOK, LogType
          <6>4. map[c] # FlashWLog(b, p, a.slot)
            BY <5>1, <6>2, <6>3 DEF ReusedLow, CanReuseLowPage
          <6>5. QED
            BY <2>2, <6>2, <6>4
        <5>3. QED
          BY <1>2, <5>1, <5>2 DEF ReusedLow
      <4>2. CASE ReusedHigh(b)
        BY <4>2 DEF ReusedHigh
      <4>3. QED
        BY <4>1, <4>2
    <3>4. QED
      BY <3>2, <3>3 DEF NamedBy
  <2>7. ColdDone(a.page) => ColdDone(a.page)'
    BY <1>1 DEF ColdDone
  <2>8. CleanBlks' = CleanBlks
    BY <1>1 DEF CleanBlks
  <2>9. QED
    <3>1. CASE a.blk = b
      BY <1>1, <2>5, <2>6, <2>8, <3>1 DEF StoredAt, FirstUsage
    <3>2. CASE a.blk # b
      BY <1>1, <2>3, <2>7, <2>8, <3>2 DEF StoredAt, FirstUsage, NamedBy
    <3>3. QED
      BY <3>1, <3>2
<1>9. TopMatches'
  <2>1. frames' = <<>>
    BY <1>1 DEF Reserve
  <2>2. QED
    BY <2>1 DEF TopMatches
<1>10. PageRead' /\ Ahead'
  BY <1>1, PageReadKept, AheadKept
<1>11. QED
  BY <1>4, <1>5, <1>6, <1>7, <1>8, <1>9, <1>10

LEMMA FillColdEffect ==
    ASSUME TypeInv, RoleInv, FillCold
    PROVE  /\ pc = "advanceCold" /\ cold.page = P - 2 /\ UNCHANGED <<map, hot, gc, latest, frames>>
           /\ lists'[cold.blk].high = cold.list /\ lists'[cold.blk].low = lists[cold.blk].low
           /\ \A d \in Blks \ {cold.blk} : lists'[d] = lists[d]
           /\ heap'["cold"].in = heap["cold"].in \cup {cold.blk}
           /\ heap'["first"].in = heap["first"].in /\ heap'["second"].in = heap["second"].in
           /\ \A h \in Heaps : heap'[h].value = heap[h].value
           /\ \/ pc' \in Hangs /\ cold' = cold
              \/ /\ pc' = "while" /\ cold'.blk \in CleanBlks /\ CleanBlks' = CleanBlks \ {cold'.blk}
                 /\ cold'.page = 0 /\ cold'.list = EmptyList
                 /\ cold'.ptr = cold.ptr /\ cold'.chunk = cold.chunk /\ cold'.allValid = cold.allValid
                 /\ cold'.recycled = cold.recycled
<1>1. /\ cold \in LogType /\ cold.blk \in Blks /\ HeapOK /\ CleanOK /\ Distinct(clean)
      /\ lists \in [Blks -> [low : Lists, high : Lists]]
  BY LogFields DEF TypeInv, ColdOK, ListsOK, RoleInv
<1>2. /\ pc = "advanceCold" /\ cold.page = P - 2 /\ UNCHANGED <<map, hot, gc, latest, frames>>
      /\ lists' = [lists EXCEPT ![cold.blk].high = cold.list]
      /\ heap' = [heap EXCEPT !["cold"].in = @ \cup {cold.blk}]
  BY DEF FillCold, LastDataPage
<1>3. /\ lists'[cold.blk].high = cold.list /\ lists'[cold.blk].low = lists[cold.blk].low
      /\ \A d \in Blks \ {cold.blk} : lists'[d] = lists[d]
  BY <1>1, <1>2
<1>4. /\ heap'["cold"].in = heap["cold"].in \cup {cold.blk}
      /\ heap'["first"].in = heap["first"].in /\ heap'["second"].in = heap["second"].in
      /\ \A h \in Heaps : heap'[h].value = heap[h].value
  BY <1>1, <1>2 DEF HeapOK, Heaps
<1>5. CASE clean = <<>>
  <2>1. pc' \in Hangs /\ cold' = cold
    BY <1>5 DEF FillCold, Hang, Hangs
  <2>2. QED
    BY <1>2, <1>3, <1>4, <2>1
<1>6. CASE clean # <<>>
  <2>1. /\ cold' = [cold EXCEPT !.list = EmptyList, !.blk = Head(clean), !.page = 0]
        /\ clean' = Tail(clean) /\ pc' = "while"
    BY <1>6 DEF FillCold, Goto
  <2>2. /\ cold'.blk = Head(clean) /\ cold'.page = 0 /\ cold'.list = EmptyList
        /\ cold'.ptr = cold.ptr /\ cold'.chunk = cold.chunk /\ cold'.allValid = cold.allValid
        /\ cold'.recycled = cold.recycled
    BY <1>1, <2>1 DEF LogType
  <2>3. cold'.blk \in CleanBlks /\ CleanBlks' = CleanBlks \ {cold'.blk}
    BY <1>1, <1>6, <2>1, <2>2, PopClean
  <2>4. QED
    BY <1>2, <1>3, <1>4, <2>1, <2>2, <2>3
<1>7. QED
  BY <1>5, <1>6

LEMMA FillColdPlaces ==
    ASSUME NEW trims, Running(trims), FillCold
    PROVE  NewestData' /\ NoSharedPlace' /\ Uniform' /\ (pc' \notin Hangs => Places(trims)')
<1>. USE DEF Running, Places
<1>1. /\ pc = "advanceCold" /\ cold.page = P - 2 /\ UNCHANGED <<map, hot, gc, latest, frames>>
      /\ lists'[cold.blk].high = cold.list /\ lists'[cold.blk].low = lists[cold.blk].low
      /\ \A d \in Blks \ {cold.blk} : lists'[d] = lists[d]
      /\ heap'["cold"].in = heap["cold"].in \cup {cold.blk}
      /\ heap'["first"].in = heap["first"].in /\ heap'["second"].in = heap["second"].in
  BY FillColdEffect
<1>2. cold.blk \in Blks /\ cold.blk \notin CleanBlks \cup InHeaps /\ cold.blk # hot.blk
  BY <1>1, LogFields DEF TypeInv, ColdOK, Partition
<1>3. cold'.list = cold.list \/ cold'.list = EmptyList
  BY FillColdEffect
<1>4. NewestData' /\ NoSharedPlace'
  BY <1>1, NewestKept
<1>5. Uniform'
  <2>1. \A d \in Blks : UniformList(lists'[d].low) /\ UniformList(lists'[d].high)
    BY <1>1 DEF Uniform
  <2>2. UniformList(hot'.list) /\ UniformList(cold'.list)
    BY <1>1, <1>3, UniformEmpty DEF Uniform
  <2>3. QED
    BY <2>1, <2>2 DEF Uniform, UniformList
<1>6. ASSUME pc' \notin Hangs PROVE Places(trims)'
  <2>1. /\ pc' = "while" /\ cold'.blk \in CleanBlks /\ CleanBlks' = CleanBlks \ {cold'.blk}
        /\ cold'.page = 0 /\ cold'.ptr = cold.ptr /\ cold'.chunk = cold.chunk
        /\ cold'.allValid = cold.allValid /\ cold'.recycled = cold.recycled
    BY <1>6, FillColdEffect
  <2>2. HotBuf(trims)' /\ ColdBuf' /\ HotPos'
    BY <1>1, <2>1, HotBufKept, ColdBufKept, HotPosKept
  <2>3. Stored'
    <3>1. SUFFICES ASSUME NEW c \in Chunks PROVE StoredAt(c, map[c])'
      BY DEF Stored
    <3>2. PICK a \in Address : a = map[c] /\ map'[c] = a
      BY <1>1, MapTypes
    <3>3. StoredAt(c, a)
      BY <3>2 DEF Stored
    <3>4. SUFFICES ASSUME InFlash(a) PROVE StoredAt(c, a)'
      BY <3>2 DEF StoredAt, FirstUsage, NamedBy
    <3>5. a.blk \in Blks /\ a.blk # cold'.blk /\ a.blk \notin CleanBlks'
      BY <2>1, <3>3, <3>4, PartsLemma DEF StoredAt
    <3>6. HotDone(a.page) <=> HotDone(a.page)'
      BY <1>1, <2>1 DEF HotDone
    <3>7. CASE a.blk = cold.blk
      BY <1>1, <1>2, <3>3, <3>4, <3>5, <3>7 DEF StoredAt, InHeaps, NamedBy
    <3>8. CASE a.blk # cold.blk
      <4>1. lists'[a.blk] = lists[a.blk]
        BY <1>1, <3>5, <3>8
      <4>2. QED
        BY <1>1, <2>1, <3>3, <3>4, <3>5, <3>6, <3>8, <4>1 DEF StoredAt, FirstUsage, NamedBy
    <3>9. QED
      BY <3>7, <3>8
  <2>4. TopMatches'
    BY <1>1, <2>1, TopKept
  <2>5. gc.state # "idle" => gc.victim \in Blks \ {cold.blk}
    BY <1>2 DEF RoleInv, InHeaps, TypeInv, GcOK
  <2>6. PageRead' /\ Ahead'
    <3>1. gc.state # "idle" => lists'[gc.victim] = lists[gc.victim]
      BY <1>1, <2>5
    <3>2. QED
      BY <1>1, <3>1, PageReadKept, AheadKept
  <2>7. QED
    BY <1>4, <1>5, <2>2, <2>3, <2>4, <2>6
<1>7. QED
  BY <1>4, <1>5, <1>6

\* The erasure of a block no chunk is in.
LEMMA ReclaimPlaces ==
    ASSUME NEW trims, Running(trims), NEW b \in heap["second"].in \cup heap["cold"].in, Reclaim(b),
           \A c \in Chunks : ~InBlk(map[c], b), pc \in {"while", "collect"}, pc' = "collect",
           gc'.state = "idle", UNCHANGED <<map, hot, cold, frames>>
    PROVE  Places(trims)' /\ CleanBlks' = CleanBlks \cup {b}
<1>. USE DEF Running, Places
<1>1. /\ b \in Blks /\ b \notin CleanBlks /\ b \in InHeaps /\ b # cold.blk /\ b # hot.blk
      /\ CleanOK /\ Distinct(clean) /\ lists \in [Blks -> [low : Lists, high : Lists]]
  BY DEF TypeInv, HeapOK, Heaps, Partition, InHeaps, RoleInv, ListsOK
<1>2. /\ clean' = Append(clean, b) /\ \A h \in Heaps : heap'[h].in = heap[h].in \ {b}
  BY <1>1, ReclaimTypes
<1>3. CleanBlks' = CleanBlks \cup {b}
  BY <1>1, <1>2, AppendClean
<1>4. /\ lists' = [lists EXCEPT ![b] = [low |-> EmptyList, high |-> EmptyList]]
      /\ latest' = [c \in Chunks |-> {a \in latest[c] : ~InBlk(a, b)}]
  BY DEF Reclaim
<1>5. NewestData' /\ NoSharedPlace'
  BY <1>4 DEF NewestData, NoSharedPlace
<1>6. \A d \in Blks : \/ d # b /\ lists'[d] = lists[d]
                      \/ d = b /\ lists'[d].low = EmptyList /\ lists'[d].high = EmptyList
  BY <1>1, <1>4
<1>7. Uniform'
  <2>1. \A d \in Blks : UniformList(lists'[d].low) /\ UniformList(lists'[d].high)
    BY <1>6, UniformEmpty DEF Uniform
  <2>2. QED
    BY <2>1 DEF Uniform, UniformList
<1>8. HotBuf(trims)' /\ ColdBuf' /\ HotPos'
  BY HotBufKept, ColdBufKept, HotPosKept
<1>9. Stored'
  <2>1. SUFFICES ASSUME NEW c \in Chunks PROVE StoredAt(c, map[c])'
    BY DEF Stored
  <2>2. PICK a \in Address : a = map[c] /\ map'[c] = a
    BY MapTypes
  <2>3. StoredAt(c, a) /\ ~InBlk(a, b)
    BY <2>2 DEF Stored
  <2>4. SUFFICES ASSUME InFlash(a) PROVE StoredAt(c, a)'
    BY <2>2 DEF StoredAt, FirstUsage, NamedBy
  <2>5. a.blk \in Blks /\ a.blk # b
    BY <2>3, <2>4, PartsLemma DEF InBlk
  <2>6. lists'[a.blk] = lists[a.blk] /\ a.blk \notin CleanBlks'
    BY <1>3, <1>6, <2>3, <2>4, <2>5 DEF StoredAt
  <2>7. (HotDone(a.page) <=> HotDone(a.page)') /\ (ColdDone(a.page) <=> ColdDone(a.page)')
    BY DEF HotDone, ColdDone
  <2>8. /\ heap'["first"].in = heap["first"].in \ {b} /\ heap'["second"].in = heap["second"].in \ {b}
        /\ heap'["cold"].in = heap["cold"].in \ {b}
    BY <1>2 DEF Heaps
  <2>9. QED
    BY <2>3, <2>4, <2>5, <2>6, <2>7, <2>8 DEF StoredAt, FirstUsage, NamedBy
<1>10. TopMatches' /\ PageRead' /\ Ahead'
  BY DEF TopMatches, PageRead, Ahead, AheadAt
<1>11. QED
  BY <1>3, <1>5, <1>7, <1>8, <1>9, <1>10

\* A block without valid chunks has none in the map.
LEMMA LiveLemma ==
    ASSUME NEW b
    PROVE  /\ IsFiniteSet({c \in Chunks : InBlk(map[c], b)}) /\ Live(b) \in Nat
           /\ Live(b) <= 0 => \A c \in Chunks : ~InBlk(map[c], b)
<1>1. IsFiniteSet({c \in Chunks : InBlk(map[c], b)})
  BY ChunksAssumption, FS_Subset
<1>2. Live(b) \in Nat
  BY <1>1, FS_CardinalityType DEF Live
<1>3. Live(b) = 0 => {c \in Chunks : InBlk(map[c], b)} = {}
  BY <1>1, FS_EmptySet DEF Live
<1>4. QED
  BY <1>1, <1>2, <1>3

\* How a collection starts.
LEMMA CollectStart ==
    ASSUME TypeInv, CollectAgain
    PROVE  /\ pc = "while" /\ UNCHANGED <<map, hot, cold, frames>>
           /\ \/ /\ pc' \in {"no candidate", "collect"} /\ UNCHANGED <<heap, clean, gc, lists, latest>>
              \/ /\ gc.state = "idle" /\ pc' = "collect"
                 /\ \E h \in {"second", "cold"} : \E b \in heap[h].in :
                       \/ /\ gc'.state = "read" /\ gc'.victim = b /\ gc'.page = 0 /\ gc'.valid = {}
                          /\ gc'.fromHeap = heap[h].value[b] /\ gc'.inBlk = 0
                          /\ UNCHANGED <<heap, clean, lists, latest>>
                       \/ heap[h].value[b] <= 0 /\ gc'.state = "idle" /\ Reclaim(b)
<1>1. gc \in GcType /\ HeapOK /\ (gc.state = "idle" => gc.valid = {})
  BY DEF TypeInv, GcOK
<1>2. pc = "while" /\ UNCHANGED <<map, hot, cold, frames>>
  BY DEF CollectAgain
<1>3. CASE gc.state = "idle" /\ heap[VictimHeap].in # {}
  <2>1. InitGC
    BY <1>3 DEF CollectAgain
  <2>2. PICK h \in {"second", "cold"} : h = VictimHeap
    BY DEF VictimHeap
  <2>3. PICK b \in Roots(h) :
          LET n == heap[h].value[b]
              started == [gc EXCEPT !.victim = b, !.fromHeap = n, !.inBlk = 0]
          IN /\ Goto("collect")
             /\ IF n > 0
                THEN /\ gc' = [started EXCEPT !.state = "read", !.page = 0, !.encoded = FALSE]
                     /\ UNCHANGED <<heap, clean, lists, programs, latest>>
                ELSE /\ gc' = [started EXCEPT !.state = "idle"]
                     /\ Reclaim(b)
    BY <1>3, <2>1, <2>2 DEF InitGC
  <2>4. b \in heap[h].in /\ b \in Blks
    BY <1>1, <2>2 DEF Roots, HeapOK, Heaps
  <2>5. PICK n \in Int : n = heap[h].value[b]
    BY <1>1, <2>2, <2>4 DEF HeapOK, Heaps
  <2>6. PICK started : started = [gc EXCEPT !.victim = b, !.fromHeap = n, !.inBlk = 0]
    OBVIOUS
  <2>7. pc' = "collect"
    BY <2>3 DEF Goto
  <2>8. CASE n > 0
    <3>1. /\ gc' = [started EXCEPT !.state = "read", !.page = 0, !.encoded = FALSE]
          /\ UNCHANGED <<heap, clean, lists, programs, latest>>
      BY <2>3, <2>5, <2>6, <2>8
    <3>2. /\ gc'.state = "read" /\ gc'.victim = b /\ gc'.page = 0 /\ gc'.valid = {}
          /\ gc'.fromHeap = n /\ gc'.inBlk = 0
      BY <1>1, <1>3, <2>6, <3>1 DEF GcType
    <3>3. QED
      BY <1>2, <1>3, <2>4, <2>5, <2>7, <3>1, <3>2
  <2>9. CASE ~(n > 0)
    <3>1. gc' = [started EXCEPT !.state = "idle"] /\ Reclaim(b)
      BY <2>3, <2>5, <2>6, <2>9
    <3>2. gc'.state = "idle"
      BY <1>1, <2>6, <3>1 DEF GcType
    <3>3. heap[h].value[b] <= 0
      BY <2>5, <2>9
    <3>4. QED
      BY <1>2, <1>3, <2>4, <2>7, <3>1, <3>2, <3>3
  <2>10. QED
    BY <2>8, <2>9
<1>4. CASE ~(gc.state = "idle" /\ heap[VictimHeap].in # {})
  BY <1>2, <1>4 DEF CollectAgain, InitGC, Hang, Goto
<1>5. QED
  BY <1>3, <1>4

LEMMA CollectAgainPlaces ==
    ASSUME NEW trims, Running(trims), CollectAgain
    PROVE  NewestData' /\ NoSharedPlace' /\ Uniform' /\ (pc' \notin Hangs => Places(trims)')
<1>. USE DEF Running, Places
<1>1. pc = "while" /\ UNCHANGED <<map, hot, cold, frames>> /\ "collect" \notin Hangs
  BY CollectStart, LabelsLemma
<1>2. CASE pc' \in {"no candidate", "collect"} /\ UNCHANGED <<heap, clean, gc, lists, latest>>
  <2>1. NewestData' /\ NoSharedPlace' /\ Uniform'
    BY <1>1, <1>2, NewestKept, UniformKept
  <2>2. ASSUME pc' = "collect" PROVE Places(trims)'
    <3>1. HotBuf(trims)' /\ ColdBuf' /\ HotPos'
      BY <1>1, <1>2, <2>2, HotBufKept, ColdBufKept, HotPosKept
    <3>2. Stored'
      <4>1. KeepsRoles
        BY <1>1, <1>2, <2>2 DEF KeepsRoles, Hangs
      <4>2. \A p \in Pages : (HotDone(p) => HotDone(p)') /\ (ColdDone(p) => ColdDone(p)')
        BY <1>1 DEF HotDone, ColdDone
      <4>3. QED
        BY <1>1, <1>2, <4>1, <4>2, AllStoredKept
    <3>3. TopMatches'
      BY <2>2 DEF TopMatches
    <3>4. PageRead' /\ Ahead'
      BY <1>1, <1>2, PageReadKept, AheadKept
    <3>5. QED
      BY <2>1, <3>1, <3>2, <3>3, <3>4
  <2>3. pc' \in Hangs \/ pc' = "collect"
    BY <1>2 DEF Hangs
  <2>4. QED
    BY <2>1, <2>2, <2>3
<1>3. ASSUME gc.state = "idle", pc' = "collect", NEW h \in {"second", "cold"}, NEW b \in heap[h].in,
             gc'.state = "read", gc'.victim = b, gc'.page = 0, gc'.valid = {},
             UNCHANGED <<heap, clean, lists, latest>>
      PROVE  Places(trims)'
  <2>1. NewestData' /\ NoSharedPlace' /\ Uniform'
    BY <1>1, <1>3, NewestKept, UniformKept
  <2>2. HotBuf(trims)' /\ ColdBuf' /\ HotPos'
    BY <1>1, <1>3, HotBufKept, ColdBufKept, HotPosKept
  <2>3. Stored'
    <3>1. SUFFICES ASSUME NEW c \in Chunks PROVE StoredAt(c, map[c])'
      BY DEF Stored
    <3>2. StoredAt(c, map[c])
      BY DEF Stored
    <3>3. \A p : (HotDone(p) <=> HotDone(p)') /\ (ColdDone(p) <=> ColdDone(p)')
      BY <1>1, <1>3 DEF HotDone, ColdDone
    <3>4. CleanBlks' = CleanBlks
      BY <1>3 DEF CleanBlks
    <3>5. QED
      BY <1>1, <1>3, <3>2, <3>3, <3>4 DEF StoredAt, FirstUsage, NamedBy
  <2>4. TopMatches' /\ PageRead'
    BY <1>3 DEF TopMatches, PageRead
  <2>5. Ahead'
    <3>1. SUFFICES ASSUME NEW c \in Chunks, InBlk(map'[c], gc'.victim) PROVE map'[c].page >= 0
      BY <1>3 DEF Ahead, AheadAt
    <3>2. PICK a \in Address : a = map'[c]
      BY <1>1, MapTypes
    <3>3. a.page \in 0..(P - 2)
      BY <3>1, <3>2, PartsLemma DEF InBlk
    <3>4. QED
      BY <3>2, <3>3
  <2>6. QED
    BY <2>1, <2>2, <2>3, <2>4, <2>5
<1>4. ASSUME gc.state = "idle", pc' = "collect", NEW h \in {"second", "cold"}, NEW b \in heap[h].in,
             heap[h].value[b] <= 0, gc'.state = "idle", Reclaim(b)
      PROVE  Places(trims)'
  <2>1. ~Collecting(b) /\ b \in heap["second"].in \cup heap["cold"].in
    BY <1>4 DEF Collecting
  <2>2. Live(b) <= 0
    <3>1. Counted(trims, heap[h].value[b], Live(b)) /\ heap[h].value[b] <= 0
      BY <1>4, <2>1 DEF HeapCounts
    <3>2. heap[h].value[b] \in Int /\ Live(b) \in Nat
      <4>1. h \in Heaps /\ b \in Blks
        BY <1>4 DEF Heaps, TypeInv, HeapOK
      <4>2. QED
        BY <4>1, LiveLemma DEF TypeInv, HeapOK
    <3>3. QED
      BY <3>1, <3>2 DEF Counted
  <2>3. \A c \in Chunks : ~InBlk(map[c], b)
    BY <2>2, LiveLemma
  <2>4. QED
    BY <1>1, <1>4, <2>1, <2>3, ReclaimPlaces
<1>5. QED
  BY <1>1, <1>2, <1>3, <1>4, CollectStart

\* When the whole victim was read, no chunk is left in it.
LEMMA VictimEmpty ==
    ASSUME NEW trims, Running(trims), EndOfVictim
    PROVE  \A c \in Chunks : ~InBlk(map[c], gc.victim)
<1>1. SUFFICES ASSUME NEW c \in Chunks, InBlk(map[c], gc.victim) PROVE FALSE
  OBVIOUS
<1>2. gc.state = "read" /\ ~MeetsValid /\ gc.page \in Nat
  BY DEF EndOfVictim, Running, TypeInv, GcOK, GcType
<1>3. PICK q : q = map[c].page
  OBVIOUS
<1>4. q \in 0..(P - 2) /\ ValidSlots(q) # {} /\ q >= gc.page
  BY <1>1, <1>2, <1>3, OnPage DEF Running, Places, Ahead, AheadAt
<1>. DEFINE T == {p \in 0..(P - 2) : p >= gc.page /\ ValidSlots(p) # {}}
<1>5. P - 2 \in Nat /\ 0..(P - 2) \subseteq Pages
  BY SizeLemma
<1>6. PICK p \in T : \A r \in T : p <= r
  <2>1. T \subseteq 0..(P - 2) /\ T # {}
    BY <1>4
  <2>. HIDE DEF T
  <2>2. QED
    BY <1>5, <2>1, LeastElement
<1>7. ScannedTo(p)
  <2>1. \A r \in gc.page..(p - 1) : ValidSlots(r) = {}
    <3>1. SUFFICES ASSUME NEW r \in gc.page..(p - 1), ValidSlots(r) # {} PROVE FALSE
      OBVIOUS
    <3>2. r \in T /\ ~(p <= r)
      BY <1>2, <1>5, <1>6, <3>1
    <3>3. QED
      BY <1>6, <3>2
  <2>2. gc.page <= p /\ p <= LastDataPage
    BY <1>2, <1>5 DEF LastDataPage
  <2>3. QED
    BY <2>1, <2>2 DEF ScannedTo
<1>8. MeetsValid
  BY <1>5, <1>6, <1>7 DEF MeetsValid
<1>9. QED
  BY <1>2, <1>8

LEMMA EndOfVictimPlaces ==
    ASSUME NEW trims, Running(trims), EndOfVictim
    PROVE  NewestData' /\ NoSharedPlace' /\ Uniform' /\ (pc' \notin Hangs => Places(trims)')
<1>1. gc.state = "read" /\ pc = "collect" /\ gc \in GcType /\ UNCHANGED <<map, hot, cold, frames>>
  BY DEF Running, TypeInv, GcOK, EndOfVictim
<1>2. CASE gc.inBlk # gc.fromHeap
  <2>1. pc' \in Hangs /\ UNCHANGED <<lists, latest>>
    BY <1>2 DEF EndOfVictim, Hang, Hangs
  <2>2. QED
    BY <1>1, <2>1, NewestKept, UniformKept DEF Running, Places
<1>3. CASE gc.inBlk = gc.fromHeap
  <2>1. Reclaim(gc.victim) /\ gc'.state = "idle" /\ pc' = "collect"
    BY <1>1, <1>3 DEF EndOfVictim, GcType
  <2>2. PICK b \in heap["second"].in \cup heap["cold"].in : b = gc.victim
    BY <1>1 DEF Running, RoleInv
  <2>3. \A c \in Chunks : ~InBlk(map[c], b)
    BY <2>2, VictimEmpty
  <2>4. Places(trims)'
    BY <1>1, <2>1, <2>2, <2>3, ReclaimPlaces
  <2>5. QED
    BY <2>4 DEF Places
<1>4. QED
  BY <1>2, <1>3

\* A stopped firmware stays stopped.
LEMMA HangStops ==
    ASSUME Next
    PROVE  pc \notin Hangs
<1>1. ASSUME NEW c \in Chunks, WriteHot(c) \/ WriteCold(c) \/ MoveAway(c) PROVE pc = "idle"
  BY <1>1 DEF WriteHot, WriteCold, MoveAway
<1>2. ASSUME FlushHot \/ FlushCold \/ FlushRecycled PROVE pc \in {"flushHot", "flushCold"}
  BY <1>2 DEF FlushHot, FlushCold, FlushRecycled
<1>3. ASSUME AdvanceFirst \/ FillFirst \/ AdvanceToHigh \/ AdvanceToTestedLow \/ AdvanceToPage1
             \/ SkipLow \/ FillSecond
      PROVE  pc = "advanceHot"
  BY <1>3 DEF AdvanceFirst, FillFirst, AdvanceToHigh, AdvanceToTestedLow, AdvanceToPage1, SkipLow,
              FillSecond, InSecondUsage
<1>4. ASSUME NEW f \in HotFirst, UseCleanBlk \/ ReuseBlk(f) \/ UseLastCleanBlk(f) PROVE pc = "findHot"
  BY <1>4 DEF UseCleanBlk, ReuseBlk, UseLastCleanBlk
<1>5. ASSUME UseCleanBlk PROVE pc = "findHot"
  BY <1>5 DEF UseCleanBlk
<1>6. ASSUME AdvanceCold \/ FillCold PROVE pc = "advanceCold"
  BY <1>6 DEF AdvanceCold, FillCold
<1>7. ASSUME CollectAgain \/ EnoughClean \/ GcIdle \/ ReadPage \/ EndOfVictim
             \/ CopyWholePage \/ CopyByChunk \/ CopyChunk \/ EndOfPage
      PROVE  pc \in {"while", "collect", "copy"}
  BY <1>7 DEF CollectAgain, EnoughClean, GcIdle, ReadPage, EndOfVictim, CopyWholePage, CopyByChunk,
              CopyChunk, EndOfPage
<1>8. QED
  BY NextCases, LabelsLemma, <1>1, <1>2, <1>3, <1>4, <1>5, <1>6, <1>7

\* Every step keeps the places of the data.
LEMMA PlacesStep ==
    ASSUME NEW trims, Running(trims), Next
    PROVE  NewestData' /\ NoSharedPlace' /\ Uniform' /\ (pc' \notin Hangs => Places(trims)')
<1>1. ASSUME Places(trims)' PROVE NewestData' /\ NoSharedPlace' /\ Uniform'
  BY <1>1 DEF Places
<1>2. ASSUME NEW c \in Chunks, WriteHot(c) \/ WriteCold(c) \/ MoveAway(c) PROVE Places(trims)'
  BY <1>2, WriteHotPlaces, WriteColdPlaces, MoveAwayPlaces
<1>3. CASE FlushHot \/ FlushCold \/ FlushRecycled
  BY <1>1, <1>3, FlushHotPlaces, FlushColdPlaces, FlushRecycledPlaces
<1>4. CASE AdvanceFirst \/ AdvanceToHigh \/ AdvanceToTestedLow \/ AdvanceToPage1 \/ SkipLow
  BY <1>1, <1>4, AdvanceHotPlaces
<1>5. CASE FillFirst \/ FillSecond
  BY <1>1, <1>5, FillHotPlaces
<1>6. CASE UseCleanBlk \/ \E f \in HotFirst : UseLastCleanBlk(f)
  BY <1>6, CleanBlkPlaces
<1>7. ASSUME NEW f \in HotFirst, ReuseBlk(f) PROVE Places(trims)'
  <2>1. PICK b \in Blks : Reused(b) /\ ((\E p \in {0, 1} : ReusedLow(b, p)) \/ ReusedHigh(b))
    BY <1>7, ReuseFields DEF Running
  <2>2. QED
    BY <2>1, ReusePlaces
<1>8. CASE AdvanceCold \/ FillCold
  BY <1>1, <1>8, AdvanceColdPlaces, FillColdPlaces
<1>9. CASE EnoughClean \/ GcIdle \/ ReadPage \/ CopyByChunk \/ EndOfPage
  BY <1>9, MovesPlaces
<1>10. CASE CollectAgain \/ EndOfVictim
  BY <1>10, CollectAgainPlaces, EndOfVictimPlaces
<1>11. CASE CopyWholePage \/ CopyChunk
  BY <1>1, <1>11, CopyWholePagePlaces, CopyChunkPlaces
<1>12. QED
  BY NextCases, <1>1, <1>2, <1>3, <1>4, <1>5, <1>6, <1>7, <1>8, <1>9, <1>10, <1>11

\* The formatted bank.
LEMMA PlacesInit ==
    ASSUME NEW trims, Init
    PROVE  Places(trims) /\ \A c \in Chunks : map[c] = Invalid
<1>1. \A c \in Chunks : map[c] = Invalid
  BY DEF Init
<1>2. /\ hot = FreshLog(0) /\ cold = FreshLog(1) /\ pc = "idle" /\ frames = <<>> /\ gc.state = "idle"
      /\ \A b \in Blks : lists[b].low = EmptyList /\ lists[b].high = EmptyList
  BY DEF Init
<1>3. /\ hot.ptr = 0 /\ hot.recycled = FALSE /\ hot.second = FALSE /\ hot.list = EmptyList
      /\ cold.ptr = 0 /\ cold.recycled = FALSE /\ cold.list = EmptyList
  BY <1>2 DEF FreshLog
<1>4. NewestData /\ NoSharedPlace
  BY <1>1 DEF NewestData, NoSharedPlace
<1>5. Uniform
  BY <1>2, <1>3, UniformEmpty DEF Uniform
<1>6. \A s \in Slots : ~(s < 0)
  BY DEF Slots
<1>7. HotFilled = {} /\ ColdFilled = {}
  BY <1>2, <1>3, <1>6 DEF HotFilled, ColdFilled
<1>8. HotBuf(trims) /\ ColdBuf
  BY <1>1, <1>2, <1>3, <1>7, DramLemma, SizeLemma DEF HotBuf, ColdBuf, Width
<1>9. HotPos /\ TopMatches /\ PageRead /\ Ahead
  BY <1>2, <1>3 DEF HotPos, TopMatches, PageRead, Ahead, AheadAt
<1>10. Stored
  <2>1. ~InFlash(Invalid)
    BY DramLemma
  <2>2. QED
    BY <1>1, <2>1 DEF Stored, StoredAt
<1>11. QED
  BY <1>1, <1>4, <1>5, <1>8, <1>9, <1>10 DEF Places

----------------------------------------------------------------------------
(* The counts of the heaps.  Off(h, b) is how many chunks more than the    *)
(* map has in block b the heap h counts for it; every step that moves a    *)
(* chunk changes the count and the map alike, so Off only moves when a     *)
(* page of the logs is programmed, chosen to be encoded, or when a block   *)
(* starts again.                                                           *)

Off(h, b) == heap[h].value[b] - Live(b)

HeapOff(trims) ==
    /\ \A h \in {"second", "cold"} : \A b \in heap[h].in : Collecting(b) \/ Counted(trims, Off(h, b), 0)
    /\ \A b \in heap["first"].in : Counted(trims, Off("first", b), HighPages * S)
CleanOff == \A b \in CleanBlks, h \in Heaps : Off(h, b) = InitialCount(h)
ColdOff == Off("cold", cold.blk) = ColdLeft * S
HotOff(trims) ==
    pc # "findHot" =>
        IF hot.second THEN Counted(trims, Off("second", hot.blk), (HighLeft + LowLeft) * S)
        ELSE Counted(trims, Off("first", hot.blk), (FirstLeft + HighPages) * S)
LogOff(trims) == CleanOff /\ ColdOff /\ HotOff(trims)

----------------------------------------------------------------------------
(* Arithmetic.                                                             *)

LEMMA SumsLemma ==
    /\ \A b : Live(b) \in Nat
    /\ HighPages \in Nat /\ Half \in Nat /\ P = 2 * Half /\ HighPages = Half - 1
    /\ FirstUsageInit \in Int /\ SecondUsageInit \in Int
    /\ \A x \in Int : x * S \in Int
    /\ \A h \in Heaps : InitialCount(h) \in Int
<1>1. \A b : Live(b) \in Nat
  BY LiveLemma
<1>2. P \in Nat /\ P % 2 = 0 /\ P >= 6 /\ S \in Nat
  BY SizeLemma
<1>3. HighPages \in Nat /\ Half \in Nat /\ P = 2 * Half /\ HighPages = Half - 1
  BY <1>2 DEF HighPages, Half
<1>4. \A x \in Int : x * S \in Int
  BY <1>2
<1>5. P - 2 \in Int /\ P - 1 \in Int
  BY <1>2
<1>6. FirstUsageInit \in Int /\ SecondUsageInit \in Int
  BY <1>4, <1>5 DEF FirstUsageInit, SecondUsageInit
<1>7. QED
  BY <1>1, <1>3, <1>4, <1>6 DEF InitialCount

LEMMA TimesLemma == \A x \in Int : (x - 1) * S = x * S - S /\ (x + 1) * S = x * S + S /\ 0 * S = 0
BY SizeLemma

LEMMA CountedLemma ==
    ASSUME NEW trims
    PROVE  /\ \A x : x \in Int => Counted(trims, x, x)
           /\ \A x, y, n \in Int : Counted(trims, x, y) => Counted(trims, x + n, y + n)
           /\ \A x, y, z, n \in Int :
                 Counted(trims, x, y) /\ Counted(trims, z, x - n) => Counted(trims, z, y - n)
           /\ \A x, y \in Int : Counted(trims, x, y) => x >= y
           /\ \A x, y : Counted("none", x, y) => x = y
BY DEF Counted

LEMMA ValueType ==
    ASSUME HeapOK, NEW h \in Heaps, NEW b \in Blks
    PROVE  heap[h].value[b] \in Int
BY DEF HeapOK

LEMMA OffType == \A h \in Heaps, b \in Blks : TypeInv => Off(h, b) \in Int
<1>1. \A b : Live(b) \in Nat
  BY SumsLemma
<1>2. QED
  BY <1>1, ValueType DEF TypeInv, Off

LEMMA OffTypePrimed == \A h \in Heaps, b \in Blks : TypeInv' => Off(h, b)' \in Int
<1>1. \A h \in Heaps, b \in Blks : TypeInv => Off(h, b) \in Int
  BY OffType
<1>2. (\A h \in Heaps, b \in Blks : TypeInv => Off(h, b) \in Int)'
  BY <1>1, PTL
<1>3. QED
  BY <1>2

LEMMA LeftType ==
    ASSUME TypeInv
    PROVE  HighLeft + LowLeft \in Int /\ FirstLeft + HighPages \in Int /\ ColdLeft \in Int
           /\ HighLeft \in Int /\ FirstLeft \in Int /\ LowLeft \in {0, 1}
<1>1. hot.page \in 0..(P - 2) /\ cold.page \in 0..(P - 2) /\ P \in Nat
  BY LogFields, SizeLemma DEF TypeInv, HotOK, ColdOK
<1>2. Half \in Nat /\ HighPages \in Nat
  BY SumsLemma
<1>3. LowLeft \in {0, 1}
  BY DEF LowLeft
<1>4. HotNext \in Int
  BY <1>1 DEF HotNext
<1>5. HighLeft \in Int
  BY <1>2, <1>4 DEF HighLeft
<1>6. FirstLeft \in Int
  BY <1>1, <1>2 DEF FirstLeft
<1>7. ColdLeft \in Int
  BY <1>1 DEF ColdLeft
<1>8. QED
  BY <1>2, <1>3, <1>5, <1>6, <1>7

\* The counts, said with Off.
LEMMA Offs ==
    \A trims : /\ TypeInv /\ Stored => (HeapCounts(trims) <=> HeapOff(trims))
               /\ TypeInv /\ Stored => (LogCounts(trims) <=> LogOff(trims))
<1>. SUFFICES ASSUME NEW trims, TypeInv, Stored
              PROVE  (HeapCounts(trims) <=> HeapOff(trims)) /\ (LogCounts(trims) <=> LogOff(trims))
  OBVIOUS
<1>1. \A h \in Heaps, b \in Blks : heap[h].value[b] \in Int
  BY ValueType DEF TypeInv
<1>2. \A b : Live(b) \in Nat
  BY SumsLemma
<1>3. ASSUME NEW h \in Heaps, NEW b \in Blks, NEW n \in Int
      PROVE  /\ heap[h].value[b] = n + Live(b) <=> Off(h, b) = n
             /\ Counted(trims, heap[h].value[b], n + Live(b)) <=> Counted(trims, Off(h, b), n)
  BY <1>1, <1>2, <1>3 DEF Off, Counted
<1>4. ASSUME NEW h \in Heaps, NEW b \in Blks
      PROVE  Counted(trims, heap[h].value[b], Live(b)) <=> Counted(trims, Off(h, b), 0)
  BY <1>1, <1>2, <1>4 DEF Off, Counted
<1>5. HighPages * S \in Int /\ HighLeft + LowLeft \in Int /\ FirstLeft + HighPages \in Int /\ ColdLeft \in Int
  BY SumsLemma, LeftType
<1>6. (HighLeft + LowLeft) * S \in Int /\ (FirstLeft + HighPages) * S \in Int /\ ColdLeft * S \in Int
  BY <1>5, SumsLemma
<1>7. "first" \in Heaps /\ "second" \in Heaps /\ "cold" \in Heaps /\ hot.blk \in Blks /\ cold.blk \in Blks
      /\ \A h \in Heaps : heap[h].in \subseteq Blks
  BY LogFields DEF Heaps, TypeInv, HotOK, ColdOK, HeapOK
<1>8. HeapCounts(trims) <=> HeapOff(trims)
  BY <1>3, <1>4, <1>5, <1>7 DEF HeapCounts, HeapOff
<1>9. ASSUME NEW b \in CleanBlks, NEW h \in Heaps
      PROVE  heap[h].value[b] = InitialCount(h) <=> Off(h, b) = InitialCount(h)
  <2>1. b \in Blks
    BY DEF CleanBlks, TypeInv, CleanOK
  <2>2. \A c \in Chunks : ~InBlk(map[c], b)
    BY DEF Stored, StoredAt, InBlk
  <2>3. {c \in Chunks : InBlk(map[c], b)} = {}
    BY <2>2
  <2>4. Live(b) = 0
    BY <2>3, FS_EmptySet DEF Live
  <2>5. QED
    BY <1>1, <2>1, <2>4 DEF Off
<1>10. LogCounts(trims) <=> LogOff(trims)
  BY <1>3, <1>6, <1>7, <1>9 DEF LogCounts, LogOff, CleanOff, ColdOff, HotOff
<1>11. QED
  BY <1>8, <1>10

LEMMA OffsPrimed ==
    ASSUME NEW trims
    PROVE  TypeInv' /\ Stored' =>
              (HeapOff(trims)' => HeapCounts(trims)') /\ (LogOff(trims)' => LogCounts(trims)')
<1>1. TypeInv /\ Stored =>
         (HeapOff(trims) => HeapCounts(trims)) /\ (LogOff(trims) => LogCounts(trims))
  BY Offs
<1>2. QED
  BY <1>1, PTL

----------------------------------------------------------------------------
(* How many chunks a block has.                                            *)

LEMMA LiveSame ==
    ASSUME NEW b, \A c \in Chunks : InBlk(map'[c], b) <=> InBlk(map[c], b)
    PROVE  Live(b)' = Live(b)
<1>1. {c \in Chunks : InBlk(map'[c], b)} = {c \in Chunks : InBlk(map[c], b)}
  OBVIOUS
<1>2. QED
  BY <1>1 DEF Live

LEMMA LiveLost ==
    ASSUME TypeInv, NEW c \in Chunks, NEW a, ~InFlash(a), map' = [map EXCEPT ![c] = a], NEW b
    PROVE  Live(b)' = IF InBlk(map[c], b) THEN Live(b) - 1 ELSE Live(b)
<1>. DEFINE Before == {d \in Chunks : InBlk(map[d], b)}
            After == {d \in Chunks : InBlk(map'[d], b)}
<1>1. \A d \in Chunks : map'[d] = IF d = c THEN a ELSE map[d]
  BY DEF TypeInv, MapOK
<1>2. ~InBlk(a, b)
  BY DEF InBlk
<1>3. After = Before \ {c}
  BY <1>1, <1>2
<1>4. c \in Before <=> InBlk(map[c], b)
  OBVIOUS
<1>5. IsFiniteSet(Before)
  BY LiveLemma
<1>6. Live(b)' = Cardinality(After) /\ Live(b) = Cardinality(Before)
  BY DEF Live
<1>. HIDE DEF Before, After
<1>7. Cardinality(Before \ {c}) = IF c \in Before THEN Cardinality(Before) - 1 ELSE Cardinality(Before)
  BY <1>5, FS_RemoveElement
<1>8. QED
  BY <1>3, <1>4, <1>6, <1>7

\* The slots of a buffer that hold a chunk, when no chunk is in two of them.
LEMMA HeldChunks ==
    ASSUME NEW T, IsFiniteSet(T), NEW ch, \A s \in T : ch[s] \in Chunks,
           \A s, t \in T : ch[s] = ch[t] => s = t
    PROVE  /\ IsFiniteSet({c \in Chunks : \E s \in T : ch[s] = c})
           /\ Cardinality({c \in Chunks : \E s \in T : ch[s] = c}) = Cardinality(T)
<1>. DEFINE C == {c \in Chunks : \E s \in T : ch[s] = c}
            f == [s \in T |-> ch[s]]
<1>1. f \in [T -> C] /\ \A s, t \in T : f[s] = f[t] => s = t
  OBVIOUS
<1>2. \A c \in C : \E s \in T : f[s] = c
  OBVIOUS
<1>. HIDE DEF f, C
<1>3. f \in Bijection(T, C)
  <2>1. DOMAIN f = T
    BY <1>1
  <2>2. IsInjective(f)
    BY <1>1, <2>1 DEF IsInjective
  <2>3. QED
    BY <1>1, <1>2, <2>2 DEF Bijection, Injection, Surjection
<1>4. ExistsBijection(T, C)
  BY <1>3 DEF ExistsBijection
<1>5. IsFiniteSet(C) /\ Cardinality(C) = Cardinality(T)
  BY <1>4, FS_Bijection
<1>6. QED
  BY <1>5 DEF C

LEMMA LiveMoved ==
    ASSUME NEW ch, NEW n, NEW b, MovesIn(ch, n, b),
           NEW T, IsFiniteSet(T), \A s : s \in T <=> s \in 0..(n - 1) /\ ch[s] \in Chunks,
           \A s, t \in T : ch[s] = ch[t] => s = t
    PROVE  /\ Live(b)' = Live(b) + Cardinality(T)
           /\ \A d : d # b /\ ~Collecting(d) => Live(d)' = Live(d)
<1>. DEFINE Before == {c \in Chunks : InBlk(map[c], b)}
            After == {c \in Chunks : InBlk(map'[c], b)}
            C == {c \in Chunks : \E s \in T : ch[s] = c}
<1>1. \A c \in Chunks : \/ c \in C /\ InBlk(map'[c], b) /\ ~InBlk(map[c], b)
                        \/ c \notin C /\ map'[c] = map[c]
  BY DEF MovesIn, InBlk
<1>2. After = Before \cup C /\ Before \cap C = {}
  BY <1>1
<1>3. IsFiniteSet(Before) /\ IsFiniteSet(C) /\ Cardinality(C) = Cardinality(T)
  <2>1. IsFiniteSet(Before)
    BY LiveLemma
  <2>2. \A s \in T : ch[s] \in Chunks
    OBVIOUS
  <2>3. IsFiniteSet(C) /\ Cardinality(C) = Cardinality(T)
    BY <2>2, HeldChunks
  <2>4. QED
    BY <2>1, <2>3
<1>4. Live(b)' = Cardinality(After) /\ Live(b) = Cardinality(Before) /\ Live(b) \in Nat
  BY LiveLemma DEF Live
<1>. HIDE DEF Before, After, C
<1>5. Cardinality(Before \cup C) = Cardinality(Before) + Cardinality(C) - Cardinality({})
  BY <1>2, <1>3, FS_Union
<1>6. Cardinality({}) = 0
  BY FS_EmptySet
<1>7. Cardinality(C) \in Nat
  BY <1>3, FS_CardinalityType
<1>8. Live(b)' = Live(b) + Cardinality(T)
  BY <1>2, <1>3, <1>4, <1>5, <1>6, <1>7
<1>9. ASSUME NEW d, d # b, ~Collecting(d) PROVE Live(d)' = Live(d)
  <2>1. ASSUME NEW c \in Chunks PROVE InBlk(map'[c], d) <=> InBlk(map[c], d)
    <3>1. CASE map'[c] = map[c]
      BY <3>1
    <3>2. CASE InBlk(map'[c], b) /\ (InFlash(map[c]) => Collecting(map[c].blk) /\ map[c].blk # b)
      BY <1>9, <3>2 DEF InBlk
    <3>3. QED
      BY <3>1, <3>2 DEF MovesIn
  <2>2. QED
    BY <2>1, LiveSame
<1>10. QED
  BY <1>8, <1>9

\* A full buffer: the slots that hold a chunk are those the flush programs.
LEMMA HeldMoved ==
    ASSUME TypeInv, NEW log \in LogType, NEW n \in 0..S, MovesIn(log.chunk, n, log.blk),
           NEW buf, \A s \in 0..(n - 1), c \in Chunks : log.chunk[s] = c => map[c] = buf[s],
           \A s, t \in 0..(n - 1) : buf[s] = buf[t] => s = t
    PROVE  /\ Live(log.blk)' = Live(log.blk) + Cardinality(Held(log, n))
           /\ \A d : d # log.blk /\ ~Collecting(d) => Live(d)' = Live(d)
<1>1. /\ IsFiniteSet(Held(log, n))
      /\ \A s \in Held(log, n) : s \in 0..(n - 1) /\ log.chunk[s] \in Chunks
  BY HeldLemma
<1>2. \A s : s \in Held(log, n) <=> s \in 0..(n - 1) /\ log.chunk[s] \in Chunks
  BY <1>1, SizeLemma DEF Held
<1>3. \A s, t \in Held(log, n) : log.chunk[s] = log.chunk[t] => s = t
  BY <1>1
<1>4. PICK ch : ch = log.chunk
  OBVIOUS
<1>5. PICK b : b = log.blk
  OBVIOUS
<1>6. PICK T : T = Held(log, n)
  OBVIOUS
<1>7. /\ Live(b)' = Live(b) + Cardinality(T)
      /\ \A d : d # b /\ ~Collecting(d) => Live(d)' = Live(d)
  BY <1>1, <1>2, <1>3, <1>4, <1>5, <1>6, LiveMoved
<1>8. QED
  BY <1>5, <1>6, <1>7

----------------------------------------------------------------------------
(* Steps that change no role.                                              *)

LEMMA OffsNow ==
    ASSUME NEW trims, Running(trims)
    PROVE  HeapOff(trims) /\ LogOff(trims)
BY Offs DEF Running, Places

LEMMA NotCollecting ==
    ASSUME NEW trims, Running(trims)
    PROVE  \A b : b \in CleanBlks \cup heap["first"].in \cup {cold.blk} \/ (b = hot.blk /\ pc # "findHot")
                  => ~Collecting(b)
BY DEF Running, RoleInv, Partition, InHeaps, Collecting

LEMMA CountsKept ==
    ASSUME NEW trims, Running(trims),
           KeepsRoles, TypeInv', Stored', gc.state # "idle" => gc'.state # "idle",
           \A b \in Blks \ {hot.blk, cold.blk}, h \in Heaps : ~Collecting(b) => Off(h, b)' = Off(h, b),
           HotOff(trims)', ColdOff'
    PROVE  HeapCounts(trims)' /\ LogCounts(trims)'
<1>1. /\ CleanBlks' = CleanBlks /\ heap'["first"].in = heap["first"].in
      /\ heap'["second"].in = heap["second"].in /\ heap'["cold"].in = heap["cold"].in
      /\ pc # "findHot"
  BY DEF KeepsRoles, CleanBlks, Heaps
<1>2. /\ HeapOff(trims) /\ LogOff(trims)
      /\ \A b \in CleanBlks \cup InHeaps : b \in Blks \ {hot.blk, cold.blk}
  <2>1. \A b \in CleanBlks \cup InHeaps : b \in Blks
    <3>1. CleanBlks \subseteq Blks
      BY DEF Running, TypeInv, CleanOK, CleanBlks
    <3>2. \A h \in Heaps : heap[h].in \subseteq Blks
      BY DEF Running, TypeInv, HeapOK
    <3>3. QED
      BY <3>1, <3>2 DEF InHeaps, Heaps
  <2>2. QED
    BY <1>1, <2>1, OffsNow DEF Running, Partition
<1>3. \A b : Collecting(b) => Collecting(b)'
  BY DEF Collecting, KeepsRoles
<1>4. HeapOff(trims)'
  <2>1. ASSUME NEW h \in {"second", "cold"}, NEW b \in heap[h].in
        PROVE  Collecting(b)' \/ Counted(trims, Off(h, b)', 0)
    <3>1. b \in Blks \ {hot.blk, cold.blk} /\ h \in Heaps
      BY <1>2, <2>1 DEF InHeaps, Heaps
    <3>2. Collecting(b) \/ Counted(trims, Off(h, b), 0)
      BY <1>2, <2>1 DEF HeapOff
    <3>3. QED
      BY <1>3, <3>1, <3>2
  <2>2. ASSUME NEW b \in heap["first"].in PROVE Counted(trims, Off("first", b)', HighPages * S)
    <3>1. b \in Blks \ {hot.blk, cold.blk} /\ "first" \in Heaps /\ ~Collecting(b)
      BY <1>2, NotCollecting DEF InHeaps, Heaps
    <3>2. Counted(trims, Off("first", b), HighPages * S)
      BY <1>2 DEF HeapOff
    <3>3. QED
      BY <3>1, <3>2
  <2>3. QED
    BY <1>1, <2>1, <2>2 DEF HeapOff
<1>5. CleanOff'
  <2>1. ASSUME NEW b \in CleanBlks, NEW h \in Heaps PROVE Off(h, b)' = InitialCount(h)
    <3>1. b \in Blks \ {hot.blk, cold.blk} /\ ~Collecting(b)
      BY <1>2, NotCollecting
    <3>2. QED
      BY <1>2, <3>1 DEF LogOff, CleanOff
  <2>2. QED
    BY <1>1, <2>1 DEF CleanOff
<1>6. LogOff(trims)'
  BY <1>5 DEF LogOff
<1>7. QED
  BY <1>4, <1>6, OffsPrimed

\* The map and the counts stay, and so do the logs.
LEMMA OffSame ==
    ASSUME NEW h \in Heaps, NEW b \in Blks, map' = map, heap'[h].value[b] = heap[h].value[b]
    PROVE  Off(h, b)' = Off(h, b)
<1>1. Live(b)' = Live(b)
  BY LiveSame
<1>2. QED
  BY <1>1 DEF Off

LEMMA LeftSame ==
    ASSUME hot'.page = hot.page, hot'.nextLow = hot.nextLow, cold'.page = cold.page,
           pc' = "advanceHot" <=> pc = "advanceHot", pc' = "advanceCold" <=> pc = "advanceCold"
    PROVE  HighLeft' = HighLeft /\ LowLeft' = LowLeft /\ FirstLeft' = FirstLeft /\ ColdLeft' = ColdLeft
<1>1. HotNext' = HotNext
  BY DEF HotNext
<1>2. QED
  BY <1>1 DEF HighLeft, LowLeft, FirstLeft, ColdLeft

\* The steps that move neither a chunk nor a log.
LEMMA MovesCounts ==
    ASSUME NEW trims, Running(trims),
           TypeInv', EnoughClean \/ GcIdle \/ ReadPage \/ CopyByChunk \/ EndOfPage
    PROVE  HeapCounts(trims)' /\ (pc' \notin Hangs => LogCounts(trims)')
<1>1. /\ KeepsRoles /\ pc \in {"while", "collect", "copy"} /\ UNCHANGED <<map, hot, cold, heap>>
      /\ pc' \notin {"advanceHot", "advanceCold"}
  <2>1. KeepsRoles
    BY CollectorKeeps DEF Running
  <2>2. CASE EnoughClean
    BY <2>1, <2>2, ReturnLabel DEF EnoughClean
  <2>3. CASE ~EnoughClean
    BY <2>1, <2>3 DEF GcIdle, ReadPage, CopyByChunk, EndOfPage, Goto, Hang
  <2>4. QED
    BY <2>2, <2>3
<1>2. gc.state # "idle" => gc'.state # "idle"
  <2>1. gc \in GcType
    BY DEF Running, TypeInv, GcOK
  <2>2. CASE EnoughClean \/ GcIdle
    BY <2>2 DEF EnoughClean, GcIdle
  <2>3. CASE ReadPage
    BY <2>1, <2>3 DEF ReadPage, GcType
  <2>4. CASE CopyByChunk
    BY <2>1, <2>4 DEF CopyByChunk, GcType
  <2>5. CASE EndOfPage
    BY <2>1, <2>5 DEF EndOfPage, GcType
  <2>6. QED
    BY <2>2, <2>3, <2>4, <2>5
<1>3. \A b \in Blks, h \in Heaps : Off(h, b)' = Off(h, b)
  BY <1>1, OffSame
<1>4. hot.blk \in Blks /\ cold.blk \in Blks /\ "first" \in Heaps /\ "second" \in Heaps /\ "cold" \in Heaps
  BY LogFields DEF Running, TypeInv, HotOK, ColdOK, Heaps
<1>5. HighLeft' = HighLeft /\ LowLeft' = LowLeft /\ FirstLeft' = FirstLeft /\ ColdLeft' = ColdLeft
  BY <1>1, LeftSame
<1>6. HotOff(trims)' /\ ColdOff'
  <2>1. HotOff(trims) /\ ColdOff
    BY OffsNow DEF LogOff
  <2>2. QED
    BY <1>1, <1>3, <1>4, <1>5, <2>1 DEF HotOff, ColdOff
<1>7. CASE pc' \notin Hangs
  <2>1. Stored'
    BY <1>7, MovesPlaces DEF Places
  <2>2. QED
    BY <1>1, <1>2, <1>3, <1>6, <2>1, CountsKept
<1>8. CASE pc' \in Hangs
  <2>1. \A b : Live(b)' = Live(b) /\ (Collecting(b) => Collecting(b)')
    BY <1>1, <1>2, LiveSame DEF KeepsRoles, Collecting
  <2>2. QED
    BY <1>1, <1>8, <2>1 DEF Running, HeapCounts
<1>9. QED
  BY <1>7, <1>8

\* A chunk leaves the flash for a buffer, and the count of its block follows.
LEMMA WriteOff ==
    ASSUME TypeInv, NEW c \in Chunks, NEW a, ~InFlash(a), map' = [map EXCEPT ![c] = a],
           heap' = HeapWithoutOld(c), NEW h \in Heaps, NEW b \in Blks
    PROVE  Off(h, b)' = Off(h, b)
<1>1. Live(b)' = IF InBlk(map[c], b) THEN Live(b) - 1 ELSE Live(b)
  BY LiveLost
<1>2. heap[h].value[b] \in Int /\ Live(b) \in Nat /\ heap[h].value \in [Blks -> Int]
  BY ValueType, SumsLemma DEF TypeInv, HeapOK
<1>3. CASE InFlash(map[c])
  <2>1. PICK d \in Blks : d = map[c].blk
    BY <1>3, MapTypes, PartsLemma
  <2>2. heap'[h].value = [heap[h].value EXCEPT ![d] = @ - 1]
    <3>1. heap' = Decremented(d, 1)
      BY <1>3, <2>1 DEF HeapWithoutOld
    <3>2. QED
      BY <3>1, DecrementedType DEF TypeInv
  <2>3. heap'[h].value[b] = IF b = d THEN heap[h].value[b] - 1 ELSE heap[h].value[b]
    BY <1>2, <2>2
  <2>4. InBlk(map[c], b) <=> b = d
    BY <1>3, <2>1 DEF InBlk
  <2>5. QED
    BY <1>1, <1>2, <2>3, <2>4 DEF Off
<1>4. CASE ~InFlash(map[c])
  BY <1>1, <1>4 DEF HeapWithoutOld, InBlk, Off
<1>5. QED
  BY <1>3, <1>4

LEMMA WriteCounts ==
    ASSUME NEW trims, Running(trims), TypeInv', NEW c \in Chunks, WriteHot(c) \/ WriteCold(c) \/ MoveAway(c)
    PROVE  HeapCounts(trims)' /\ LogCounts(trims)'
<1>. USE DEF Running
<1>1. KeepsRoles /\ Stored'
  BY WriteKeeps, WriteHotPlaces, WriteColdPlaces, MoveAwayPlaces DEF Places
<1>2. /\ pc = "idle" /\ pc' \notin {"advanceHot", "advanceCold", "findHot"}
      /\ heap' = HeapWithoutOld(c) /\ gc' = GcWithoutOld(c)
      /\ \E a : ~InFlash(a) /\ map' = [map EXCEPT ![c] = a]
      /\ hot'.page = hot.page /\ hot'.nextLow = hot.nextLow /\ hot'.second = hot.second
      /\ cold'.page = cold.page
  <2>1. CASE WriteHot(c)
    <3>1. /\ pc = "idle" /\ pc' = IF hot'.ptr = 0 THEN "flushHot" ELSE "idle"
          /\ cold' = ColdWithoutOld(c) /\ gc' = GcWithoutOld(c) /\ heap' = HeapWithoutOld(c)
          /\ map' = [map EXCEPT ![c] = DRAMHotLog(hot.ptr)]
          /\ hot'.page = hot.page /\ hot'.second = hot.second /\ hot'.nextLow = hot.nextLow
      BY <2>1, WriteHotEffect
    <3>2. ~InFlash(DRAMHotLog(hot.ptr))
      BY DramLemma
    <3>3. cold'.page = cold.page
      BY <3>1, WithoutOldType
    <3>4. QED
      BY <3>1, <3>2, <3>3
  <2>2. CASE WriteCold(c)
    <3>1. ~cold.recycled
      BY DEF Places, ColdBuf
    <3>2. /\ pc = "idle" /\ pc' = IF cold'.ptr = 0 THEN "flushCold" ELSE "idle"
          /\ hot' = HotWithoutOld(c) /\ gc' = GcWithoutOld(c) /\ heap' = HeapWithoutOld(c)
          /\ map' = [map EXCEPT ![c] = DRAMColdLog(cold.ptr)] /\ cold'.page = cold.page
      BY <2>2, <3>1, WriteColdEffect
    <3>3. ~InFlash(DRAMColdLog(cold.ptr))
      BY DramLemma
    <3>4. hot'.page = hot.page /\ hot'.nextLow = hot.nextLow /\ hot'.second = hot.second
      BY <3>2, WithoutOldType
    <3>5. QED
      BY <3>2, <3>3, <3>4
  <2>3. CASE MoveAway(c)
    <3>1. /\ pc = "idle" /\ pc' = pc /\ hot' = HotWithoutOld(c) /\ cold' = ColdWithoutOld(c)
          /\ gc' = GcWithoutOld(c) /\ heap' = HeapWithoutOld(c) /\ map' = [map EXCEPT ![c] = Invalid]
      BY <2>3 DEF MoveAway
    <3>2. ~InFlash(Invalid)
      BY DramLemma
    <3>3. /\ hot'.page = hot.page /\ hot'.nextLow = hot.nextLow /\ hot'.second = hot.second
          /\ cold'.page = cold.page
      BY <3>1, WithoutOldType
    <3>4. QED
      BY <3>1, <3>2, <3>3
  <2>4. QED
    BY <2>1, <2>2, <2>3
<1>3. \A b \in Blks, h \in Heaps : Off(h, b)' = Off(h, b)
  BY <1>2, WriteOff
<1>4. gc'.state = gc.state
  BY <1>2, WithoutOldType
<1>5. hot.blk \in Blks /\ cold.blk \in Blks /\ "first" \in Heaps /\ "second" \in Heaps /\ "cold" \in Heaps
      /\ hot'.blk = hot.blk /\ cold'.blk = cold.blk
  BY <1>1, LogFields DEF TypeInv, HotOK, ColdOK, Heaps, KeepsRoles
<1>6. HighLeft' = HighLeft /\ LowLeft' = LowLeft /\ FirstLeft' = FirstLeft /\ ColdLeft' = ColdLeft
  BY <1>2, LeftSame
<1>7. HotOff(trims)' /\ ColdOff'
  <2>1. HotOff(trims) /\ ColdOff
    BY OffsNow DEF LogOff
  <2>2. QED
    BY <1>2, <1>3, <1>5, <1>6, <2>1 DEF HotOff, ColdOff
<1>8. QED
  BY <1>1, <1>3, <1>4, <1>7, CountsKept

LEMMA CopyChunkCounts ==
    ASSUME NEW trims, Running(trims), TypeInv', CopyChunk
    PROVE  HeapCounts(trims)' /\ LogCounts(trims)'
<1>. USE DEF Running
<1>1. KeepsRoles /\ Stored'
  BY CollectorKeeps, CopyChunkPlaces DEF Places
<1>2. pc = "copy" /\ UNCHANGED <<heap, hot>>
  BY DEF CopyChunk
<1>3. PICK s \in gc.valid, c \in Chunks :
         /\ c = SlotChunk(s) /\ gc.state = "write"
         /\ gc'.state = gc.state /\ gc'.victim = gc.victim /\ gc'.page = gc.page
         /\ gc'.encoded = gc.encoded /\ gc'.valid = gc.valid \ {s}
         /\ \/ /\ map[c] = PlaceOf(gc.victim, gc.page, s, gc.encoded)
               /\ cold' = Buffered(cold, c) /\ map' = [map EXCEPT ![c] = DRAMColdLog(cold.ptr)]
               /\ latest' = Copied(c, map[c], DRAMColdLog(cold.ptr))
               /\ pc' = IF cold'.ptr = 0 THEN "flushCold" ELSE "copy"
            \/ /\ map[c] # PlaceOf(gc.victim, gc.page, s, gc.encoded)
               /\ UNCHANGED <<cold, map, latest>> /\ pc' = "copy"
  BY CopyChunkEffect
<1>4. pc' \notin {"advanceHot", "advanceCold", "findHot"} /\ cold'.page = cold.page
  <2>1. Buffered(cold, c).page = cold.page
    BY BufferedType DEF TypeInv, ColdOK
  <2>2. QED
    BY <1>3, <2>1
<1>5. ASSUME NEW b \in Blks, NEW h \in Heaps, ~Collecting(b) PROVE Off(h, b)' = Off(h, b)
  <2>1. Live(b)' = Live(b)
    <3>1. CASE map' = map
      BY <3>1, LiveSame
    <3>2. CASE /\ map[c] = PlaceOf(gc.victim, gc.page, s, gc.encoded)
               /\ map' = [map EXCEPT ![c] = DRAMColdLog(cold.ptr)]
      <4>1. PICK e \in BOOLEAN : e = gc.encoded
        BY DEF TypeInv, GcOK, GcType
      <4>2. map[c].blk = gc.victim
        BY <3>2, <4>1, PlaceLemma
      <4>3. ~InBlk(map[c], b)
        BY <1>3, <1>5, <4>2 DEF InBlk, Collecting
      <4>4. ~InFlash(DRAMColdLog(cold.ptr))
        BY DramLemma
      <4>5. QED
        BY <3>2, <4>3, <4>4, LiveLost
    <3>3. QED
      BY <1>3, <3>1, <3>2
  <2>2. QED
    BY <1>2, <2>1 DEF Off
<1>6. hot.blk \in Blks /\ cold.blk \in Blks /\ "first" \in Heaps /\ "second" \in Heaps /\ "cold" \in Heaps
      /\ hot'.blk = hot.blk /\ cold'.blk = cold.blk /\ ~Collecting(hot.blk) /\ ~Collecting(cold.blk)
  BY <1>1, <1>2, LogFields, NotCollecting DEF TypeInv, HotOK, ColdOK, Heaps, KeepsRoles
<1>7. HighLeft' = HighLeft /\ LowLeft' = LowLeft /\ FirstLeft' = FirstLeft /\ ColdLeft' = ColdLeft
  BY <1>2, <1>4, LeftSame
<1>8. HotOff(trims)' /\ ColdOff'
  <2>1. HotOff(trims) /\ ColdOff
    BY OffsNow DEF LogOff
  <2>2. QED
    BY <1>2, <1>5, <1>6, <1>7, <2>1 DEF HotOff, ColdOff
<1>9. QED
  BY <1>1, <1>3, <1>5, <1>8, CountsKept

----------------------------------------------------------------------------
(* Flushes.                                                                *)

\* A buffer without holes fills the page.
LEMMA HeldFull ==
    ASSUME NEW log \in LogType, NEW n \in 0..S, \A s \in 0..(n - 1) : log.chunk[s] # None
    PROVE  Cardinality(Held(log, n)) = n
<1>1. Held(log, n) = 0..(n - 1)
  BY DEF Held
<1>2. n \in Nat /\ 0 \in Int /\ n - 1 \in Int
  BY SizeLemma
<1>3. Cardinality(0..(n - 1)) = IF 0 > n - 1 THEN 0 ELSE (n - 1) - 0 + 1
  BY <1>2, FS_Interval
<1>4. QED
  BY <1>1, <1>2, <1>3

LEMMA HeapFlushed ==
    ASSUME HeapOK, NEW log \in LogType, log.allValid => \A s \in 0..(S - 1) : log.chunk[s] # None,
           heap' = HeapAfterFlush(log), NEW h \in Heaps, NEW b \in Blks
    PROVE  heap'[h].value[b] = IF b = log.blk THEN heap[h].value[b] - (S - Cardinality(Held(log, S)))
                               ELSE heap[h].value[b]
<1>1. S \in 0..S /\ S \in Nat /\ log.blk \in Blks /\ heap[h].value \in [Blks -> Int]
  BY SizeLemma, LogFields DEF HeapOK
<1>2. PICK k \in 0..S : k = Cardinality(Held(log, S))
  BY <1>1, HeldLemma
<1>3. CASE log.allValid
  <2>1. k = S
    BY <1>1, <1>2, <1>3, HeldFull
  <2>2. heap' = heap
    BY <1>3 DEF HeapAfterFlush
  <2>3. heap[h].value[b] \in Int
    BY <1>1
  <2>4. QED
    BY <1>1, <1>2, <2>1, <2>2, <2>3
<1>4. CASE ~log.allValid
  <2>1. PICK n \in Int : n = S - k
    BY <1>1, <1>2
  <2>2. PICK d \in Blks : d = log.blk
    BY <1>1
  <2>3. heap' = Decremented(d, n)
    BY <1>2, <1>4, <2>1, <2>2 DEF HeapAfterFlush
  <2>4. heap'[h].value = [heap[h].value EXCEPT ![d] = @ - n]
    BY <2>3, DecrementedType
  <2>5. heap'[h].value[b] = IF b = d THEN heap[h].value[b] - n ELSE heap[h].value[b]
    BY <1>1, <2>4
  <2>6. QED
    BY <1>2, <2>1, <2>2, <2>5
<1>5. QED
  BY <1>3, <1>4

\* The page of a log is programmed: its block expects S chunks less.
LEMMA FlushOff ==
    ASSUME NEW trims, TypeInv, NEW log \in LogType, MovesIn(log.chunk, S, log.blk),
           NEW buf, \A s \in 0..(S - 1), c \in Chunks : log.chunk[s] = c => map[c] = buf[s],
           \A s, t \in 0..(S - 1) : buf[s] = buf[t] => s = t,
           trims = "none" /\ log.allValid => \A s \in 0..(S - 1) : log.chunk[s] # None,
           heap' = HeapAfterFlush(log), NEW h \in Heaps, NEW b \in Blks
    PROVE  /\ b = log.blk => Counted(trims, Off(h, b)', Off(h, b) - S)
           /\ b # log.blk /\ ~Collecting(b) => Off(h, b)' = Off(h, b)
<1>1. S \in 0..S /\ S \in Nat /\ HeapOK
  BY SizeLemma DEF TypeInv
<1>2. PICK k \in 0..S : k = Cardinality(Held(log, S))
  BY <1>1, HeldLemma
<1>3. /\ Live(log.blk)' = Live(log.blk) + k
      /\ \A d : d # log.blk /\ ~Collecting(d) => Live(d)' = Live(d)
  BY <1>1, <1>2, HeldMoved
<1>4. heap[h].value[b] \in Int /\ Live(b) \in Nat
  BY <1>1, ValueType, SumsLemma
<1>5. CASE log.allValid => \A s \in 0..(S - 1) : log.chunk[s] # None
  <2>1. heap'[h].value[b] = IF b = log.blk THEN heap[h].value[b] - (S - k) ELSE heap[h].value[b]
    BY <1>1, <1>2, <1>5, HeapFlushed
  <2>2. b = log.blk => Off(h, b)' = Off(h, b) - S
    BY <1>1, <1>3, <1>4, <2>1 DEF Off
  <2>3. Off(h, b) - S \in Int
    BY <1>1, <1>4 DEF Off
  <2>4. b # log.blk /\ ~Collecting(b) => Off(h, b)' = Off(h, b)
    BY <1>3, <2>1 DEF Off
  <2>5. QED
    BY <2>2, <2>3, <2>4, CountedLemma
<1>6. CASE trims # "none" /\ log.allValid
  <2>1. heap' = heap
    BY <1>6 DEF HeapAfterFlush
  <2>2. b = log.blk => Off(h, b)' = Off(h, b) - k
    BY <1>1, <1>3, <1>4, <2>1 DEF Off
  <2>3. Off(h, b) \in Int /\ Off(h, b) - k >= Off(h, b) - S
    BY <1>1, <1>4 DEF Off
  <2>4. b # log.blk /\ ~Collecting(b) => Off(h, b)' = Off(h, b)
    BY <1>3, <2>1 DEF Off
  <2>5. QED
    BY <1>6, <2>2, <2>3, <2>4 DEF Counted
<1>7. QED
  BY <1>5, <1>6

LEMMA FullHot ==
    ASSUME NEW trims, Running(trims), pc = "flushHot"
    PROVE  /\ Width \in 0..S /\ \A s \in 0..(Width - 1) : s \in Slots
           /\ \A s \in 0..(Width - 1), c \in Chunks : hot.chunk[s] = c => map[c] = HotBuffer[s]
           /\ \A s, t \in 0..(Width - 1) : HotBuffer[s] = HotBuffer[t] => s = t
           /\ trims = "none" /\ hot.allValid => \A s \in 0..(Width - 1) : hot.chunk[s] # None
<1>1. Width \in 0..S /\ \A s \in 0..(Width - 1) : s \in Slots /\ s < Width
  BY SizeLemma DEF Width, Slots
<1>2. \A s \in 0..(Width - 1) : s \in HotFilled
  BY <1>1 DEF HotFilled
<1>3. \A s \in 0..(Width - 1) : HotBuffer[s] = DRAMHotLog(s)
  BY <1>1 DEF HotBuffer
<1>4. HotBuf(trims)
  BY DEF Running, Places
<1>5. QED
  BY <1>1, <1>2, <1>3, <1>4, DramLemma DEF HotBuf

LEMMA FullCold ==
    ASSUME NEW trims, Running(trims), pc = "flushCold"
    PROVE  /\ \A s \in 0..(S - 1), c \in Chunks : cold.chunk[s] = c => map[c] = ColdBuffer[s]
           /\ \A s, t \in 0..(S - 1) : ColdBuffer[s] = ColdBuffer[t] => s = t
           /\ cold.allValid => \A s \in 0..(S - 1) : cold.chunk[s] # None
<1>1. \A s \in 0..(S - 1) : s \in Slots /\ s \in ColdFilled
  BY WholePage DEF ColdFilled
<1>2. \A s \in 0..(S - 1) : ColdBuffer[s] = DRAMColdLog(s)
  BY <1>1 DEF ColdBuffer
<1>3. ColdBuf
  BY DEF Running, Places
<1>4. QED
  BY <1>1, <1>2, <1>3, DramLemma DEF ColdBuf

\* The high pages from page n on.
High(n) == Half - (IF n <= 2 THEN 1 ELSE (n + 1) \div 2)

LEMMA HighLemma ==
    /\ HighLeft = High(HotNext)
    /\ \A n \in Nat : n % 2 = 0 /\ n > 0 => High(n + 1) = High(n) - 1
    /\ \A n \in Nat : n = 0 \/ n % 2 = 1 => High(n + 1) = High(n)
<1>1. Half \in Nat
  BY SumsLemma
<1>2. ASSUME NEW n \in Nat, n % 2 = 0, n > 0 PROVE High(n + 1) = High(n) - 1
  <2>1. PICK k \in Nat : n = 2 * k /\ k > 0
    BY <1>2
  <2>2. (n + 1) \div 2 = k /\ ((n + 1) + 1) \div 2 = k + 1
    BY <2>1
  <2>3. QED
    BY <1>1, <2>1, <2>2 DEF High
<1>3. ASSUME NEW n \in Nat, n = 0 \/ n % 2 = 1 PROVE High(n + 1) = High(n)
  <2>1. CASE n = 0
    BY <2>1 DEF High
  <2>2. CASE n % 2 = 1
    <3>1. PICK k \in Nat : n = 2 * k + 1
      BY <2>2
    <3>2. (n + 1) \div 2 = k + 1 /\ ((n + 1) + 1) \div 2 = k + 1
      BY <3>1
    <3>3. QED
      BY <1>1, <3>1, <3>2 DEF High
  <2>3. QED
    BY <1>3, <2>1, <2>2
<1>4. QED
  BY <1>2, <1>3 DEF HighLeft, High

LEMMA HotFlushLeft ==
    ASSUME NEW trims, Running(trims),
           pc = "flushHot", pc' = "advanceHot", hot.recycled => hot.nextLow = hot.page,
           hot'.page = hot.page, hot'.nextLow = hot.nextLow
    PROVE  /\ hot.second => (HighLeft + LowLeft)' = (HighLeft + LowLeft) - 1
           /\ FirstLeft' = FirstLeft - 1
<1>1. /\ hot.page \in Nat /\ P \in Nat /\ (hot.nextLow # None => hot.nextLow \in Nat)
      /\ HighLeft \in Int /\ Half \in Nat /\ hot.page # None
  <2>1. hot.page \in 0..(P - 2) /\ (hot.nextLow # None => hot.nextLow \in Pages)
    BY LogFields DEF Running, TypeInv, HotOK
  <2>2. P \in Nat /\ (\A p \in Pages : p \in Nat) /\ None \notin Int
    BY SizeLemma
  <2>3. HighLeft \in Int /\ Half \in Nat
    BY LeftType, SumsLemma DEF Running
  <2>4. QED
    BY <2>1, <2>2, <2>3
<1>2. HotNext = hot.page /\ HotNext' = hot.page + 1
  BY DEF HotNext
<1>3. FirstLeft' = FirstLeft - 1
  <2>1. PICK n \in Int : n = (P - 5 - hot.page) \div 2 + 1
    BY <1>1
  <2>2. FirstLeft = IF hot.page = 0 THEN Half - 1 ELSE n
    BY <1>1, <2>1 DEF FirstLeft
  <2>3. FirstLeft' = (IF hot.page = 0 THEN Half - 1 ELSE n) - 1
    BY <2>1 DEF FirstLeft
  <2>4. QED
    BY <1>1, <2>1, <2>2, <2>3
<1>4. HighLeft = High(hot.page) /\ HighLeft' = High(hot.page + 1)
  BY <1>2, HighLemma DEF HighLeft, High
<1>5. CASE hot.second /\ hot.recycled
  <2>1. hot.nextLow = hot.page /\ hot.nextLow # None /\ LowPage(hot.page)
    BY <1>1, <1>5 DEF Running, Places, HotPos
  <2>2. HighLeft' = HighLeft
    BY <1>1, <1>4, <2>1, HighLemma DEF LowPage
  <2>3. LowLeft = 1 /\ LowLeft' = 0
    BY <1>1, <1>2, <2>1 DEF LowLeft
  <2>4. QED
    BY <1>1, <1>3, <2>2, <2>3
<1>6. CASE hot.second /\ ~hot.recycled
  <2>1. /\ hot.page % 2 = 0 /\ hot.page > 0
        /\ hot.nextLow # None => /\ LowPage(hot.nextLow)
                                 /\ hot.nextLow <= hot.page \/ hot.nextLow = hot.page + 1
    BY <1>6 DEF Running, Places, HotPos
  <2>2. HighLeft' = HighLeft - 1
    BY <1>1, <1>4, <2>1, HighLemma
  <2>3. hot.nextLow # None => hot.nextLow # hot.page
    BY <1>1, <2>1 DEF LowPage
  <2>4. LowLeft' = LowLeft
    BY <1>1, <1>2, <2>1, <2>3 DEF LowLeft
  <2>5. QED
    BY <1>1, <1>3, <2>2, <2>4, LeftType DEF Running
<1>7. QED
  BY <1>3, <1>5, <1>6

\* A page of S chunks less to come.
LEMMA LessOff ==
    ASSUME NEW trims, TypeInv, TypeInv', NEW h \in Heaps, NEW b \in Blks, NEW x \in Int,
           Counted(trims, Off(h, b), x * S), Counted(trims, Off(h, b)', Off(h, b) - S)
    PROVE  Counted(trims, Off(h, b)', (x - 1) * S)
<1>1. PICK u \in Int, w \in Int, y \in Int, n \in Int :
         u = Off(h, b) /\ w = Off(h, b)' /\ y = x * S /\ n = S /\ (x - 1) * S = y - n
  <2>1. Off(h, b) \in Int /\ Off(h, b)' \in Int
    BY OffType, OffTypePrimed
  <2>2. x * S \in Int /\ S \in Int /\ (x - 1) * S = x * S - S
    BY SizeLemma, SumsLemma, TimesLemma
  <2>3. QED
    BY <2>1, <2>2
<1>2. Counted(trims, u, y) /\ Counted(trims, w, u - n)
  BY <1>1
<1>3. Counted(trims, w, y - n)
  BY <1>2, CountedLemma
<1>4. QED
  BY <1>1, <1>3

LEMMA FlushHotCounts ==
    ASSUME NEW trims, Running(trims), TypeInv', FlushHot
    PROVE  HeapCounts(trims)' /\ LogCounts(trims)'
<1>. USE DEF Running
<1>1. KeepsRoles /\ Stored' /\ MovesIn(hot.chunk, S, hot.blk)
  BY FlushKeeps, FlushHotPlaces DEF Places
<1>2. /\ pc = "flushHot" /\ pc' = "advanceHot" /\ ~hot.recycled /\ heap' = HeapAfterFlush(hot)
      /\ hot' = Flushed(hot) /\ UNCHANGED <<cold, gc>>
  BY DEF FlushHot, Flush, Goto
<1>3. /\ hot \in LogType /\ hot.blk \in Blks /\ cold.blk \in Blks /\ Width = S
      /\ "first" \in Heaps /\ "second" \in Heaps /\ "cold" \in Heaps
  BY <1>2, LogFields DEF TypeInv, HotOK, ColdOK, Heaps, Width
<1>4. hot'.page = hot.page /\ hot'.nextLow = hot.nextLow /\ hot'.second = hot.second /\ hot'.blk = hot.blk
  BY <1>2, <1>3, FlushedType
<1>5. ASSUME NEW h \in Heaps, NEW b \in Blks
      PROVE  /\ b = hot.blk => Counted(trims, Off(h, b)', Off(h, b) - S)
             /\ b # hot.blk /\ ~Collecting(b) => Off(h, b)' = Off(h, b)
  <2>1. PICK buf : buf = HotBuffer
    OBVIOUS
  <2>2. /\ \A s \in 0..(S - 1), c \in Chunks : hot.chunk[s] = c => map[c] = buf[s]
        /\ \A s, t \in 0..(S - 1) : buf[s] = buf[t] => s = t
        /\ trims = "none" /\ hot.allValid => \A s \in 0..(S - 1) : hot.chunk[s] # None
    BY <1>2, <1>3, <2>1, FullHot
  <2>3. QED
    BY <1>1, <1>2, <1>3, <2>2, FlushOff
<1>6. HotOff(trims) /\ ColdOff
  BY OffsNow DEF LogOff
<1>7. HotOff(trims)'
  <2>0. PICK b \in Blks : b = hot.blk /\ b = hot'.blk
    BY <1>3, <1>4
  <2>1. CASE hot.second
    <3>1. PICK x \in Int : x = HighLeft + LowLeft
      BY LeftType
    <3>2. (HighLeft + LowLeft)' = x - 1
      BY <1>2, <1>4, <2>1, <3>1, HotFlushLeft
    <3>3. Counted(trims, Off("second", b), x * S)
      BY <1>2, <2>0, <1>6, <2>1, <3>1 DEF HotOff
    <3>4. Counted(trims, Off("second", b)', Off("second", b) - S)
      BY <1>3, <1>5, <2>0
    <3>5. Counted(trims, Off("second", b)', (x - 1) * S)
      BY <1>3, <3>3, <3>4, LessOff
    <3>6. QED
      BY <1>2, <1>4, <2>0, <2>1, <3>2, <3>5 DEF HotOff
  <2>2. CASE ~hot.second
    <3>1. PICK x \in Int : x = FirstLeft + HighPages
      BY LeftType
    <3>2. FirstLeft' + HighPages = x - 1
      BY <1>2, <1>4, <3>1, HotFlushLeft, LeftType, SumsLemma
    <3>3. Counted(trims, Off("first", b), x * S)
      BY <1>2, <2>0, <1>6, <2>2, <3>1 DEF HotOff
    <3>4. Counted(trims, Off("first", b)', Off("first", b) - S)
      BY <1>3, <1>5, <2>0
    <3>5. Counted(trims, Off("first", b)', (x - 1) * S)
      BY <1>3, <3>3, <3>4, LessOff
    <3>6. QED
      BY <1>2, <1>4, <2>0, <2>2, <3>2, <3>5 DEF HotOff
  <2>3. QED
    BY <2>1, <2>2
<1>8. ColdOff'
  <2>1. cold.blk # hot.blk /\ ~Collecting(cold.blk)
    BY <1>2, NotCollecting DEF Partition
  <2>2. ColdLeft' = ColdLeft
    BY <1>2 DEF ColdLeft
  <2>3. Off("cold", cold.blk)' = Off("cold", cold.blk)
    BY <1>2, <1>3, <1>5, <2>1
  <2>4. QED
    BY <1>2, <1>6, <2>2, <2>3 DEF ColdOff
<1>9. QED
  BY <1>1, <1>2, <1>5, <1>7, <1>8, CountsKept

\* Counts do not depend on where the firmware stops.
LEMMA StopCounts ==
    ASSUME NEW trims, HeapCounts(trims), map' = map, heap' = heap, gc' = gc
    PROVE  HeapCounts(trims)'
<1>1. \A b : Live(b)' = Live(b)
  BY LiveSame
<1>2. QED
  BY <1>1 DEF HeapCounts, Collecting

LEMMA FlushRecycledCounts ==
    ASSUME NEW trims, Running(trims), TypeInv', FlushRecycled
    PROVE  HeapCounts(trims)' /\ (pc' \notin Hangs => LogCounts(trims)')
<1>. USE DEF Running
<1>1. KeepsRoles /\ pc = "flushHot" /\ hot.recycled /\ UNCHANGED <<cold, gc>>
  BY FlushKeeps DEF FlushRecycled
<1>2. CASE hot.nextLow # hot.page
  <2>1. map' = map /\ heap' = heap /\ pc' \in Hangs
    BY <1>2, FlushRecycledPlaces
  <2>2. QED
    BY <1>1, <2>1, StopCounts
<1>3. CASE hot.nextLow = hot.page
  <2>1. Stored' /\ MovesIn(hot.chunk, R, hot.blk) /\ pc' = "advanceHot"
    BY <1>3, FlushRecycledPlaces DEF Places
  <2>2. /\ hot \in LogType /\ hot.blk \in Blks /\ cold.blk \in Blks /\ Width = R /\ R \in 0..S
        /\ S \in Nat /\ R \in Nat /\ "first" \in Heaps /\ "second" \in Heaps /\ "cold" \in Heaps
        /\ hot.second
    <3>1. hot \in LogType /\ hot.blk \in Blks /\ cold.blk \in Blks /\ hot.second
      BY <1>1, LogFields DEF TypeInv, HotOK, ColdOK
    <3>2. Width = R /\ R \in 0..S /\ S \in Nat /\ R \in Nat
      BY <1>1, SizeLemma DEF Width
    <3>3. QED
      BY <3>1, <3>2 DEF Heaps
  <2>3. /\ hot'.page = hot.page /\ hot'.second = hot.second
        /\ hot'.blk = hot.blk /\ hot'.nextLow = hot.nextLow
    BY <1>3, <2>2, FlushRecycledLog
  <2>4. PICK k \in 0..R : k = Cardinality(Held(hot, R))
    BY <2>2, HeldLemma
  <2>5. PICK buf : buf = HotBuffer
    OBVIOUS
  <2>6. /\ \A s \in 0..(R - 1), c \in Chunks : hot.chunk[s] = c => map[c] = buf[s]
        /\ \A s, t \in 0..(R - 1) : buf[s] = buf[t] => s = t
        /\ trims = "none" /\ hot.allValid => \A s \in 0..(R - 1) : hot.chunk[s] # None
    BY <1>1, <2>2, <2>5, FullHot
  <2>7. PICK b \in Blks : b = hot.blk
    BY <2>2
  <2>8. /\ Live(b)' = Live(b) + k
        /\ \A d : d # b /\ ~Collecting(d) => Live(d)' = Live(d)
    BY <2>1, <2>2, <2>4, <2>6, <2>7, HeldMoved
  <2>9. PICK n \in 0..R : /\ n >= k /\ (trims = "none" => n = k)
                         /\ RecycledShortfall(hot) = S - n
    <3>1. PICK n \in 0..R : n = IF hot.allValid THEN R ELSE k
      BY <2>2, <2>4
    <3>2. trims = "none" /\ hot.allValid => k = R
      BY <2>2, <2>4, <2>6, HeldFull
    <3>3. RecycledShortfall(hot) = S - n
      BY <2>4, <3>1 DEF RecycledShortfall
    <3>4. n >= k /\ (trims = "none" => n = k)
      BY <2>2, <2>4, <3>1, <3>2
    <3>5. QED
      BY <3>3, <3>4
  <2>10. heap' = [heap EXCEPT !["second"].value[b] = @ - (S - n)]
    BY <1>3, <2>7, <2>9 DEF FlushRecycled
  <2>11. /\ heap'["second"].value[b] = heap["second"].value[b] - (S - n)
         /\ \A h \in Heaps, d \in Blks \ {b} : heap'[h].value[d] = heap[h].value[d]
    <3>1. heap \in [Heaps -> [value : [Blks -> Int], in : SUBSET Blks]]
      BY DEF TypeInv, HeapOK
    <3>2. QED
      BY <2>2, <2>10, <3>1
  <2>12. heap["second"].value[b] \in Int /\ Live(b) \in Nat
    BY <2>2, ValueType, SumsLemma DEF TypeInv
  <2>13. Counted(trims, Off("second", b)', Off("second", b) - S)
    <3>1. PICK x \in Int, y \in Nat : x = heap["second"].value[b] /\ y = Live(b)
      BY <2>12
    <3>2. Off("second", b)' = (x - (S - n)) - (y + k) /\ Off("second", b) = x - y
      BY <2>8, <2>11, <3>1 DEF Off
    <3>3. PICK m \in Nat : m = n - k /\ (trims = "none" => m = 0)
      BY <2>2, <2>4, <2>9
    <3>4. (x - (S - n)) - (y + k) = ((x - y) - S) + m
      BY <2>2, <2>4, <2>9, <3>1, <3>3
    <3>5. (x - y) - S \in Int
      BY <2>2, <3>1
    <3>6. QED
      BY <3>2, <3>3, <3>4, <3>5 DEF Counted
  <2>14. \A d \in Blks, h \in Heaps : d # b /\ ~Collecting(d) => Off(h, d)' = Off(h, d)
    BY <2>8, <2>11 DEF Off
  <2>15. HotOff(trims) /\ ColdOff
    BY OffsNow DEF LogOff
  <2>16. HotOff(trims)'
    <3>1. PICK x \in Int : x = HighLeft + LowLeft
      BY LeftType
    <3>2. (HighLeft + LowLeft)' = x - 1
      BY <1>1, <1>3, <2>1, <2>2, <2>3, <3>1, HotFlushLeft
    <3>3. Counted(trims, Off("second", b), x * S)
      BY <1>1, <2>2, <2>7, <2>15, <3>1 DEF HotOff
    <3>4. Counted(trims, Off("second", b)', (x - 1) * S)
      BY <2>2, <2>13, <3>3, LessOff
    <3>5. QED
      BY <2>2, <2>3, <2>7, <3>2, <3>4 DEF HotOff
  <2>17. ColdOff'
    <3>1. cold.blk # b /\ ~Collecting(cold.blk)
      BY <1>1, <2>7, NotCollecting DEF Partition
    <3>2. ColdLeft' = ColdLeft
      BY <1>1, <2>1 DEF ColdLeft
    <3>3. Off("cold", cold.blk)' = Off("cold", cold.blk)
      BY <1>1, <2>2, <2>14, <3>1
    <3>4. QED
      BY <1>1, <2>15, <3>2, <3>3 DEF ColdOff
  <2>18. QED
    BY <1>1, <2>1, <2>7, <2>14, <2>16, <2>17, CountsKept
<1>4. QED
  BY <1>2, <1>3

\* The page of the cold log is programmed.
LEMMA ColdPageCounts ==
    ASSUME NEW trims, Running(trims),
           TypeInv', Stored', KeepsRoles, pc # "advanceCold", pc' = "advanceCold",
           cold'.page = cold.page, hot' = hot, pc # "advanceHot", gc.state # "idle" => gc'.state # "idle",
           \A h \in Heaps, b \in Blks :
              /\ b = cold.blk => Off(h, b)' = Off(h, b) - S
              /\ b # cold.blk /\ ~Collecting(b) => Off(h, b)' = Off(h, b)
    PROVE  HeapCounts(trims)' /\ LogCounts(trims)'
<1>. USE DEF Running
<1>1. /\ hot.blk \in Blks /\ cold.blk \in Blks /\ cold'.blk = cold.blk
      /\ "first" \in Heaps /\ "second" \in Heaps /\ "cold" \in Heaps
      /\ hot.blk # cold.blk /\ ~Collecting(hot.blk) /\ pc # "findHot" /\ pc' # "findHot"
  BY LogFields, NotCollecting DEF TypeInv, HotOK, ColdOK, Heaps, KeepsRoles, Partition
<1>2. HotOff(trims) /\ ColdOff
  BY OffsNow DEF LogOff
<1>3. HotOff(trims)'
  <2>1. HighLeft' = HighLeft /\ LowLeft' = LowLeft /\ FirstLeft' = FirstLeft
    <3>1. HotNext' = HotNext
      BY DEF HotNext
    <3>2. QED
      BY <3>1 DEF HighLeft, LowLeft, FirstLeft
  <2>2. \A h \in Heaps : Off(h, hot.blk)' = Off(h, hot.blk)
    BY <1>1
  <2>3. QED
    BY <1>1, <1>2, <2>1, <2>2 DEF HotOff
<1>4. ColdOff'
  <2>1. PICK x \in Int : x = ColdLeft
    BY LeftType
  <2>2. ColdLeft' = x - 1
    <3>1. PICK n \in Int : n = P - 1 - cold.page
      BY LogFields, SizeLemma DEF TypeInv, ColdOK
    <3>2. ColdLeft = n - 0 /\ ColdLeft' = n - 1
      BY <3>1 DEF ColdLeft
    <3>3. QED
      BY <2>1, <3>1, <3>2
  <2>3. PICK b \in Blks : b = cold.blk
    BY <1>1
  <2>4. Off("cold", b) = x * S /\ Off("cold", b)' = Off("cold", b) - S
    BY <1>1, <1>2, <2>1, <2>3 DEF ColdOff
  <2>5. Off("cold", b)' = (x - 1) * S
    BY <2>4, TimesLemma
  <2>6. QED
    BY <1>1, <2>2, <2>3, <2>5 DEF ColdOff
<1>5. QED
  BY <1>3, <1>4, CountsKept

LEMMA FlushColdCounts ==
    ASSUME NEW trims, Running(trims), TypeInv', FlushCold
    PROVE  HeapCounts(trims)' /\ LogCounts(trims)'
<1>. USE DEF Running
<1>1. KeepsRoles /\ Stored' /\ MovesIn(cold.chunk, S, cold.blk)
  BY FlushKeeps, FlushColdPlaces DEF Places
<1>2. /\ pc = "flushCold" /\ pc' = "advanceCold" /\ heap' = HeapAfterFlush(cold)
      /\ cold' = Flushed(cold) /\ UNCHANGED <<hot, gc>>
  BY DEF FlushCold, Flush, Goto
<1>3. cold \in LogType
  BY DEF TypeInv, ColdOK
<1>4. cold'.page = cold.page
  BY <1>2, <1>3, FlushedType
<1>5. ASSUME NEW h \in Heaps, NEW b \in Blks
      PROVE  /\ b = cold.blk => Off(h, b)' = Off(h, b) - S
             /\ b # cold.blk /\ ~Collecting(b) => Off(h, b)' = Off(h, b)
  <2>1. PICK buf : buf = ColdBuffer
    OBVIOUS
  <2>2. /\ \A s \in 0..(S - 1), c \in Chunks : cold.chunk[s] = c => map[c] = buf[s]
        /\ \A s, t \in 0..(S - 1) : buf[s] = buf[t] => s = t
        /\ cold.allValid => \A s \in 0..(S - 1) : cold.chunk[s] # None
    BY <1>2, <2>1, FullCold
  <2>3. /\ b = cold.blk => Counted("none", Off(h, b)', Off(h, b) - S)
        /\ b # cold.blk /\ ~Collecting(b) => Off(h, b)' = Off(h, b)
    BY <1>1, <1>2, <1>3, <2>2, FlushOff
  <2>4. QED
    BY <2>3, CountedLemma
<1>6. QED
  BY <1>1, <1>2, <1>4, <1>5, ColdPageCounts

LEMMA CopyWholePageCounts ==
    ASSUME NEW trims, Running(trims), TypeInv', CopyWholePage
    PROVE  HeapCounts(trims)' /\ LogCounts(trims)'
<1>. USE DEF Running
<1>. DEFINE chunks == [t \in Slots |-> SlotChunk(t)]
<1>1. KeepsRoles /\ Stored' /\ MovesIn(chunks, S, cold.blk)
  BY CollectorKeeps, CopyWholePagePlaces DEF Places
<1>2. /\ pc = "collect" /\ pc' = "advanceCold" /\ gc'.state = "read" /\ cold'.page = cold.page
      /\ UNCHANGED <<hot, heap>>
      /\ \A s \in Slots : /\ SlotChunk(s) \in Chunks
                          /\ map[SlotChunk(s)] = FlashWLog(gc.victim, gc.page, s)
  BY CopyWholePageEffect
<1>3. /\ \A s : s \in Slots <=> s \in 0..(S - 1) /\ chunks[s] \in Chunks
      /\ \A s, t \in Slots : chunks[s] = chunks[t] => s = t
  <2>1. \A s \in Slots : chunks[s] = SlotChunk(s)
    OBVIOUS
  <2>2. ASSUME NEW s \in Slots, NEW t \in Slots, SlotChunk(s) = SlotChunk(t) PROVE s = t
    <3>1. FlashWLog(gc.victim, gc.page, s) = FlashWLog(gc.victim, gc.page, t)
      BY <1>2, <2>2
    <3>2. QED
      BY <3>1, FlashLemma
  <2>3. QED
    BY <1>2, <2>1, <2>2, WholePage
<1>4. IsFiniteSet(Slots) /\ Cardinality(Slots) = S /\ S \in Nat
  <2>1. Slots = 0..(S - 1) /\ S \in Nat /\ 0 \in Int /\ S - 1 \in Int /\ S > 0
    BY SizeLemma DEF Slots
  <2>2. IsFiniteSet(0..(S - 1)) /\ Cardinality(0..(S - 1)) = IF 0 > S - 1 THEN 0 ELSE (S - 1) - 0 + 1
    BY <2>1, FS_Interval
  <2>3. QED
    BY <2>1, <2>2
<1>. HIDE DEF chunks
<1>5. /\ Live(cold.blk)' = Live(cold.blk) + S
      /\ \A d : d # cold.blk /\ ~Collecting(d) => Live(d)' = Live(d)
  <2>1. PICK b : b = cold.blk
    OBVIOUS
  <2>2. PICK T : T = Slots
    OBVIOUS
  <2>3. /\ Live(b)' = Live(b) + Cardinality(T)
        /\ \A d : d # b /\ ~Collecting(d) => Live(d)' = Live(d)
    BY <1>1, <1>3, <1>4, <2>1, <2>2, LiveMoved
  <2>4. cold'.blk = cold.blk
    BY <1>1 DEF KeepsRoles
  <2>5. QED
    BY <1>4, <2>1, <2>2, <2>3, <2>4
<1>6. ASSUME NEW h \in Heaps, NEW b \in Blks
      PROVE  /\ b = cold.blk => Off(h, b)' = Off(h, b) - S
             /\ b # cold.blk /\ ~Collecting(b) => Off(h, b)' = Off(h, b)
  <2>1. heap[h].value[b] \in Int /\ Live(b) \in Nat
    BY ValueType, SumsLemma DEF TypeInv
  <2>2. b = cold.blk => Live(b)' = Live(b) + S
    BY <1>1, <1>5 DEF KeepsRoles
  <2>3. QED
    BY <1>2, <1>4, <1>5, <2>1, <2>2 DEF Off
<1>7. QED
  BY <1>1, <1>2, <1>6, ColdPageCounts

----------------------------------------------------------------------------
(* The logs go to their next page.                                         *)

\* The pages of the first usage from page n on.
First(n) == IF n = 0 THEN Half - 1 ELSE (P - 5 - n) \div 2 + 1

LEMMA AdvanceFirstCounts ==
    ASSUME NEW trims, Running(trims), TypeInv', AdvanceFirst
    PROVE  HeapCounts(trims)' /\ LogCounts(trims)'
<1>. USE DEF Running
<1>1. KeepsRoles /\ Stored'
  BY AdvanceHotKeeps, AdvanceHotPlaces DEF Places
<1>2. /\ pc = "advanceHot" /\ pc' = "idle" /\ ~hot.second /\ hot.page # P - 5
      /\ hot' = [hot EXCEPT !.page = IF @ = 0 THEN 1 ELSE @ + 2] /\ UNCHANGED <<map, cold, heap, gc>>
  BY DEF AdvanceFirst, Goto
<1>3. /\ hot \in LogType /\ hot.blk \in Blks /\ cold.blk \in Blks /\ LowPage(hot.page) /\ hot.page <= P - 5
      /\ hot.page \in 0..(P - 2) /\ "first" \in Heaps /\ "cold" \in Heaps
  BY <1>2, LogFields DEF TypeInv, HotOK, ColdOK, Heaps
<1>4. PICK next : next = IF hot.page = 0 THEN 1 ELSE hot.page + 2
  OBVIOUS
<1>5. hot'.page = next /\ hot'.blk = hot.blk /\ hot'.second = hot.second
  BY <1>2, <1>3, <1>4 DEF LogType
<1>6. \A h \in Heaps, b \in Blks : Off(h, b)' = Off(h, b)
  BY <1>2, OffSame
<1>7. FirstLeft' = FirstLeft
  <2>1. Half \in Nat /\ P \in Nat /\ P = 2 * Half /\ hot.page \in Nat
    BY <1>3, SumsLemma, SizeLemma
  <2>2. CASE hot.page = 0
    <3>1. (P - 5 - 1) \div 2 + 1 = Half - 2
      BY <2>1
    <3>2. FirstLeft = Half - 1 - 1
      BY <1>2, <2>2 DEF FirstLeft
    <3>3. hot'.page = 1
      BY <1>4, <1>5, <2>2
    <3>4. FirstLeft' = First(1) - 0
      BY <1>2, <3>3 DEF FirstLeft, First
    <3>5. First(1) = (P - 5 - 1) \div 2 + 1
      BY DEF First
    <3>6. QED
      BY <2>1, <3>1, <3>2, <3>4, <3>5
  <2>3. CASE hot.page # 0
    <3>1. PICK n \in Nat : hot.page = n /\ n # 0
      BY <2>1, <2>3
    <3>2. (P - 5 - (n + 2)) \div 2 + 1 = (P - 5 - n) \div 2
      BY <2>1, <3>1
    <3>3. PICK m \in Int : m = (P - 5 - n) \div 2
      BY <2>1, <3>1
    <3>4. FirstLeft = m + 1 - 1
      BY <1>2, <2>3, <3>1, <3>3 DEF FirstLeft
    <3>5. FirstLeft' = First(n + 2) - 0 /\ First(n + 2) = (P - 5 - (n + 2)) \div 2 + 1
      <4>1. hot'.page = n + 2
        BY <1>4, <1>5, <2>3, <3>1
      <4>2. FirstLeft' = First(n + 2) - 0
        BY <1>2, <4>1 DEF FirstLeft, First
      <4>3. First(n + 2) = (P - 5 - (n + 2)) \div 2 + 1
        BY <3>1 DEF First
      <4>4. QED
        BY <4>2, <4>3
    <3>6. QED
      BY <3>2, <3>3, <3>4, <3>5
  <2>4. QED
    BY <2>2, <2>3
<1>8. HotOff(trims) /\ ColdOff
  BY OffsNow DEF LogOff
<1>9. HotOff(trims)'
  BY <1>2, <1>3, <1>5, <1>6, <1>7, <1>8 DEF HotOff
<1>10. ColdOff'
  <2>1. ColdLeft' = ColdLeft
    BY <1>2 DEF ColdLeft
  <2>2. QED
    BY <1>2, <1>3, <1>6, <1>8, <2>1 DEF ColdOff
<1>11. QED
  BY <1>1, <1>2, <1>6, <1>9, <1>10, CountsKept

\* A low page that was chosen to be encoded counts until it is programmed.
LEMMA AdvanceSecondLeft ==
    ASSUME NEW trims, Running(trims), AdvanceToHigh \/ AdvanceToTestedLow \/ AdvanceToPage1 \/ SkipLow
    PROVE  /\ HighLeft' = HighLeft
           /\ \/ heap' = HeapReusing(hot.blk) /\ LowLeft = 0 /\ LowLeft' = 1
              \/ heap' = heap /\ LowLeft' = LowLeft
<1>. USE DEF Running
<1>1. /\ pc = "advanceHot" /\ pc' = "idle" /\ hot.second /\ hot.page < P - 2
      /\ hot'.page \in Nat
      /\ hot'.page = hot.page + 1 \/ (hot'.page = hot.page + 2 /\ hot.page % 2 = 0)
      /\ \/ LowBehind /\ \E p \in Pages : ReusesLow(p)
         \/ LowBehind /\ SkipsLow
         \/ EncodesLow /\ hot.nextLow = hot.page + 1 /\ hot'.page = hot.page + 1
  BY AdvanceSecondEffect DEF Places
<1>2. hot.page \in Nat /\ (hot.nextLow # None => hot.nextLow \in Nat) /\ None \notin Int
  <2>1. hot.page \in 0..(P - 2) /\ (hot.nextLow # None => hot.nextLow \in Pages)
    BY LogFields DEF TypeInv, HotOK
  <2>2. P \in Nat /\ (\A p \in Pages : p \in Nat) /\ None \notin Int
    BY SizeLemma
  <2>3. QED
    BY <2>1, <2>2
<1>3. HotNext = hot.page + 1 /\ HotNext' = hot'.page
  BY <1>1 DEF HotNext
<1>4. HighLeft' = HighLeft
  <2>1. HighLeft = High(hot.page + 1) /\ HighLeft' = High(hot'.page)
    BY <1>3 DEF HighLeft, High
  <2>2. ASSUME hot.page % 2 = 0 PROVE High(hot.page + 2) = High(hot.page + 1)
    <3>1. PICK n \in Nat : n = hot.page + 1
      BY <1>2
    <3>2. n % 2 = 1 /\ n + 1 = hot.page + 2
      BY <1>2, <2>2, <3>1
    <3>3. High(n + 1) = High(n)
      BY <3>2, HighLemma
    <3>4. QED
      BY <3>1, <3>2, <3>3
  <2>3. QED
    BY <1>1, <2>1, <2>2
<1>5. LowBehind => LowLeft = 0
  BY <1>2, <1>3 DEF LowBehind, LowLeft
<1>6. ASSUME LowBehind, NEW p \in Pages, ReusesLow(p)
      PROVE  heap' = HeapReusing(hot.blk) /\ LowLeft' = 1
  <2>1. hot'.nextLow = p /\ p # None /\ p \in Nat /\ heap' = HeapReusing(hot.blk)
    BY <1>6, SizeLemma DEF ReusesLow
  <2>2. p >= hot'.page
    BY <1>1, <1>6, <2>1 DEF ReusesLow
  <2>3. QED
    BY <1>3, <2>1, <2>2 DEF LowLeft
<1>7. ASSUME LowBehind, SkipsLow PROVE heap' = heap /\ LowLeft' = 0
  BY <1>1, <1>2, <1>3, <1>7 DEF SkipsLow, LowBehind, LowLeft
<1>8. ASSUME EncodesLow, hot.nextLow = hot.page + 1, hot'.page = hot.page + 1
      PROVE  heap' = heap /\ LowLeft' = LowLeft
  BY <1>3, <1>8 DEF EncodesLow, LowLeft
<1>9. QED
  BY <1>1, <1>4, <1>5, <1>6, <1>7, <1>8

LEMMA AdvanceSecondCounts ==
    ASSUME NEW trims, Running(trims),
           TypeInv', AdvanceToHigh \/ AdvanceToTestedLow \/ AdvanceToPage1 \/ SkipLow
    PROVE  HeapCounts(trims)' /\ LogCounts(trims)'
<1>. USE DEF Running
<1>1. KeepsRoles /\ Stored'
  BY AdvanceHotKeeps, AdvanceHotPlaces DEF Places
<1>2. /\ pc = "advanceHot" /\ pc' = "idle" /\ hot.second
      /\ UNCHANGED <<map, cold, clean, gc, lists, latest, frames>>
      /\ hot'.blk = hot.blk /\ hot'.second = hot.second
  BY AdvanceSecondEffect DEF Places, SameBuffer
<1>3. PICK b \in Blks : b = hot.blk
  BY LogFields DEF TypeInv, HotOK
<1>4. /\ cold.blk \in Blks /\ cold.blk # b /\ "second" \in Heaps /\ "cold" \in Heaps
      /\ heap \in [Heaps -> [value : [Blks -> Int], in : SUBSET Blks]]
  BY <1>2, <1>3, LogFields DEF TypeInv, ColdOK, Heaps, Partition, HeapOK
<1>5. \A d : Live(d)' = Live(d)
  BY <1>2, LiveSame
<1>6. /\ HighLeft' = HighLeft
      /\ \/ heap' = HeapReusing(b) /\ LowLeft = 0 /\ LowLeft' = 1
         \/ heap' = heap /\ LowLeft' = LowLeft
  BY <1>3, AdvanceSecondLeft
<1>7. \A h \in Heaps, d \in Blks \ {b} : Off(h, d)' = Off(h, d)
  <2>1. \A h \in Heaps, d \in Blks \ {b} : heap'[h].value[d] = heap[h].value[d]
    BY <1>4, <1>6 DEF HeapReusing
  <2>2. QED
    BY <1>5, <2>1 DEF Off
<1>8. HotOff(trims) /\ ColdOff
  BY OffsNow DEF LogOff
<1>9. HotOff(trims)'
  <2>1. PICK x \in Int : x = HighLeft
    BY LeftType
  <2>2. Counted(trims, Off("second", b), (x + LowLeft) * S)
    BY <1>2, <1>3, <1>8, <2>1 DEF HotOff
  <2>3. Counted(trims, Off("second", b)', (x + LowLeft') * S)
    <3>1. CASE heap' = HeapReusing(b) /\ LowLeft = 0 /\ LowLeft' = 1
      <4>1. heap'["second"].value[b] = heap["second"].value[b] + S
        BY <1>4, <3>1 DEF HeapReusing
      <4>2. heap["second"].value[b] \in Int /\ Live(b) \in Nat /\ S \in Int
        BY <1>4, ValueType, SumsLemma, SizeLemma DEF TypeInv
      <4>3. Off("second", b)' = Off("second", b) + S
        BY <1>5, <4>1, <4>2 DEF Off
      <4>4. Counted(trims, Off("second", b), x * S)
        BY <2>1, <2>2, <3>1
      <4>5. (x + 1) * S = x * S + S /\ x * S \in Int
        BY TimesLemma, SumsLemma
      <4>6. Counted(trims, Off("second", b) + S, x * S + S)
        BY <1>4, <4>2, <4>4, <4>5, OffType, CountedLemma
      <4>7. QED
        BY <3>1, <4>3, <4>5, <4>6
    <3>2. CASE heap' = heap /\ LowLeft' = LowLeft
      <4>1. Off("second", b)' = Off("second", b)
        BY <1>5, <3>2 DEF Off
      <4>2. QED
        BY <2>2, <3>2, <4>1
    <3>3. QED
      BY <1>6, <3>1, <3>2
  <2>4. QED
    BY <1>2, <1>3, <1>6, <2>1, <2>3 DEF HotOff
<1>10. ColdOff'
  <2>1. ColdLeft' = ColdLeft
    BY <1>2 DEF ColdLeft
  <2>2. QED
    BY <1>2, <1>4, <1>7, <1>8, <2>1 DEF ColdOff
<1>11. QED
  BY <1>1, <1>2, <1>3, <1>7, <1>9, <1>10, CountsKept

LEMMA AdvanceColdCounts ==
    ASSUME NEW trims, Running(trims), TypeInv', AdvanceCold
    PROVE  HeapCounts(trims)' /\ LogCounts(trims)'
<1>. USE DEF Running
<1>1. KeepsRoles /\ Stored'
  BY CollectorKeeps, AdvanceColdPlaces DEF Places
<1>2. /\ pc = "advanceCold" /\ pc' \in {"idle", "copy", "collect"}
      /\ cold' = [cold EXCEPT !.page = @ + 1] /\ UNCHANGED <<map, hot, heap, gc>>
  BY ReturnLabel DEF AdvanceCold
<1>3. cold \in LogType /\ cold.blk \in Blks /\ cold.page \in 0..(P - 2) /\ hot.blk \in Blks
      /\ "first" \in Heaps /\ "second" \in Heaps /\ "cold" \in Heaps
  BY LogFields DEF TypeInv, HotOK, ColdOK, Heaps
<1>4. PICK next : next = cold.page + 1
  OBVIOUS
<1>5. cold'.page = next /\ cold'.blk = cold.blk
  BY <1>2, <1>3, <1>4 DEF LogType
<1>6. \A h \in Heaps, b \in Blks : Off(h, b)' = Off(h, b)
  BY <1>2, OffSame
<1>7. ColdLeft' = ColdLeft
  <2>1. P \in Nat /\ cold.page \in Nat
    BY <1>3, SizeLemma
  <2>2. ColdLeft = P - 1 - cold.page - 1 /\ ColdLeft' = P - 1 - next - 0
    BY <1>2, <1>5 DEF ColdLeft
  <2>3. QED
    BY <1>4, <2>1, <2>2
<1>8. HotOff(trims) /\ ColdOff
  BY OffsNow DEF LogOff
<1>9. HotOff(trims)'
  <2>1. HighLeft' = HighLeft /\ LowLeft' = LowLeft /\ FirstLeft' = FirstLeft
    <3>1. HotNext' = HotNext
      BY <1>2 DEF HotNext
    <3>2. QED
      BY <1>2, <3>1 DEF HighLeft, LowLeft, FirstLeft
  <2>2. QED
    BY <1>2, <1>3, <1>6, <1>8, <2>1 DEF HotOff
<1>10. ColdOff'
  BY <1>3, <1>5, <1>6, <1>7, <1>8 DEF ColdOff
<1>11. QED
  BY <1>1, <1>2, <1>6, <1>9, <1>10, CountsKept

----------------------------------------------------------------------------
(* A log fills its block or gets another one.                              *)

LEMMA FillHotCounts ==
    ASSUME NEW trims, Running(trims), TypeInv', FillFirst \/ FillSecond
    PROVE  HeapCounts(trims)' /\ LogCounts(trims)'
<1>. USE DEF Running
<1>1. /\ pc = "advanceHot" /\ pc' = "findHot" /\ UNCHANGED <<map, cold, clean, gc, latest, frames>>
      /\ hot'.blk = hot.blk /\ \A h \in Heaps : heap'[h].value = heap[h].value
      /\ heap'["cold"].in = heap["cold"].in
      /\ \/ /\ ~hot.second /\ hot.page = P - 5
            /\ heap'["first"].in = heap["first"].in \cup {hot.blk}
            /\ heap'["second"].in = heap["second"].in
         \/ /\ hot.second /\ hot.page = P - 2
            /\ heap'["second"].in = heap["second"].in \cup {hot.blk}
            /\ heap'["first"].in = heap["first"].in
  BY FillHotEffect
<1>2. Stored'
  BY FillHotPlaces DEF Places
<1>3. PICK b \in Blks : b = hot.blk
  BY LogFields DEF TypeInv, HotOK
<1>4. /\ "first" \in Heaps /\ "second" \in Heaps /\ "cold" \in Heaps /\ cold.blk \in Blks
      /\ \A h \in Heaps : \A d \in heap[h].in \cup CleanBlks : d \in Blks
  <2>1. \A h \in Heaps : heap[h].in \subseteq Blks
    BY DEF TypeInv, HeapOK
  <2>2. CleanBlks \subseteq Blks
    BY DEF TypeInv, CleanOK, CleanBlks
  <2>3. QED
    BY <2>1, <2>2, LogFields DEF Heaps, TypeInv, ColdOK
<1>5. \A h \in Heaps, d \in Blks : Off(h, d)' = Off(h, d)
  BY <1>1, OffSame
<1>6. HeapOff(trims) /\ CleanOff /\ ColdOff /\ HotOff(trims)
  BY OffsNow DEF LogOff
<1>7. \A d : Collecting(d)' <=> Collecting(d)
  BY <1>1 DEF Collecting
<1>8. P \in Nat /\ P >= 6 /\ P = 2 * Half /\ Half \in Nat /\ HighPages \in Nat
  BY SumsLemma, SizeLemma
<1>9. ~hot.second /\ hot.page = P - 5 => Counted(trims, Off("first", b), HighPages * S)
  <2>1. SUFFICES ASSUME ~hot.second, hot.page = P - 5
                 PROVE  Counted(trims, Off("first", b), HighPages * S)
    OBVIOUS
  <2>2. First(P - 5) = 1
    <3>1. P - 5 # 0 /\ P - 5 - (P - 5) = 0 /\ 0 \div 2 = 0
      BY <1>8
    <3>2. QED
      BY <3>1 DEF First
  <2>3. FirstLeft = First(P - 5) - 1
    BY <1>1, <2>1 DEF FirstLeft, First
  <2>4. FirstLeft + HighPages = HighPages
    BY <1>8, <2>2, <2>3
  <2>5. Counted(trims, Off("first", b), (FirstLeft + HighPages) * S)
    BY <1>1, <1>3, <1>6, <2>1 DEF HotOff
  <2>6. QED
    BY <2>4, <2>5
<1>10. hot.second /\ hot.page = P - 2 => Counted(trims, Off("second", b), 0)
  <2>1. SUFFICES ASSUME hot.second, hot.page = P - 2 PROVE Counted(trims, Off("second", b), 0)
    OBVIOUS
  <2>2. HotNext = P - 1
    BY <1>1, <1>8, <2>1 DEF HotNext
  <2>3. High(P - 1) = 0
    <3>1. ~(P - 1 <= 2) /\ ((P - 1) + 1) \div 2 = Half
      BY <1>8
    <3>2. QED
      BY <1>8, <3>1 DEF High
  <2>4. HighLeft = 0
    BY <2>2, <2>3 DEF HighLeft, High
  <2>5. LowLeft = 0
    <3>1. hot.nextLow # None => LowPage(hot.nextLow)
      BY <1>1, <2>1 DEF Places, HotPos
    <3>2. hot.nextLow # None => hot.nextLow \in Nat
      BY LogFields, SizeLemma DEF TypeInv, HotOK
    <3>3. hot.nextLow # None => ~(hot.nextLow >= P - 1)
      BY <1>8, <3>1, <3>2 DEF LowPage
    <3>4. QED
      BY <2>2, <3>3 DEF LowLeft
  <2>6. Counted(trims, Off("second", b), (HighLeft + LowLeft) * S)
    BY <1>1, <1>3, <1>6, <2>1 DEF HotOff
  <2>7. HighLeft + LowLeft = 0 /\ 0 * S = 0
    BY <2>4, <2>5, TimesLemma
  <2>8. QED
    BY <2>6, <2>7
<1>11. HeapOff(trims)'
  BY <1>1, <1>3, <1>4, <1>5, <1>6, <1>7, <1>9, <1>10 DEF HeapOff
<1>12. CleanOff'
  <2>1. CleanBlks' = CleanBlks
    BY <1>1 DEF CleanBlks
  <2>2. QED
    BY <1>4, <1>5, <1>6, <2>1 DEF CleanOff
<1>13. ColdOff'
  <2>1. ColdLeft' = ColdLeft
    BY <1>1 DEF ColdLeft
  <2>2. QED
    BY <1>1, <1>4, <1>5, <1>6, <2>1 DEF ColdOff
<1>14. LogOff(trims)'
  BY <1>1, <1>12, <1>13 DEF LogOff, HotOff
<1>15. QED
  BY <1>2, <1>11, <1>14, OffsPrimed

LEMMA CleanBlkCounts ==
    ASSUME NEW trims, Running(trims), TypeInv', UseCleanBlk \/ \E f \in HotFirst : UseLastCleanBlk(f)
    PROVE  HeapCounts(trims)' /\ (pc' \notin Hangs => LogCounts(trims)')
<1>. USE DEF Running
<1>1. UNCHANGED <<map, cold, heap, gc, lists>> /\ pc = "findHot"
  BY CleanBlkPlaces
<1>2. HeapCounts(trims)'
  BY <1>1, StopCounts
<1>3. ASSUME pc' \notin Hangs PROVE LogCounts(trims)'
  <2>1. /\ Stored' /\ pc' \in {"idle", "while"} /\ hot'.page = 0 /\ hot'.second = FALSE
        /\ hot'.blk \in CleanBlks /\ CleanBlks' = CleanBlks \ {hot'.blk}
    BY <1>3, CleanBlkPlaces DEF Places
  <2>2. PICK b \in Blks : b = hot'.blk /\ b \in CleanBlks
    BY <2>1 DEF TypeInv, CleanOK, CleanBlks
  <2>3. /\ "first" \in Heaps /\ "cold" \in Heaps /\ cold.blk \in Blks /\ \A d \in CleanBlks : d \in Blks
    BY LogFields DEF Heaps, TypeInv, ColdOK, CleanOK, CleanBlks
  <2>4. \A h \in Heaps, d \in Blks : Off(h, d)' = Off(h, d)
    BY <1>1, OffSame
  <2>5. CleanOff /\ ColdOff
    BY OffsNow DEF LogOff
  <2>6. CleanOff'
    BY <2>1, <2>3, <2>4, <2>5 DEF CleanOff
  <2>7. ColdOff'
    <3>1. ColdLeft' = ColdLeft
      BY <1>1, <2>1 DEF ColdLeft
    <3>2. QED
      BY <1>1, <2>3, <2>4, <2>5, <3>1 DEF ColdOff
  <2>8. HotOff(trims)'
    <3>1. FirstLeft' = Half - 1 - 0
      BY <2>1 DEF FirstLeft
    <3>2. FirstLeft' + HighPages = P - 2
      BY <3>1, SumsLemma
    <3>3. Off("first", b)' = (P - 2) * S
      BY <2>2, <2>3, <2>4, <2>5 DEF CleanOff, InitialCount, FirstUsageInit
    <3>4. (P - 2) * S \in Int
      BY SizeLemma, SumsLemma
    <3>5. Counted(trims, Off("first", b)', (P - 2) * S)
      BY <3>3, <3>4, CountedLemma
    <3>6. QED
      BY <2>1, <2>2, <3>2, <3>5 DEF HotOff
  <2>9. QED
    BY <2>1, <2>6, <2>7, <2>8, OffsPrimed DEF LogOff
<1>4. QED
  BY <1>2, <1>3

LEMMA ReuseCounts ==
    ASSUME NEW trims, Running(trims), TypeInv', NEW b \in Blks, Reused(b),
           (\E p \in {0, 1} : ReusedLow(b, p)) \/ ReusedHigh(b)
    PROVE  HeapCounts(trims)' /\ LogCounts(trims)'
<1>. USE DEF Running
<1>1. /\ b \in heap["first"].in /\ pc = "findHot"
      /\ UNCHANGED <<map, cold, clean, gc, lists, latest, frames>>
      /\ hot'.blk = b /\ hot'.second
      /\ \A h \in Heaps : /\ heap'[h].in = heap[h].in \ {b}
                          /\ \A d \in Blks \ {b} : heap'[h].value[d] = heap[h].value[d]
  BY DEF Reused
<1>2. Stored'
  BY ReusePlaces DEF Places
<1>3. /\ "first" \in Heaps /\ "second" \in Heaps /\ "cold" \in Heaps /\ cold.blk \in Blks
      /\ \A h \in Heaps : \A d \in heap[h].in \cup CleanBlks : d \in Blks
      /\ cold.blk # b /\ b \notin CleanBlks
  <2>1. \A h \in Heaps : heap[h].in \subseteq Blks
    BY DEF TypeInv, HeapOK
  <2>2. CleanBlks \subseteq Blks
    BY DEF TypeInv, CleanOK, CleanBlks
  <2>3. "first" \in Heaps /\ "second" \in Heaps /\ "cold" \in Heaps /\ cold.blk \in Blks
    BY LogFields DEF Heaps, TypeInv, ColdOK
  <2>4. cold.blk # b /\ b \notin CleanBlks
    BY <1>1, <2>3 DEF Partition, InHeaps, TypeInv, RoleInv
  <2>5. QED
    BY <2>1, <2>2, <2>3, <2>4
<1>4. \A h \in Heaps, d \in Blks \ {b} : Off(h, d)' = Off(h, d)
  BY <1>1, OffSame
<1>5. HeapOff(trims) /\ CleanOff /\ ColdOff
  BY OffsNow DEF LogOff
<1>6. \A d : Collecting(d)' <=> Collecting(d)
  BY <1>1 DEF Collecting
<1>7. HeapOff(trims)'
  BY <1>1, <1>3, <1>4, <1>5, <1>6 DEF HeapOff
<1>8. CleanOff'
  <2>1. CleanBlks' = CleanBlks
    BY <1>1 DEF CleanBlks
  <2>2. QED
    BY <1>3, <1>4, <1>5, <2>1 DEF CleanOff
<1>9. pc' \in {"idle", "advanceHot"}
  BY DEF ReusedLow, ReusedHigh
<1>10. ColdOff'
  <2>1. ColdLeft' = ColdLeft
    BY <1>1, <1>9 DEF ColdLeft
  <2>2. QED
    BY <1>1, <1>3, <1>4, <1>5, <2>1 DEF ColdOff
<1>11. HotOff(trims)'
  <2>1. /\ Live(b)' = Live(b) /\ Live(b) \in Nat /\ heap["first"].value[b] \in Int /\ S \in Nat
        /\ HighPages \in Nat /\ Half \in Nat /\ HighPages = Half - 1
    BY <1>1, <1>3, LiveSame, SumsLemma, SizeLemma, ValueType DEF TypeInv
  <2>2. /\ Counted(trims, Off("first", b), HighPages * S)
        /\ Off("first", b) \in Int /\ HighPages * S \in Int /\ S \in Int
    BY <1>1, <1>3, <1>5, <2>1, OffType, SumsLemma DEF HeapOff
  <2>3. High(0) = HighPages /\ High(1) = HighPages /\ High(2) = HighPages
    BY <2>1 DEF High
  <2>4. ASSUME NEW p \in {0, 1}, ReusedLow(b, p)
        PROVE  Counted(trims, Off("second", b)', (HighLeft' + LowLeft') * S)
    <3>1. /\ hot'.page = p /\ hot'.nextLow = p /\ pc' = "idle"
          /\ heap'["second"].value[b] = heap["first"].value[b] + S
      BY <2>4 DEF ReusedLow
    <3>2. Off("second", b)' = Off("first", b) + S
      BY <2>1, <3>1 DEF Off
    <3>3. HighLeft' = High(p)
      BY <3>1 DEF HighLeft, HotNext, High
    <3>4. p \in Nat /\ p # None
      BY SizeLemma
    <3>5. LowLeft' = 1
      BY <3>1, <3>4 DEF LowLeft, HotNext
    <3>6. (HighPages + 1) * S = HighPages * S + S
      BY <2>1, TimesLemma
    <3>7. HighLeft' + LowLeft' = HighPages + 1
      BY <2>3, <3>3, <3>5
    <3>8. Counted(trims, Off("first", b) + S, HighPages * S + S)
      BY <2>2, CountedLemma
    <3>9. QED
      BY <3>2, <3>6, <3>7, <3>8
  <2>5. ASSUME ReusedHigh(b) PROVE Counted(trims, Off("second", b)', (HighLeft' + LowLeft') * S)
    <3>1. /\ hot'.page = 1 /\ hot'.nextLow = None /\ pc' = "advanceHot"
          /\ heap'["second"].value[b] = heap["first"].value[b]
      BY <2>5 DEF ReusedHigh
    <3>2. Off("second", b)' = Off("first", b)
      BY <2>1, <3>1 DEF Off
    <3>3. HotNext' = 2
      BY <3>1 DEF HotNext
    <3>4. HighLeft' = High(2) /\ LowLeft' = 0
      BY <3>1, <3>3 DEF HighLeft, High, LowLeft
    <3>5. HighLeft' + LowLeft' = HighPages
      BY <2>1, <2>3, <3>4
    <3>6. QED
      BY <2>2, <3>2, <3>5
  <2>6. Counted(trims, Off("second", b)', (HighLeft' + LowLeft') * S)
    BY <2>4, <2>5
  <2>7. QED
    BY <1>1, <2>6 DEF HotOff
<1>12. QED
  BY <1>2, <1>7, <1>8, <1>10, <1>11, OffsPrimed DEF LogOff
LEMMA FillColdCounts ==
    ASSUME NEW trims, Running(trims), TypeInv', FillCold
    PROVE  HeapCounts(trims)' /\ (pc' \notin Hangs => LogCounts(trims)')
<1>. USE DEF Running
<1>1. /\ pc = "advanceCold" /\ cold.page = P - 2 /\ UNCHANGED <<map, hot, gc, latest, frames>>
      /\ heap'["cold"].in = heap["cold"].in \cup {cold.blk}
      /\ heap'["first"].in = heap["first"].in /\ heap'["second"].in = heap["second"].in
      /\ \A h \in Heaps : heap'[h].value = heap[h].value
  BY FillColdEffect
<1>2. PICK b \in Blks : b = cold.blk
  BY LogFields DEF TypeInv, ColdOK
<1>3. "first" \in Heaps /\ "second" \in Heaps /\ "cold" \in Heaps
  BY DEF Heaps
<1>4. HeapOff(trims) /\ CleanOff /\ ColdOff /\ HotOff(trims)
  BY OffsNow DEF LogOff
<1>5. ColdLeft = 0
  <2>1. P \in Nat
    BY SizeLemma
  <2>2. ColdLeft = P - 1 - (P - 2) - 1
    BY <1>1 DEF ColdLeft
  <2>3. QED
    BY <2>1, <2>2
<1>6. Counted(trims, heap["cold"].value[b], Live(b))
  <2>1. Off("cold", b) = 0
    BY <1>2, <1>4, <1>5, TimesLemma DEF ColdOff
  <2>2. heap["cold"].value[b] \in Int /\ Live(b) \in Int
    BY <1>3, ValueType, SumsLemma DEF TypeInv
  <2>3. heap["cold"].value[b] = Live(b)
    BY <2>1, <2>2 DEF Off
  <2>4. QED
    BY <2>2, <2>3, CountedLemma
<1>7. \A d : Live(d)' = Live(d)
  BY <1>1, LiveSame
<1>8. HeapCounts(trims)'
  BY <1>1, <1>2, <1>3, <1>6, <1>7 DEF HeapCounts, Collecting
<1>9. ASSUME pc' \notin Hangs PROVE LogCounts(trims)'
  <2>1. /\ pc' = "while" /\ cold'.blk \in CleanBlks /\ CleanBlks' = CleanBlks \ {cold'.blk}
        /\ cold'.page = 0 /\ Stored'
    BY <1>9, FillColdEffect, FillColdPlaces DEF Places
  <2>2. PICK n \in Blks : n = cold'.blk /\ n \in CleanBlks
    BY <2>1 DEF TypeInv, CleanOK, CleanBlks
  <2>3. hot.blk \in Blks /\ \A d \in CleanBlks : d \in Blks
    BY LogFields DEF TypeInv, HotOK, CleanOK, CleanBlks
  <2>4. \A h \in Heaps, d \in Blks : Off(h, d)' = Off(h, d)
    BY <1>1, OffSame
  <2>5. CleanOff'
    BY <1>4, <2>1, <2>3, <2>4 DEF CleanOff
  <2>6. ColdOff'
    <3>1. ColdLeft' = P - 1
      <4>1. ColdLeft' = P - 1 - 0 - 0
        BY <2>1 DEF ColdLeft
      <4>2. QED
        BY <4>1, SizeLemma
    <3>2. Off("cold", n)' = (P - 1) * S
      BY <1>3, <1>4, <2>2, <2>4 DEF CleanOff, InitialCount, SecondUsageInit
    <3>3. QED
      BY <2>2, <3>1, <3>2 DEF ColdOff
  <2>7. HotOff(trims)'
    <3>1. HotNext' = HotNext
      BY <1>1, <2>1 DEF HotNext
    <3>2. HighLeft' = HighLeft /\ LowLeft' = LowLeft /\ FirstLeft' = FirstLeft
      BY <1>1, <2>1, <3>1 DEF HighLeft, LowLeft, FirstLeft
    <3>3. QED
      BY <1>1, <1>3, <1>4, <2>1, <2>3, <2>4, <3>2 DEF HotOff
  <2>8. QED
    BY <2>1, <2>5, <2>6, <2>7, OffsPrimed DEF LogOff
<1>10. QED
  BY <1>8, <1>9

----------------------------------------------------------------------------
(* The collector chooses and erases its victim.                            *)

LEMMA ReclaimCounts ==
    ASSUME NEW trims, Running(trims),
           TypeInv', NEW b \in heap["second"].in \cup heap["cold"].in, Reclaim(b),
           \A c \in Chunks : ~InBlk(map[c], b), \A d : Collecting(d) => d = b,
           pc \in {"while", "collect"}, pc' = "collect", gc'.state = "idle",
           UNCHANGED <<map, hot, cold, frames>>
    PROVE  HeapCounts(trims)' /\ LogCounts(trims)'
<1>. USE DEF Running
<1>1. Stored' /\ CleanBlks' = CleanBlks \cup {b}
  BY ReclaimPlaces DEF Places
<1>2. /\ b \in Blks /\ b # cold.blk /\ b # hot.blk /\ b \notin CleanBlks
      /\ "first" \in Heaps /\ "second" \in Heaps /\ "cold" \in Heaps
  BY DEF TypeInv, HeapOK, Heaps, Partition, InHeaps
<1>3. \A h \in Heaps : heap[h].in \subseteq Blks /\ heap[h].value \in [Blks -> Int]
  BY DEF TypeInv, HeapOK
<1>4. \A h \in Heaps : /\ heap'[h].in = heap[h].in \ {b}
                       /\ heap'[h].value = [heap[h].value EXCEPT ![b] = InitialCount(h)]
  BY <1>2, ReclaimTypes
<1>5. \A h \in Heaps, d \in Blks \ {b} : Off(h, d)' = Off(h, d)
  BY <1>3, <1>4, OffSame
<1>6. HeapOff(trims) /\ CleanOff /\ ColdOff /\ HotOff(trims)
  BY OffsNow DEF LogOff
<1>7. \A h \in Heaps : Off(h, b)' = InitialCount(h)
  <2>1. Live(b)' = 0
    <3>1. {c \in Chunks : InBlk(map'[c], b)} = {}
      OBVIOUS
    <3>2. QED
      BY <3>1, FS_EmptySet DEF Live
  <2>2. \A h \in Heaps : heap'[h].value[b] = InitialCount(h) /\ InitialCount(h) \in Int
    <3>1. SUFFICES ASSUME NEW h \in Heaps PROVE heap'[h].value[b] = InitialCount(h)
      BY SumsLemma
    <3>2. heap[h].value \in [Blks -> Int] /\ heap'[h].value = [heap[h].value EXCEPT ![b] = InitialCount(h)]
      BY <1>3, <1>4
    <3>3. QED
      BY <1>2, <3>2
  <2>3. QED
    BY <2>1, <2>2 DEF Off
<1>8. HeapOff(trims)'
  <2>1. \A h \in Heaps : \A d \in heap'[h].in : d \in heap[h].in /\ d \in Blks \ {b} /\ ~Collecting(d)
    BY <1>3, <1>4
  <2>2. \A h \in {"second", "cold"} : \A d \in heap'[h].in : Counted(trims, Off(h, d)', 0)
    BY <1>2, <1>5, <1>6, <2>1 DEF HeapOff
  <2>3. \A d \in heap'["first"].in : Counted(trims, Off("first", d)', HighPages * S)
    BY <1>2, <1>5, <1>6, <2>1 DEF HeapOff
  <2>4. QED
    BY <2>2, <2>3 DEF HeapOff
<1>9. CleanOff'
  <2>1. CleanBlks \subseteq Blks
    BY DEF TypeInv, CleanOK, CleanBlks
  <2>2. QED
    BY <1>1, <1>2, <1>5, <1>6, <1>7, <2>1 DEF CleanOff
<1>10. hot.blk \in Blks /\ cold.blk \in Blks
  BY LogFields DEF TypeInv, HotOK, ColdOK
<1>11. HighLeft' = HighLeft /\ LowLeft' = LowLeft /\ FirstLeft' = FirstLeft /\ ColdLeft' = ColdLeft
  BY LeftSame
<1>12. ColdOff'
  BY <1>2, <1>5, <1>6, <1>10, <1>11 DEF ColdOff
<1>13. HotOff(trims)'
  BY <1>2, <1>5, <1>6, <1>10, <1>11 DEF HotOff
<1>14. QED
  BY <1>1, <1>8, <1>9, <1>12, <1>13, OffsPrimed DEF LogOff

LEMMA CollectAgainCounts ==
    ASSUME NEW trims, Running(trims), TypeInv', CollectAgain
    PROVE  HeapCounts(trims)' /\ (pc' \notin Hangs => LogCounts(trims)')
<1>. USE DEF Running
<1>1. pc = "while" /\ UNCHANGED <<map, hot, cold, frames>>
  BY CollectStart
<1>2. \A d : Live(d)' = Live(d)
  BY <1>1, LiveSame
<1>3. ASSUME pc' = "collect", UNCHANGED <<heap, clean>> PROVE LogCounts(trims)'
  <2>1. HighLeft' = HighLeft /\ LowLeft' = LowLeft /\ FirstLeft' = FirstLeft /\ ColdLeft' = ColdLeft
    BY <1>1, <1>3, LeftSame
  <2>2. CleanBlks' = CleanBlks
    BY <1>3 DEF CleanBlks
  <2>3. QED
    BY <1>1, <1>2, <1>3, <2>1, <2>2 DEF LogCounts
<1>4. CASE pc' \in {"no candidate", "collect"} /\ UNCHANGED <<heap, clean, gc, lists, latest>>
  <2>1. pc' \in Hangs \/ pc' = "collect"
    BY <1>4 DEF Hangs
  <2>2. QED
    BY <1>1, <1>3, <1>4, <2>1, StopCounts
<1>5. ASSUME gc.state = "idle", pc' = "collect", NEW h \in {"second", "cold"}, NEW b \in heap[h].in,
             gc'.state = "read", gc'.victim = b, UNCHANGED <<heap, clean, lists, latest>>
      PROVE  HeapCounts(trims)' /\ LogCounts(trims)'
  <2>1. \A d : ~Collecting(d)
    BY <1>5 DEF Collecting
  <2>2. HeapCounts(trims)'
    BY <1>2, <1>5, <2>1 DEF HeapCounts
  <2>3. QED
    BY <1>3, <1>5, <2>2
<1>6. ASSUME gc.state = "idle", pc' = "collect", NEW h \in {"second", "cold"}, NEW b \in heap[h].in,
             heap[h].value[b] <= 0, gc'.state = "idle", Reclaim(b)
      PROVE  HeapCounts(trims)' /\ LogCounts(trims)'
  <2>1. b \in heap["second"].in \cup heap["cold"].in /\ \A d : ~Collecting(d)
    BY <1>6 DEF Collecting
  <2>2. Live(b) <= 0
    <3>1. Counted(trims, heap[h].value[b], Live(b)) /\ heap[h].value[b] <= 0
      BY <1>6, <2>1 DEF HeapCounts
    <3>2. heap[h].value[b] \in Int /\ Live(b) \in Nat
      <4>1. h \in Heaps /\ b \in Blks
        BY <1>6 DEF Heaps, TypeInv, HeapOK
      <4>2. QED
        BY <4>1, ValueType, SumsLemma DEF TypeInv
    <3>3. QED
      BY <3>1, <3>2 DEF Counted
  <2>3. \A c \in Chunks : ~InBlk(map[c], b)
    BY <2>2, LiveLemma
  <2>4. QED
    BY <1>1, <1>6, <2>1, <2>3, ReclaimCounts
<1>7. QED
  BY CollectStart, <1>4, <1>5, <1>6

LEMMA EndOfVictimCounts ==
    ASSUME NEW trims, Running(trims), TypeInv', EndOfVictim
    PROVE  HeapCounts(trims)' /\ (pc' \notin Hangs => LogCounts(trims)')
<1>1. gc.state = "read" /\ pc = "collect" /\ gc \in GcType /\ UNCHANGED <<map, hot, cold, frames>>
  BY DEF Running, TypeInv, GcOK, EndOfVictim
<1>2. CASE gc.inBlk # gc.fromHeap
  <2>1. pc' \in Hangs /\ UNCHANGED <<heap, gc>>
    BY <1>2 DEF EndOfVictim, Hang, Hangs
  <2>2. QED
    BY <1>1, <2>1, StopCounts DEF Running
<1>3. CASE gc.inBlk = gc.fromHeap
  <2>1. Reclaim(gc.victim) /\ gc'.state = "idle" /\ pc' = "collect"
    BY <1>1, <1>3 DEF EndOfVictim, GcType
  <2>2. PICK b \in heap["second"].in \cup heap["cold"].in : b = gc.victim
    BY <1>1 DEF Running, RoleInv
  <2>3. \A c \in Chunks : ~InBlk(map[c], b)
    BY <2>2, VictimEmpty
  <2>4. \A d : Collecting(d) => d = b
    BY <2>2 DEF Collecting
  <2>5. QED
    BY <1>1, <2>1, <2>2, <2>3, <2>4, ReclaimCounts
<1>4. QED
  BY <1>2, <1>3

\* Every step keeps the counts.
LEMMA CountsStep ==
    ASSUME NEW trims, Running(trims), TypeInv', Next
    PROVE  HeapCounts(trims)' /\ (pc' \notin Hangs => LogCounts(trims)')
<1>2. ASSUME NEW c \in Chunks, WriteHot(c) \/ WriteCold(c) \/ MoveAway(c) PROVE HeapCounts(trims)' /\ LogCounts(trims)'
  BY <1>2, WriteCounts
<1>3. CASE FlushHot \/ FlushCold \/ FlushRecycled
  BY <1>3, FlushHotCounts, FlushColdCounts, FlushRecycledCounts
<1>4. CASE AdvanceFirst \/ AdvanceToHigh \/ AdvanceToTestedLow \/ AdvanceToPage1 \/ SkipLow
  BY <1>4, AdvanceFirstCounts, AdvanceSecondCounts
<1>5. CASE FillFirst \/ FillSecond
  BY <1>5, FillHotCounts
<1>6. CASE UseCleanBlk \/ \E f \in HotFirst : UseLastCleanBlk(f)
  BY <1>6, CleanBlkCounts
<1>7. ASSUME NEW f \in HotFirst, ReuseBlk(f) PROVE HeapCounts(trims)' /\ LogCounts(trims)'
  <2>1. PICK b \in Blks : Reused(b) /\ ((\E p \in {0, 1} : ReusedLow(b, p)) \/ ReusedHigh(b))
    BY <1>7, ReuseFields DEF Running
  <2>2. QED
    BY <2>1, ReuseCounts
<1>8. CASE AdvanceCold \/ FillCold
  BY <1>8, AdvanceColdCounts, FillColdCounts
<1>9. CASE EnoughClean \/ GcIdle \/ ReadPage \/ CopyByChunk \/ EndOfPage
  BY <1>9, MovesCounts
<1>10. CASE CollectAgain \/ EndOfVictim
  BY <1>10, CollectAgainCounts, EndOfVictimCounts
<1>11. CASE CopyWholePage \/ CopyChunk
  BY <1>11, CopyWholePageCounts, CopyChunkCounts
<1>12. QED
  BY NextCases, <1>2, <1>3, <1>4, <1>5, <1>6, <1>7, <1>8, <1>9, <1>10, <1>11
----------------------------------------------------------------------------
(* The invariant of the data.                                              *)

LEMMA DataInit ==
    ASSUME NEW trims, Init
    PROVE  DataInv(trims)
<1>1. Places(trims) /\ \A c \in Chunks : map[c] = Invalid
  BY PlacesInit
<1>2. TypeInv
  BY InitTypes
<1>3. /\ pc = "idle" /\ gc.state = "idle" /\ hot = FreshLog(0) /\ cold = FreshLog(1)
      /\ \A h \in Heaps : heap[h].in = {} /\ \A b \in Blks : heap[h].value[b] = InitialCount(h)
  BY DEF Init
<1>4. /\ hot.page = 0 /\ ~hot.second /\ hot.blk = 0 /\ cold.page = 0 /\ cold.blk = 1
      /\ 0 \in Blks /\ 1 \in Blks /\ "first" \in Heaps /\ "second" \in Heaps /\ "cold" \in Heaps
  BY <1>3, SizeLemma DEF FreshLog, Blks, Heaps
<1>5. \A b : Live(b) = 0
  <2>1. SUFFICES ASSUME NEW b PROVE Live(b) = 0
    OBVIOUS
  <2>2. \A c \in Chunks : ~InBlk(map[c], b)
    BY <1>1, DramLemma DEF InBlk
  <2>3. {c \in Chunks : InBlk(map[c], b)} = {}
    BY <2>2
  <2>4. QED
    BY <2>3, FS_EmptySet DEF Live
<1>6. HeapCounts(trims)
  BY <1>3, <1>4 DEF HeapCounts
<1>7. ASSUME NEW h \in Heaps, NEW b \in Blks PROVE Off(h, b) = InitialCount(h)
  <2>1. heap[h].value[b] = InitialCount(h) /\ InitialCount(h) \in Int
    BY <1>3, SumsLemma
  <2>2. QED
    BY <1>5, <2>1 DEF Off
<1>8. CleanOff
  <2>1. CleanBlks \subseteq Blks
    BY <1>2 DEF TypeInv, CleanOK, CleanBlks
  <2>2. QED
    BY <1>7, <2>1 DEF CleanOff
<1>9. ColdOff
  <2>1. ColdLeft = P - 1 - 0 - 0
    BY <1>3, <1>4 DEF ColdLeft
  <2>2. ColdLeft = P - 1
    BY <2>1, SizeLemma
  <2>3. QED
    BY <1>4, <1>7, <2>2 DEF ColdOff, InitialCount, SecondUsageInit
<1>10. HotOff(trims)
  <2>1. FirstLeft = Half - 1 - 0
    BY <1>3, <1>4 DEF FirstLeft
  <2>2. FirstLeft + HighPages = P - 2
    BY <2>1, SumsLemma
  <2>3. Off("first", hot.blk) = (FirstLeft + HighPages) * S /\ (FirstLeft + HighPages) * S \in Int
    BY <1>4, <1>7, <2>2, SizeLemma, SumsLemma DEF InitialCount, FirstUsageInit
  <2>4. QED
    BY <1>4, <2>3, CountedLemma DEF HotOff
<1>11. LogCounts(trims)
  BY <1>1, <1>2, <1>8, <1>9, <1>10, Offs DEF LogOff, Places
<1>12. QED
  BY <1>1, <1>6, <1>11 DEF DataInv, Inner, Places

LEMMA DataStop ==
    ASSUME NEW trims, TypeInv, DataInv(trims), UNCHANGED vars
    PROVE  DataInv(trims)'
<1>1. /\ UNCHANGED <<map, hot, cold, heap, clean, gc, lists, latest, pc, frames>>
      /\ CleanBlks' = CleanBlks
  BY DEF vars, CleanBlks
<1>2. NewestData' /\ NoSharedPlace' /\ Uniform'
  BY <1>1, NewestKept, UniformKept DEF DataInv
<1>3. HeapCounts(trims)'
  BY <1>1, StopCounts DEF DataInv
<1>4. ASSUME pc' \notin Hangs PROVE Inner(trims)'
  <2>1. Inner(trims)
    BY <1>1, <1>4 DEF DataInv
  <2>2. HotBuf(trims)' /\ ColdBuf'
    <3>1. HotFilled' = HotFilled /\ ColdFilled' = ColdFilled /\ Width' = Width
      BY <1>1 DEF HotFilled, ColdFilled, Width
    <3>2. QED
      BY <1>1, <2>1, <3>1 DEF Inner, HotBuf, ColdBuf
  <2>3. HotPos'
    BY <1>1, <2>1 DEF Inner, HotPos
  <2>4. Stored'
    <3>1. SUFFICES ASSUME NEW c \in Chunks PROVE StoredAt(c, map[c])'
      BY DEF Stored
    <3>2. StoredAt(c, map[c])
      BY <2>1 DEF Inner, Stored
    <3>3. \A p : (HotDone(p) <=> HotDone(p)') /\ (ColdDone(p) <=> ColdDone(p)')
      BY <1>1 DEF HotDone, ColdDone
    <3>4. QED
      BY <1>1, <3>2, <3>3 DEF StoredAt, FirstUsage, NamedBy
  <2>5. TopMatches' /\ PageRead' /\ Ahead'
    <3>1. TopMatches'
      BY <1>1, <2>1 DEF Inner, TopMatches, Top
    <3>2. PageRead' /\ Ahead'
      BY <1>1, <2>1, PageReadKept, AheadKept DEF Inner
    <3>3. QED
      BY <3>1, <3>2
  <2>6. LogCounts(trims)'
    <3>1. \A b : Live(b)' = Live(b)
      BY <1>1, LiveSame
    <3>2. HighLeft' = HighLeft /\ LowLeft' = LowLeft /\ FirstLeft' = FirstLeft /\ ColdLeft' = ColdLeft
      BY <1>1, LeftSame
    <3>3. QED
      BY <1>1, <2>1, <3>1, <3>2 DEF Inner, LogCounts
  <2>7. QED
    BY <2>2, <2>3, <2>4, <2>5, <2>6 DEF Inner
<1>5. QED
  BY <1>2, <1>3, <1>4 DEF DataInv

LEMMA DataStep ==
    ASSUME NEW trims, TypeInv, RoleInv, Reserve, DataInv(trims), [Next]_vars
    PROVE  DataInv(trims)'
<1>1. CASE UNCHANGED vars
  BY <1>1, DataStop
<1>2. CASE Next
  <2>1. pc \notin Hangs
    BY <1>2, HangStops
  <2>2. Running(trims)
    BY <2>1 DEF Running, RoleInv, DataInv, Inner, Places
  <2>3. TypeInv'
    BY TypeStep
  <2>4. NewestData' /\ NoSharedPlace' /\ Uniform' /\ (pc' \notin Hangs => Places(trims)')
    BY <1>2, <2>2, PlacesStep
  <2>5. HeapCounts(trims)' /\ (pc' \notin Hangs => LogCounts(trims)')
    BY <1>2, <2>2, <2>3, CountsStep
  <2>6. QED
    BY <2>4, <2>5 DEF DataInv, Inner, Places
<1>3. QED
  BY <1>1, <1>2

LEMMA DataAlways == Spec => [](TypeInv /\ DataInv("none"))
<1>1. Init => DataInv("none")
  BY DataInit
<1>2. TypeInv /\ RoleInv /\ Reserve /\ DataInv("none") /\ [Next]_vars => DataInv("none")'
  BY DataStep
<1>3. QED
  BY <1>1, <1>2, RolesAlways, ReserveAlways, PTL DEF Spec

\* The even pages that a block in its second usage has left.
LEMMA EvenPages ==
    ASSUME NEW n \in 0..(P - 2)
    PROVE  Cardinality({p \in n..(P - 2) : p % 2 = 0 /\ p > 0}) = High(n)
<1>1. P \in Nat /\ P >= 6 /\ P = 2 * Half /\ Half \in Nat /\ n \in Nat /\ n <= P - 2
  BY SumsLemma, SizeLemma
<1>. DEFINE lo == IF n <= 2 THEN 1 ELSE (n + 1) \div 2
            T == {p \in n..(P - 2) : p % 2 = 0 /\ p > 0}
            f == [k \in lo..(Half - 1) |-> 2 * k]
<1>2. lo \in Int /\ lo >= 1 /\ lo <= Half - 1
  BY <1>1
<1>3. \A k \in lo..(Half - 1) : 2 * k \in T
  BY <1>1, <1>2
<1>4. \A p \in T : \E k \in lo..(Half - 1) : 2 * k = p
  <2>1. SUFFICES ASSUME NEW p \in T PROVE p \div 2 \in lo..(Half - 1) /\ 2 * (p \div 2) = p
    OBVIOUS
  <2>2. QED
    BY <1>1, <2>1
<1>5. \A j, k \in lo..(Half - 1) : 2 * j = 2 * k => j = k
  BY <1>2
<1>6. f \in [lo..(Half - 1) -> T] /\ \A k \in lo..(Half - 1) : f[k] = 2 * k
  BY <1>3
<1>. HIDE DEF lo, T, f
<1>7. f \in Bijection(lo..(Half - 1), T)
  <2>1. DOMAIN f = lo..(Half - 1)
    BY <1>6
  <2>2. IsInjective(f)
    BY <1>5, <1>6, <2>1 DEF IsInjective
  <2>3. QED
    BY <1>4, <1>6, <2>2 DEF Bijection, Injection, Surjection
<1>8. /\ IsFiniteSet(lo..(Half - 1))
      /\ Cardinality(lo..(Half - 1)) = IF lo > Half - 1 THEN 0 ELSE (Half - 1) - lo + 1
  <2>1. Half - 1 \in Int
    BY <1>1
  <2>2. QED
    BY <1>2, <2>1, FS_Interval
<1>9. Cardinality(T) = Cardinality(lo..(Half - 1))
  <2>1. ExistsBijection(lo..(Half - 1), T)
    BY <1>7 DEF ExistsBijection
  <2>2. QED
    BY <1>8, <2>1, FS_Bijection
<1>10. Cardinality(T) = Half - lo
  BY <1>1, <1>2, <1>8, <1>9
<1>11. QED
  BY <1>10 DEF T, lo, High

LEMMA CountsImply == TypeInv /\ DataInv("none") => CountsExact
<1>. SUFFICES ASSUME TypeInv, DataInv("none") PROVE CountsExact
  OBVIOUS
<1>1. HeapCounts("none")
  BY DEF DataInv
<1>2. ASSUME pc = "idle"
      PROVE  /\ heap["cold"].value[cold.blk] = (P - 1 - cold.page) * S + Live(cold.blk)
             /\ IF hot.second
                THEN heap["second"].value[hot.blk] =
                        (HighPagesLeft + LowPageLeft) * S + Live(hot.blk)
                ELSE heap["first"].value[hot.blk] =
                        (FirstPagesLeft + HighPages) * S + Live(hot.blk)
  <2>1. LogCounts("none")
    BY <1>2, LabelsLemma DEF DataInv, Inner
  <2>2. HotNext = hot.page /\ hot.page \in 0..(P - 2) /\ cold.page \in Nat /\ P \in Nat
    BY <1>2, LogFields, SizeLemma DEF HotNext, TypeInv, HotOK, ColdOK
  <2>3. HighPagesLeft = HighLeft
    BY <2>2, EvenPages DEF HighPagesLeft, HighLeft, High
  <2>4. LowPageLeft = LowLeft
    BY <2>2 DEF LowPageLeft, LowLeft
  <2>5. ColdLeft = P - 1 - cold.page
    BY <1>2, <2>2 DEF ColdLeft
  <2>6. FirstPagesLeft = FirstLeft
    <3>1. First(hot.page) \in Int /\ FirstPagesLeft = First(hot.page)
      BY <2>2, SumsLemma DEF First, FirstPagesLeft, Half
    <3>2. FirstLeft = First(hot.page) - 0
      BY <1>2 DEF FirstLeft, First
    <3>3. QED
      BY <3>1, <3>2
  <2>7. QED
    BY <1>2, <2>1, <2>3, <2>4, <2>5, <2>6 DEF LogCounts, Counted
<1>3. QED
  BY <1>1, <1>2 DEF CountsExact, HeapCounts, Counted

\* Read your writes, on a bank of any size: in every state, in the middle of a
\* flush, of a collection or of the encoding of a used page, the map leads to the
\* last data the host wrote to the chunk.
THEOREM NewestCorrect == Spec => []NewestData
<1>1. DataInv("none") => NewestData
  BY DEF DataInv
<1>2. QED
  BY <1>1, DataAlways, PTL

\* No two chunks of a bank of any size have the same address.
THEOREM SharedCorrect == Spec => []NoSharedPlace
<1>1. DataInv("none") => NoSharedPlace
  BY DEF DataInv
<1>2. QED
  BY <1>1, DataAlways, PTL

\* The counts of the heaps are the valid chunks the map knows, with the slots
\* still to come: a new write, a flush with holes, a reuse and an erasure agree.
THEOREM CountsCorrect == Spec => []CountsExact
BY DataAlways, CountsImply, PTL

----------------------------------------------------------------------------
(* The firmware never stops.                                               *)

\* How many blocks have each role.
LEMMA BlkCount ==
    ASSUME NEW trims, Running(trims), pc # "findHot"
    PROVE  /\ Cardinality(heap["first"].in) \in Nat
           /\ Cardinality(heap["second"].in \cup heap["cold"].in) \in Nat
           /\ Len(clean) + Cardinality(heap["first"].in)
                + Cardinality(heap["second"].in \cup heap["cold"].in) + 2 = NumBlks
<1>. USE DEF Running
<1>1. IsFiniteSet(Blks) /\ Cardinality(Blks) = NumBlks
  <2>1. 0 \in Int /\ NumBlks - 1 \in Int /\ NumBlks \in Int /\ NumBlks >= 5
    BY SizeLemma
  <2>2. IsFiniteSet(0..(NumBlks - 1))
        /\ Cardinality(0..(NumBlks - 1)) = IF 0 > NumBlks - 1 THEN 0 ELSE (NumBlks - 1) - 0 + 1
    BY <2>1, FS_Interval
  <2>3. QED
    BY <2>1, <2>2 DEF Blks
<1>. DEFINE A == CleanBlks
            B == heap["first"].in
            C == heap["second"].in \cup heap["cold"].in
            D == {hot.blk, cold.blk}
<1>2. A \subseteq Blks /\ B \subseteq Blks /\ C \subseteq Blks /\ D \subseteq Blks
  <2>1. A \subseteq Blks
    BY DEF TypeInv, CleanOK, CleanBlks
  <2>2. \A h \in Heaps : heap[h].in \subseteq Blks
    BY DEF TypeInv, HeapOK
  <2>3. D \subseteq Blks
    BY LogFields DEF TypeInv, HotOK, ColdOK
  <2>4. QED
    BY <2>1, <2>2, <2>3 DEF Heaps
<1>3. IsFiniteSet(A) /\ IsFiniteSet(B) /\ IsFiniteSet(C) /\ IsFiniteSet(D)
  <2>. HIDE DEF A, B, C, D
  <2>1. QED
    BY <1>1, <1>2, FS_Subset
<1>4. /\ A \cap B = {} /\ (A \cup B) \cap C = {} /\ (A \cup B \cup C) \cap D = {}
      /\ A \cup B \cup C \cup D = Blks /\ hot.blk # cold.blk
  <2>1. Blks \subseteq A \cup B \cup C \cup D
    BY DEF Partition, InHeaps
  <2>2. A \cap B = {} /\ (A \cup B) \cap C = {} /\ (A \cup B \cup C) \cap D = {} /\ hot.blk # cold.blk
    BY DEF Partition, InHeaps
  <2>3. QED
    BY <1>2, <2>1, <2>2
<1>5. Cardinality(A) = Len(clean) /\ Len(clean) \in Nat
  <2>1. clean \in Seq(Blks) /\ Distinct(clean) /\ Len(clean) \in Nat
    BY DEF TypeInv, CleanOK, RoleInv
  <2>. DEFINE f == [i \in 1..Len(clean) |-> clean[i]]
  <2>2. f \in [1..Len(clean) -> A] /\ \A i \in 1..Len(clean) : f[i] = clean[i]
    BY DEF CleanBlks
  <2>3. \A i, j \in 1..Len(clean) : f[i] = f[j] => i = j
    BY <2>1, <2>2 DEF Distinct
  <2>4. \A b \in A : \E i \in 1..Len(clean) : f[i] = b
    BY <2>2 DEF CleanBlks
  <2>. HIDE DEF f, A
  <2>5. f \in Bijection(1..Len(clean), A)
    <3>1. DOMAIN f = 1..Len(clean)
      BY <2>2
    <3>2. IsInjective(f)
      BY <2>3, <3>1 DEF IsInjective
    <3>3. QED
      BY <2>2, <2>4, <3>2 DEF Bijection, Injection, Surjection
  <2>6. ExistsBijection(1..Len(clean), A)
    BY <2>5 DEF ExistsBijection
  <2>7. QED
    BY <2>1, <2>6, FS_CountingElements
<1>6. Cardinality(D) = 2
  <2>1. IsFiniteSet({hot.blk}) /\ Cardinality({hot.blk}) = 1
    BY FS_Singleton
  <2>2. Cardinality({hot.blk} \cup {cold.blk}) = 1 + 1
    BY <1>4, <2>1, FS_AddElement
  <2>3. {hot.blk} \cup {cold.blk} = D
    OBVIOUS
  <2>4. QED
    BY <2>2, <2>3
<1>. HIDE DEF A, B, C, D
<1>7. IsFiniteSet(A \cup B) /\ Cardinality(A \cup B) = Cardinality(A) + Cardinality(B) - Cardinality({})
  BY <1>3, <1>4, FS_Union
<1>8. /\ IsFiniteSet(A \cup B \cup C)
      /\ Cardinality(A \cup B \cup C) = Cardinality(A \cup B) + Cardinality(C) - Cardinality({})
  BY <1>3, <1>4, <1>7, FS_Union
<1>9. Cardinality(A \cup B \cup C \cup D) = Cardinality(A \cup B \cup C) + Cardinality(D) - Cardinality({})
  BY <1>3, <1>4, <1>8, FS_Union
<1>10. Cardinality(B) \in Nat /\ Cardinality(C) \in Nat
  BY <1>3, FS_CardinalityType
<1>11. Len(clean) + Cardinality(B) + Cardinality(C) + 2 = NumBlks
  <2>1. Cardinality({}) = 0
    BY FS_EmptySet
  <2>2. Cardinality(A \cup B \cup C \cup D) = NumBlks /\ NumBlks \in Nat
    BY <1>1, <1>4, SizeLemma
  <2>. HIDE DEF Running
  <2>3. QED
    BY <1>5, <1>6, <1>7, <1>8, <1>9, <1>10, <2>1, <2>2
<1>12. QED
  BY <1>10, <1>11 DEF B, C

\* A full block has no more valid chunks than its list has entries.
LEMMA LiveBound ==
    ASSUME NEW trims, Running(trims), NEW b \in heap["second"].in \cup heap["cold"].in
    PROVE  Live(b) <= (P - 1) * S
<1>. USE DEF Running, Places
<1>. DEFINE C == {c \in Chunks : InBlk(map[c], b)}
            D == (0..(P - 2)) \X Slots
            g == [c \in C |-> <<map[c].page, map[c].slot>>]
<1>1. ASSUME NEW c \in C
      PROVE  /\ map[c].page \in 0..(P - 2) /\ map[c].slot \in Slots
             /\ lists[b].high[map[c].page][map[c].slot].chunk = c
  <2>1. map[c] \in Address /\ InFlash(map[c]) /\ map[c].blk = b
    BY MapTypes DEF InBlk
  <2>2. NamedBy(lists[b].high, c, map[c])
    BY <2>1 DEF Stored, StoredAt
  <2>3. QED
    BY <2>1, <2>2, PartsLemma DEF NamedBy
<1>2. g \in [C -> D] /\ \A c \in C : g[c] = <<map[c].page, map[c].slot>>
  BY <1>1
<1>3. \A c, d \in C : g[c] = g[d] => c = d
  <2>1. SUFFICES ASSUME NEW c \in C, NEW d \in C, g[c] = g[d] PROVE c = d
    OBVIOUS
  <2>2. map[c].page = map[d].page /\ map[c].slot = map[d].slot
    BY <1>2, <2>1
  <2>3. QED
    BY <1>1, <2>2
<1>4. IsFiniteSet(D) /\ Cardinality(D) = (P - 1) * S
  <2>1. 0 \in Int /\ P - 2 \in Int /\ S - 1 \in Int /\ P \in Nat /\ P >= 6 /\ S \in Nat /\ S > 0
    BY SizeLemma
  <2>2. IsFiniteSet(0..(P - 2)) /\ Cardinality(0..(P - 2)) = IF 0 > P - 2 THEN 0 ELSE (P - 2) - 0 + 1
    BY <2>1, FS_Interval
  <2>3. IsFiniteSet(0..(S - 1)) /\ Cardinality(0..(S - 1)) = IF 0 > S - 1 THEN 0 ELSE (S - 1) - 0 + 1
    BY <2>1, FS_Interval
  <2>4. Cardinality(0..(P - 2)) = P - 1 /\ Cardinality(Slots) = S /\ IsFiniteSet(Slots)
    BY <2>1, <2>2, <2>3 DEF Slots
  <2>5. IsFiniteSet(D) /\ Cardinality(D) = Cardinality(0..(P - 2)) * Cardinality(Slots)
    BY <2>2, <2>4, FS_Product
  <2>6. QED
    BY <2>4, <2>5
<1>5. Live(b) = Cardinality(C)
  BY DEF Live
<1>. HIDE DEF C, D, g
<1>6. g \in Injection(C, D)
  <2>1. DOMAIN g = C
    BY <1>2
  <2>2. IsInjective(g)
    BY <1>3, <2>1 DEF IsInjective
  <2>3. QED
    BY <1>2, <2>2 DEF Injection
<1>7. Cardinality(C) <= Cardinality(D)
  BY <1>4, <1>6, FS_Injection
<1>8. QED
  BY <1>4, <1>5, <1>7

\* The page to encode is the page tested for it.
Encoding == hot.recycled => hot.nextLow = hot.page
\* What the collector found in the victim, what it still has to find there, and what
\* the heap promised.
Found == gc.state # "idle" =>
            gc.fromHeap = gc.inBlk - Cardinality(gc.valid) + Live(gc.victim)
\* Without a clean block left, the rest of the victim fits in the block of the cold log;
\* when a copy filled the page, the rest of the victim fits in another block.
ColdNext == IF pc \in {"flushCold", "advanceCold"} THEN cold.page + 1 ELSE cold.page
Rest(p) == (P - 1 - p) * S
Fits == /\ pc \in {"copy", "flushCold", "advanceCold", "while", "collect"} /\ clean = <<>> =>
              gc.state # "idle" /\ Live(gc.victim) < Rest(ColdNext) - cold.ptr
        /\ pc \in {"flushCold", "advanceCold"} /\ frames # <<>> =>
              gc.state # "idle" /\ Live(gc.victim) < Rest(0) - cold.ptr
\* The half-written blocks leave the collector one to choose.
FirstUse == pc # "findHot" => Cardinality(heap["first"].in) <= NumBlks - 4
StopInv(trims) == Encoding /\ (trims = "none" => Found) /\ Fits /\ FirstUse

LEMMA RestLemma ==
    /\ \A p \in Int : Rest(p) \in Int /\ Rest(p + 1) = Rest(p) - S
    /\ Rest(0) = (P - 1) * S /\ Rest(P - 1) = 0
<1>1. P \in Int /\ S \in Int
  BY SizeLemma
<1>2. ASSUME NEW p \in Int PROVE Rest(p) \in Int /\ Rest(p + 1) = Rest(p) - S
  <2>1. PICK x \in Int : x = P - 1 - p
    BY <1>1
  <2>2. x * S \in Int /\ (x - 1) * S = x * S - S
    BY <1>1, <2>1, TimesLemma
  <2>3. P - 1 - (p + 1) = x - 1
    BY <1>1, <2>1
  <2>4. QED
    BY <2>1, <2>2, <2>3 DEF Rest
<1>3. P - 1 - 0 = P - 1 /\ P - 1 - (P - 1) = 0
  BY <1>1
<1>4. Rest(0) = (P - 1) * S /\ Rest(P - 1) = 0
  BY <1>3, TimesLemma DEF Rest
<1>5. QED
  BY <1>2, <1>4

\* A collection that starts finds a victim.
LEMMA Candidate ==
    ASSUME NEW trims, Running(trims), FirstUse, pc = "while", gc.state = "idle", Len(clean) < 2
    PROVE  heap[VictimHeap].in # {}
<1>1. heap["second"].in \cup heap["cold"].in # {}
  <2>1. SUFFICES ASSUME heap["second"].in \cup heap["cold"].in = {} PROVE FALSE
    OBVIOUS
  <2>2. Cardinality(heap["second"].in \cup heap["cold"].in) = 0
    BY <2>1, FS_EmptySet
  <2>3. /\ Len(clean) + Cardinality(heap["first"].in) + 0 + 2 = NumBlks
        /\ Cardinality(heap["first"].in) \in Nat
    BY <2>2, BlkCount
  <2>4. Cardinality(heap["first"].in) <= NumBlks - 4 /\ NumBlks \in Nat /\ Len(clean) \in Nat
    BY SizeLemma DEF FirstUse, Running, TypeInv, CleanOK
  <2>5. QED
    BY <2>3, <2>4
<1>2. QED
  BY <1>1 DEF VictimHeap

\* The entries of a page of the victim are of one kind.
LEMMA VictimConsistent ==
    ASSUME NEW trims, Running(trims), gc.state # "idle", NEW p \in Pages
    PROVE  ~Inconsistent(p)
<1>1. gc.victim \in Blks
  BY DEF Running, TypeInv, GcOK
<1>2. UniformPage(lists[gc.victim].high[p])
  BY <1>1 DEF Running, Places, Uniform, UniformList
<1>3. \A s \in 0..(R - 1) : s \in Slots
  BY SizeLemma
<1>4. QED
  BY <1>2, <1>3 DEF Inconsistent, VictimEntry, UniformPage

\* No step of the firmware leads to one of its while(1).  With trims one step may, the one
\* that compares the count of a victim with what was found in it.
LEMMA NoHang ==
    ASSUME NEW trims, Running(trims), StopInv(trims), Next
    PROVE  pc' \in Hangs => trims # "none" /\ pc' = "count mismatch"
<1>. USE DEF Running, StopInv
<1>1. ASSUME NEW c \in Chunks, WriteHot(c) \/ WriteCold(c) \/ MoveAway(c) PROVE pc' \in {"idle", "flushHot", "flushCold"}
  BY <1>1 DEF WriteHot, WriteCold, MoveAway, Goto
<1>2. CASE FlushHot \/ FlushCold
  BY <1>2, LabelsLemma DEF FlushHot, FlushCold, Goto
<1>3. CASE FlushRecycled
  <2>1. pc' = "advanceHot"
    BY <1>3 DEF FlushRecycled, Encoding, Goto
  <2>2. QED
    BY <2>1, LabelsLemma
<1>4. CASE AdvanceFirst \/ FillFirst \/ AdvanceToHigh \/ AdvanceToTestedLow \/ AdvanceToPage1
           \/ SkipLow \/ FillSecond
  <2>1. pc' \in {"idle", "findHot"}
    BY <1>4 DEF AdvanceFirst, FillFirst, AdvanceToHigh, AdvanceToTestedLow, AdvanceToPage1, SkipLow,
                FillSecond, Goto
  <2>2. QED
    BY <2>1, LabelsLemma
<1>5. ASSUME UseCleanBlk \/ \E f \in HotFirst : ReuseBlk(f) \/ UseLastCleanBlk(f)
      PROVE  pc' \notin Hangs
  <2>1. CASE UseCleanBlk
    BY <2>1, LabelsLemma DEF UseCleanBlk, Goto
  <2>2. ASSUME NEW f \in HotFirst, ReuseBlk(f) PROVE pc' \notin Hangs
    <3>1. pc' \in {"idle", "advanceHot"}
      BY <2>2 DEF ReuseBlk, Goto
    <3>2. QED
      BY <3>1, LabelsLemma
  <2>3. ASSUME NEW f \in HotFirst, UseLastCleanBlk(f) PROVE pc' \notin Hangs
    <3>1. clean # <<>>
      <4>1. pc = "findHot"
        BY <2>3 DEF UseLastCleanBlk
      <4>2. Len(clean) >= 2
        BY <4>1 DEF Reserve
      <4>3. Len(<<>>) = 0
        OBVIOUS
      <4>4. QED
        BY <4>2, <4>3
    <3>2. pc' = "while"
      BY <2>3, <3>1 DEF UseLastCleanBlk, Goto
    <3>3. QED
      BY <3>2, LabelsLemma
  <2>4. QED
    BY <1>5, <2>1, <2>2, <2>3
<1>6. CASE AdvanceCold \/ EnoughClean
  <2>1. pc' \in {"idle", "copy", "collect"}
    BY <1>6, ReturnLabel DEF AdvanceCold, EnoughClean
  <2>2. QED
    BY <2>1, LabelsLemma
<1>7. CASE FillCold
  <2>1. clean # <<>>
    <3>1. SUFFICES ASSUME clean = <<>> PROVE FALSE
      OBVIOUS
    <3>2. pc = "advanceCold" /\ cold.page = P - 2
      BY <1>7 DEF FillCold, LastDataPage
    <3>3. Live(gc.victim) < Rest(ColdNext) - cold.ptr /\ ColdNext = cold.page + 1
      BY <3>1, <3>2 DEF Fits, ColdNext
    <3>4. ColdNext = P - 1
      BY <3>2, <3>3, SizeLemma
    <3>5. Live(gc.victim) < 0 - cold.ptr /\ Live(gc.victim) \in Nat /\ cold.ptr \in Nat
      <4>1. Rest(P - 1) = 0
        BY RestLemma
      <4>2. cold.ptr \in Nat
        BY LogFields, SizeLemma DEF TypeInv, ColdOK
      <4>3. QED
        BY <3>3, <3>4, <4>1, <4>2, LiveLemma
    <3>6. QED
      BY <3>5
  <2>2. pc' = "while"
    BY <1>7, <2>1 DEF FillCold, Goto
  <2>3. QED
    BY <2>2, LabelsLemma
<1>8. CASE CollectAgain
  <2>1. pc = "while" /\ Len(clean) < 2
    BY <1>8 DEF CollectAgain, CleanBlksAfterGc
  <2>2. CASE gc.state = "idle"
    <3>1. heap[VictimHeap].in # {}
      BY <2>1, <2>2, Candidate
    <3>2. pc' = "collect"
      BY <1>8, <2>2, <3>1 DEF CollectAgain, InitGC, Goto
    <3>3. QED
      BY <3>2, LabelsLemma
  <2>3. CASE gc.state # "idle"
    BY <1>8, <2>3, LabelsLemma DEF CollectAgain, Goto
  <2>4. QED
    BY <2>2, <2>3
<1>9. CASE ReadPage
  <2>1. ~MeetsInconsistent /\ pc = "collect"
    BY <1>9, VictimConsistent DEF ReadPage, MeetsInconsistent
  <2>2. pc' = pc
    BY <1>9, <2>1 DEF ReadPage
  <2>3. QED
    BY <2>1, <2>2, LabelsLemma
<1>10. CASE EndOfVictim
  <2>1. gc.state = "read" /\ gc.valid = {} /\ pc = "collect" /\ gc \in GcType /\ gc.fromHeap \in Int
    BY <1>10 DEF EndOfVictim, TypeInv, GcOK
  <2>2. CASE trims = "none"
    <3>1. Live(gc.victim) = 0
      <4>1. {c \in Chunks : InBlk(map[c], gc.victim)} = {}
        BY <1>10, VictimEmpty
      <4>2. QED
        BY <4>1, FS_EmptySet DEF Live
    <3>2. gc.inBlk = gc.fromHeap
      <4>1. gc.fromHeap = gc.inBlk - Cardinality({}) + 0
        BY <2>1, <2>2, <3>1 DEF Found
      <4>2. gc.inBlk \in Int /\ Cardinality({}) = 0
        BY <2>1, FS_EmptySet DEF GcType
      <4>3. QED
        BY <4>1, <4>2
    <3>3. pc' = pc
      BY <1>10, <3>2 DEF EndOfVictim
    <3>4. QED
      BY <2>1, <3>3, LabelsLemma
  <2>3. CASE trims # "none"
    <3>1. pc' \in {"collect", "count mismatch"}
      BY <1>10, <2>1 DEF EndOfVictim, Hang
    <3>2. QED
      BY <2>3, <3>1, LabelsLemma
  <2>4. QED
    BY <2>2, <2>3
<1>11. CASE GcIdle \/ CopyWholePage \/ CopyByChunk \/ CopyChunk \/ EndOfPage
  <2>1. pc' \in {"while", "advanceCold", "copy", "flushCold", "collect"}
    BY <1>11 DEF GcIdle, CopyWholePage, CopyByChunk, CopyChunk, EndOfPage, Goto
  <2>2. QED
    BY <2>1, LabelsLemma
<1>. HIDE DEF Running, StopInv
<1>12. QED
  BY NextCases, LabelsLemma, <1>1, <1>2, <1>3, <1>4, <1>5, <1>6, <1>7, <1>8, <1>9, <1>10, <1>11

----------------------------------------------------------------------------
(* The step keeps the strengthened invariant.                              *)

LEMMA EncodingStep ==
    ASSUME NEW trims, Running(trims), TypeInv', StopInv(trims), Next
    PROVE  Encoding'
<1>. USE DEF Running, StopInv
<1>0. hot \in LogType
  BY DEF TypeInv, HotOK
<1>1. ASSUME NEW c \in Chunks, WriteHot(c) PROVE Encoding'
  BY <1>1, WriteHotEffect DEF Encoding
<1>2. ASSUME NEW c \in Chunks, WriteCold(c) \/ MoveAway(c) PROVE Encoding'
  <2>1. hot' = HotWithoutOld(c)
    BY <1>2, WriteColdEffect DEF Places, ColdBuf, MoveAway
  <2>2. hot'.recycled = hot.recycled /\ hot'.nextLow = hot.nextLow /\ hot'.page = hot.page
    BY <1>0, <2>1 DEF HotWithoutOld, Forget, LogType
  <2>3. QED
    BY <2>2 DEF Encoding
<1>3. CASE FlushHot \/ FlushRecycled
  <2>1. hot'.recycled = hot.recycled /\ hot'.nextLow = hot.nextLow /\ hot'.page = hot.page
    BY <1>0, <1>3 DEF FlushHot, FlushRecycled, Flushed, LogType
  <2>2. QED
    BY <2>1 DEF Encoding
<1>4. CASE AdvanceFirst
  <2>1. ~hot.second /\ ~hot.recycled
    BY <1>4 DEF AdvanceFirst, TypeInv, HotOK
  <2>2. hot'.recycled = hot.recycled
    BY <1>0, <1>4 DEF AdvanceFirst, LogType
  <2>3. QED
    BY <2>1, <2>2 DEF Encoding
<1>5. CASE FillFirst \/ FillSecond
  <2>1. hot'.recycled = hot.recycled /\ hot'.nextLow = hot.nextLow /\ hot'.page = hot.page
    BY <1>0, <1>5 DEF FillFirst, FillSecond, LogType
  <2>2. QED
    BY <2>1 DEF Encoding
<1>6. CASE AdvanceToHigh \/ SkipLow
  <2>1. ~hot'.recycled
    BY <1>0, <1>6 DEF AdvanceToHigh, SkipLow, TestLowPage, Reusing, LogType
  <2>2. QED
    BY <2>1 DEF Encoding
<1>7. CASE AdvanceToTestedLow \/ AdvanceToPage1
  <2>1. hot'.nextLow = hot'.page
    BY <1>0, <1>7, HotFirstPages DEF AdvanceToTestedLow, AdvanceToPage1, Reusing, LogType
  <2>2. QED
    BY <2>1 DEF Encoding
<1>8. CASE UseCleanBlk \/ \E f \in HotFirst : UseLastCleanBlk(f)
  <2>1. hot' = hot \/ \E b : hot' = HotOnCleanBlk(b)
    BY <1>8 DEF UseCleanBlk, UseLastCleanBlk
  <2>2. hot' = hot \/ ~hot'.recycled
    BY <1>0, <2>1 DEF HotOnCleanBlk, LogType
  <2>3. QED
    BY <2>2 DEF Encoding
<1>9. ASSUME NEW f \in HotFirst, ReuseBlk(f) PROVE Encoding'
  <2>1. PICK b \in Blks : Reused(b) /\ ((\E p \in {0, 1} : ReusedLow(b, p)) \/ ReusedHigh(b))
    BY <1>9, ReuseFields
  <2>2. QED
    BY <2>1 DEF ReusedLow, ReusedHigh, Encoding
<1>10. CASE \/ FlushCold \/ AdvanceCold \/ FillCold \/ CollectAgain \/ EnoughClean \/ GcIdle \/ ReadPage
            \/ EndOfVictim \/ CopyWholePage \/ CopyByChunk \/ CopyChunk \/ EndOfPage
  <2>1. hot' = hot
    BY <1>10 DEF FlushCold, AdvanceCold, FillCold, CollectAgain, EnoughClean, GcIdle, ReadPage,
                 EndOfVictim, CopyWholePage, CopyByChunk, CopyChunk, EndOfPage
  <2>2. QED
    BY <2>1 DEF Encoding
<1>. HIDE DEF Running, StopInv
<1>11. QED
  BY NextCases, <1>1, <1>2, <1>3, <1>4, <1>5, <1>6, <1>7, <1>8, <1>9, <1>10

\* The same as BlkCount, for the state after a step.
LEMMA BlkCountThere ==
    ASSUME NEW trims
    PROVE  Running(trims) /\ pc # "findHot" =>
              /\ Cardinality(heap["first"].in) \in Nat
              /\ Cardinality(heap["second"].in \cup heap["cold"].in) \in Nat
              /\ Len(clean) + Cardinality(heap["first"].in)
                   + Cardinality(heap["second"].in \cup heap["cold"].in) + 2 = NumBlks
BY BlkCount

LEMMA FirstUseStep ==
    ASSUME NEW trims, Running(trims), Running(trims)', StopInv(trims), Next
    PROVE  FirstUse'
<1>1. CASE pc' # "findHot" /\ Len(clean') >= 2
  <2>1. /\ Cardinality(heap'["first"].in) \in Nat
        /\ Cardinality(heap'["second"].in \cup heap'["cold"].in) \in Nat
        /\ Len(clean') + Cardinality(heap'["first"].in)
             + Cardinality(heap'["second"].in \cup heap'["cold"].in) + 2 = NumBlks
    <3>1. (Running(trims) /\ pc # "findHot" =>
             /\ Cardinality(heap["first"].in) \in Nat
             /\ Cardinality(heap["second"].in \cup heap["cold"].in) \in Nat
             /\ Len(clean) + Cardinality(heap["first"].in)
                  + Cardinality(heap["second"].in \cup heap["cold"].in) + 2 = NumBlks)'
      BY BlkCountThere, PTL
    <3>2. QED
      BY <1>1, <3>1
  <2>2. Len(clean') \in Nat /\ NumBlks \in Nat
    BY SizeLemma DEF Running, TypeInv, CleanOK
  <2>3. Cardinality(heap'["first"].in) <= NumBlks - 4
    BY <1>1, <2>1, <2>2
  <2>4. QED
    BY <2>3 DEF FirstUse
<1>2. ASSUME heap'["first"].in = heap["first"].in, pc # "findHot" PROVE FirstUse'
  BY <1>2 DEF StopInv, FirstUse
<1>3. CASE FillFirst \/ FillSecond
  BY <1>3, FillHotEffect DEF FirstUse
<1>4. ASSUME NEW f \in HotFirst, UseLastCleanBlk(f) PROVE FirstUse'
  <2>1. ~(Cardinality(heap["first"].in) > f) /\ heap' = heap
    BY <1>4 DEF UseLastCleanBlk, ReuseCondition
  <2>2. f <= NumBlks - 4 /\ f \in Int /\ NumBlks \in Int
    BY TuningAssumption, SizeLemma
  <2>3. Cardinality(heap["first"].in) \in Nat
    <3>1. heap["first"].in \subseteq Blks /\ IsFiniteSet(Blks)
      <4>1. 0 \in Int /\ NumBlks - 1 \in Int
        BY SizeLemma
      <4>2. IsFiniteSet(0..(NumBlks - 1))
        BY <4>1, FS_Interval
      <4>3. QED
        BY <4>2 DEF Running, TypeInv, HeapOK, Heaps, Blks
    <3>2. QED
      BY <3>1, FS_Subset, FS_CardinalityType
  <2>4. Cardinality(heap["first"].in) <= NumBlks - 4
    BY <2>1, <2>2, <2>3
  <2>5. QED
    BY <2>1, <2>4 DEF FirstUse
<1>5. CASE UseCleanBlk \/ \E f \in HotFirst : ReuseBlk(f)
  <2>1. pc' # "findHot" /\ Len(clean') >= 2
    <3>1. pc = "findHot" /\ Len(clean) >= 2 /\ clean \in Seq(Blks)
      BY <1>5 DEF UseCleanBlk, ReuseBlk, Running, Reserve, TypeInv, CleanOK
    <3>2. CASE UseCleanBlk
      <4>1. Len(clean) > 2 /\ clean' = Tail(clean) /\ pc' = "idle"
        BY <3>2 DEF UseCleanBlk, Goto
      <4>2. QED
        BY <3>1, <4>1
    <3>3. ASSUME NEW f \in HotFirst, ReuseBlk(f) PROVE pc' # "findHot" /\ Len(clean') >= 2
      <4>1. clean' = clean /\ pc' \in {"idle", "advanceHot"}
        BY <3>3 DEF ReuseBlk, Goto
      <4>2. QED
        BY <3>1, <4>1
    <3>4. QED
      BY <1>5, <3>2, <3>3
  <2>2. QED
    BY <1>1, <2>1
<1>6. ASSUME NEW c \in Chunks, WriteHot(c) \/ WriteCold(c) \/ MoveAway(c) PROVE FirstUse'
  <2>1. KeepsRoles
    BY <1>6, WriteKeeps DEF Running
  <2>2. QED
    BY <1>2, <2>1 DEF KeepsRoles, Heaps
<1>7. CASE FlushHot \/ FlushCold \/ FlushRecycled
  <2>1. KeepsRoles
    BY <1>7, FlushKeeps DEF Running
  <2>2. QED
    BY <1>2, <2>1 DEF KeepsRoles, Heaps
<1>8. CASE AdvanceFirst \/ AdvanceToHigh \/ AdvanceToTestedLow \/ AdvanceToPage1 \/ SkipLow
  <2>1. KeepsRoles
    BY <1>8, AdvanceHotKeeps DEF Running
  <2>2. QED
    BY <1>2, <2>1 DEF KeepsRoles, Heaps
<1>9. CASE FillCold
  <2>1. heap'["first"].in = heap["first"].in /\ pc = "advanceCold"
    BY <1>9, FillColdEffect DEF Running
  <2>2. QED
    BY <1>2, <2>1
<1>10. CASE \/ AdvanceCold \/ EnoughClean \/ GcIdle \/ ReadPage \/ CopyWholePage \/ CopyByChunk
            \/ CopyChunk \/ EndOfPage
  <2>1. heap' = heap /\ pc # "findHot"
    BY <1>10 DEF AdvanceCold, EnoughClean, GcIdle, ReadPage, CopyWholePage, CopyByChunk,
                 CopyChunk, EndOfPage
  <2>2. QED
    BY <1>2, <2>1
<1>11. CASE CollectAgain \/ EndOfVictim
  <2>1. ASSUME NEW b \in heap["second"].in \cup heap["cold"].in, Reclaim(b)
        PROVE  heap'["first"].in = heap["first"].in
    <3>1. b \notin heap["first"].in
      BY DEF Running, Partition
    <3>2. heap'["first"].in = heap["first"].in \ {b}
      BY <2>1 DEF Reclaim, Removed, Heaps
    <3>3. QED
      BY <3>1, <3>2
  <2>2. CASE CollectAgain
    <3>1. heap'["first"].in = heap["first"].in /\ pc # "findHot"
      BY <2>1, <2>2, CollectAgainEffect DEF Running
    <3>2. QED
      BY <1>2, <3>1
  <2>3. CASE EndOfVictim
    <3>1. gc.victim \in heap["second"].in \cup heap["cold"].in /\ pc = "collect"
      BY <2>3 DEF EndOfVictim, Running, RoleInv
    <3>2. heap' = heap \/ Reclaim(gc.victim)
      BY <2>3 DEF EndOfVictim
    <3>3. heap'["first"].in = heap["first"].in
      BY <2>1, <3>1, <3>2
    <3>4. QED
      BY <1>2, <3>1, <3>3
  <2>4. QED
    BY <1>11, <2>2, <2>3
<1>12. QED
  BY NextCases, <1>3, <1>4, <1>5, <1>6, <1>7, <1>8, <1>9, <1>10, <1>11

----------------------------------------------------------------------------
(* What the steps do to the valid chunks of the victim.                    *)

\* The cold log while the collector works on a victim.
LEMMA StopTypes ==
    ASSUME NEW trims, Running(trims)
    PROVE  /\ gc \in GcType /\ gc.inBlk \in Int /\ (gc.state # "idle" => gc.fromHeap \in Int)
           /\ gc.valid \subseteq Slots /\ IsFiniteSet(gc.valid) /\ Cardinality(gc.valid) \in Nat
           /\ gc.state # "idle" => gc.victim \in Blks
           /\ gc.valid # {} => gc.state = "write"
           /\ cold \in LogType /\ cold.page \in 0..(P - 2) /\ cold.ptr \in 0..(S - 1)
           /\ P \in Nat /\ P >= 6 /\ S \in Nat /\ S >= 2
           /\ clean \in Seq(Blks) /\ Len(clean) \in Nat
<1>1. /\ gc \in GcType /\ (gc.state # "idle" => gc.fromHeap \in Int /\ gc.victim \in Blks)
      /\ gc.valid # {} => gc.state = "write"
  BY DEF Running, TypeInv, GcOK
<1>2. gc.valid \subseteq Slots /\ gc.inBlk \in Int
  BY <1>1 DEF GcType
<1>3. P \in Nat /\ P >= 6 /\ S \in Nat /\ S >= 2
  BY SizeLemma
<1>4. IsFiniteSet(Slots)
  <2>1. 0 \in Int /\ S - 1 \in Int
    BY <1>3
  <2>2. QED
    BY <2>1, FS_Interval DEF Slots
<1>5. IsFiniteSet(gc.valid) /\ Cardinality(gc.valid) \in Nat
  BY <1>2, <1>4, FS_Subset, FS_CardinalityType
<1>6. cold \in LogType /\ cold.page \in 0..(P - 2) /\ cold.ptr \in 0..(S - 1)
  BY LogFields DEF Running, TypeInv, ColdOK, Slots
<1>7. clean \in Seq(Blks) /\ Len(clean) \in Nat
  BY DEF Running, TypeInv, CleanOK
<1>8. QED
  BY <1>1, <1>2, <1>3, <1>5, <1>6, <1>7

\* A flush takes its chunks from DRAM: no other block loses one.
LEMMA DramMoved ==
    ASSUME NEW ch, NEW n, NEW b, MovesIn(ch, n, b),
           \A s \in 0..(n - 1), c \in Chunks : ch[s] = c => ~InFlash(map[c]),
           NEW d, d # b
    PROVE  Live(d)' = Live(d)
<1>1. ASSUME NEW c \in Chunks PROVE InBlk(map'[c], d) <=> InBlk(map[c], d)
  <2>1. CASE map'[c] = map[c]
    BY <2>1
  <2>2. ASSUME NEW s \in 0..(n - 1), ch[s] = c, InBlk(map'[c], b) PROVE InBlk(map'[c], d) <=> InBlk(map[c], d)
    BY <2>2 DEF InBlk
  <2>3. QED
    BY <2>1, <2>2 DEF MovesIn
<1>2. QED
  BY <1>1, LiveSame

LEMMA FlushLive ==
    ASSUME NEW trims, Running(trims), StopInv(trims), FlushHot \/ FlushRecycled \/ FlushCold,
           NEW v, gc.state # "idle", v = gc.victim
    PROVE  gc' = gc /\ Live(v)' = Live(v)
<1>1. gc' = gc
  BY DEF FlushHot, FlushRecycled, FlushCold
<1>2. v # cold.blk /\ (pc # "findHot" => v # hot.blk)
  BY NotCollecting DEF Collecting
<1>3. CASE FlushHot
  <2>1. pc = "flushHot" /\ ~hot.recycled /\ MovesIn(hot.chunk, S, hot.blk) /\ Width = S
    BY <1>3, FlushHotPlaces DEF FlushHot, Width
  <2>2. \A s \in 0..(S - 1), c \in Chunks : hot.chunk[s] = c => ~InFlash(map[c])
    <3>1. \A s \in 0..(S - 1), c \in Chunks : hot.chunk[s] = c => map[c] = HotBuffer[s]
      BY <2>1, FullHot
    <3>2. \A s \in 0..(S - 1) : s \in Slots
      BY SizeLemma DEF Slots
    <3>3. \A s \in Slots : ~InFlash(HotBuffer[s])
      BY DramLemma DEF HotBuffer
    <3>4. QED
      BY <3>1, <3>2, <3>3
  <2>3. QED
    BY <1>1, <1>2, <2>1, <2>2, DramMoved
<1>4. CASE FlushRecycled
  <2>1. pc = "flushHot" /\ hot.recycled /\ MovesIn(hot.chunk, R, hot.blk) /\ Width = R
    BY <1>4, FlushRecycledPlaces DEF FlushRecycled, Width, StopInv, Encoding
  <2>2. \A s \in 0..(R - 1), c \in Chunks : hot.chunk[s] = c => ~InFlash(map[c])
    <3>1. \A s \in 0..(R - 1), c \in Chunks : hot.chunk[s] = c => map[c] = HotBuffer[s]
      BY <2>1, FullHot
    <3>2. \A s \in 0..(R - 1) : s \in Slots
      BY SizeLemma DEF Slots
    <3>3. \A s \in Slots : ~InFlash(HotBuffer[s])
      BY DramLemma DEF HotBuffer
    <3>4. QED
      BY <3>1, <3>2, <3>3
  <2>3. QED
    BY <1>1, <1>2, <2>1, <2>2, DramMoved
<1>5. CASE FlushCold
  <2>1. pc = "flushCold" /\ MovesIn(cold.chunk, S, cold.blk)
    BY <1>5, FlushColdPlaces DEF FlushCold
  <2>2. \A s \in 0..(S - 1), c \in Chunks : cold.chunk[s] = c => ~InFlash(map[c])
    <3>1. \A s \in 0..(S - 1), c \in Chunks : cold.chunk[s] = c => map[c] = ColdBuffer[s]
      BY <2>1, FullCold
    <3>2. \A s \in 0..(S - 1) : s \in Slots
      BY SizeLemma DEF Slots
    <3>3. \A s \in Slots : ~InFlash(ColdBuffer[s])
      BY DramLemma DEF ColdBuffer
    <3>4. QED
      BY <3>1, <3>2, <3>3
  <2>3. QED
    BY <1>1, <1>2, <2>1, <2>2, DramMoved
<1>6. QED
  BY <1>3, <1>4, <1>5

\* A page of the victim whose chunks are all valid leaves it with S chunks less.
LEMMA WholeLive ==
    ASSUME NEW trims, Running(trims), CopyWholePage, NEW v, v = gc.victim
    PROVE  Live(v)' = Live(v) - S
<1>. USE DEF Running
<1>. DEFINE Before == {c \in Chunks : InBlk(map[c], v)}
            After == {c \in Chunks : InBlk(map'[c], v)}
            Gone == {c \in Chunks : \E s \in Slots : SlotChunk(s) = c}
<1>1. /\ gc.state = "write"
      /\ \A s \in Slots : /\ SlotChunk(s) \in Chunks
                          /\ map[SlotChunk(s)] = FlashWLog(gc.victim, gc.page, s)
  BY CopyWholePageEffect
<1>2. v # cold.blk
  BY <1>1, NotCollecting DEF Collecting
<1>3. \A c \in Chunks : \/ (\E s \in Slots : SlotChunk(s) = c) /\ InBlk(map'[c], cold.blk)
                        \/ map'[c] = map[c] /\ \A s \in Slots : SlotChunk(s) # c
  <2>. DEFINE chunks == [t \in Slots |-> SlotChunk(t)]
  <2>1. \A s \in Slots : chunks[s] = SlotChunk(s)
    OBVIOUS
  <2>. HIDE DEF chunks
  <2>2. MovesIn(chunks, S, cold.blk)
    BY CopyWholePagePlaces DEF chunks
  <2>3. QED
    BY <2>1, <2>2, WholePage DEF MovesIn
<1>4. After = Before \ Gone /\ Gone \subseteq Before
  <2>1. ASSUME NEW c \in Gone PROVE c \in Before /\ c \notin After
    <3>1. PICK s \in Slots : SlotChunk(s) = c
      OBVIOUS
    <3>2. InBlk(map[c], v)
      BY <1>1, <3>1, FlashLemma
    <3>3. InBlk(map'[c], cold.blk)
      BY <1>3, <3>1
    <3>4. QED
      BY <1>2, <3>2, <3>3 DEF InBlk
  <2>2. ASSUME NEW c \in Chunks, c \notin Gone PROVE c \in Before <=> c \in After
    BY <1>3, <2>2
  <2>3. QED
    BY <2>1, <2>2
<1>5. IsFiniteSet(Gone) /\ Cardinality(Gone) = S /\ S \in Nat
  <2>. DEFINE ch == [t \in Slots |-> SlotChunk(t)]
  <2>1. IsFiniteSet(Slots) /\ Cardinality(Slots) = S /\ S \in Nat
    <3>1. Slots = 0..(S - 1) /\ S \in Nat /\ 0 \in Int /\ S - 1 \in Int /\ S > 0
      BY SizeLemma DEF Slots
    <3>2. IsFiniteSet(0..(S - 1)) /\ Cardinality(0..(S - 1)) = IF 0 > S - 1 THEN 0 ELSE (S - 1) - 0 + 1
      BY <3>1, FS_Interval
    <3>3. QED
      BY <3>1, <3>2
  <2>2. \A s \in Slots : ch[s] = SlotChunk(s) /\ ch[s] \in Chunks
    BY <1>1
  <2>3. ASSUME NEW s \in Slots, NEW t \in Slots, ch[s] = ch[t] PROVE s = t
    <3>1. FlashWLog(gc.victim, gc.page, s) = FlashWLog(gc.victim, gc.page, t)
      BY <1>1, <2>2, <2>3
    <3>2. QED
      BY <3>1, FlashLemma
  <2>4. Gone = {c \in Chunks : \E s \in Slots : ch[s] = c}
    BY <2>2
  <2>. HIDE DEF ch, Gone
  <2>5. /\ IsFiniteSet({c \in Chunks : \E s \in Slots : ch[s] = c})
        /\ Cardinality({c \in Chunks : \E s \in Slots : ch[s] = c}) = Cardinality(Slots)
    BY <2>1, <2>2, <2>3, HeldChunks
  <2>6. QED
    BY <2>1, <2>4, <2>5
<1>6. Live(v) = Cardinality(Before) /\ Live(v)' = Cardinality(After) /\ IsFiniteSet(Before)
  <2>1. IsFiniteSet(Before)
    BY LiveLemma
  <2>2. QED
    BY <2>1 DEF Live
<1>. HIDE DEF Before, After, Gone
<1>7. IsFiniteSet(After) /\ After \cap Gone = {} /\ After \cup Gone = Before
  BY <1>4, <1>6, FS_Subset
<1>8. Cardinality(Before) = Cardinality(After) + Cardinality(Gone) - Cardinality({})
  BY <1>5, <1>7, FS_Union
<1>9. Cardinality(After) \in Nat /\ Cardinality({}) = 0
  BY <1>7, FS_EmptySet, FS_CardinalityType
<1>10. QED
  BY <1>5, <1>6, <1>8, <1>9

----------------------------------------------------------------------------
(* The collector finds what the heap promised.                             *)

\* The collection that starts, with the fields of the collector.
LEMMA CollectFound ==
    ASSUME Running("none"), StopInv("none"), CollectAgain, pc' \notin Hangs
    PROVE  \/ UNCHANGED <<map, gc>>
           \/ gc'.state = "idle"
           \/ /\ UNCHANGED map /\ gc'.victim \in Blks
              /\ gc'.fromHeap = Live(gc'.victim) /\ gc'.inBlk = 0 /\ gc'.valid = {}
<1>1. CASE UNCHANGED <<map, gc>> \/ gc'.state = "idle"
  BY <1>1
<1>2. ASSUME gc.state = "idle", NEW h \in {"second", "cold"}, NEW b \in heap[h].in,
             gc'.victim = b, gc'.fromHeap = heap[h].value[b], gc'.inBlk = 0, gc'.valid = {}
      PROVE  gc'.victim \in Blks /\ gc'.fromHeap = Live(gc'.victim) /\ gc'.inBlk = 0 /\ gc'.valid = {}
  <2>1. b \in Blks
    BY DEF Running, TypeInv, HeapOK, Heaps
  <2>2. heap[h].value[b] = Live(b)
    BY <1>2 DEF Running, HeapCounts, Collecting, Counted
  <2>3. QED
    BY <1>2, <2>1, <2>2
<1>3. QED
  BY <1>1, <1>2, CollectStart DEF Running

LEMMA SameFound ==
    ASSUME Found, gc' = gc, gc.state # "idle" => \A v : v = gc.victim => Live(v)' = Live(v)
    PROVE  Found'
<1>1. PICK v : v = gc.victim
  OBVIOUS
<1>2. gc.state # "idle" => Live(v)' = Live(v) /\ v = gc'.victim
  BY <1>1
<1>3. QED
  BY <1>1, <1>2 DEF Found

LEMMA LiveUnmoved ==
    ASSUME map' = map, NEW v
    PROVE  Live(v)' = Live(v)
BY DEF Live

LEMMA FullSlots ==
    ASSUME NEW trims, Running(trims), FullPageValid
    PROVE  gc.valid = Slots
<1>1. gc.valid \subseteq Slots /\ Cardinality(gc.valid) = S
  BY StopTypes DEF FullPageValid
<1>2. IsFiniteSet(Slots) /\ Cardinality(Slots) = S
  <2>1. 0 \in Int /\ S - 1 \in Int /\ S \in Nat /\ S > 0
    BY SizeLemma
  <2>2. IsFiniteSet(0..(S - 1)) /\ Cardinality(0..(S - 1)) = IF 0 > S - 1 THEN 0 ELSE (S - 1) - 0 + 1
    BY <2>1, FS_Interval
  <2>3. QED
    BY <2>1, <2>2 DEF Slots
<1>3. QED
  BY <1>1, <1>2, FS_Subset

LEMMA FoundStep ==
    ASSUME Running("none"), TypeInv', StopInv("none"), Next, pc' \notin Hangs
    PROVE  Found'
<1>0. /\ gc \in GcType /\ gc.inBlk \in Int /\ (gc.state # "idle" => gc.fromHeap \in Int)
      /\ IsFiniteSet(gc.valid) /\ Cardinality(gc.valid) \in Nat
      /\ gc.state # "idle" => gc.fromHeap = gc.inBlk - Cardinality(gc.valid) + Live(gc.victim)
  BY StopTypes DEF StopInv, Found
<1>00. PICK v : v = gc.victim
  OBVIOUS
<1>000. Live(v) \in Nat
  BY SumsLemma
<1>1. ASSUME NEW c \in Chunks, WriteHot(c) \/ WriteCold(c) \/ MoveAway(c) PROVE Found'
  <2>1. PICK a : ~InFlash(a) /\ map' = [map EXCEPT ![c] = a]
    BY <1>1, DramLemma DEF WriteHot, WriteCold, MoveAway
  <2>2. gc' = GcWithoutOld(c)
    BY <1>1 DEF WriteHot, WriteCold, MoveAway
  <2>3. Live(v)' = IF InBlk(map[c], v) THEN Live(v) - 1 ELSE Live(v)
    BY <2>1, LiveLost DEF Running
  <2>4. CASE InBlk(map[c], v) /\ gc.state # "idle"
    <3>1. gc' = [gc EXCEPT !.fromHeap = @ - 1]
      BY <1>00, <2>2, <2>4 DEF GcWithoutOld, InBlk
    <3>2. gc'.fromHeap = gc.fromHeap - 1 /\ gc'.inBlk = gc.inBlk /\ gc'.valid = gc.valid
          /\ gc'.victim = v
      BY <1>0, <1>00, <3>1 DEF GcType
    <3>3. Live(v)' = Live(v) - 1
      BY <2>3, <2>4
    <3>4. gc'.fromHeap = gc'.inBlk - Cardinality(gc'.valid) + (Live(v) - 1)
      BY <1>0, <1>00, <1>000, <2>4, <3>2
    <3>5. QED
      BY <3>2, <3>3, <3>4 DEF Found
  <2>5. CASE ~(InBlk(map[c], v) /\ gc.state # "idle")
    <3>1. gc' = gc
      BY <1>00, <2>2, <2>5 DEF GcWithoutOld, InBlk
    <3>2. gc.state # "idle" => Live(v)' = Live(v)
      BY <2>3, <2>5
    <3>3. QED
      BY <1>00, <3>1, <3>2, SameFound DEF StopInv
  <2>6. QED
    BY <2>4, <2>5
<1>2. CASE FlushHot \/ FlushRecycled \/ FlushCold
  <2>1. gc.state # "idle" => Live(v)' = Live(v)
    BY <1>2, <1>00, FlushLive
  <2>2. gc' = gc
    BY <1>2 DEF FlushHot, FlushRecycled, FlushCold
  <2>3. QED
    BY <1>00, <2>1, <2>2, SameFound DEF StopInv
<1>3. ASSUME UNCHANGED <<map, gc>> PROVE Found'
  BY <1>3, <1>00, LiveUnmoved, SameFound DEF StopInv
<1>4. CASE AdvanceFirst \/ AdvanceToHigh \/ AdvanceToTestedLow \/ AdvanceToPage1 \/ SkipLow
           \/ FillFirst \/ FillSecond
  <2>1. UNCHANGED <<map, gc>>
    BY <1>4 DEF AdvanceFirst, AdvanceToHigh, AdvanceToTestedLow, AdvanceToPage1, SkipLow,
                FillFirst, FillSecond
  <2>2. QED
    BY <1>3, <2>1
<1>5. CASE UseCleanBlk \/ \E f \in HotFirst : ReuseBlk(f) \/ UseLastCleanBlk(f)
  <2>1. UNCHANGED <<map, gc>>
    BY <1>5 DEF UseCleanBlk, ReuseBlk, UseLastCleanBlk
  <2>2. QED
    BY <1>3, <2>1
<1>6. CASE AdvanceCold \/ FillCold \/ EnoughClean \/ GcIdle
  <2>1. UNCHANGED <<map, gc>>
    BY <1>6 DEF AdvanceCold, FillCold, EnoughClean, GcIdle
  <2>2. QED
    BY <1>3, <2>1
<1>7. CASE CollectAgain
  <2>1. CASE UNCHANGED <<map, gc>>
    BY <1>3, <2>1
  <2>2. CASE gc'.state = "idle"
    BY <2>2 DEF Found
  <2>3. ASSUME UNCHANGED map, gc'.fromHeap = Live(gc'.victim), gc'.inBlk = 0, gc'.valid = {}
        PROVE  Found'
    <3>1. PICK w : w = gc'.victim
      OBVIOUS
    <3>2. Live(w)' = Live(w) /\ Live(w) \in Nat
      BY <2>3, LiveUnmoved, SumsLemma
    <3>3. Cardinality({}) = 0
      BY FS_EmptySet
    <3>4. gc'.fromHeap = gc'.inBlk - Cardinality(gc'.valid) + Live(w)
      BY <2>3, <3>1, <3>2, <3>3
    <3>5. QED
      BY <3>1, <3>2, <3>4 DEF Found
  <2>4. QED
    BY <1>7, <2>1, <2>2, <2>3, CollectFound
<1>8. CASE ReadPage
  <2>1. gc.state = "read" /\ ~MeetsInconsistent /\ pc = "collect"
    BY <1>8, VictimConsistent DEF ReadPage, MeetsInconsistent
  <2>2. PICK p \in Pages : /\ ValidSlots(p) \subseteq Slots
                           /\ gc' = [gc EXCEPT !.state = "write", !.page = p, !.valid = ValidSlots(p),
                                               !.encoded = IsEncoded(p),
                                               !.inBlk = @ + Cardinality(ValidSlots(p))]
    BY <1>8, <2>1, ValidSlotsLemma DEF ReadPage
  <2>3. map' = map
    BY <1>8 DEF ReadPage
  <2>4. PICK V : V = ValidSlots(p)
    OBVIOUS
  <2>5. gc.valid = {} /\ Cardinality({}) = 0
    BY <2>1, StopTypes, FS_EmptySet
  <2>6. Cardinality(V) \in Nat
    <3>1. 0 \in Int /\ S - 1 \in Int
      BY SizeLemma
    <3>2. IsFiniteSet(Slots)
      BY <3>1, FS_Interval DEF Slots
    <3>3. QED
      BY <2>2, <2>4, <3>2, FS_Subset, FS_CardinalityType
  <2>7. gc'.inBlk = gc.inBlk + Cardinality(V) /\ gc'.valid = V /\ gc'.victim = v /\ gc'.fromHeap = gc.fromHeap
    BY <1>0, <1>00, <2>2, <2>4 DEF GcType
  <2>8. gc'.fromHeap = gc'.inBlk - Cardinality(gc'.valid) + Live(v)
    BY <1>0, <1>00, <1>000, <2>1, <2>5, <2>6, <2>7
  <2>9. Live(v)' = Live(v)
    BY <2>3, LiveUnmoved
  <2>10. QED
    BY <2>7, <2>8, <2>9 DEF Found
<1>9. CASE EndOfVictim
  <2>1. gc'.state = "idle"
    BY <1>0, <1>9 DEF EndOfVictim, Hang, Hangs, GcType
  <2>2. QED
    BY <2>1 DEF Found
<1>10. CASE CopyWholePage
  <2>1. gc.state = "write" /\ gc.valid = Slots /\ Live(v)' = Live(v) - S
    BY <1>00, <1>10, CopyWholePageEffect, WholeLive
  <2>2. gc'.valid = {} /\ gc'.inBlk = gc.inBlk /\ gc'.fromHeap = gc.fromHeap /\ gc'.victim = v
    BY <1>0, <1>00, <1>10 DEF CopyWholePage, GcType
  <2>3. Cardinality(gc.valid) = S /\ Cardinality({}) = 0 /\ S \in Nat
    BY <1>10, FS_EmptySet, SizeLemma DEF CopyWholePage, FullPageValid
  <2>4. gc'.fromHeap = gc'.inBlk - Cardinality(gc'.valid) + (Live(v) - S)
    BY <1>0, <1>00, <1>000, <2>1, <2>2, <2>3
  <2>5. QED
    BY <2>1, <2>2, <2>4 DEF Found
<1>11. CASE CopyByChunk
  <2>1. gc.state = "write" /\ map' = map
    BY <1>11 DEF CopyByChunk
  <2>2. CASE ~FullPageValid
    <3>1. gc' = gc
      BY <1>11, <2>2 DEF CopyByChunk
    <3>2. QED
      BY <1>3, <2>1, <3>1
  <2>3. CASE FullPageValid
    <3>1. PICK m \in Moved : m = CHOOSE s \in Moved : \A t \in Moved : s <= t
      <4>1. Moved # {}
        BY <1>11, <2>3 DEF CopyByChunk
      <4>2. Moved \subseteq 0..(S - 1) /\ S - 1 \in Nat
        BY SizeLemma DEF Moved, Slots
      <4>3. \E s \in Moved : \A t \in Moved : s <= t
        BY <4>1, <4>2, LeastElement
      <4>4. QED
        BY <4>3
    <3>2. m \in gc.valid
      <4>1. gc.valid = Slots
        BY <2>3, FullSlots
      <4>2. QED
        BY <4>1 DEF Moved
    <3>3. gc' = [gc EXCEPT !.valid = @ \ {m}, !.inBlk = @ - 1]
      BY <1>11, <2>3, <3>1 DEF CopyByChunk
    <3>4. gc'.valid = gc.valid \ {m} /\ gc'.inBlk = gc.inBlk - 1 /\ gc'.fromHeap = gc.fromHeap
          /\ gc'.victim = v
      BY <1>0, <1>00, <3>3 DEF GcType
    <3>5. Cardinality(gc'.valid) = Cardinality(gc.valid) - 1
      BY <1>0, <3>2, <3>4, FS_RemoveElement
    <3>6. gc'.fromHeap = gc'.inBlk - Cardinality(gc'.valid) + Live(v)
      BY <1>0, <1>00, <1>000, <2>1, <3>4, <3>5
    <3>7. Live(v)' = Live(v)
      BY <2>1, LiveUnmoved
    <3>8. QED
      BY <3>4, <3>6, <3>7 DEF Found
  <2>4. QED
    BY <2>2, <2>3
<1>12. CASE CopyChunk
  <2>1. PICK s \in gc.valid, c \in Chunks :
              /\ gc.state = "write" /\ gc'.victim = gc.victim /\ gc'.valid = gc.valid \ {s}
              /\ gc'.fromHeap = gc.fromHeap
              /\ \/ /\ map[c] = PlaceOf(gc.victim, gc.page, s, gc.encoded)
                    /\ map' = [map EXCEPT ![c] = DRAMColdLog(cold.ptr)]
                    /\ gc'.inBlk = gc.inBlk
                 \/ map' = map /\ gc'.inBlk = gc.inBlk - 1
    BY <1>12, CopyChunkEffect
  <2>2. Cardinality(gc'.valid) = Cardinality(gc.valid) - 1
    <3>1. s \in gc.valid /\ gc'.valid = gc.valid \ {s}
      BY <2>1
    <3>2. IsFiniteSet(gc.valid)
      BY <1>0
    <3>3. Cardinality(gc.valid \ {s}) = Cardinality(gc.valid) - 1
      BY <3>1, <3>2, FS_RemoveElement
    <3>4. QED
      BY <3>1, <3>3
  <2>3. CASE map' = map /\ gc'.inBlk = gc.inBlk - 1
    <3>1. gc'.fromHeap = gc'.inBlk - Cardinality(gc'.valid) + Live(v)
      BY <1>0, <1>00, <1>000, <2>1, <2>2, <2>3
    <3>2. Live(v)' = Live(v)
      BY <2>3, LiveUnmoved
    <3>3. QED
      BY <1>00, <2>1, <3>1, <3>2 DEF Found
  <2>4. CASE /\ map[c] = PlaceOf(gc.victim, gc.page, s, gc.encoded)
             /\ map' = [map EXCEPT ![c] = DRAMColdLog(cold.ptr)] /\ gc'.inBlk = gc.inBlk
    <3>1. InBlk(map[c], v)
      <4>1. gc.encoded \in BOOLEAN
        BY <1>0 DEF GcType
      <4>2. QED
        BY <1>00, <2>4, <4>1, PlaceLemma
    <3>2. Live(v)' = Live(v) - 1
      BY <2>4, <3>1, DramLemma, LiveLost DEF Running
    <3>3. gc'.fromHeap = gc'.inBlk - Cardinality(gc'.valid) + (Live(v) - 1)
      BY <1>0, <1>00, <1>000, <2>1, <2>2, <2>4
    <3>4. QED
      BY <1>00, <2>1, <3>2, <3>3 DEF Found
  <2>5. QED
    BY <2>1, <2>3, <2>4
<1>13. CASE EndOfPage
  <2>1. map' = map /\ gc.valid = {}
    BY <1>13 DEF EndOfPage
  <2>2. /\ gc'.valid = gc.valid /\ gc'.inBlk = gc.inBlk /\ gc'.fromHeap = gc.fromHeap /\ gc'.victim = v
        /\ gc'.state # "idle" => gc.state # "idle"
    BY <1>0, <1>00, <1>13 DEF EndOfPage, GcType
  <2>3. Live(v)' = Live(v)
    BY <2>1, LiveUnmoved
  <2>4. QED
    BY <1>0, <1>00, <2>2, <2>3 DEF Found
<1>14. QED
  BY NextCases, <1>1, <1>2, <1>4, <1>5, <1>6, <1>7, <1>8, <1>9, <1>10, <1>11, <1>12, <1>13

----------------------------------------------------------------------------
(* The copies of a victim fit in the blocks there are.                     *)

AtCold(label) == label \in {"flushCold", "advanceCold"}
AtWork(label) == label \in {"copy", "flushCold", "advanceCold", "while", "collect"}

LEMMA FitsElsewhere ==
    ASSUME ~AtWork(pc') \/ (clean' # <<>> /\ ~AtCold(pc')) \/ (clean' # <<>> /\ frames' = <<>>)
    PROVE  Fits'
BY DEF Fits, AtWork, AtCold

\* A step that copies nothing and fills nothing.
LEMMA FitsSame ==
    ASSUME Fits, AtWork(pc), clean' = clean, ColdNext' = ColdNext, cold'.ptr = cold.ptr,
           gc.state # "idle" => /\ gc'.state # "idle" /\ gc'.victim = gc.victim
                                /\ \A v : v = gc.victim => Live(v)' = Live(v),
           AtCold(pc') => AtCold(pc) /\ frames' = frames
    PROVE  Fits'
<1>1. PICK v : v = gc.victim
  OBVIOUS
<1>2. gc.state # "idle" => gc'.state # "idle" /\ gc'.victim = v /\ Live(v)' = Live(v)
  BY <1>1
<1>3. clean' = <<>> => gc.state # "idle" /\ Live(v) < Rest(ColdNext) - cold.ptr
  BY <1>1 DEF Fits, AtWork
<1>4. AtCold(pc') /\ frames' # <<>> => gc.state # "idle" /\ Live(v) < Rest(0) - cold.ptr
  BY <1>1 DEF Fits, AtCold
<1>5. clean' = <<>> => gc'.state # "idle" /\ Live(v)' < Rest(ColdNext') - cold'.ptr
  BY <1>2, <1>3
<1>6. AtCold(pc') /\ frames' # <<>> => gc'.state # "idle" /\ Live(v)' < Rest(0) - cold'.ptr
  BY <1>2, <1>4
<1>7. gc'.state # "idle" /\ gc.state # "idle" => gc'.victim = v
  BY <1>2
<1>8. (clean' = <<>> \/ (AtCold(pc') /\ frames' # <<>>)) => gc'.victim = v
  BY <1>2, <1>3, <1>4
<1>9. QED
  BY <1>5, <1>6, <1>8 DEF Fits, AtCold, Rest

LEMMA EmptyLemma == ASSUME NEW T, NEW s \in Seq(T) PROVE Len(s) > 0 => s # <<>>
OBVIOUS

LEMMA CopyWholeFits ==
    ASSUME NEW trims, Running(trims), StopInv(trims), CopyWholePage
    PROVE  Fits'
<1>1. PICK v : v = gc.victim
  OBVIOUS
<1>2. /\ pc = "collect" /\ pc' = "advanceCold" /\ gc.state = "write" /\ gc'.state = "read"
      /\ gc'.victim = v /\ clean' = clean /\ cold'.page = cold.page /\ cold'.ptr = cold.ptr
  BY <1>1, CopyWholePageEffect
<1>3. Live(v)' = Live(v) - S /\ Live(v) \in Nat
  BY <1>1, WholeLive, SumsLemma
<1>4. PICK page \in Int, ptr \in 0..(S - 1) : page = cold.page /\ ptr = cold.ptr
  BY StopTypes
<1>5. ColdNext = page /\ ColdNext' = page + 1
  BY <1>2, <1>4 DEF ColdNext
<1>6. /\ Rest(page) \in Int /\ Rest(page + 1) = Rest(page) - S /\ Rest(0) \in Int /\ S \in Int
      /\ Live(v) <= Rest(0)
  <2>1. v \in heap["second"].in \cup heap["cold"].in
    BY <1>1, <1>2 DEF Running, RoleInv
  <2>2. Live(v) <= (P - 1) * S
    BY <2>1, LiveBound
  <2>3. QED
    BY <2>2, RestLemma, SizeLemma
<1>7. clean' = <<>> => Live(v)' < Rest(page + 1) - ptr
  <2>1. clean = <<>> => Live(v) < Rest(page) - ptr
    BY <1>1, <1>2, <1>4, <1>5 DEF StopInv, Fits
  <2>2. QED
    BY <1>2, <1>3, <1>6, <2>1
<1>8. Live(v)' < Rest(0) - ptr
  BY <1>3, <1>6
<1>9. cold'.ptr = ptr
  BY <1>2, <1>4
<1>10. QED
  BY <1>2, <1>5, <1>7, <1>8, <1>9 DEF Fits, Rest

LEMMA CopyChunkFits ==
    ASSUME NEW trims, Running(trims), StopInv(trims), CopyChunk
    PROVE  Fits'
<1>1. PICK v : v = gc.victim
  OBVIOUS
<1>2. PICK s \in gc.valid, c \in Chunks :
        /\ gc.state = "write" /\ gc'.state = gc.state /\ gc'.victim = v
        /\ \/ /\ map[c] = PlaceOf(gc.victim, gc.page, s, gc.encoded)
              /\ cold' = Buffered(cold, c) /\ map' = [map EXCEPT ![c] = DRAMColdLog(cold.ptr)]
              /\ pc' = IF cold'.ptr = 0 THEN "flushCold" ELSE "copy"
           \/ UNCHANGED <<cold, map>> /\ pc' = "copy"
  BY <1>1, CopyChunkEffect
<1>3. pc = "copy" /\ clean' = clean /\ frames' = frames
  BY DEF CopyChunk
<1>4. CASE UNCHANGED <<cold, map>> /\ pc' = "copy"
  <2>1. ColdNext' = ColdNext
    BY <1>3, <1>4 DEF ColdNext
  <2>2. QED
    BY <1>1, <1>2, <1>3, <1>4, <2>1, LiveUnmoved, FitsSame DEF StopInv, AtWork, AtCold
<1>5. CASE /\ map[c] = PlaceOf(gc.victim, gc.page, s, gc.encoded)
           /\ cold' = Buffered(cold, c) /\ map' = [map EXCEPT ![c] = DRAMColdLog(cold.ptr)]
           /\ pc' = IF cold'.ptr = 0 THEN "flushCold" ELSE "copy"
  <2>1. PICK page \in Int, ptr \in 0..(S - 1) : page = cold.page /\ ptr = cold.ptr
    BY StopTypes
  <2>2. Live(v)' = Live(v) - 1 /\ Live(v) \in Nat
    <3>1. InBlk(map[c], v)
      <4>1. gc.encoded \in BOOLEAN
        BY StopTypes DEF GcType
      <4>2. QED
        BY <1>1, <1>5, <4>1, PlaceLemma
    <3>2. QED
      BY <1>5, <3>1, DramLemma, LiveLost, SumsLemma DEF Running
  <2>3. /\ Rest(page) \in Int /\ Rest(page + 1) = Rest(page) - S /\ Rest(0) \in Int /\ S \in Nat /\ S >= 2
        /\ Live(v) <= Rest(0)
    <3>1. v \in heap["second"].in \cup heap["cold"].in
      BY <1>1, <1>2 DEF Running, RoleInv
    <3>2. Live(v) <= (P - 1) * S
      BY <3>1, LiveBound
    <3>3. QED
      BY <3>2, RestLemma, SizeLemma
  <2>4. clean' = <<>> => Live(v) < Rest(page) - ptr
    BY <1>1, <1>3, <2>1 DEF StopInv, Fits, ColdNext
  <2>5. cold'.page = page /\ cold'.ptr = (ptr + 1) % S
    <3>1. cold \in LogType /\ cold.recycled = FALSE
      BY StopTypes DEF Running, Places, ColdBuf, LogType
    <3>2. QED
      BY <1>5, <2>1, <3>1 DEF Buffered, LogType
  <2>6. CASE ptr = S - 1
    <3>1. cold'.ptr = 0
      BY <2>3, <2>5, <2>6
    <3>2. pc' = "flushCold" /\ ColdNext' = page + 1
      BY <1>5, <2>5, <3>1 DEF ColdNext
    <3>3. clean' = <<>> => Live(v)' < Rest(page + 1) - 0
      BY <2>2, <2>3, <2>4, <2>6
    <3>4. Live(v)' < Rest(0) - 0
      BY <2>2, <2>3
    <3>5. QED
      BY <1>2, <3>1, <3>2, <3>3, <3>4 DEF Fits, Rest
  <2>7. CASE ptr # S - 1
    <3>1. cold'.ptr = ptr + 1 /\ ptr + 1 # 0
      <4>1. ptr \in Nat /\ ptr < S /\ ptr + 1 # S
        BY <2>3, <2>7
      <4>2. QED
        BY <2>3, <2>5, <4>1, NextSlot
    <3>2. pc' = "copy" /\ ColdNext' = page
      BY <1>5, <2>5, <3>1 DEF ColdNext
    <3>3. clean' = <<>> => Live(v)' < Rest(page) - (ptr + 1)
      BY <2>2, <2>3, <2>4
    <3>4. QED
      BY <1>2, <3>1, <3>2, <3>3 DEF Fits, Rest
  <2>8. QED
    BY <2>6, <2>7
<1>6. QED
  BY <1>2, <1>4, <1>5

LEMMA FillColdFits ==
    ASSUME NEW trims, Running(trims), StopInv(trims), FillCold, pc' \notin Hangs
    PROVE  Fits'
<1>1. PICK v : v = gc.victim
  OBVIOUS
<1>2. pc = "advanceCold" /\ pc' = "while" /\ cold'.page = 0 /\ cold'.ptr = cold.ptr
      /\ UNCHANGED <<map, gc, frames>>
  BY FillColdEffect DEF Running
<1>3. clean' = Tail(clean) /\ clean # <<>> /\ clean \in Seq(Blks)
  BY LabelsLemma, StopTypes DEF FillCold, Hang, Hangs
<1>4. CASE frames = <<>>
  <2>1. Len(clean) >= 2
    BY <1>2, <1>4 DEF Running, Reserve
  <2>2. clean' # <<>>
    <3>1. Len(Tail(clean)) = Len(clean) - 1 /\ Tail(clean) \in Seq(Blks)
      BY <1>3
    <3>2. Len(Tail(clean)) # 0
      BY <2>1, <3>1
    <3>3. \A q : q = <<>> => Len(q) = 0
      OBVIOUS
    <3>4. clean' = Tail(clean)
      BY <1>3
    <3>5. QED
      BY <3>2, <3>3, <3>4, Zenon
  <2>3. QED
    BY <1>2, <2>2, FitsElsewhere DEF AtCold
<1>5. CASE frames # <<>>
  <2>1. gc.state # "idle" /\ Live(v) < Rest(0) - cold.ptr
    BY <1>1, <1>2, <1>5 DEF StopInv, Fits
  <2>2. ColdNext' = 0
    BY <1>2 DEF ColdNext
  <2>3. Live(v)' = Live(v)
    BY <1>2, LiveUnmoved
  <2>4. gc'.state # "idle" /\ Live(v)' < Rest(0) - cold'.ptr /\ gc'.victim = v
    BY <1>1, <1>2, <2>1, <2>3
  <2>5. QED
    BY <1>2, <2>2, <2>4 DEF Fits, Rest
<1>6. QED
  BY <1>4, <1>5

LEMMA FitsStep ==
    ASSUME NEW trims, Running(trims), StopInv(trims), Next, pc' \notin Hangs
    PROVE  Fits'
<1>0. clean \in Seq(Blks) /\ Len(clean) \in Nat /\ gc \in GcType /\ cold \in LogType
  BY StopTypes
<1>1. ASSUME NEW c \in Chunks, WriteHot(c) \/ WriteCold(c) \/ MoveAway(c) PROVE Fits'
  <2>1. pc = "idle" /\ clean' = clean /\ frames' = frames
    BY <1>1 DEF WriteHot, WriteCold, MoveAway
  <2>2. Len(clean) >= 2 /\ frames = <<>>
    BY <2>1 DEF Running, Reserve
  <2>3. clean' # <<>>
    BY <1>0, <2>1, <2>2, EmptyLemma
  <2>4. QED
    BY <2>1, <2>2, <2>3, FitsElsewhere
<1>2. CASE FlushHot \/ FlushRecycled
  <2>1. pc' = "advanceHot"
    BY <1>2, FlushRecycledPlaces DEF FlushHot, StopInv, Encoding, FlushRecycled, Goto
  <2>2. QED
    BY <2>1, FitsElsewhere DEF AtWork
<1>3. CASE AdvanceFirst \/ AdvanceToHigh \/ AdvanceToTestedLow \/ AdvanceToPage1 \/ SkipLow
           \/ FillFirst \/ FillSecond
  <2>1. pc' \in {"idle", "findHot"}
    BY <1>3 DEF AdvanceFirst, AdvanceToHigh, AdvanceToTestedLow, AdvanceToPage1, SkipLow,
                FillFirst, FillSecond, Goto
  <2>2. QED
    BY <2>1, FitsElsewhere DEF AtWork
<1>4. CASE UseCleanBlk \/ \E f \in HotFirst : ReuseBlk(f)
  <2>1. pc' \in {"idle", "advanceHot"}
    BY <1>4 DEF UseCleanBlk, ReuseBlk, Goto
  <2>2. QED
    BY <2>1, FitsElsewhere DEF AtWork
<1>5. ASSUME NEW f \in HotFirst, UseLastCleanBlk(f) PROVE Fits'
  <2>1. pc = "findHot" /\ pc' = "while" /\ clean' = Tail(clean)
    BY <1>5 DEF UseLastCleanBlk, Goto, Hang, Hangs
  <2>2. Len(clean) >= 2
    BY <2>1 DEF Running, Reserve
  <2>3. clean # <<>>
    BY <1>0, <2>2, EmptyLemma
  <2>4. clean' # <<>>
    <3>1. clean' \in Seq(Blks) /\ Len(clean') = Len(clean) - 1
      BY <1>0, <2>1, <2>3
    <3>2. Len(clean') > 0
      BY <1>0, <2>2, <3>1
    <3>3. QED
      BY <3>1, <3>2, EmptyLemma
  <2>5. QED
    BY <2>1, <2>4, FitsElsewhere DEF AtCold
<1>6. CASE FlushCold
  <2>1. pc = "flushCold" /\ pc' = "advanceCold" /\ UNCHANGED <<clean, gc, frames>> /\ cold' = Flushed(cold)
    BY <1>6 DEF FlushCold, Goto
  <2>2. cold'.page = cold.page /\ cold'.ptr = cold.ptr
    BY <1>0, <2>1 DEF Flushed, LogType
  <2>3. ColdNext' = ColdNext
    BY <2>1, <2>2 DEF ColdNext
  <2>4. gc.state # "idle" => \A v : v = gc.victim => Live(v)' = Live(v)
    BY <1>6, FlushLive
  <2>5. QED
    BY <2>1, <2>2, <2>3, <2>4, FitsSame DEF StopInv, AtWork, AtCold
<1>7. CASE AdvanceCold
  <2>1. /\ pc = "advanceCold" /\ pc' \in {"idle", "copy", "collect"} /\ UNCHANGED <<map, clean, gc>>
        /\ cold' = [cold EXCEPT !.page = @ + 1]
    BY <1>7, ReturnLabel DEF AdvanceCold
  <2>2. cold'.page = cold.page + 1 /\ cold'.ptr = cold.ptr
    BY <1>0, <2>1 DEF LogType
  <2>3. ColdNext' = ColdNext
    BY <2>1, <2>2 DEF ColdNext
  <2>4. QED
    BY <2>1, <2>2, <2>3, LiveUnmoved, FitsSame DEF StopInv, AtWork, AtCold
<1>8. CASE FillCold
  BY <1>8, FillColdFits
<1>9. CASE EnoughClean
  <2>1. clean' = clean /\ Len(clean) >= 2 /\ pc' \in {"idle", "copy", "collect"}
    BY <1>9, ReturnLabel DEF EnoughClean, CleanBlksAfterGc
  <2>2. clean' # <<>>
    BY <1>0, <2>1, EmptyLemma
  <2>3. QED
    BY <2>1, <2>2, FitsElsewhere DEF AtCold
<1>10. ASSUME NEW b, Reclaim(b), pc' = "collect" PROVE Fits'
  <2>1. clean' = Append(clean, b)
    BY <1>10 DEF Reclaim
  <2>2. clean' # <<>>
    BY <1>0, <2>1
  <2>3. QED
    BY <1>10, <2>2, FitsElsewhere DEF AtCold
<1>11. ASSUME pc \in {"while", "collect", "copy"}, pc' \in {"while", "collect", "copy"},
              UNCHANGED <<map, cold, clean>>,
              gc.state # "idle" => gc'.state # "idle" /\ gc'.victim = gc.victim
       PROVE  Fits'
  <2>1. ColdNext' = ColdNext
    BY <1>11 DEF ColdNext
  <2>2. QED
    BY <1>11, <2>1, LiveUnmoved, FitsSame DEF StopInv, AtWork, AtCold
<1>12. CASE CollectAgain
  <2>1. pc = "while" /\ UNCHANGED <<map, cold>> /\ pc' = "collect"
    BY <1>12, CollectStart DEF Running, Hangs
  <2>2. CASE UNCHANGED <<clean, gc>>
    BY <1>11, <2>1, <2>2
  <2>3. CASE gc.state = "idle" /\ UNCHANGED clean
    BY <1>11, <2>1, <2>3
  <2>4. ASSUME NEW b, Reclaim(b) PROVE Fits'
    BY <1>10, <2>1, <2>4
  <2>5. QED
    BY <1>12, <2>2, <2>3, <2>4, CollectStart DEF Running
<1>13. CASE GcIdle
  BY <1>11, <1>13 DEF GcIdle, Goto
<1>14. CASE ReadPage
  <2>1. pc = "collect" /\ pc' = pc /\ gc'.state = "write" /\ gc'.victim = gc.victim
    BY <1>0, <1>14, VictimConsistent DEF ReadPage, MeetsInconsistent, GcType, Hang, Hangs
  <2>2. QED
    BY <1>11, <1>14, <2>1 DEF ReadPage
<1>15. CASE EndOfVictim
  <2>1. Reclaim(gc.victim) /\ pc' = "collect"
    BY <1>15 DEF EndOfVictim, Hang, Hangs
  <2>2. QED
    BY <1>10, <2>1
<1>16. CASE CopyWholePage \/ CopyChunk
  BY <1>16, CopyWholeFits, CopyChunkFits
<1>17. CASE CopyByChunk \/ EndOfPage
  <2>1. pc \in {"collect", "copy"} /\ pc' \in {"copy", "collect"} /\ UNCHANGED <<map, cold, clean>>
    BY <1>17 DEF CopyByChunk, EndOfPage, Goto
  <2>2. gc.state # "idle" => gc'.state # "idle" /\ gc'.victim = gc.victim
    BY <1>0, <1>17 DEF CopyByChunk, EndOfPage, GcType
  <2>3. QED
    BY <1>11, <2>1, <2>2
<1>18. QED
  BY NextCases, <1>1, <1>2, <1>3, <1>4, <1>5, <1>6, <1>7, <1>8, <1>9, <1>12, <1>13, <1>14, <1>15, <1>16, <1>17

----------------------------------------------------------------------------
(* The firmware never stops.                                               *)

LEMMA StopInit == ASSUME NEW trims, Init PROVE StopInv(trims) /\ NeverHangs
<1>1. /\ hot = FreshLog(0) /\ pc = "idle" /\ frames = <<>>
      /\ gc.state = "idle" /\ heap["first"].in = {}
  BY DEF Init, Heaps
<1>2. Encoding
  BY <1>1 DEF Encoding, FreshLog
<1>3. Found /\ Fits
  BY <1>1 DEF Found, Fits
<1>4. FirstUse
  <2>1. Cardinality(heap["first"].in) = 0
    BY <1>1, FS_EmptySet
  <2>2. QED
    BY <2>1, SizeLemma DEF FirstUse
<1>5. NeverHangs
  BY <1>1, LabelsLemma DEF NeverHangs
<1>6. QED
  BY <1>2, <1>3, <1>4, <1>5 DEF StopInv

LEMMA StopUnmoved ==
    ASSUME NEW trims, StopInv(trims), UNCHANGED vars
    PROVE  StopInv(trims)'
<1>1. /\ map' = map /\ hot' = hot /\ cold' = cold /\ heap' = heap /\ clean' = clean /\ gc' = gc
      /\ pc' = pc /\ frames' = frames
  BY DEF vars
<1>2. trims = "none" => Found'
  BY <1>1, LiveUnmoved, SameFound DEF StopInv
<1>3. Encoding' /\ FirstUse'
  BY <1>1 DEF StopInv, Encoding, FirstUse
<1>4. Fits'
  <2>1. CASE AtWork(pc)
    <3>1. ColdNext' = ColdNext
      BY <1>1 DEF ColdNext
    <3>2. QED
      BY <1>1, <2>1, <3>1, LiveUnmoved, FitsSame DEF StopInv
  <2>2. CASE ~AtWork(pc)
    BY <1>1, <2>2, FitsElsewhere
  <2>3. QED
    BY <2>1, <2>2
<1>5. QED
  BY <1>2, <1>3, <1>4 DEF StopInv

\* While the firmware runs, its next step keeps StopInv or is that stop.
LEMMA StopNext ==
    ASSUME NEW trims, Structure, DataInv(trims), StopInv(trims), NeverHangs,
           Structure', DataInv(trims)', Next
    PROVE  /\ pc' \in Hangs => trims # "none" /\ pc' = "count mismatch"
           /\ pc' \notin Hangs => StopInv(trims)'
<1>1. Running(trims)
  BY DEF Structure, Running, RoleInv, DataInv, Inner, Places, NeverHangs
<1>2. pc' \in Hangs => trims # "none" /\ pc' = "count mismatch"
  BY <1>1, NoHang
<1>3. ASSUME pc' \notin Hangs PROVE StopInv(trims)'
  <2>1. Running(trims)'
    BY <1>3 DEF Structure, Running, RoleInv, DataInv, Inner, Places
  <2>2. Encoding' /\ FirstUse' /\ Fits'
    BY <1>1, <1>3, <2>1, EncodingStep, FirstUseStep, FitsStep DEF Structure
  <2>3. trims = "none" => Found'
    BY <1>1, <1>3, FoundStep DEF Structure
  <2>4. QED
    BY <2>2, <2>3 DEF StopInv
<1>4. QED
  BY <1>2, <1>3

LEMMA StopStep ==
    /\ Structure /\ DataInv("none") /\ StopInv("none") /\ NeverHangs
    /\ Structure' /\ DataInv("none")' /\ [Next]_vars
    => StopInv("none")' /\ NeverHangs'
<1>1. SUFFICES ASSUME Structure, DataInv("none"), StopInv("none"), NeverHangs,
                      Structure', DataInv("none")', [Next]_vars
               PROVE  StopInv("none")' /\ NeverHangs'
  OBVIOUS
<1>2. CASE UNCHANGED vars
  BY <1>1, <1>2, StopUnmoved DEF NeverHangs, vars
<1>3. CASE Next
  BY <1>1, <1>3, StopNext DEF NeverHangs
<1>4. QED
  BY <1>1, <1>2, <1>3

\* The whole invariant of the bank.
Steady == Running("none") /\ StopInv("none") /\ NeverHangs

LEMMA SteadyAlways == Spec => []Steady
<1>1. Init => StopInv("none") /\ NeverHangs
  BY StopInit
<1>2. Structure /\ DataInv("none") /\ StopInv("none") /\ NeverHangs => Steady
  BY DEF Structure, Steady, Running, RoleInv, DataInv, Inner, Places, NeverHangs
<1>3. Spec => []Structure
  <2>1. [Next]_vars => [BankNext]_vars
    BY DEF BankNext
  <2>2. QED
    BY <2>1, StructureAlways, PTL DEF Spec, BankSpec
<1>4. QED
  BY <1>1, <1>2, <1>3, StopStep, DataAlways, PTL DEF Spec

\* The firmware never stops in a while(1) of its own (write.c:146, cleanList.c:94,
\* garbage_collection.c:538, :635), whatever the host overwrites meanwhile:
\* a page to encode is the page tested for it, the victim has as many valid chunks as
\* its heap counted, a collection finds a candidate, and the copies of a victim fit in
\* the blocks that are left, though no test precedes the pop of one.
THEOREM HangsNever == Spec => []NeverHangs
<1>1. Steady => NeverHangs
  BY DEF Steady
<1>2. QED
  BY <1>1, SteadyAlways, PTL

----------------------------------------------------------------------------
(* The depth of the recursion.                                             *)

\* A copy of the collector that waits for the cold log is an activation more than
\* those that wait for their copy: Level counts the latter.
AtCopy(label) == label \in {"copy", "flushCold", "advanceCold"}
Level == IF AtCopy(pc) /\ frames # <<>> THEN Len(frames) - 1 ELSE Len(frames)
\* What the block of the cold log still takes.
Room == Rest(ColdNext) - cold.ptr

\* Every victim leaves g of the places of a block free.
VictimsLeave(g) == gc.state # "idle" => gc.fromHeap <= SecondUsageInit - g

\* Each victim gains g places, and only full blocks are spent: with n clean blocks, live
\* chunks left in the victim and levels that took cost victims to enter, the places
\* gained so far cover the cost.
Covered(g, n, busy, live, room, cost) ==
    /\ cost < Rest(0)
    /\ busy => n <= 1
    /\ n = 0 => busy /\ live + cost < room
    /\ n = 1 => IF busy THEN live + cost + g < Rest(0) + room ELSE cost < room
Nested(g) ==
    /\ gc.state # "idle" => AtWork(pc) /\ (AtCold(pc) => frames # <<>>)
    /\ AtWork(pc) => Covered(g, Len(clean), gc.state # "idle", Live(gc.victim), Room, Level * g)

LEMMA LiveNat == \A v : Live(v) \in Nat /\ Live(v)' \in Nat
<1>1. \A v : Live(v) \in Nat
  BY SumsLemma
<1>2. (\A v : Live(v) \in Nat)'
  BY <1>1, PTL
<1>3. QED
  BY <1>1, <1>2

LEMMA NestTypes ==
    ASSUME Running("none"), NEW g \in 1..Rest(0)
    PROVE  /\ g \in Nat /\ g > 0 /\ Rest(0) \in Nat /\ Room \in Int /\ Level \in Int
           /\ Len(frames) \in Nat /\ Len(clean) \in Nat /\ \A v : Live(v) \in Nat
           /\ \A x \in Int : x * g \in Int /\ (x + 1) * g = x * g + g /\ (x - 1) * g = x * g - g
           /\ 0 * g = 0
<1>1. Rest(0) \in Int /\ g \in Nat /\ g > 0
  BY RestLemma
<1>2. frames \in Seq(FrameType)
  BY DEF Running, TypeInv, ControlOK
<1>3. Len(frames) \in Nat /\ Level \in Int
  BY <1>2 DEF Level
<1>4. ColdNext \in Int
  BY StopTypes DEF ColdNext
<1>5. Room \in Int
  <2>1. Rest(ColdNext) \in Int
    BY <1>4, RestLemma
  <2>2. cold.ptr \in Int
    BY StopTypes
  <2>3. QED
    BY <2>1, <2>2 DEF Room
<1>6. Rest(0) \in Nat
  BY <1>1
<1>7. \A x \in Int : x * g \in Int /\ (x + 1) * g = x * g + g /\ (x - 1) * g = x * g - g
  BY <1>1
<1>8. 0 * g = 0
  BY <1>1
<1>9. Len(clean) \in Nat /\ \A v : Live(v) \in Nat
  BY StopTypes, SumsLemma
<1>10. QED
  BY <1>1, <1>3, <1>5, <1>6, <1>7, <1>8, <1>9

\* While two clean blocks are there, nothing is to be gained.
LEMMA NestedPlenty ==
    ASSUME Running("none"), Running("none")', NEW g \in 1..Rest(0), gc'.state = "idle", Len(clean') >= 2,
           AtWork(pc') => Level' * g < Rest(0)
    PROVE  Nested(g)'
<1>1. Len(clean') \in Nat
  BY DEF Running, TypeInv, CleanOK
<1>2. Rest(0)' = Rest(0)
  BY DEF Rest
<1>3. Len(clean') # 0 /\ Len(clean') # 1
  <2>1. PICK n \in Nat : n = Len(clean')
    BY <1>1
  <2>2. n >= 2
    BY <2>1
  <2>3. n # 0 /\ n # 1
    BY <2>2
  <2>4. QED
    BY <2>1, <2>3
<1>4. QED
  BY <1>2, <1>3 DEF Nested, Covered

\* A step that copies k chunks of the victim, on the same level.
LEMMA NestedMoves ==
    ASSUME Running("none"), Running("none")', NEW g \in 1..Rest(0), Nested(g), AtWork(pc), AtWork(pc'),
           clean' = clean, Level' = Level, (gc'.state = "idle") = (gc.state = "idle"),
           AtCold(pc') /\ gc.state # "idle" => frames' # <<>>,
           NEW k \in Nat, Room' = Room - k, gc.state = "idle" => k = 0,
           gc.state # "idle" => gc'.victim = gc.victim /\ \A v : v = gc.victim => Live(v)' = Live(v) - k
    PROVE  Nested(g)'
<1>1. PICK v : v = gc.victim
  OBVIOUS
<1>2. PICK v2 : v2 = gc'.victim
  OBVIOUS
<1>3. gc.state # "idle" => v2 = v /\ Live(v)' = Live(v) - k
  BY <1>1, <1>2
<1>4. Covered(g, Len(clean), gc.state # "idle", Live(v), Room, Level * g)
  BY <1>1 DEF Nested
<1>5. PICK cost \in Int, room \in Int, live \in Int, live2 \in Int, n \in Nat, full \in Int :
        cost = Level * g /\ room = Room /\ live = Live(v) /\ n = Len(clean) /\ full = Rest(0)
        /\ live2 = Live(v2)'
  <2>1. Level * g \in Int /\ Room \in Int /\ Live(v) \in Int /\ Len(clean) \in Nat /\ Rest(0) \in Int
    BY NestTypes
  <2>2. Live(v2)' \in Int
    BY LiveNat
  <2>3. QED
    BY <2>1, <2>2
<1>6. gc.state # "idle" => live2 = live - k
  BY <1>3, <1>5
<1>7. /\ cost < full
      /\ gc.state # "idle" => n <= 1
      /\ n = 0 => gc.state # "idle" /\ live + cost < room
      /\ n = 1 => IF gc.state # "idle" THEN live + cost + g < full + room ELSE cost < room
  BY <1>4, <1>5 DEF Covered
<1>8. /\ n = 0 => live2 + cost < room - k
      /\ n = 1 => IF gc.state # "idle" THEN live2 + cost + g < full + (room - k) ELSE cost < room - k
  <2>1. g \in Int
    BY NestTypes
  <2>2. n = 0 => live2 + cost < room - k
    BY <1>5, <1>6, <1>7
  <2>3. CASE gc.state # "idle"
    <3>1. live2 = live - k
      BY <1>6, <2>3
    <3>2. n = 1 => live + cost + g < full + room
      BY <1>7, <2>3
    <3>3. n = 1 => live2 + cost + g < full + (room - k)
      <4>1. PICK h \in Int : h = g
        BY <2>1
      <4>2. n = 1 => live + cost + h < full + room
        BY <3>2, <4>1
      <4>3. n = 1 => (live - k) + cost + h < full + (room - k)
        BY <4>2
      <4>4. QED
        BY <3>1, <4>1, <4>3
    <3>4. QED
      BY <2>2, <2>3, <3>3
  <2>4. CASE gc.state = "idle"
    <3>1. n = 1 => cost < room - k
      BY <1>5, <1>7, <2>4
    <3>2. QED
      BY <2>2, <2>4, <3>1
  <2>5. QED
    BY <2>3, <2>4
<1>9. Level' * g = cost /\ Rest(0)' = full /\ Room' = room - k /\ Len(clean') = n /\ Live(gc.victim)' = live2
  BY <1>2, <1>5 DEF Rest
<1>10. Covered(g, n, gc.state # "idle", live2, room - k, cost)
  BY <1>5, <1>7, <1>8 DEF Covered
<1>11. Covered(g, Len(clean), gc.state # "idle", Live(gc.victim), Room, Level * g)'
  BY <1>9, <1>10 DEF Covered
<1>12. gc'.state # "idle" => AtWork(pc') /\ (AtCold(pc') => frames' # <<>>)
  OBVIOUS
<1>13. QED
  BY <1>11, <1>12 DEF Nested

\* The host waits and the collector rests.
LEMMA NestedRests ==
    ASSUME NEW g, gc'.state = "idle", ~AtWork(pc')
    PROVE  Nested(g)'
BY DEF Nested

LEMMA LevelLemma ==
    ASSUME Running("none")
    PROVE  /\ frames = <<>> => Level = 0
           /\ frames' = frames /\ AtCopy(pc') = AtCopy(pc) => Level' = Level
           /\ \A f \in FrameType : frames' = Append(frames, f) /\ ~AtCopy(pc) /\ AtCopy(pc')
                 => Level' = Level /\ frames' # <<>>
           /\ frames # <<>> /\ frames' = SubSeq(frames, 1, Len(frames) - 1) /\ ~AtCopy(pc')
                 => Level' = IF AtCopy(pc) THEN Level ELSE Level - 1
<1>1. frames \in Seq(FrameType)
  BY DEF Running, TypeInv, ControlOK
<1>2. frames = <<>> => Level = 0
  BY DEF Level
<1>3. ASSUME frames' = frames, AtCopy(pc') = AtCopy(pc) PROVE Level' = Level
  BY <1>3 DEF Level
<1>4. ASSUME NEW f \in FrameType, frames' = Append(frames, f), ~AtCopy(pc), AtCopy(pc')
      PROVE  Level' = Level /\ frames' # <<>>
  <2>1. Len(frames') = Len(frames) + 1 /\ frames' # <<>> /\ Len(frames) \in Nat
    BY <1>1, <1>4
  <2>2. QED
    BY <1>4, <2>1 DEF Level
<1>5. ASSUME frames # <<>>, frames' = SubSeq(frames, 1, Len(frames) - 1), ~AtCopy(pc')
      PROVE  Level' = IF AtCopy(pc) THEN Level ELSE Level - 1
  <2>1. PICK m \in Nat : m = Len(frames) - 1
    BY <1>1, <1>5
  <2>2. frames' = SubSeq(frames, 1, m) /\ m <= Len(frames)
    BY <1>1, <1>5, <2>1
  <2>3. Len(frames') = m
    BY <1>1, <2>1, <2>2
  <2>4. QED
    BY <1>5, <2>1, <2>3 DEF Level
<1>6. QED
  BY <1>2, <1>3, <1>4, <1>5

LEMMA RoomLemma ==
    ASSUME Running("none")
    PROVE  /\ pc \notin {"flushCold", "advanceCold"} => Room > 0
           /\ pc = "advanceCold" /\ cold.page = P - 2 => Room = 0 - cold.ptr
<1>1. PICK page \in 0..(P - 2), ptr \in 0..(S - 1) : page = cold.page /\ ptr = cold.ptr
  BY StopTypes
<1>2. P \in Nat /\ P >= 6 /\ S \in Nat /\ S >= 2
  BY StopTypes
<1>3. ASSUME pc \notin {"flushCold", "advanceCold"} PROVE Room > 0
  <2>1. Room = Rest(page) - ptr
    BY <1>1, <1>3 DEF Room, ColdNext
  <2>2. PICK x \in Nat : P - 1 - page = x + 1
    <3>1. P - 1 - page - 1 \in Nat /\ P - 1 - page = (P - 1 - page - 1) + 1
      BY <1>2
    <3>2. QED
      BY <3>1
  <2>3. (x + 1) * S = x * S + S /\ x * S >= 0 /\ x * S \in Nat
    BY <1>2
  <2>4. Rest(page) >= S
    BY <1>2, <2>2, <2>3 DEF Rest
  <2>5. Rest(page) \in Int
    BY RestLemma
  <2>6. QED
    BY <1>2, <2>1, <2>4, <2>5
<1>4. ASSUME pc = "advanceCold", cold.page = P - 2 PROVE Room = 0 - cold.ptr
  <2>1. ColdNext = P - 1
    BY <1>2, <1>4 DEF ColdNext
  <2>2. Rest(P - 1) = 0
    BY RestLemma
  <2>3. QED
    BY <2>1, <2>2 DEF Room
<1>5. QED
  BY <1>3, <1>4

\* A full block of the cold log: inside a collection it starts the next level, and the
\* last clean block is spent.
LEMMA FillColdNested ==
    ASSUME Running("none"), Running("none")', StopInv("none"), NEW g \in 1..Rest(0), Nested(g),
           FillCold, pc' \notin Hangs
    PROVE  Nested(g)'
<1>1. PICK v : v = gc.victim
  OBVIOUS
<1>2. pc = "advanceCold" /\ pc' = "while" /\ cold.page = P - 2 /\ cold'.page = 0 /\ cold'.ptr = cold.ptr
      /\ UNCHANGED <<map, gc, frames>>
  BY FillColdEffect DEF Running
<1>3. PICK n \in Nat : n = Len(clean) /\ Len(clean') = n - 1 /\ n >= 1
  <2>1. clean' = Tail(clean) /\ clean # <<>> /\ clean \in Seq(Blks)
    BY LabelsLemma, StopTypes DEF FillCold, Hang, Hangs
  <2>2. QED
    BY <2>1
<1>4. PICK ptr \in 0..(S - 1) : ptr = cold.ptr
  BY StopTypes
<1>5. PICK full \in Nat : full = Rest(0)
  BY NestTypes
<1>6. Rest(0)' = full /\ Room' = full - ptr
  <2>1. ColdNext' = 0
    BY <1>2 DEF ColdNext
  <2>2. QED
    BY <1>2, <1>4, <1>5, <2>1 DEF Room, Rest
<1>7. AtWork(pc) /\ AtWork(pc') /\ ~AtCold(pc') /\ AtCold(pc)
  BY <1>2 DEF AtWork, AtCold
<1>8. CASE frames = <<>>
  <2>1. gc.state = "idle" /\ Len(clean) >= 2
    BY <1>2, <1>7, <1>8 DEF Nested, Running, Reserve
  <2>2. Level' = 0
    BY <1>2, <1>8 DEF Level
  <2>3. 0 * g = 0 /\ full > ptr /\ 0 < full
    <3>1. ptr \in Nat /\ ptr < S /\ S \in Nat /\ P \in Nat /\ P >= 6
      BY <1>4, StopTypes
    <3>2. full = (P - 1) * S
      BY <1>5, RestLemma
    <3>3. PICK x \in Nat : P - 1 = x + 1
      <4>1. P - 2 \in Nat /\ P - 1 = (P - 2) + 1
        BY <3>1
      <4>2. QED
        BY <4>1
    <3>4. x * S \in Nat /\ (x + 1) * S = x * S + S
      BY <3>1
    <3>5. full >= S
      BY <3>1, <3>2, <3>3, <3>4
    <3>6. QED
      BY <3>1, <3>5, NestTypes
  <2>4. 0 < full - ptr /\ Len(clean') # 0
    <3>1. n - 1 # 0
      BY <1>3, <2>1
    <3>2. QED
      <4>1. ptr \in Nat
        BY <1>4, StopTypes
      <4>2. 0 < full - ptr
        BY <2>3, <4>1
      <4>3. QED
        BY <1>3, <3>1, <4>2
  <2>5. gc'.state = "idle" /\ Level' * g = 0
    BY <1>2, <2>1, <2>2, <2>3
  <2>6. QED
    BY <1>6, <1>7, <2>3, <2>4, <2>5 DEF Nested, Covered
<1>9. CASE frames # <<>>
  <2>1. gc.state # "idle"
    BY <1>2, <1>9 DEF StopInv, Fits
  <2>2. PICK live \in Nat, cost \in Int, next \in Int, h \in Nat :
          live = Live(v) /\ cost = Level * g /\ next = Level' * g /\ h = g /\ next = cost + h
    <3>1. Level \in Int /\ Level * g \in Int /\ (Level + 1) * g = Level * g + g /\ g \in Nat
      BY NestTypes
    <3>2. Level' = Level + 1
      <4>1. Len(frames) \in Nat
        BY NestTypes
      <4>2. Level = Len(frames) - 1 /\ Level' = Len(frames)
        BY <1>2, <1>9 DEF Level, AtCopy
      <4>3. QED
        BY <4>1, <4>2
    <3>3. Live(v) \in Nat
      BY LiveNat
    <3>4. Level' * g = Level * g + g
      BY <3>1, <3>2
    <3>5. QED
      BY <3>1, <3>3, <3>4
  <2>3. Covered(g, n, TRUE, live, 0 - ptr, cost)
    <3>1. Room = 0 - ptr
      BY <1>2, <1>4, RoomLemma
    <3>2. QED
      BY <1>1, <1>3, <1>7, <2>1, <2>2, <3>1 DEF Nested
  <2>4. /\ n <= 1
        /\ n = 0 => live + cost < 0 - ptr
        /\ n = 1 => live + cost + h < full + (0 - ptr)
    BY <1>5, <2>2, <2>3 DEF Covered
  <2>5. n = 1
    BY <1>3, <2>4
  <2>6. next < full /\ live + next < full - ptr
    <3>1. ptr \in Nat
      BY <1>4, StopTypes
    <3>2. live + cost + h < full + (0 - ptr)
      BY <2>4, <2>5
    <3>3. live + (cost + h) < full - ptr /\ cost + h < full
      BY <2>2, <3>1, <3>2
    <3>4. QED
      BY <2>2, <3>3
  <2>7. Covered(g, 0, TRUE, live, full - ptr, next)
    BY <1>5, <2>6 DEF Covered
  <2>8. Len(clean') = 0 /\ Live(gc.victim)' = live /\ gc'.state # "idle"
    <3>1. Live(v)' = Live(v)
      BY <1>2, LiveUnmoved
    <3>2. QED
      BY <1>1, <1>2, <1>3, <2>1, <2>2, <2>5, <3>1
  <2>9. Covered(g, Len(clean), gc.state # "idle", Live(gc.victim), Room, Level * g)'
    BY <1>5, <1>6, <2>2, <2>7, <2>8 DEF Covered
  <2>10. QED
    BY <1>7, <2>9 DEF Nested
<1>10. QED
  BY <1>8, <1>9

LEMMA NestedReclaim ==
    ASSUME Running("none"), Running("none")', NEW g \in 1..Rest(0), Nested(g), pc \in {"while", "collect"},
           pc' = "collect", UNCHANGED <<cold, frames>>, gc'.state = "idle",
           NEW b \in Blks, clean' = Append(clean, b)
    PROVE  Nested(g)'
<1>1. PICK n \in Nat : n = Len(clean) /\ Len(clean') = n + 1
  BY StopTypes
<1>2. PICK live \in Nat, cost \in Int, room \in Int : live = Live(gc.victim) /\ cost = Level * g /\ room = Room
  BY NestTypes
<1>3. /\ cost < Rest(0)
      /\ n = 0 => live + cost < room
  BY <1>1, <1>2 DEF Nested, AtWork, Covered
<1>4. Level' * g = cost /\ Room' = room /\ Rest(0)' = Rest(0)
  <2>1. Level' = Level
    BY LevelLemma DEF AtCopy
  <2>2. ColdNext' = ColdNext
    BY DEF ColdNext
  <2>3. QED
    BY <1>2, <2>1, <2>2 DEF Room, Rest
<1>5. CASE n = 0
  <2>1. cost < room
    BY <1>2, <1>3, <1>5
  <2>2. n + 1 = 1 /\ n + 1 # 0
    BY <1>5
  <2>3. QED
    BY <1>1, <1>3, <1>4, <2>1, <2>2 DEF Nested, Covered
<1>6. CASE n # 0
  <2>1. n + 1 >= 2
    BY <1>6
  <2>2. QED
    BY <1>1, <1>3, <1>4, <2>1, NestedPlenty
<1>7. QED
  BY <1>5, <1>6

\* A new victim pays for a level.
LEMMA CollectNested ==
    ASSUME Running("none"), Running("none")', StopInv("none"), NEW g \in 1..Rest(0), Nested(g), VictimsLeave(g)',
           CollectAgain, pc' \notin Hangs
    PROVE  Nested(g)'
<1>1. pc = "while" /\ pc' = "collect" /\ UNCHANGED <<map, cold, frames>>
  BY CollectStart DEF Running, Hangs
<1>2. AtWork(pc) /\ AtWork(pc') /\ ~AtCold(pc) /\ ~AtCold(pc') /\ ~AtCopy(pc) /\ ~AtCopy(pc')
  BY <1>1 DEF AtWork, AtCold, AtCopy
<1>3. Level' = Level
  BY <1>1, LevelLemma DEF AtCopy
<1>4. ColdNext' = ColdNext
  BY <1>1 DEF ColdNext
<1>5. Room' = Room /\ Rest(0)' = Rest(0)
  BY <1>1, <1>4 DEF Room, Rest
<1>6. CASE UNCHANGED <<clean, gc>>
  <2>1. \A v : Live(v)' = Live(v) - 0
    BY <1>1, LiveUnmoved, LiveNat
  <2>2. Room' = Room - 0
    BY <1>5, NestTypes
  <2>3. QED
    BY <1>2, <1>3, <1>6, <2>1, <2>2, NestedMoves
<1>7. ASSUME gc.state = "idle", NEW h \in {"second", "cold"}, NEW b \in heap[h].in,
             gc'.state = "read", gc'.victim = b, gc'.fromHeap = heap[h].value[b], clean' = clean
      PROVE  Nested(g)'
  <2>1. Len(clean) < 2
    BY DEF CollectAgain, CleanBlksAfterGc
  <2>2. PICK n \in Nat : n = Len(clean)
    BY NestTypes
  <2>3. PICK live \in Nat, cost \in Int, room \in Int, full \in Int, k \in Int :
          live = Live(b) /\ cost = Level * g /\ room = Room /\ full = Rest(0) /\ k = g
    BY NestTypes
  <2>4. live <= full - k
    <3>1. gc'.fromHeap = live
      BY <1>7, <2>3 DEF Running, HeapCounts, Collecting, Counted
    <3>2. SecondUsageInit = full
      BY <2>3, RestLemma DEF SecondUsageInit
    <3>3. gc'.fromHeap <= SecondUsageInit - g
      BY <1>7 DEF VictimsLeave
    <3>4. QED
      BY <2>3, <3>1, <3>2, <3>3
  <2>5. /\ cost < full
        /\ n # 0
        /\ n = 1 => cost < room
    BY <1>2, <1>7, <2>2, <2>3 DEF Nested, Covered
  <2>6. n = 1
    BY <2>1, <2>2, <2>5
  <2>7. live + cost + k < full + room
    BY <2>3, <2>4, <2>5, <2>6
  <2>8. Live(gc.victim)' = live
    <3>1. Live(b)' = Live(b)
      BY <1>1, LiveUnmoved
    <3>2. QED
      BY <1>7, <2>3, <3>1
  <2>9. Level' * g = cost /\ Room' = room /\ Rest(0)' = full /\ Len(clean') = 1
    BY <1>3, <1>5, <1>7, <2>2, <2>3, <2>6
  <2>10. Covered(g, Len(clean), gc.state # "idle", Live(gc.victim), Room, Level * g)'
    BY <1>7, <2>3, <2>5, <2>7, <2>8, <2>9 DEF Covered
  <2>11. QED
    BY <1>2, <2>10 DEF Nested
<1>8. ASSUME NEW h \in {"second", "cold"}, NEW b \in heap[h].in, gc'.state = "idle", Reclaim(b)
      PROVE  Nested(g)'
  <2>1. b \in Blks
    BY DEF Running, TypeInv, HeapOK, Heaps
  <2>2. clean' = Append(clean, b)
    BY <1>8 DEF Reclaim
  <2>3. QED
    BY <1>1, <1>8, <2>1, <2>2, NestedReclaim
<1>9. QED
  BY <1>6, <1>7, <1>8, CollectStart DEF Running

LEMMA CopyWholeNested ==
    ASSUME Running("none"), Running("none")', NEW g \in 1..Rest(0), Nested(g), CopyWholePage
    PROVE  Nested(g)'
<1>1. /\ pc = "collect" /\ pc' = "advanceCold" /\ gc.state = "write" /\ gc'.state = "read"
      /\ gc'.victim = gc.victim /\ clean' = clean /\ cold'.page = cold.page /\ cold'.ptr = cold.ptr
  BY CopyWholePageEffect
<1>2. \A v : v = gc.victim => Live(v)' = Live(v) - S
  BY WholeLive
<1>3. Level' = Level /\ frames' # <<>>
  <2>1. [kind |-> "tail"] \in FrameType
    BY DEF FrameType
  <2>2. frames' = Append(frames, [kind |-> "tail"])
    BY DEF CopyWholePage, PushFrame
  <2>3. QED
    BY <1>1, <2>1, <2>2, LevelLemma DEF AtCopy
<1>4. Room' = Room - S
  <2>1. PICK page \in Int, ptr \in Int : page = cold.page /\ ptr = cold.ptr
    BY StopTypes
  <2>2. Room = Rest(page) - ptr /\ Room' = Rest(page + 1) - ptr
    BY <1>1, <2>1 DEF Room, ColdNext, Rest
  <2>3. Rest(page) \in Int /\ Rest(page + 1) = Rest(page) - S /\ S \in Int
    BY RestLemma, SizeLemma
  <2>4. QED
    BY <2>1, <2>2, <2>3
<1>5. AtWork(pc) /\ AtWork(pc') /\ S \in Nat
  BY <1>1, SizeLemma DEF AtWork
<1>6. QED
  BY <1>1, <1>2, <1>3, <1>4, <1>5, NestedMoves

LEMMA CopyChunkNested ==
    ASSUME Running("none"), Running("none")', NEW g \in 1..Rest(0), Nested(g), CopyChunk
    PROVE  Nested(g)'
<1>1. PICK v : v = gc.victim
  OBVIOUS
<1>2. PICK s \in gc.valid, c \in Chunks :
        /\ gc.state = "write" /\ gc'.state = gc.state /\ gc'.victim = v
        /\ \/ /\ map[c] = PlaceOf(gc.victim, gc.page, s, gc.encoded)
              /\ cold' = Buffered(cold, c) /\ map' = [map EXCEPT ![c] = DRAMColdLog(cold.ptr)]
              /\ pc' = IF cold'.ptr = 0 THEN "flushCold" ELSE "copy"
           \/ UNCHANGED <<cold, map>> /\ pc' = "copy"
  BY <1>1, CopyChunkEffect
<1>3. pc = "copy" /\ clean' = clean /\ frames' = frames /\ frames # <<>>
  BY DEF CopyChunk, Running, Reserve
<1>4. AtWork(pc) /\ AtWork(pc') /\ AtCopy(pc) /\ AtCopy(pc')
  BY <1>2, <1>3 DEF AtWork, AtCopy
<1>5. Level' = Level
  BY <1>3, <1>4, LevelLemma
<1>6. CASE UNCHANGED <<cold, map>> /\ pc' = "copy"
  <2>1. \A x : Live(x)' = Live(x) - 0
    BY <1>6, LiveUnmoved, LiveNat
  <2>2. Room' = Room - 0
    <3>1. Room' = Room
      BY <1>3, <1>6 DEF Room, ColdNext, Rest
    <3>2. QED
      BY <3>1, NestTypes
  <2>3. QED
    BY <1>1, <1>2, <1>3, <1>4, <1>5, <2>1, <2>2, NestedMoves
<1>7. CASE /\ map[c] = PlaceOf(gc.victim, gc.page, s, gc.encoded)
           /\ cold' = Buffered(cold, c) /\ map' = [map EXCEPT ![c] = DRAMColdLog(cold.ptr)]
           /\ pc' = IF cold'.ptr = 0 THEN "flushCold" ELSE "copy"
  <2>1. Live(v)' = Live(v) - 1
    <3>1. gc.encoded \in BOOLEAN
      BY StopTypes DEF GcType
    <3>2. InBlk(map[c], v)
      BY <1>1, <1>7, <3>1, PlaceLemma
    <3>3. QED
      BY <1>7, <3>2, DramLemma, LiveLost DEF Running
  <2>2. Room' = Room - 1
    <3>1. PICK page \in Int, ptr \in 0..(S - 1) : page = cold.page /\ ptr = cold.ptr
      BY StopTypes
    <3>2. Rest(page) \in Int /\ Rest(page + 1) = Rest(page) - S /\ S \in Nat /\ S >= 2
      BY RestLemma, StopTypes
    <3>3. cold'.page = page /\ cold'.ptr = (ptr + 1) % S
      <4>1. cold \in LogType /\ cold.recycled = FALSE
        BY StopTypes DEF Running, Places, ColdBuf, LogType
      <4>2. QED
        BY <1>7, <3>1, <4>1 DEF Buffered, LogType
    <3>4. Room = Rest(page) - ptr
      BY <1>3, <3>1 DEF Room, ColdNext
    <3>5. CASE ptr = S - 1
      <4>1. cold'.ptr = 0
        BY <3>2, <3>3, <3>5
      <4>2. Room' = Rest(page + 1) - 0
        BY <1>7, <3>3, <4>1 DEF Room, ColdNext, Rest
      <4>3. QED
        BY <3>1, <3>2, <3>4, <3>5, <4>2
    <3>6. CASE ptr # S - 1
      <4>1. cold'.ptr = ptr + 1 /\ ptr + 1 # 0
        <5>1. ptr \in Nat /\ ptr < S /\ ptr + 1 # S
          BY <3>2, <3>6
        <5>2. QED
          BY <3>2, <3>3, <5>1, NextSlot
      <4>2. Room' = Rest(page) - (ptr + 1)
        BY <1>7, <3>3, <4>1 DEF Room, ColdNext, Rest
      <4>3. QED
        BY <3>1, <3>2, <3>4, <4>2
    <3>7. QED
      BY <3>5, <3>6
  <2>3. QED
    BY <1>1, <1>2, <1>3, <1>4, <1>5, <2>1, <2>2, NestedMoves
<1>8. QED
  BY <1>2, <1>6, <1>7

\* A step that copies and fills nothing, on the same level.
LEMMA NestedSame ==
    ASSUME Running("none"), Running("none")', NEW g \in 1..Rest(0), Nested(g), AtWork(pc), AtWork(pc'),
           UNCHANGED <<clean>>, Level' = Level, cold'.ptr = cold.ptr, ColdNext' = ColdNext,
           AtCold(pc') /\ gc.state # "idle" => frames' # <<>>,
           (gc'.state = "idle") = (gc.state = "idle"),
           gc.state # "idle" => gc'.victim = gc.victim /\ \A v : v = gc.victim => Live(v)' = Live(v)
    PROVE  Nested(g)'
<1>1. Room' = Room - 0
  <2>1. Room' = Room
    BY DEF Room, Rest
  <2>2. QED
    BY <2>1, NestTypes
<1>2. gc.state # "idle" => gc'.victim = gc.victim /\ \A v : v = gc.victim => Live(v)' = Live(v) - 0
  BY LiveNat
<1>3. QED
  BY <1>1, <1>2, NestedMoves

LEMMA NestedStep ==
    ASSUME Running("none"), Running("none")', StopInv("none"), NEW g \in 1..Rest(0), Nested(g), VictimsLeave(g)',
           Next, pc' \notin Hangs
    PROVE  Nested(g)'
<1>0. clean \in Seq(Blks) /\ Len(clean) \in Nat /\ gc \in GcType /\ cold \in LogType
  BY StopTypes
<1>00. 0 * g = 0 /\ 0 < Rest(0)
  <2>1. g \in Nat /\ g > 0 /\ g <= Rest(0)
    BY RestLemma
  <2>2. QED
    BY <2>1, NestTypes
<1>1. ASSUME NEW c \in Chunks, WriteHot(c) \/ WriteCold(c) \/ MoveAway(c) PROVE Nested(g)'
  <2>1. pc = "idle" /\ clean' = clean /\ frames' = frames /\ gc' = GcWithoutOld(c)
    BY <1>1 DEF WriteHot, WriteCold, MoveAway
  <2>2. Len(clean) >= 2 /\ frames = <<>> /\ gc.state = "idle"
    BY <2>1 DEF Running, Reserve, Nested, AtWork
  <2>3. gc' = gc
    BY <2>1, <2>2 DEF GcWithoutOld
  <2>4. Level' = 0
    BY <2>1, <2>2 DEF Level
  <2>5. QED
    BY <1>00, <2>1, <2>2, <2>3, <2>4, NestedPlenty
<1>2. ASSUME pc \in {"flushHot", "advanceHot", "findHot"}, gc' = gc, ~AtWork(pc') PROVE Nested(g)'
  <2>1. gc.state = "idle"
    BY <1>2 DEF Nested, AtWork
  <2>2. QED
    BY <1>2, <2>1, NestedRests
<1>3. CASE FlushHot \/ FlushRecycled
  <2>1. pc' = "advanceHot"
    BY <1>3, FlushRecycledPlaces DEF FlushHot, StopInv, Encoding, FlushRecycled, Goto
  <2>2. QED
    BY <1>2, <1>3, <2>1 DEF FlushHot, FlushRecycled, AtWork
<1>4. CASE AdvanceFirst \/ AdvanceToHigh \/ AdvanceToTestedLow \/ AdvanceToPage1 \/ SkipLow
           \/ FillFirst \/ FillSecond
  <2>1. pc = "advanceHot" /\ pc' \in {"idle", "findHot"} /\ gc' = gc
    BY <1>4 DEF AdvanceFirst, AdvanceToHigh, AdvanceToTestedLow, AdvanceToPage1, SkipLow,
                FillFirst, FillSecond, InSecondUsage, Goto
  <2>2. QED
    BY <1>2, <2>1 DEF AtWork
<1>5. CASE UseCleanBlk \/ \E f \in HotFirst : ReuseBlk(f)
  <2>1. pc = "findHot" /\ pc' \in {"idle", "advanceHot"} /\ gc' = gc
    BY <1>5 DEF UseCleanBlk, ReuseBlk, Goto
  <2>2. QED
    BY <1>2, <2>1 DEF AtWork
<1>6. ASSUME NEW f \in HotFirst, UseLastCleanBlk(f) PROVE Nested(g)'
  <2>1. pc = "findHot" /\ pc' = "while" /\ clean' = Tail(clean) /\ UNCHANGED <<cold, gc, frames>>
    BY <1>6 DEF UseLastCleanBlk, Goto, Hang, Hangs
  <2>2. Len(clean) >= 2 /\ frames = <<>> /\ gc.state = "idle"
    BY <2>1 DEF Running, Reserve, Nested, AtWork
  <2>3. Len(clean') # 0
    <3>1. clean # <<>> /\ Len(Tail(clean)) = Len(clean) - 1
      BY <1>0, <2>2
    <3>2. QED
      BY <1>0, <2>1, <2>2, <3>1
  <2>4. Level' = 0 /\ Rest(0)' = Rest(0)
    BY <2>1, <2>2 DEF Level, Rest
  <2>5. Room' > 0
    <3>1. Room' = Room
      BY <2>1 DEF Room, ColdNext, Rest
    <3>2. QED
      BY <2>1, <3>1, RoomLemma
  <2>6. Room' \in Int
    <3>1. Room' = Room
      BY <2>1 DEF Room, ColdNext, Rest
    <3>2. QED
      BY <3>1, NestTypes
  <2>7. 0 < Room'
    BY <2>5, <2>6
  <2>8. gc'.state = "idle" /\ Level' * g = 0
    BY <1>00, <2>1, <2>2, <2>4
  <2>9. QED
    BY <1>00, <2>3, <2>4, <2>7, <2>8 DEF Nested, Covered
<1>7. CASE FlushCold
  <2>1. pc = "flushCold" /\ pc' = "advanceCold" /\ UNCHANGED <<clean, gc, frames>> /\ cold' = Flushed(cold)
    BY <1>7 DEF FlushCold, Goto
  <2>2. cold'.page = cold.page /\ cold'.ptr = cold.ptr
    BY <1>0, <2>1 DEF Flushed, LogType
  <2>3. ColdNext' = ColdNext
    BY <2>1, <2>2 DEF ColdNext
  <2>4. gc.state # "idle" => \A v : v = gc.victim => Live(v)' = Live(v)
    BY <1>7, FlushLive
  <2>5. Level' = Level
    BY <2>1, LevelLemma DEF AtCopy
  <2>6. AtWork(pc) /\ AtWork(pc') /\ AtCold(pc)
    BY <2>1 DEF AtWork, AtCold
  <2>7. gc.state # "idle" => frames' # <<>>
    BY <2>1, <2>6 DEF Nested
  <2>8. QED
    BY <2>1, <2>2, <2>3, <2>4, <2>5, <2>6, <2>7, NestedSame
<1>8. CASE AdvanceCold
  <2>1. /\ pc = "advanceCold" /\ Return /\ UNCHANGED <<map, clean, gc>>
        /\ cold' = [cold EXCEPT !.page = @ + 1]
    BY <1>8 DEF AdvanceCold
  <2>2. cold'.page = cold.page + 1 /\ cold'.ptr = cold.ptr
    BY <1>0, <2>1 DEF LogType
  <2>3. AtWork(pc) /\ AtCold(pc)
    BY <2>1 DEF AtWork, AtCold
  <2>4. CASE pc' = "idle"
    <3>1. frames = <<>>
      BY <2>1, <2>4, ReturnLabel
    <3>2. gc'.state = "idle"
      BY <2>1, <2>3, <3>1 DEF Nested
    <3>3. QED
      BY <2>4, <3>2, NestedRests DEF AtWork
  <2>5. CASE pc' \in {"copy", "collect"}
    <3>1. Level' = Level
      BY <2>1, <2>5, ReturnLabel, LevelLemma DEF AtCopy
    <3>2. ColdNext' = ColdNext
      BY <2>1, <2>2, <2>5 DEF ColdNext
    <3>3. AtWork(pc') /\ ~AtCold(pc')
      BY <2>5 DEF AtWork, AtCold
    <3>4. QED
      BY <2>1, <2>2, <2>3, <3>1, <3>2, <3>3, LiveUnmoved, NestedSame
  <2>6. QED
    BY <2>1, <2>4, <2>5, ReturnLabel
<1>9. CASE FillCold
  BY <1>9, FillColdNested
<1>10. CASE EnoughClean
  <2>1. pc = "while" /\ Return /\ UNCHANGED <<clean, gc>> /\ Len(clean) >= 2
    BY <1>10 DEF EnoughClean, CleanBlksAfterGc
  <2>2. AtWork(pc)
    BY <2>1 DEF AtWork
  <2>3. Level * g < Rest(0) /\ (gc.state # "idle" => Len(clean) <= 1)
    BY <2>2 DEF Nested, Covered
  <2>4. gc.state = "idle"
    <3>1. PICK n \in Nat : n = Len(clean)
      BY <1>0
    <3>2. QED
      BY <2>1, <2>3, <3>1
  <2>5. AtWork(pc') => Level' = Level - 1
    <3>1. CASE pc' = "copy"
      <4>1. frames # <<>> /\ frames' = frames
        BY <2>1, <3>1, ReturnLabel
      <4>2. QED
        BY <2>1, <3>1, <4>1 DEF Level, AtCopy
    <3>2. CASE pc' = "collect"
      BY <2>1, <3>2, ReturnLabel, LevelLemma DEF AtCopy
    <3>3. CASE pc' = "idle"
      BY <3>3 DEF AtWork
    <3>4. QED
      BY <2>1, <3>1, <3>2, <3>3, ReturnLabel
  <2>6. AtWork(pc') => Level' * g < Rest(0)
    <3>1. PICK level \in Int, cost \in Int, full \in Int, k \in Nat :
            level = Level /\ cost = Level * g /\ full = Rest(0) /\ k = g
      BY NestTypes
    <3>2. (level - 1) * g = cost - k
      BY <3>1, NestTypes
    <3>3. cost - k < full
      BY <2>3, <3>1
    <3>4. QED
      BY <2>5, <3>1, <3>2, <3>3
  <2>7. QED
    BY <2>1, <2>4, <2>6, NestedPlenty
<1>11. ASSUME pc \in {"while", "collect", "copy"}, pc' \in {"while", "collect", "copy"},
              UNCHANGED <<map, cold, clean>>, Level' = Level,
              (gc'.state = "idle") = (gc.state = "idle"),
              gc.state # "idle" => gc'.victim = gc.victim
       PROVE  Nested(g)'
  <2>1. ColdNext' = ColdNext
    BY <1>11 DEF ColdNext
  <2>2. AtWork(pc) /\ AtWork(pc') /\ ~AtCold(pc')
    BY <1>11 DEF AtWork, AtCold
  <2>3. QED
    BY <1>11, <2>1, <2>2, LiveUnmoved, NestedSame
<1>12. CASE CollectAgain
  BY <1>12, CollectNested
<1>13. CASE GcIdle
  <2>1. pc = "collect" /\ pc' = "while" /\ UNCHANGED <<map, cold, clean, gc, frames>>
    BY <1>13 DEF GcIdle, Goto
  <2>2. Level' = Level
    BY <2>1, LevelLemma DEF AtCopy
  <2>3. QED
    BY <1>11, <2>1, <2>2
<1>14. CASE ReadPage
  <2>1. pc = "collect" /\ pc' = pc /\ gc.state = "read" /\ gc'.state = "write" /\ gc'.victim = gc.victim
    BY <1>0, <1>14, VictimConsistent DEF ReadPage, MeetsInconsistent, GcType, Hang, Hangs
  <2>2. UNCHANGED <<map, cold, clean, frames>>
    BY <1>14 DEF ReadPage
  <2>3. Level' = Level
    BY <2>1, <2>2, LevelLemma DEF AtCopy
  <2>4. QED
    BY <1>11, <2>1, <2>2, <2>3
<1>15. CASE EndOfVictim
  <2>1. Reclaim(gc.victim) /\ pc = "collect" /\ pc' = "collect" /\ gc'.state = "idle"
        /\ UNCHANGED <<cold, frames>> /\ gc.state = "read"
    BY <1>0, <1>15 DEF EndOfVictim, Hang, Hangs, GcType
  <2>2. clean' = Append(clean, gc.victim) /\ gc.victim \in Blks
    BY <2>1, StopTypes DEF Reclaim
  <2>3. QED
    BY <2>1, <2>2, NestedReclaim
<1>16. CASE CopyWholePage \/ CopyChunk
  BY <1>16, CopyWholeNested, CopyChunkNested
<1>17. CASE CopyByChunk
  <2>1. pc = "collect" /\ pc' = "copy" /\ UNCHANGED <<map, cold, clean>> /\ gc.state = "write"
    BY <1>17 DEF CopyByChunk, Goto
  <2>2. gc'.state = gc.state /\ gc'.victim = gc.victim
    BY <1>0, <1>17 DEF CopyByChunk, GcType
  <2>3. PICK f : f = [kind |-> "copy", blk |-> gc.victim, page |-> gc.page, encoded |-> gc.encoded]
    OBVIOUS
  <2>4. frames' = Append(frames, f)
    BY <1>17, <2>3 DEF CopyByChunk, PushFrame
  <2>5. f \in FrameType
    <3>1. gc.victim \in Blks /\ gc.page \in Pages /\ gc.encoded \in BOOLEAN
      BY <2>1, SizeLemma DEF Running, TypeInv, GcOK, GcType, Pages
    <3>2. QED
      BY <2>3, <3>1 DEF FrameType
  <2>6. Level' = Level
    BY <2>1, <2>4, <2>5, LevelLemma DEF AtCopy
  <2>7. QED
    BY <1>11, <2>1, <2>2, <2>6
<1>18. CASE EndOfPage
  <2>1. pc = "copy" /\ pc' = "collect" /\ UNCHANGED <<map, cold, clean>> /\ PopFrame
    BY <1>18 DEF EndOfPage, Goto
  <2>2. (gc'.state = "idle") = (gc.state = "idle") /\ gc'.victim = gc.victim
    BY <1>0, <1>18 DEF EndOfPage, GcType
  <2>3. frames # <<>> /\ frames' = SubSeq(frames, 1, Len(frames) - 1)
    BY <2>1 DEF PopFrame, Running, Reserve
  <2>4. Level' = Level
    BY <2>1, <2>3, LevelLemma DEF AtCopy
  <2>5. QED
    BY <1>11, <2>1, <2>2, <2>4
<1>19. QED
  BY NextCases, <1>1, <1>3, <1>4, <1>5, <1>6, <1>7, <1>8, <1>9, <1>10, <1>12, <1>13, <1>14, <1>15, <1>16, <1>17, <1>18

\* An activation that waits for the cold log stands on a level whose places were paid.
Shallow(g) == (Len(frames) - 1) * g < SecondUsageInit

LEMMA NestedInit ==
    ASSUME NEW g \in 1..Rest(0), Init
    PROVE  Nested(g)
BY DEF Init, Nested, AtWork

LEMMA NestedStutters ==
    ASSUME Steady, Steady', NEW g \in 1..Rest(0), Nested(g), UNCHANGED vars
    PROVE  Nested(g)'
<1>1. UNCHANGED <<map, cold, clean, gc, pc, frames>>
  BY DEF vars
<1>2. CASE ~AtWork(pc)
  <2>1. gc'.state = "idle" /\ ~AtWork(pc')
    BY <1>1, <1>2 DEF Nested
  <2>2. QED
    BY <2>1, NestedRests
<1>3. CASE AtWork(pc)
  <2>1. Level' = Level
    BY <1>1 DEF Level
  <2>2. ColdNext' = ColdNext
    BY <1>1 DEF ColdNext
  <2>3. AtWork(pc')
    BY <1>1, <1>3
  <2>4. AtCold(pc') /\ gc.state # "idle" => frames' # <<>>
    BY <1>1 DEF Nested
  <2>5. QED
    BY <1>1, <1>3, <2>1, <2>2, <2>3, <2>4, LiveUnmoved, NestedSame DEF Steady
<1>4. QED
  BY <1>2, <1>3

LEMMA NestedShallow ==
    ASSUME Steady, NEW g \in 1..Rest(0), Nested(g)
    PROVE  Shallow(g)
<1>1. SecondUsageInit = Rest(0)
  BY RestLemma DEF SecondUsageInit
<1>2. Running("none")
  BY DEF Steady
<1>3. PICK n \in Nat, full \in Nat : n = Len(frames) /\ full = Rest(0)
  BY <1>2, NestTypes
<1>4. PICK k \in Nat, cost \in Int : k = g /\ k > 0 /\ cost = n * g /\ (n - 1) * g = cost - k
  BY <1>2, <1>3, NestTypes
<1>5. CASE AtWork(pc)
  <2>1. Level * g < full
    BY <1>3, <1>5 DEF Nested, Covered
  <2>2. Level = n \/ Level = n - 1
    BY <1>3 DEF Level
  <2>3. cost - k < full
    BY <1>3, <1>4, <2>1, <2>2
  <2>4. QED
    BY <1>1, <1>3, <1>4, <2>3 DEF Shallow
<1>6. CASE ~AtWork(pc)
  <2>1. pc \in {"idle", "flushHot", "advanceHot", "findHot"}
    BY <1>2, <1>6 DEF Running, TypeInv, ControlOK, Labels, AtWork, Steady, NeverHangs
  <2>2. frames = <<>>
    BY <1>2, <2>1 DEF Running, Reserve
  <2>3. n = 0
    BY <1>3, <2>2
  <2>4. cost = 0
    BY <1>2, <1>4, <2>3, NestTypes
  <2>5. QED
    BY <1>1, <1>3, <1>4, <2>4 DEF Shallow
<1>7. QED
  BY <1>5, <1>6

LEMMA NestedSteps ==
    ASSUME NEW g \in 1..Rest(0)
    PROVE  Steady /\ Steady' /\ VictimsLeave(g)' /\ Nested(g) /\ [Next]_vars => Nested(g)'
<1>. SUFFICES ASSUME Steady, Steady', VictimsLeave(g)', Nested(g), [Next]_vars PROVE Nested(g)'
  OBVIOUS
<1>1. CASE UNCHANGED vars
  BY <1>1, NestedStutters
<1>2. CASE Next
  <2>1. pc' \notin Hangs
    BY DEF Steady, NeverHangs
  <2>2. QED
    BY <1>2, <2>1, NestedStep DEF Steady
<1>3. QED
  BY <1>1, <1>2

\* The collector calls itself (garbage_collection.c copies through the cold log, whose next
\* block it may have to collect first).  If every victim leaves g of the places of a
\* block free, the calls are never as deep as the places of a block divided by g, and one
\* more: a level is entered with a full block spent and the last clean one, and each
\* victim pays for g places of the next.
THEOREM DepthCorrect ==
    ASSUME NEW g \in 1..SecondUsageInit
    PROVE  Spec /\ []VictimsLeave(g) => []Shallow(g)
<1>0. g \in 1..Rest(0)
  BY RestLemma DEF SecondUsageInit
<1>1. Init => Nested(g)
  BY <1>0, NestedInit
<1>2. Steady /\ Steady' /\ VictimsLeave(g)' /\ Nested(g) /\ [Next]_vars => Nested(g)'
  BY <1>0, NestedSteps
<1>3. Steady /\ Nested(g) => Shallow(g)
  BY <1>0, NestedShallow
<1>4. QED
  BY <1>1, <1>2, <1>3, SteadyAlways, PTL DEF Spec

----------------------------------------------------------------------------
(* The victim is the emptiest block there is.                              *)

Candidates == heap["second"].in \cup heap["cold"].in
Starts == gc.state = "idle" /\ gc'.state # "idle"

LEMMA RootLeast ==
    ASSUME Running("none"), gc.state = "idle", NEW h \in {"second", "cold"}, heap[h].in # {}
    PROVE  /\ RootCount(h) \in Int
           /\ \A d \in heap[h].in : RootCount(h) <= Live(d)
           /\ \A b \in Roots(h) : b \in heap[h].in /\ heap[h].value[b] = Live(b) /\ Live(b) = RootCount(h)
<1>1. \A d \in heap[h].in : heap[h].value[d] = Live(d) /\ Live(d) \in Nat
  BY LiveNat DEF Running, HeapCounts, Collecting, Counted
<1>3. ASSUME NEW b \in Roots(h), NEW d \in Roots(h) PROVE heap[h].value[b] = heap[h].value[d]
  <2>1. b \in heap[h].in /\ d \in heap[h].in /\ heap[h].value[b] <= heap[h].value[d]
        /\ heap[h].value[d] <= heap[h].value[b]
    BY DEF Roots
  <2>2. PICK x \in Nat, y \in Nat : x = heap[h].value[b] /\ y = heap[h].value[d]
    BY <1>1, <2>1
  <2>3. x = y
    BY <2>1, <2>2
  <2>4. QED
    BY <2>2, <2>3
<1>4. Roots(h) # {}
  <2>. DEFINE T == {heap[h].value[b] : b \in heap[h].in}
  <2>1. T \subseteq Nat /\ T # {}
    BY <1>1
  <2>2. PICK e \in heap[h].in : TRUE
    OBVIOUS
  <2>3. PICK n \in Nat : n = heap[h].value[e]
    BY <1>1
  <2>. DEFINE U == {x \in T : x <= n}
  <2>4. U \subseteq 0..n /\ U # {}
    BY <2>1, <2>2, <2>3
  <2>5. \E x \in U : \A y \in U : x <= y
    <3>. HIDE DEF U
    <3>1. QED
      BY <2>3, <2>4, LeastElement
  <2>6. PICK x \in U : \A y \in U : x <= y
    BY <2>5
  <2>7. \A y \in T : x <= y
    <3>1. x \in Nat /\ x <= n
      BY <2>1, <2>6
    <3>2. SUFFICES ASSUME NEW y \in T PROVE x <= y
      OBVIOUS
    <3>3. y \in Nat
      BY <2>1
    <3>4. CASE y <= n
      BY <2>6, <3>4
    <3>5. CASE ~(y <= n)
      BY <2>3, <3>1, <3>3, <3>5
    <3>6. QED
      BY <3>4, <3>5
  <2>8. PICK b \in heap[h].in : x = heap[h].value[b]
    BY <2>6
  <2>9. b \in Roots(h)
    BY <2>7, <2>8 DEF Roots
  <2>10. QED
    BY <2>9
<1>5. PICK r \in Roots(h) : r = CHOOSE b \in Roots(h) : TRUE
  BY <1>4
<1>6. RootCount(h) = heap[h].value[r] /\ r \in heap[h].in /\ RootCount(h) \in Int
  <2>1. r \in heap[h].in
    BY DEF Roots
  <2>2. RootCount(h) = heap[h].value[r]
    BY <1>5 DEF RootCount
  <2>3. QED
    BY <1>1, <2>1, <2>2
<1>7. \A d \in heap[h].in : RootCount(h) <= Live(d)
  BY <1>1, <1>6 DEF Roots
<1>8. \A b \in Roots(h) : b \in heap[h].in /\ heap[h].value[b] = Live(b) /\ Live(b) = RootCount(h)
  <2>1. SUFFICES ASSUME NEW b \in Roots(h)
                 PROVE  b \in heap[h].in /\ heap[h].value[b] = Live(b) /\ Live(b) = RootCount(h)
    OBVIOUS
  <2>2. b \in heap[h].in
    BY DEF Roots
  <2>3. heap[h].value[b] = heap[h].value[r]
    BY <1>3
  <2>4. QED
    BY <1>1, <1>6, <2>2, <2>3
<1>9. QED
  BY <1>6, <1>7, <1>8

\* What a step that starts a collection chooses.
LEMMA VictimChosen ==
    ASSUME Running("none"), CollectAgain, Starts
    PROVE  /\ pc = "while" /\ Len(clean) < 2 /\ map' = map /\ gc'.victim \in Candidates
           /\ gc'.fromHeap = Live(gc'.victim)
           /\ \A d \in Candidates : gc'.fromHeap <= Live(d)
<1>1. gc.state = "idle" /\ gc'.state # "idle"
  BY DEF Starts
<1>2. InitGC /\ pc = "while" /\ Len(clean) < 2 /\ map' = map
  BY <1>1 DEF CollectAgain, CleanBlksAfterGc
<1>3. PICK h : h = VictimHeap /\ h \in {"second", "cold"}
  BY DEF VictimHeap
<1>4. heap[h].in # {}
  BY <1>1, <1>2, <1>3 DEF InitGC
<1>5. PICK b \in Roots(h) : gc'.victim = b /\ gc'.fromHeap = heap[h].value[b]
  <2>0. gc \in GcType
    BY DEF Running, TypeInv, GcOK
  <2>1. PICK b \in Roots(h) :
          LET n == heap[h].value[b]
              started == [gc EXCEPT !.victim = b, !.fromHeap = n, !.inBlk = 0] IN
          IF n > 0 THEN gc' = [started EXCEPT !.state = "read", !.page = 0, !.encoded = FALSE]
          ELSE gc' = [started EXCEPT !.state = "idle"]
    BY <1>2, <1>3, <1>4 DEF InitGC
  <2>2. QED
    BY <1>1, <2>0, <2>1 DEF GcType
<1>6. /\ RootCount(h) \in Int
      /\ b \in heap[h].in /\ gc'.fromHeap = Live(b) /\ Live(b) = RootCount(h)
      /\ \A d \in heap[h].in : RootCount(h) <= Live(d)
  BY <1>1, <1>3, <1>4, <1>5, RootLeast
<1>7. ASSUME NEW o \in {"second", "cold"}, o # h, NEW d \in heap[o].in PROVE RootCount(h) <= Live(d)
  <2>1. RootCount(o) \in Int /\ RootCount(o) <= Live(d)
    BY <1>1, <1>7, RootLeast
  <2>2. PICK x \in Int, y \in Int, z \in Nat : x = RootCount(h) /\ y = RootCount(o) /\ z = Live(d)
    BY <1>6, <2>1, LiveNat
  <2>3. x <= y
    <3>0. heap[h].in # {} /\ heap[o].in # {}
      BY <1>4, <1>7
    <3>1. CASE h = "cold"
      BY <1>3, <1>7, <2>2, <3>0, <3>1 DEF VictimHeap
    <3>2. CASE h = "second"
      BY <1>3, <1>7, <2>2, <3>0, <3>2 DEF VictimHeap
    <3>3. QED
      BY <1>3, <3>1, <3>2
  <2>4. QED
    BY <2>1, <2>2, <2>3
<1>8. \A d \in Candidates : RootCount(h) <= Live(d)
  BY <1>3, <1>6, <1>7 DEF Candidates
<1>9. QED
  BY <1>2, <1>3, <1>5, <1>6, <1>8 DEF Candidates

\* Blocks with n chunks each have as many times n chunks.
LEMMA Crowd ==
    ASSUME NEW B, IsFiniteSet(B), NEW n \in Nat, \A b \in B : n <= Live(b)
    PROVE  Cardinality(B) * n <= Cardinality(Chunks)
<1>. DEFINE In(b) == {c \in Chunks : InBlk(map[c], b)}
            F == [b \in B |-> CHOOSE f : f \in Injection(1..n, In(b))]
            D == B \X (1..n)
            g == [x \in D |-> F[x[1]][x[2]]]
<1>1. ASSUME NEW b \in B PROVE F[b] \in Injection(1..n, In(b))
  <2>1. IsFiniteSet(In(b)) /\ Live(b) = Cardinality(In(b))
    BY LiveLemma DEF Live
  <2>2. PICK k \in Nat : k = Live(b) /\ \E f : f \in Bijection(1..k, In(b))
    BY <2>1, FS_CardinalityType DEF ExistsBijection
  <2>3. PICK f : f \in Bijection(1..k, In(b))
    BY <2>2
  <2>4. f \in Injection(1..k, In(b))
    BY <2>3 DEF Bijection
  <2>5. n <= k
    BY <2>2
  <2>6. \A i \in 1..n : i \in 1..k
    BY <2>2, <2>5
  <2>7. [i \in 1..n |-> f[i]] \in Injection(1..n, In(b))
    BY <2>4, <2>6 DEF Injection, IsInjective
  <2>8. QED
    BY <2>7
<1>2. g \in Injection(D, Chunks)
  <2>1. ASSUME NEW b \in B, NEW i \in 1..n
        PROVE  F[b][i] \in Chunks /\ InBlk(map[F[b][i]], b) /\ \A j \in 1..n : F[b][i] = F[b][j] => i = j
    <3>. HIDE DEF F
    <3>1. F[b] \in [1..n -> In(b)] /\ IsInjective(F[b]) /\ DOMAIN F[b] = 1..n
      BY <1>1 DEF Injection
    <3>2. F[b][i] \in In(b)
      BY <3>1
    <3>3. QED
      BY <3>1, <3>2 DEF IsInjective
  <2>2. \A x \in D : x[1] \in B /\ x[2] \in 1..n /\ x = <<x[1], x[2]>>
    OBVIOUS
  <2>. HIDE DEF F
  <2>3. \A x \in D : g[x] = F[x[1]][x[2]]
    OBVIOUS
  <2>4. g \in [D -> Chunks]
    BY <2>1, <2>2
  <2>5. ASSUME NEW x \in D, NEW y \in D, g[x] = g[y] PROVE x = y
    <3>1. PICK b \in B, i \in 1..n, d \in B, j \in 1..n :
            b = x[1] /\ i = x[2] /\ d = y[1] /\ j = y[2] /\ F[b][i] = F[d][j]
      BY <2>2, <2>3, <2>5
    <3>2. InBlk(map[F[b][i]], b) /\ InBlk(map[F[b][i]], d)
      BY <2>1, <3>1
    <3>3. b = d
      BY <3>2 DEF InBlk
    <3>4. i = j
      BY <2>1, <3>1, <3>3
    <3>5. QED
      BY <2>2, <3>1, <3>3, <3>4
  <2>. HIDE DEF g, D
  <2>6. IsInjective(g)
    BY <2>4, <2>5 DEF IsInjective
  <2>7. QED
    BY <2>4, <2>6 DEF Injection
<1>3. IsFiniteSet(1..n) /\ Cardinality(1..n) = n
  <2>1. IsFiniteSet(1..n) /\ Cardinality(1..n) = IF 1 > n THEN 0 ELSE n - 1 + 1
    BY FS_Interval
  <2>2. QED
    BY <2>1
<1>4. IsFiniteSet(D) /\ Cardinality(D) = Cardinality(B) * n
  BY <1>3, FS_Product
<1>. HIDE DEF g, D
<1>5. QED
  BY <1>2, <1>4, FS_Injection, ChunksAssumption

\* Only the loop around the collector starts a collection; afterwards the count it
\* started with only falls.
LEMMA StartsInLoop ==
    ASSUME Running("none"), Next, gc'.state # "idle"
    PROVE  IF gc.state = "idle" THEN CollectAgain
           ELSE gc'.fromHeap \in Int /\ gc'.fromHeap <= gc.fromHeap
<1>0. gc \in GcType /\ (gc.state # "idle" => gc.fromHeap \in Int)
  BY StopTypes
<1>1. ASSUME gc' = gc PROVE gc.state # "idle" /\ gc'.fromHeap \in Int /\ gc'.fromHeap <= gc.fromHeap
  BY <1>0, <1>1
<1>2. ASSUME NEW c \in Chunks, WriteHot(c) \/ WriteCold(c) \/ MoveAway(c)
      PROVE  gc.state # "idle" /\ gc'.fromHeap \in Int /\ gc'.fromHeap <= gc.fromHeap
  <2>1. gc' = GcWithoutOld(c)
    BY <1>2 DEF WriteHot, WriteCold, MoveAway
  <2>2. gc' = gc \/ (gc.state # "idle" /\ gc' = [gc EXCEPT !.fromHeap = @ - 1])
    BY <2>1 DEF GcWithoutOld
  <2>3. QED
    BY <1>0, <1>1, <2>2 DEF GcType
<1>3. CASE \/ FlushHot \/ FlushRecycled \/ FlushCold \/ AdvanceCold \/ FillCold \/ EnoughClean \/ GcIdle
  <2>1. gc' = gc
    BY <1>3 DEF FlushHot, FlushRecycled, FlushCold, AdvanceCold, FillCold, EnoughClean, GcIdle
  <2>2. QED
    BY <1>1, <2>1
<1>4. CASE AdvanceFirst \/ AdvanceToHigh \/ AdvanceToTestedLow \/ AdvanceToPage1 \/ SkipLow
           \/ FillFirst \/ FillSecond \/ UseCleanBlk
  <2>1. gc' = gc
    BY <1>4 DEF AdvanceFirst, AdvanceToHigh, AdvanceToTestedLow, AdvanceToPage1, SkipLow,
                FillFirst, FillSecond, UseCleanBlk
  <2>2. QED
    BY <1>1, <2>1
<1>5. ASSUME NEW f \in HotFirst, ReuseBlk(f) \/ UseLastCleanBlk(f)
      PROVE  gc.state # "idle" /\ gc'.fromHeap \in Int /\ gc'.fromHeap <= gc.fromHeap
  <2>1. gc' = gc
    BY <1>5 DEF ReuseBlk, UseLastCleanBlk
  <2>2. QED
    BY <1>1, <2>1
<1>6. CASE CollectAgain
  <2>1. gc.state # "idle" => gc' = gc
    BY <1>6 DEF CollectAgain
  <2>2. QED
    BY <1>1, <1>6, <2>1
<1>7. CASE ReadPage \/ CopyByChunk
  <2>1. gc.state # "idle" /\ gc'.fromHeap = gc.fromHeap
    BY <1>0, <1>7 DEF ReadPage, CopyByChunk, GcType
  <2>2. QED
    BY <1>0, <2>1
<1>8. CASE CopyWholePage
  <2>1. gc.state # "idle" /\ gc'.fromHeap = gc.fromHeap
    BY <1>0, <1>8 DEF CopyWholePage, GcType
  <2>2. QED
    BY <1>0, <2>1
<1>9. CASE EndOfVictim
  <2>1. gc.state # "idle" /\ gc'.fromHeap = gc.fromHeap
    BY <1>0, <1>9 DEF EndOfVictim, GcType
  <2>2. QED
    BY <1>0, <2>1
<1>10. CASE CopyChunk
  <2>1. gc.state # "idle" /\ gc'.fromHeap = gc.fromHeap
    BY <1>10, CopyChunkEffect
  <2>2. QED
    BY <1>0, <2>1
<1>11. CASE EndOfPage
  <2>1. gc'.state = gc.state \/ gc.state = "write"
    BY <1>0, <1>11 DEF EndOfPage, GcType
  <2>2. gc'.fromHeap = gc.fromHeap
    BY <1>0, <1>11 DEF EndOfPage, GcType
  <2>3. QED
    BY <1>0, <2>1, <2>2
<1>12. QED
  BY NextCases, <1>2, <1>3, <1>4, <1>5, <1>6, <1>7, <1>8, <1>9, <1>10, <1>11

\* The victim has the fewest valid chunks of all the full blocks (initGC, the roots of two
\* heaps), counted in the map and not only in the heaps, and the collector is told how
\* many: with half-written blocks, encoded pages and overwrites in between.
LeastVictim == gc'.fromHeap = Live(gc'.victim) /\ \A d \in Candidates : Live(gc'.victim) <= Live(d)
THEOREM VictimLeast == Spec => [][Starts => LeastVictim]_vars
<1>1. Steady /\ [Next]_vars => [Starts => LeastVictim]_vars
  <2>1. SUFFICES ASSUME Steady, Next, Starts PROVE LeastVictim
    BY DEF Starts, vars
  <2>2. CollectAgain
    BY <2>1, StartsInLoop DEF Steady, Starts
  <2>3. QED
    BY <2>1, <2>2, VictimChosen DEF Steady, LeastVictim
<1>2. QED
  BY <1>1, SteadyAlways, PTL DEF Spec

\* When the loop collects, at most half blocks are half written.
HalfWritten(half) == pc = "while" => Cardinality(heap["first"].in) <= half

LEMMA FullVictims ==
    ASSUME Steady, NEW g \in 1..SecondUsageInit, NEW half \in 0..(NumBlks - 4),
           Cardinality(Chunks) < (NumBlks - 3 - half) * (SecondUsageInit - g + 1),
           HalfWritten(half), CollectAgain, Starts
    PROVE  gc'.fromHeap <= SecondUsageInit - g
<1>1. Running("none")
  BY DEF Steady
<1>2. /\ pc = "while" /\ Len(clean) < 2 /\ gc'.victim \in Candidates
      /\ gc'.fromHeap = Live(gc'.victim) /\ \A d \in Candidates : gc'.fromHeap <= Live(d)
  BY <1>1, VictimChosen
<1>3. PICK n \in Nat : n = gc'.fromHeap
  BY <1>2, LiveNat
<1>4. PICK full \in Nat, m \in Nat : full = SecondUsageInit /\ m = full - g + 1
  <2>1. SecondUsageInit \in Int
    BY SumsLemma
  <2>2. QED
    BY <2>1
<1>5. SUFFICES ASSUME m <= n PROVE FALSE
  BY <1>3, <1>4
<1>6. IsFiniteSet(Candidates)
  <2>1. Candidates \subseteq Blks
    BY <1>1 DEF Candidates, Running, TypeInv, HeapOK, Heaps
  <2>2. IsFiniteSet(0..(NumBlks - 1))
    BY SizeLemma, FS_Interval
  <2>3. QED
    BY <2>1, <2>2, FS_Subset DEF Blks
<1>7. \A b \in Candidates : m <= Live(b)
  BY <1>2, <1>3, <1>4, <1>5, LiveNat
<1>8. Cardinality(Candidates) * m <= Cardinality(Chunks)
  BY <1>6, <1>7, Crowd
<1>9. PICK cands \in Nat, first \in Nat, l \in Nat :
        /\ cands = Cardinality(Candidates) /\ first = Cardinality(heap["first"].in) /\ l = Len(clean)
        /\ l + first + cands + 2 = NumBlks
  BY <1>1, <1>2, BlkCount, StopTypes DEF Candidates
<1>10. first <= half /\ l < 2
  BY <1>2, <1>9 DEF HalfWritten
<1>11. PICK e \in Nat, k \in Nat : k = NumBlks - 3 - half /\ cands = k + e
  <2>1. NumBlks - 3 - half \in Nat /\ cands - (NumBlks - 3 - half) \in Nat
    <3>1. \A ll, ff, cc, bb, hh \in Nat :
            ll + ff + cc + 2 = bb /\ ff <= hh /\ ll < 2 /\ hh <= bb - 4
              => bb - 3 - hh \in Nat /\ cc - (bb - 3 - hh) \in Nat
      OBVIOUS
    <3>2. NumBlks \in Nat /\ half \in Nat /\ half <= NumBlks - 4
      BY SizeLemma
    <3>3. l + first + cands + 2 = NumBlks
      BY <1>9
    <3>4. first <= half /\ l < 2
      BY <1>10
    <3>5. QED
      BY <3>1, <3>2, <3>3, <3>4, Zenon
  <2>2. cands = (NumBlks - 3 - half) + (cands - (NumBlks - 3 - half))
    BY <1>9, <2>1
  <2>3. QED
    BY <2>1, <2>2
<1>12. (k + e) * m = k * m + e * m /\ e * m \in Nat /\ k * m \in Nat
  <2>1. \A x, y, z \in Nat : (x + y) * z = x * z + y * z /\ y * z \in Nat /\ x * z \in Nat
    OBVIOUS
  <2>2. k \in Nat /\ e \in Nat /\ m \in Nat
    OBVIOUS
  <2>3. QED
    BY <2>1, <2>2
<1>13. k * m <= Cardinality(Chunks)
  <2>1. Cardinality(Chunks) \in Nat
    BY ChunksAssumption, FS_CardinalityType
  <2>2. (k + e) * m <= Cardinality(Chunks)
    BY <1>8, <1>9, <1>11
  <2>3. QED
    BY <1>12, <2>1, <2>2
<1>14. Cardinality(Chunks) < k * m
  BY <1>4, <1>11
<1>15. QED
  BY <1>12, <1>13, <1>14, ChunksAssumption, FS_CardinalityType

LEMMA VictimsByFill ==
    ASSUME NEW g \in 1..SecondUsageInit, NEW half \in 0..(NumBlks - 4),
           Cardinality(Chunks) < (NumBlks - 3 - half) * (SecondUsageInit - g + 1)
    PROVE  Spec /\ []HalfWritten(half) => []VictimsLeave(g)
<1>1. Init => VictimsLeave(g)
  BY DEF Init, VictimsLeave
<1>2. Steady /\ HalfWritten(half) /\ VictimsLeave(g) /\ [Next]_vars => VictimsLeave(g)'
  <2>1. SUFFICES ASSUME Steady, HalfWritten(half), VictimsLeave(g), [Next]_vars, gc'.state # "idle"
                 PROVE  gc'.fromHeap <= SecondUsageInit - g
    BY DEF VictimsLeave
  <2>2. CASE UNCHANGED vars
    BY <2>1, <2>2 DEF vars, VictimsLeave
  <2>3. CASE Next /\ gc.state = "idle"
    <3>1. CollectAgain
      BY <2>1, <2>3, StartsInLoop DEF Steady
    <3>2. QED
      BY <2>1, <2>3, <3>1, FullVictims DEF Starts
  <2>4. CASE Next /\ gc.state # "idle"
    <3>1. gc'.fromHeap <= gc.fromHeap
      BY <2>1, <2>4, StartsInLoop DEF Steady
    <3>2. gc.fromHeap \in Int /\ SecondUsageInit \in Int
      BY <2>1, <2>4, StopTypes, SumsLemma DEF Steady
    <3>3. gc.fromHeap <= SecondUsageInit - g
      BY <2>1, <2>4 DEF VictimsLeave
    <3>4. gc'.fromHeap \in Int
      BY <2>1, <2>4, StartsInLoop DEF Steady
    <3>5. QED
      BY <3>1, <3>2, <3>3, <3>4
  <2>5. QED
    BY <2>1, <2>2, <2>3, <2>4
<1>3. QED
  BY <1>1, <1>2, SteadyAlways, PTL DEF Spec

\* The depth in terms of what the host stores: if the full blocks cannot all hold more
\* than the places of a block less g, no victim does, and the calls are as shallow as g
\* makes them.
THEOREM DepthByFill ==
    ASSUME NEW g \in 1..SecondUsageInit, NEW half \in 0..(NumBlks - 4),
           Cardinality(Chunks) < (NumBlks - 3 - half) * (SecondUsageInit - g + 1)
    PROVE  Spec /\ []HalfWritten(half) => []Shallow(g)
<1>1. Spec /\ []HalfWritten(half) => []VictimsLeave(g)
  BY VictimsByFill
<1>2. Spec /\ []VictimsLeave(g) => []Shallow(g)
  BY DepthCorrect
<1>3. QED
  BY <1>1, <1>2, PTL

\* Two activations, the bound the model-checked bank has, if every victim is at least half
\* empty ...
THEOREM NestingCorrect ==
    ASSUME NEW g \in 1..SecondUsageInit, SecondUsageInit <= 2 * g
    PROVE  Spec /\ []VictimsLeave(g) => []NestingBounded
<1>1. Steady /\ Shallow(g) => NestingBounded
  <2>1. SUFFICES ASSUME Steady, Shallow(g) PROVE Len(frames) <= 2
    BY DEF NestingBounded
  <2>2. PICK n \in Nat, full \in Nat, k \in Nat : n = Len(frames) /\ full = SecondUsageInit /\ k = g
    <3>1. frames \in Seq(FrameType)
      BY <2>1 DEF Steady, Running, TypeInv, ControlOK
    <3>2. SecondUsageInit \in Int
      BY SumsLemma
    <3>3. QED
      BY <3>1, <3>2
  <2>3. (n - 1) * k < full /\ full <= 2 * k
    BY <2>1, <2>2 DEF Shallow
  <2>4. SUFFICES ASSUME n >= 3 PROVE FALSE
    BY <2>2
  <2>5. PICK x \in Nat : n - 1 = x + 2
    BY <2>4
  <2>6. (x + 2) * k = x * k + 2 * k /\ x * k \in Nat
    BY <2>2
  <2>7. QED
    BY <2>2, <2>3, <2>5, <2>6
<1>2. Spec /\ []VictimsLeave(g) => []Shallow(g)
  BY DepthCorrect
<1>3. QED
  BY <1>1, <1>2, SteadyAlways, PTL

\* ... and whatever the host does, if its chunks fill half a block.
THEOREM NestingOfFewChunks ==
    2 * Cardinality(Chunks) <= SecondUsageInit => (Spec => []NestingBounded)
<1>. SUFFICES ASSUME 2 * Cardinality(Chunks) <= SecondUsageInit PROVE Spec => []NestingBounded
  OBVIOUS
<1>1. PICK full \in Nat, chunks \in Nat :
        full = SecondUsageInit /\ full > 0 /\ chunks = Cardinality(Chunks) /\ 2 * chunks <= full
  <2>1. Cardinality(Chunks) \in Nat
    BY ChunksAssumption, FS_CardinalityType
  <2>2. SecondUsageInit \in Nat /\ SecondUsageInit > 0
    <3>1. PICK x \in Nat : P - 1 = x + 1
      <4>1. P - 2 \in Nat /\ P - 1 = (P - 2) + 1
        BY SizeLemma
      <4>2. QED
        BY <4>1
    <3>2. (x + 1) * S = x * S + S /\ x * S \in Nat /\ S \in Nat /\ S > 0
      BY <3>1, SizeLemma
    <3>3. QED
      BY <3>1, <3>2 DEF SecondUsageInit
  <2>3. QED
    BY <2>1, <2>2
<1>2. PICK g : g = full - chunks /\ g \in 1..SecondUsageInit /\ SecondUsageInit <= 2 * g
  BY <1>1
<1>3. PICK half \in 0..(NumBlks - 4) : half = NumBlks - 4 /\ NumBlks - 3 - half = 1
  BY SizeLemma
<1>4. Cardinality(Chunks) < (NumBlks - 3 - half) * (SecondUsageInit - g + 1)
  BY <1>1, <1>2, <1>3
<1>5. Spec /\ []HalfWritten(half) => []VictimsLeave(g)
  BY <1>2, <1>4, VictimsByFill
<1>6. Steady => HalfWritten(half)
  BY <1>3 DEF Steady, StopInv, FirstUse, HalfWritten
<1>7. Spec /\ []VictimsLeave(g) => []NestingBounded
  BY <1>2, NestingCorrect
<1>8. QED
  BY <1>5, <1>6, <1>7, SteadyAlways, PTL
----------------------------------------------------------------------------
(* The trims of the host.                                                  *)

\* After a trim of a chunk in flash everything above holds as before; after one of
\* a chunk in the hot buffer all but what trims = "none" adds.
TrimsAs(trims, c) == Trim(c) /\ (trims = "none" => map[c].at = "FlashWLog")

LEMMA TrimHotBuf ==
    ASSUME NEW trims, Running(trims), NEW c \in Chunks, TrimsAs(trims, c)
    PROVE  HotBuf(trims)'
<1>. USE DEF Running, Places
<1>1. /\ pc = "idle" /\ pc' = "idle" /\ map' = [map EXCEPT ![c] = Invalid]
      /\ hot'.ptr = hot.ptr /\ hot'.recycled = hot.recycled /\ hot'.allValid = hot.allValid
  BY TrimEffect, TrimKeeps DEF TrimsAs
<1>2. map'[c] = Invalid /\ \A d \in Chunks \ {c} : map'[d] = map[d]
  BY <1>1 DEF TypeInv, MapOK
<1>3. CASE hot' = hot /\ map[c].at = "FlashWLog"
  <2>1. map[c].at # "DRAMHotLog" /\ map'[c].at # "DRAMHotLog"
    BY <1>2, <1>3 DEF Invalid
  <2>2. QED
    BY <1>1, <1>2, <1>3, <2>1, HotBufKept
<1>4. CASE /\ map[c].at = "DRAMHotLog" /\ map[c].slot \in Slots
           /\ hot' = [hot EXCEPT !.chunk[map[c].slot] = None]
  <2>1. PICK s \in Slots : s = map[c].slot
    BY <1>4
  <2>2. map[c] = DRAMHotLog(s)
    BY <1>4, <2>1, MapTypes, PartsLemma
  <2>3. /\ hot'.chunk[s] = None /\ \A t \in Slots \ {s} : hot'.chunk[t] = hot.chunk[t]
    <3>1. hot' = [hot EXCEPT !.chunk[s] = None]
      BY <1>4, <2>1
    <3>2. hot \in LogType
      BY DEF TypeInv, HotOK
    <3>3. QED
      BY <3>1, <3>2 DEF LogType
  <2>4. HotFilled' = HotFilled /\ Width' = Width
    BY <1>1 DEF HotFilled, Width
  <2>5. trims # "none"
    BY <1>4 DEF TrimsAs
  <2>6. ASSUME NEW d \in Chunks, NEW t \in Slots
        PROVE  map'[d] = DRAMHotLog(t) <=> t \in HotFilled' /\ hot'.chunk[t] = d
    <3>1. map[d] = DRAMHotLog(t) <=> t \in HotFilled /\ hot.chunk[t] = d
      BY DEF HotBuf
    <3>2. d # None
      BY SizeLemma
    <3>3. CASE t = s
      <4>1. map'[d] # DRAMHotLog(t)
        BY <1>2, <2>2, <3>3, DramLemma DEF NoSharedPlace
      <4>2. QED
        BY <2>3, <3>2, <3>3, <4>1
    <3>4. CASE t # s
      <4>1. d = c => map[d] # DRAMHotLog(t) /\ map'[d] # DRAMHotLog(t)
        BY <1>2, <2>2, <3>4, DramLemma
      <4>2. hot'.chunk[t] = hot.chunk[t]
        BY <2>3, <3>4
      <4>3. QED
        BY <1>2, <2>4, <3>1, <4>1, <4>2
    <3>5. QED
      BY <3>3, <3>4
  <2>7. hot'.ptr < Width' /\ (pc' \in {"flushHot", "advanceHot", "findHot"} => hot'.ptr = 0)
    BY <1>1, <2>4 DEF HotBuf
  <2>8. QED
    BY <2>5, <2>6, <2>7 DEF HotBuf
<1>5. QED
  BY <1>3, <1>4, TrimEffect DEF TrimsAs

LEMMA TrimPlaces ==
    ASSUME NEW trims, Running(trims), NEW c \in Chunks, TrimsAs(trims, c)
    PROVE  Places(trims)'
<1>. USE DEF Running, Places
<1>1. /\ pc = "idle" /\ pc' = "idle" /\ map' = [map EXCEPT ![c] = Invalid]
      /\ UNCHANGED <<cold, gc, lists, frames>>
      /\ hot'.page = hot.page /\ hot'.second = hot.second /\ hot'.recycled = hot.recycled
      /\ hot'.list = hot.list /\ hot'.nextLow = hot.nextLow
  BY TrimEffect, TrimKeeps DEF TrimsAs
<1>2. map'[c] = Invalid /\ \A d \in Chunks \ {c} : map'[d] = map[d]
  BY <1>1 DEF TypeInv, MapOK
<1>3. ~InFlash(Invalid) /\ \A d \in Chunks : map'[d] = map[d] \/ ~InFlash(map'[d])
  BY <1>2, DramLemma
<1>4. NewestData' /\ NoSharedPlace'
  <2>1. \A d \in Chunks \ {c} : latest'[d] = latest[d]
    BY DEF TrimsAs, Trim, TypeInv
  <2>2. NewestData'
    BY <1>2, <2>1 DEF NewestData
  <2>3. NoSharedPlace'
    BY <1>2 DEF NoSharedPlace
  <2>4. QED
    BY <2>2, <2>3
<1>5. Uniform' /\ HotPos' /\ HotBuf(trims)'
  BY <1>1, UniformKept, HotPosKept, TrimHotBuf
<1>6. ColdBuf'
  <2>1. map[c].at # "DRAMColdLog" /\ map'[c].at # "DRAMColdLog"
    BY <1>2, TrimEffect DEF TrimsAs, Invalid
  <2>2. QED
    BY <1>1, <1>2, <2>1, ColdBufKept
<1>7. Stored'
  <2>1. \A p \in Pages : (HotDone(p) => HotDone(p)') /\ (ColdDone(p) => ColdDone(p)')
    BY <1>1 DEF HotDone, ColdDone
  <2>2. KeepsRoles
    BY TrimKeeps DEF TrimsAs
  <2>3. QED
    BY <1>1, <1>3, <2>1, <2>2, AllStoredKept
<1>8. TopMatches' /\ PageRead'
  BY <1>1, PageReadKept DEF TopMatches
<1>9. Ahead'
  <2>1. \A d \in Chunks : map'[d] = map[d] \/ ~InBlk(map'[d], gc.victim)
    BY <1>3 DEF InBlk
  <2>2. QED
    BY <1>1, <2>1, AheadKept
<1>10. QED
  BY <1>4, <1>5, <1>6, <1>7, <1>8, <1>9

LEMMA TrimCounts ==
    ASSUME NEW trims, Running(trims), TypeInv', NEW c \in Chunks, TrimsAs(trims, c)
    PROVE  HeapCounts(trims)' /\ LogCounts(trims)'
<1>. USE DEF Running
<1>1. KeepsRoles /\ Stored'
  BY TrimKeeps, TrimPlaces DEF TrimsAs, Places
<1>2. /\ pc = "idle" /\ pc' = "idle" /\ map' = [map EXCEPT ![c] = Invalid] /\ gc' = gc
      /\ hot'.page = hot.page /\ hot'.nextLow = hot.nextLow /\ hot'.second = hot.second
      /\ cold'.page = cold.page
  BY TrimEffect, TrimKeeps DEF TrimsAs
<1>3. heap' = HeapWithoutOld(c) /\ ~InFlash(Invalid)
  <2>1. ~InFlash(Invalid)
    BY DramLemma
  <2>2. QED
    BY <2>1, TrimEffect DEF TrimsAs, HeapWithoutOld, InFlash
<1>4. \A b \in Blks, h \in Heaps : Off(h, b)' = Off(h, b)
  BY <1>2, <1>3, WriteOff
<1>5. hot.blk \in Blks /\ cold.blk \in Blks /\ "first" \in Heaps /\ "second" \in Heaps /\ "cold" \in Heaps
      /\ hot'.blk = hot.blk /\ cold'.blk = cold.blk
  BY <1>1, LogFields DEF TypeInv, HotOK, ColdOK, Heaps, KeepsRoles
<1>6. HighLeft' = HighLeft /\ LowLeft' = LowLeft /\ FirstLeft' = FirstLeft /\ ColdLeft' = ColdLeft
  BY <1>2, LeftSame
<1>7. HotOff(trims)' /\ ColdOff'
  <2>1. HotOff(trims) /\ ColdOff
    BY OffsNow DEF LogOff
  <2>2. QED
    BY <1>2, <1>4, <1>5, <1>6, <2>1 DEF HotOff, ColdOff
<1>8. QED
  BY <1>1, <1>2, <1>4, <1>7, CountsKept

LEMMA TrimData ==
    ASSUME NEW trims, TypeInv,
           RoleInv, Reserve, DataInv(trims), TypeInv', NEW c \in Chunks, TrimsAs(trims, c)
    PROVE  DataInv(trims)'
<1>1. pc = "idle" /\ "idle" \notin Hangs
  BY LabelsLemma DEF TrimsAs, Trim
<1>2. Running(trims)
  BY <1>1 DEF Running, RoleInv, DataInv, Inner, Places
<1>3. Places(trims)' /\ HeapCounts(trims)' /\ LogCounts(trims)'
  BY <1>2, TrimPlaces, TrimCounts
<1>4. QED
  BY <1>3 DEF DataInv, Inner, Places

LEMMA TrimmedAlways == TrimSpec => [](Intact => TypeInv /\ DataInv("some"))
<1>1. Init => DataInv("some")
  BY DataInit
<1>2. Structure /\ DataInv("some") /\ [Next]_vars => DataInv("some")'
  BY DataStep DEF Structure
<1>3. Structure /\ Structure' /\ DataInv("some") /\ (\E c \in Chunks : Trim(c)) => DataInv("some")'
  <2>1. SUFFICES ASSUME Structure, Structure', DataInv("some"), NEW c \in Chunks, Trim(c)
                 PROVE  DataInv("some")'
    OBVIOUS
  <2>2. TrimsAs("some", c)
    BY <2>1 DEF TrimsAs
  <2>3. QED
    BY <2>1, <2>2, TrimData DEF Structure
<1>4. Structure /\ Structure' /\ DataInv("some") /\ [BankNext]_vars => DataInv("some")'
  BY <1>2, <1>3 DEF BankNext
<1>5. /\ Intact => Structure /\ DataInv("some")
      /\ Intact' => Structure'
      /\ [TrimNext]_<<vars, astray>>
      => (Intact' => DataInv("some")')
  BY <1>4, IntactStep
<1>6. Structure => TypeInv
  BY DEF Structure
<1>7. QED
  BY <1>1, <1>5, <1>6, StructureTrimmed, PTL DEF TrimSpec

\* Read your writes with trims: whatever chunks the host gives up between its writes,
\* in flash or still in the hot buffer, the map leads to the last data of every chunk
\* it kept, and no two chunks share an address, until a flush stores over the entry of one
\* of the bank's blocks in LOG_BMT (write.c:78, 169): then the last bank reads, programs
\* and erases other blocks, and what they hold is lost.  The other banks have no entry
\* there (TableKept); in them a trim loses no data.
THEOREM DataUnderTrims == TrimSpec => [](Intact => NewestData /\ NoSharedPlace)
<1>1. DataInv("some") => NewestData /\ NoSharedPlace
  BY DEF DataInv
<1>2. QED
  BY <1>1, TrimmedAlways, PTL

\* With trims a heap may count more than the map knows, never less: the block that
\* initGC erases at once, because its count is not above 0, has no valid chunk.
CountsEnough ==
    /\ \A h \in {"second", "cold"} : \A b \in heap[h].in :
          Collecting(b) \/ heap[h].value[b] >= Live(b)
    /\ \A b \in heap["first"].in : heap["first"].value[b] >= HighPages * S + Live(b)
\* It holds as long as the blocks of the bank are those of the table.
THEOREM CountsUnderTrims == TrimSpec => [](Intact => CountsEnough)
<1>1. DataInv("some") => CountsEnough
  BY DEF DataInv, HeapCounts, Counted, CountsEnough
<1>2. QED
  BY <1>1, TrimmedAlways, PTL

----------------------------------------------------------------------------
(* Trims of chunks in flash only.                                          *)

FlashTrim(c) == Trim(c) /\ map[c].at = "FlashWLog"
FlashTrimNext == Next \/ \E c \in Chunks : FlashTrim(c)
FlashTrimSpec == Init /\ [][FlashTrimNext]_vars

\* The collector has a victim only while clean blocks are short.
ShortOfBlks == gc.state # "idle" => Len(clean) < 2

LEMMA TailShorter ==
    ASSUME TypeInv, clean # <<>>, clean' = Tail(clean), Len(clean) < 2
    PROVE  Len(clean') < 2
BY DEF TypeInv, CleanOK

LEMMA ShortStep == TypeInv /\ ShortOfBlks /\ [Next]_vars => ShortOfBlks'
<1>. SUFFICES ASSUME TypeInv, ShortOfBlks, [Next]_vars PROVE ShortOfBlks'
  OBVIOUS
<1>0. gc \in GcType /\ CleanOK
  BY DEF TypeInv, GcOK
<1>1. CASE clean' = clean /\ (gc'.state # "idle" => gc.state # "idle")
  BY <1>1 DEF ShortOfBlks
<1>2. CASE clean # <<>> /\ clean' = Tail(clean) /\ gc'.state = gc.state
  <2>1. gc'.state # "idle" => Len(clean) < 2
    BY <1>2 DEF ShortOfBlks
  <2>2. QED
    BY <1>2, <2>1, TailShorter DEF ShortOfBlks
<1>3. CASE gc'.state = "idle" \/ (clean' = clean /\ Len(clean) < 2)
  BY <1>3 DEF ShortOfBlks
<1>4. CASE UNCHANGED vars
  BY <1>1, <1>4 DEF vars
<1>5. ASSUME NEW c \in Chunks, WriteHot(c) \/ WriteCold(c) \/ MoveAway(c) PROVE ShortOfBlks'
  <2>1. gc' = GcWithoutOld(c) /\ clean' = clean
    BY <1>5 DEF WriteHot, WriteCold, MoveAway
  <2>2. gc'.state = gc.state
    BY <2>1, WithoutOldType
  <2>3. QED
    BY <1>1, <2>1, <2>2
<1>6. CASE FlushHot \/ FlushCold \/ FlushRecycled \/ AdvanceFirst \/ FillFirst
           \/ AdvanceToHigh \/ AdvanceToTestedLow \/ AdvanceToPage1 \/ SkipLow \/ FillSecond
           \/ AdvanceCold \/ EnoughClean \/ GcIdle \/ CopyByChunk
  <2>1. CASE FlushHot \/ FlushCold \/ FlushRecycled
    BY <1>1, <2>1 DEF FlushHot, FlushCold, FlushRecycled
  <2>2. CASE AdvanceFirst \/ FillFirst \/ AdvanceToHigh \/ AdvanceToTestedLow \/ AdvanceToPage1 \/ SkipLow
             \/ FillSecond
    BY <1>1, <2>2 DEF AdvanceFirst, FillFirst, AdvanceToHigh, AdvanceToTestedLow, AdvanceToPage1, SkipLow,
                      FillSecond
  <2>3. CASE AdvanceCold \/ EnoughClean \/ GcIdle
    BY <1>1, <2>3 DEF AdvanceCold, EnoughClean, GcIdle
  <2>4. CASE CopyByChunk
    BY <1>0, <1>1, <2>4 DEF CopyByChunk, GcType
  <2>5. QED
    BY <1>6, <2>1, <2>2, <2>3, <2>4
<1>7. CASE UseCleanBlk
  <2>1. clean # <<>>
    BY <1>0, <1>7 DEF UseCleanBlk, CleanOK
  <2>2. QED
    BY <1>2, <1>7, <2>1 DEF UseCleanBlk
<1>8. ASSUME NEW hotFirst \in HotFirst, ReuseBlk(hotFirst) \/ UseLastCleanBlk(hotFirst) PROVE ShortOfBlks'
  <2>1. CASE ReuseBlk(hotFirst)
    BY <1>1, <2>1 DEF ReuseBlk
  <2>2. CASE UseLastCleanBlk(hotFirst)
    BY <1>1, <1>2, <2>2 DEF UseLastCleanBlk
  <2>3. QED
    BY <1>8, <2>1, <2>2
<1>9. CASE FillCold
  BY <1>1, <1>2, <1>9 DEF FillCold
<1>10. CASE CollectAgain
  <2>1. Len(clean) < 2
    BY <1>10 DEF CollectAgain, CleanBlksAfterGc
  <2>2. QED
    BY <1>1, <1>3, <1>10, <2>1, CollectAgainEffect
<1>11. CASE ReadPage \/ CopyChunk \/ EndOfPage \/ CopyWholePage
  <2>1. CASE ReadPage
    BY <1>0, <1>1, <2>1 DEF ReadPage, GcType
  <2>2. CASE CopyChunk
    BY <1>0, <1>1, <2>2 DEF CopyChunk, GcType
  <2>3. CASE EndOfPage
    BY <1>0, <1>1, <2>3 DEF EndOfPage, GcType
  <2>4. CASE CopyWholePage
    BY <1>0, <1>1, <2>4 DEF CopyWholePage, GcType
  <2>5. QED
    BY <1>11, <2>1, <2>2, <2>3, <2>4
<1>12. CASE EndOfVictim
  BY <1>0, <1>1, <1>3, <1>12 DEF EndOfVictim, GcType
<1>13. QED
  BY <1>4, <1>5, <1>6, <1>7, <1>8, <1>9, <1>10, <1>11, <1>12, NextCases

LEMMA FlashTrimStep ==
    ASSUME TypeInv, Reserve, ShortOfBlks, StopInv("none"), NEW c \in Chunks, FlashTrim(c)
    PROVE  ShortOfBlks' /\ StopInv("none")' /\ NeverHangs'
<1>1. /\ pc = "idle" /\ pc' = "idle" /\ clean' = clean /\ gc' = gc
      /\ hot'.recycled = hot.recycled /\ hot'.nextLow = hot.nextLow /\ hot'.page = hot.page
      /\ heap'["first"].in = heap["first"].in
  BY TrimEffect, TrimKeeps DEF FlashTrim, Heaps
<1>2. gc.state = "idle"
  BY <1>1 DEF Reserve, ShortOfBlks
<1>3. Encoding' /\ FirstUse' /\ Found' /\ ShortOfBlks'
  BY <1>1, <1>2 DEF StopInv, Encoding, FirstUse, Found, ShortOfBlks
<1>4. Fits' /\ NeverHangs'
  BY <1>1, LabelsLemma, FitsElsewhere DEF AtWork, NeverHangs
<1>5. QED
  BY <1>3, <1>4 DEF StopInv

LEMMA FlashTrimmedAlways == FlashTrimSpec => [](TypeInv /\ DataInv("none") /\ NeverHangs)
<1>1. FlashTrimSpec => []Structure
  <2>1. [FlashTrimNext]_vars => [BankNext]_vars
    BY DEF FlashTrimNext, BankNext, FlashTrim
  <2>2. QED
    BY <2>1, StructureAlways, PTL DEF FlashTrimSpec, BankSpec
<1>2. Init => DataInv("none") /\ StopInv("none") /\ NeverHangs /\ ShortOfBlks
  <2>1. Init => ShortOfBlks
    BY DEF Init, ShortOfBlks
  <2>2. QED
    BY <2>1, DataInit, StopInit
<1>3. Structure /\ DataInv("none") /\ [Next]_vars => DataInv("none")'
  BY DataStep DEF Structure
<1>4. Structure /\ Structure' /\ DataInv("none") /\ (\E c \in Chunks : FlashTrim(c)) => DataInv("none")'
  <2>1. SUFFICES ASSUME Structure, Structure', DataInv("none"), NEW c \in Chunks, FlashTrim(c)
                 PROVE  DataInv("none")'
    OBVIOUS
  <2>2. TrimsAs("none", c)
    BY <2>1 DEF TrimsAs, FlashTrim
  <2>3. QED
    BY <2>1, <2>2, TrimData DEF Structure
<1>5. /\ Structure /\ DataInv("none") /\ StopInv("none") /\ NeverHangs
      /\ Structure' /\ DataInv("none")' /\ [Next]_vars
      => StopInv("none")' /\ NeverHangs'
  BY StopStep DEF Structure
<1>6. Structure /\ ShortOfBlks /\ [Next]_vars => ShortOfBlks'
  BY ShortStep DEF Structure
<1>7. Structure /\ ShortOfBlks /\ StopInv("none") /\ (\E c \in Chunks : FlashTrim(c))
         => ShortOfBlks' /\ StopInv("none")' /\ NeverHangs'
  BY FlashTrimStep DEF Structure
<1>8. /\ Structure /\ DataInv("none") /\ StopInv("none") /\ NeverHangs /\ ShortOfBlks
      /\ Structure' /\ [FlashTrimNext]_vars
      => DataInv("none")' /\ StopInv("none")' /\ NeverHangs' /\ ShortOfBlks'
  BY <1>3, <1>4, <1>5, <1>6, <1>7 DEF FlashTrimNext
<1>9. Structure => TypeInv
  BY DEF Structure
<1>10. QED
  BY <1>1, <1>2, <1>8, <1>9, PTL DEF FlashTrimSpec

\* A trim of a chunk in flash does all that the bank needs: the counts stay exact and
\* the firmware never stops.  It takes the trim of a chunk that is still in the hot
\* buffer to leave a count that no collection finds.
THEOREM FlashTrimsHarmless == FlashTrimSpec => [](NeverHangs /\ CountsExact)
<1>1. TypeInv /\ DataInv("none") /\ NeverHangs => NeverHangs /\ CountsExact
  BY CountsImply
<1>2. QED
  BY <1>1, FlashTrimmedAlways, PTL

----------------------------------------------------------------------------
(* What a trim in the hot buffer can stop.                                 *)

StopsAtCount == pc \in Hangs => pc = "count mismatch"

LEMMA TrimStop ==
    ASSUME NEW trims, TypeInv, StopInv(trims), trims # "none", NEW c \in Chunks, Trim(c)
    PROVE  StopInv(trims)' /\ NeverHangs'
<1>1. /\ pc = "idle" /\ pc' = "idle"
      /\ hot'.recycled = hot.recycled /\ hot'.nextLow = hot.nextLow /\ hot'.page = hot.page
      /\ heap'["first"].in = heap["first"].in
  BY TrimEffect, TrimKeeps DEF Heaps
<1>2. Encoding' /\ FirstUse'
  BY <1>1 DEF StopInv, Encoding, FirstUse
<1>3. Fits' /\ NeverHangs'
  BY <1>1, LabelsLemma, FitsElsewhere DEF AtWork, NeverHangs
<1>4. QED
  BY <1>2, <1>3 DEF StopInv

LEMMA TrimmedStops == TrimSpec => [](Intact => StopsAtCount /\ (NeverHangs => StopInv("some")))
<1>1. Init => StopsAtCount /\ StopInv("some")
  BY StopInit DEF StopsAtCount, NeverHangs
<1>2. Structure => TypeInv
  BY DEF Structure
<1>3. /\ Structure /\ DataInv("some") /\ StopsAtCount /\ (NeverHangs => StopInv("some"))
      /\ Structure' /\ DataInv("some")' /\ [BankNext]_vars
      => StopsAtCount' /\ (NeverHangs => StopInv("some"))'
  <2>1. SUFFICES ASSUME Structure, DataInv("some"), StopsAtCount, NeverHangs => StopInv("some"),
                        Structure', DataInv("some")', [BankNext]_vars
                 PROVE  StopsAtCount' /\ (NeverHangs => StopInv("some"))'
    OBVIOUS
  <2>2. CASE UNCHANGED vars
    <3>1. pc' = pc
      BY <2>2 DEF vars
    <3>2. NeverHangs => StopInv("some")'
      BY <2>1, <2>2, StopUnmoved
    <3>3. QED
      BY <2>1, <3>1, <3>2 DEF StopsAtCount, NeverHangs
  <2>3. CASE Next
    <3>1. NeverHangs
      BY <2>3, HangStops DEF NeverHangs
    <3>2. /\ pc' \in Hangs => pc' = "count mismatch"
          /\ pc' \notin Hangs => StopInv("some")'
      BY <2>1, <2>3, <3>1, StopNext
    <3>3. QED
      BY <3>2 DEF StopsAtCount, NeverHangs
  <2>4. ASSUME NEW c \in Chunks, Trim(c) PROVE StopsAtCount' /\ (NeverHangs => StopInv("some"))'
    <3>1. NeverHangs
      BY <2>4, LabelsLemma DEF Trim, NeverHangs
    <3>2. StopInv("some")' /\ NeverHangs'
      BY <2>1, <2>4, <3>1, <1>2, TrimStop
    <3>3. QED
      BY <3>2 DEF StopsAtCount, NeverHangs
  <2>5. QED
    BY <2>1, <2>2, <2>3, <2>4 DEF BankNext
<1>4. /\ Intact => Structure /\ DataInv("some") /\ StopsAtCount /\ (NeverHangs => StopInv("some"))
      /\ Intact' => Structure' /\ DataInv("some")'
      /\ [TrimNext]_<<vars, astray>>
      => (Intact' => StopsAtCount' /\ (NeverHangs => StopInv("some"))')
  BY <1>3, IntactStep
<1>5. QED
  BY <1>1, <1>4, StructureTrimmed, TrimmedAlways, PTL DEF TrimSpec

\* With trims, and as long as the table of the bank's blocks is whole, the firmware can
\* stop at one place only, where the collector compares the count of its victim with what
\* it found there (garbage_collection.c:635).  Still no list is popped empty, a collection
\* finds a candidate, the copies of a victim fit, and a page to encode is the page tested:
\* these rest on the chunks the map has, not on the counts.  The last bank can stop
\* elsewhere once it reads the list of another block (write.c:78, 169).
THEOREM TrimsStopAtCount == TrimSpec => [](Intact => StopsAtCount)
BY TrimmedStops, PTL

=============================================================================
