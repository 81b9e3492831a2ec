---------------------------- MODULE LogBankProofs ----------------------------
(***************************************************************************)
(* Proofs about the bank, for every geometry, every set of chunks and all  *)
(* the tunings: the types, the role of each block, the reserve of clean    *)
(* blocks, how often a page is programmed between two erasures, and that   *)
(* trims change none of this.                                              *)
(***************************************************************************)
EXTENDS LogBankTrim, FiniteSetTheorems, TLAPS

----------------------------------------------------------------------------
(* Sizes and addresses.                                                    *)

LEMMA SizeLemma ==
    /\ NumBlks \in Nat /\ NumBlks >= 5 /\ P \in Nat /\ P >= 6 /\ P % 2 = 0
    /\ R \in Nat /\ S \in Nat /\ 0 < R /\ R < S
    /\ 0 \in Blks /\ 1 \in Blks /\ 0 \in Slots /\ 0 \in Pages /\ 1 \in Pages /\ P - 1 \in Pages
    /\ Blks \subseteq Nat /\ Pages \subseteq Nat /\ Slots \subseteq Nat
    /\ 0..(P - 2) \subseteq Pages /\ 0..(R - 1) \subseteq Slots
    /\ None \notin Chunks /\ None \notin Int /\ None \notin Blks /\ None \notin Pages
BY GeometryAssumption, NoneAssumption DEF Blks, Pages, Slots

LEMMA AddressLemma ==
    /\ Invalid \in Address
    /\ \A s \in Slots : DRAMHotLog(s) \in Address /\ DRAMColdLog(s) \in Address
    /\ \A b \in Blks, p \in 0..(P - 2), s \in Slots, e \in BOOLEAN :
          (e => s \in 0..(R - 1)) => PlaceOf(b, p, s, e) \in Address
BY DEF Address, PlaceOf

\* The parts of an address.
LEMMA PartsLemma ==
    ASSUME NEW a \in Address
    PROVE  /\ a.at \in {"Invalid", "DRAMHotLog", "DRAMColdLog", "FlashWLog", "FlashWLogEncoded"}
           /\ a.at \in {"DRAMHotLog", "DRAMColdLog"} => a.slot \in Slots
           /\ InFlash(a) => /\ a.blk \in Blks /\ a.page \in 0..(P - 2) /\ a.slot \in Slots
                            /\ a = PlaceOf(a.blk, a.page, a.slot, a.at = "FlashWLogEncoded")
           /\ a.at = "FlashWLogEncoded" => a.slot \in 0..(R - 1)
           /\ a.at = "DRAMHotLog" => a = DRAMHotLog(a.slot)
           /\ a.at = "DRAMColdLog" => a = DRAMColdLog(a.slot)
           /\ a.at = "Invalid" => a = Invalid
<1>1. CASE a = Invalid
  BY <1>1 DEF Invalid, InFlash
<1>2. CASE a \in {DRAMHotLog(s) : s \in Slots}
  BY <1>2 DEF DRAMHotLog, InFlash
<1>3. CASE a \in {DRAMColdLog(s) : s \in Slots}
  BY <1>3 DEF DRAMColdLog, InFlash
<1>4. CASE a \in {FlashWLog(b, p, s) : b \in Blks, p \in 0..(P - 2), s \in Slots}
  BY <1>4 DEF FlashWLog, PlaceOf, InFlash
<1>5. CASE a \in {Encoded(b, p, s) : b \in Blks, p \in 0..(P - 2), s \in 0..(R - 1)}
  BY <1>5, SizeLemma DEF Encoded, PlaceOf, InFlash
<1>6. QED
  BY <1>1, <1>2, <1>3, <1>4, <1>5 DEF Address

\* A bounded set of numbers that is not empty has a least element: the intervals
\* that end at its elements have a smallest one.
LEMMA LeastElement ==
    ASSUME NEW n \in Nat, NEW T, T \subseteq 0..n, T # {}
    PROVE  \E x \in T : \A y \in T : x <= y
<1> DEFINE Intervals == {0..x : x \in T}
           Less == StrictSubsetOrdering(0..n)
<1>1. IsWellFoundedOn(Less, SUBSET (0..n))
  <2>1. IsFiniteSet(0..n)
    BY FS_Interval
  <2>2. FiniteSubsetsOf(0..n) = SUBSET (0..n)
    BY <2>1, FS_FiniteSubsetsOfFinite, Zenon
  <2>3. QED
    BY <2>2, FS_StrictSubsetOrderingWellFounded, Zenon
<1>2. Intervals \subseteq SUBSET (0..n) /\ Intervals # {}
  <2>1. \A x \in T : 0..x \subseteq 0..n
    OBVIOUS
  <2>2. QED
    BY <2>1, Zenon
<1>3. PICK I \in Intervals : \A J \in Intervals : ~ (<<J, I>> \in Less)
  <2> HIDE DEF Less, Intervals
  <2>1. QED
    BY <1>1, <1>2, WFMin, Zenon
<1>4. PICK x \in T : I = 0..x
  OBVIOUS
<1>5. ASSUME NEW y \in T, y < x
      PROVE  FALSE
  <2> DEFINE J == 0..y
  <2>1. J \in Intervals
    OBVIOUS
  <2>2. J \subseteq I /\ J # I
    <3>1. x \in Nat /\ y \in Nat
      OBVIOUS
    <3>2. x \in 0..x /\ x \notin 0..y
      BY <3>1, <1>5
    <3>3. QED
      BY <3>1, <3>2, <1>4, <1>5
  <2> HIDE DEF J, Intervals
  <2>3. J \in SUBSET (0..n) /\ I \in SUBSET (0..n)
    BY <1>2, <2>1
  <2>4. <<J, I>> \in Less
    BY <2>2, <2>3, Zenon DEF StrictSubsetOrdering
  <2> HIDE DEF Less
  <2>5. QED
    BY <1>3, <2>1, <2>4
<1>6. QED
  <2>1. \A y \in T : x <= y
    BY <1>5
  <2>2. QED
    BY <2>1

----------------------------------------------------------------------------
(* Types, one part for each variable, with what typing the steps needs.    *)

LowPage(p) == p = 0 \/ (p % 2 = 1 /\ p < P - 1)

EntryType == [chunk : Chunks \cup {None}, encoded : BOOLEAN]
PageType == [Slots -> EntryType]

MapOK == map \in [Chunks -> Address]
HotOK == hot \in LogType /\ (~hot.second => ~hot.recycled /\ LowPage(hot.page) /\ hot.page <= P - 5)
ColdOK == cold \in LogType
HeapOK == heap \in [Heaps -> [value : [Blks -> Int], in : SUBSET Blks]]
CleanOK == clean \in Seq(Blks)
GcType == [state : {"idle", "read", "write"}, victim : Blks \cup {None}, page : Nat,
           fromHeap : Int \cup {None}, inBlk : Int, valid : SUBSET Slots, encoded : BOOLEAN]
GcOK == /\ gc \in GcType
        /\ gc.state # "idle" => gc.victim \in Blks /\ gc.fromHeap \in Int
        /\ gc.state = "write" => gc.page <= P - 2
        /\ gc.valid # {} => gc.state = "write"
ListsOK == lists \in [Blks -> [low : Lists, high : Lists]]
ProgramsOK == programs \in [Blks -> [Pages -> Nat]]
Labels == {"idle", "flushHot", "advanceHot", "findHot", "flushCold", "advanceCold",
           "while", "collect", "copy"} \cup Hangs
ControlOK == pc \in Labels /\ frames \in Seq(FrameType)

TypeInv == MapOK /\ HotOK /\ ColdOK /\ HeapOK /\ CleanOK /\ GcOK /\ ListsOK /\ ProgramsOK /\ ControlOK

LEMMA ListsLemma == Lists = [Pages -> PageType] /\ EmptyPage \in PageType /\ EmptyList \in Lists
BY DEF Lists, PageType, EntryType, EmptyPage, EmptyList, NoEntry

LEMMA EntryLemma ==
    ASSUME NEW c \in Chunks \cup {None}
    PROVE  Entry(c) \in EntryType /\ EncodedEntry(c) \in EntryType
BY DEF Entry, EncodedEntry, NoEntry, EntryType

LEMMA LogFields ==
    ASSUME NEW log \in LogType
    PROVE  /\ log.blk \in Blks /\ log.page \in 0..(P - 2) /\ log.page \in Pages /\ log.ptr \in Slots
           /\ log.chunk \in [Slots -> Chunks \cup {None}] /\ log.allValid \in BOOLEAN
           /\ log.list \in Lists /\ log.second \in BOOLEAN /\ log.recycled \in BOOLEAN
           /\ log.nextLow \in Pages \cup {None} /\ log.precacheDone \in BOOLEAN
BY SizeLemma DEF LogType

LEMMA BufferedType ==
    ASSUME NEW log \in LogType, NEW c \in Chunks \cup {None}
    PROVE  /\ Buffered(log, c) \in LogType
           /\ Buffered(log, c).page = log.page /\ Buffered(log, c).second = log.second
           /\ Buffered(log, c).recycled = log.recycled /\ Buffered(log, c).blk = log.blk
           /\ Buffered(log, c).list = log.list /\ Buffered(log, c).nextLow = log.nextLow
           /\ Buffered(log, c).allValid = log.allValid
           /\ Buffered(log, c).precacheDone = log.precacheDone
           /\ Buffered(log, c).chunk = [log.chunk EXCEPT ![log.ptr] = c]
           /\ Buffered(log, c).ptr = (log.ptr + 1) % (IF log.recycled THEN R ELSE S)
<1>1. (log.ptr + 1) % (IF log.recycled THEN R ELSE S) \in Slots
  BY SizeLemma, LogFields DEF Slots
<1>2. [log.chunk EXCEPT ![log.ptr] = c] \in [Slots -> Chunks \cup {None}]
  BY LogFields
<1>3. QED
  BY <1>1, <1>2 DEF Buffered, LogType

LEMMA ForgetType ==
    ASSUME NEW log \in LogType, NEW s \in Slots
    PROVE  /\ Forget(log, s) \in LogType
           /\ Forget(log, s).page = log.page /\ Forget(log, s).second = log.second
           /\ Forget(log, s).recycled = log.recycled /\ Forget(log, s).blk = log.blk
           /\ Forget(log, s).list = log.list /\ Forget(log, s).nextLow = log.nextLow
           /\ Forget(log, s).allValid = FALSE /\ Forget(log, s).ptr = log.ptr
           /\ Forget(log, s).precacheDone = log.precacheDone
           /\ Forget(log, s).chunk = [log.chunk EXCEPT ![s] = None]
BY LogFields DEF Forget, LogType

LEMMA FlushedType ==
    ASSUME NEW log \in LogType
    PROVE  /\ Flushed(log) \in LogType
           /\ Flushed(log).page = log.page /\ Flushed(log).second = log.second
           /\ Flushed(log).recycled = log.recycled /\ Flushed(log).blk = log.blk
           /\ Flushed(log).ptr = log.ptr /\ Flushed(log).nextLow = log.nextLow
           /\ Flushed(log).chunk = log.chunk /\ Flushed(log).allValid = TRUE
           /\ Flushed(log).list = [log.list EXCEPT ![log.page] = [s \in Slots |-> Entry(log.chunk[s])]]
<1>1. [s \in Slots |-> Entry(log.chunk[s])] \in PageType
  BY LogFields, EntryLemma DEF PageType
<1>2. ListAfterFlush(log) \in Lists
  BY <1>1, LogFields, ListsLemma DEF ListAfterFlush
<1>3. QED
  BY <1>2 DEF Flushed, LogType, ListAfterFlush

LEMMA ReusingType ==
    ASSUME NEW log \in LogType, NEW p \in Pages
    PROVE  /\ Reusing(log, p) \in LogType
           /\ Reusing(log, p).page = log.page /\ Reusing(log, p).second = log.second
           /\ Reusing(log, p).recycled = log.recycled /\ Reusing(log, p).blk = log.blk
           /\ Reusing(log, p).ptr = log.ptr /\ Reusing(log, p).nextLow = p
           /\ Reusing(log, p).chunk = log.chunk /\ Reusing(log, p).allValid = log.allValid
           /\ Reusing(log, p).list = [log.list EXCEPT ![p] = EmptyPage]
<1>1. [log.list EXCEPT ![p] = EmptyPage] \in Lists
  BY LogFields, ListsLemma
<1>2. QED
  BY <1>1 DEF Reusing, LogType

LEMMA HeldLemma ==
    ASSUME NEW log \in LogType, NEW n \in 0..S
    PROVE  /\ Held(log, n) \subseteq Slots /\ IsFiniteSet(Held(log, n))
           /\ Cardinality(Held(log, n)) \in 0..n
           /\ \A s \in Held(log, n) : s \in 0..(n - 1) /\ log.chunk[s] \in Chunks
<1>1. IsFiniteSet(0..(n - 1)) /\ Cardinality(0..(n - 1)) = n
  <2>1. 0 \in Int /\ n - 1 \in Int /\ n \in Int
    BY SizeLemma
  <2>2. /\ IsFiniteSet(0..(n - 1))
        /\ Cardinality(0..(n - 1)) = IF 0 > n - 1 THEN 0 ELSE (n - 1) - 0 + 1
    BY <2>1, FS_Interval
  <2>3. QED
    BY <2>1, <2>2, SizeLemma
<1>2. Held(log, n) \in SUBSET (0..(n - 1)) /\ 0..(n - 1) \subseteq Slots
  BY SizeLemma DEF Held, Slots
<1>3. IsFiniteSet(Held(log, n)) /\ Cardinality(Held(log, n)) <= n
  BY <1>1, <1>2, FS_Subset
<1>4. Cardinality(Held(log, n)) \in Nat
  BY <1>3, FS_CardinalityType
<1>5. \A s \in Held(log, n) : log.chunk[s] \in Chunks
  BY <1>2, LogFields DEF Held
<1>6. QED
  BY <1>2, <1>3, <1>4, <1>5, SizeLemma

\* The heap after chunks of a block became invalid.
LEMMA DecrementedType ==
    ASSUME HeapOK, NEW b \in Blks, NEW n \in Int
    PROVE  /\ Decremented(b, n) \in [Heaps -> [value : [Blks -> Int], in : SUBSET Blks]]
           /\ \A h \in Heaps : /\ Decremented(b, n)[h].in = heap[h].in
                               /\ Decremented(b, n)[h].value = [heap[h].value EXCEPT ![b] = @ - n]
BY DEF HeapOK, Decremented

LEMMA RemovedType ==
    ASSUME HeapOK, NEW b \in Blks, NEW v \in Int, NEW h \in Heaps
    PROVE  /\ Removed(h, b, v) \in [value : [Blks -> Int], in : SUBSET Blks]
           /\ Removed(h, b, v).in = heap[h].in \ {b}
           /\ Removed(h, b, v).value = [heap[h].value EXCEPT ![b] = v]
BY DEF HeapOK, Removed

LEMMA ProgramType ==
    ASSUME ProgramsOK, NEW b \in Blks, NEW p \in Pages, Program(b, p)
    PROVE  ProgramsOK'
BY DEF ProgramsOK, Program

LEMMA MapAfterFlushType ==
    ASSUME MapOK, NEW log \in LogType, NEW e \in BOOLEAN, NEW n \in 0..S, e => n = R
    PROVE  MapAfterFlush(log, n, e) \in [Chunks -> Address]
<1>1. SUFFICES ASSUME NEW c \in Chunks PROVE MapAfterFlush(log, n, e)[c] \in Address
  BY DEF MapAfterFlush
<1>2. CASE \E s \in Held(log, n) : log.chunk[s] = c
  <2>. DEFINE s == CHOOSE t \in Held(log, n) : log.chunk[t] = c
  <2>1. s \in Held(log, n)
    BY <1>2
  <2>2. s \in Slots /\ s \in 0..(n - 1)
    BY <2>1, HeldLemma
  <2>3. MapAfterFlush(log, n, e)[c] = PlaceOf(log.blk, log.page, s, e)
    BY <1>2 DEF MapAfterFlush
  <2>. HIDE DEF s
  <2>4. QED
    BY <2>2, <2>3, AddressLemma, LogFields
<1>3. CASE ~\E s \in Held(log, n) : log.chunk[s] = c
  BY <1>3 DEF MapAfterFlush, MapOK
<1>4. QED
  BY <1>2, <1>3

----------------------------------------------------------------------------
(* Every step keeps the types.                                             *)

LEMMA InitTypes == Init => TypeInv
<1>. SUFFICES ASSUME Init PROVE TypeInv
  OBVIOUS
<1>. USE SizeLemma
<1>1. FreshLog(0) \in LogType /\ FreshLog(1) \in LogType
  BY ListsLemma DEF FreshLog, LogType
<1>2. MapOK /\ HotOK /\ ColdOK
  BY <1>1, AddressLemma DEF Init, MapOK, HotOK, ColdOK, FreshLog, LowPage
<1>3. \A h \in Heaps : InitialCount(h) \in Int
  BY DEF InitialCount, FirstUsageInit, SecondUsageInit
<1>4. HeapOK
  BY <1>3 DEF Init, HeapOK
<1>5. CleanOK
  <2>1. \A i \in 1..(NumBlks - 2) : i + 1 \in Blks
    BY DEF Blks
  <2>2. QED
    BY <2>1 DEF Init, CleanOK
<1>6. GcOK /\ ListsOK /\ ProgramsOK
  BY ListsLemma DEF Init, GcOK, GcType, ListsOK, ProgramsOK
<1>7. ControlOK
  BY DEF Init, ControlOK, Labels
<1>8. QED
  BY <1>2, <1>4, <1>5, <1>6, <1>7 DEF TypeInv

LEMMA WithoutOldType ==
    ASSUME TypeInv, NEW c \in Chunks
    PROVE  /\ HotWithoutOld(c) \in LogType
           /\ HotWithoutOld(c).page = hot.page /\ HotWithoutOld(c).second = hot.second
           /\ HotWithoutOld(c).recycled = hot.recycled /\ HotWithoutOld(c).blk = hot.blk
           /\ HotWithoutOld(c).list = hot.list /\ HotWithoutOld(c).nextLow = hot.nextLow
           /\ HotWithoutOld(c).ptr = hot.ptr
           /\ ColdWithoutOld(c) \in LogType
           /\ ColdWithoutOld(c).page = cold.page /\ ColdWithoutOld(c).recycled = cold.recycled
           /\ ColdWithoutOld(c).blk = cold.blk /\ ColdWithoutOld(c).list = cold.list
           /\ ColdWithoutOld(c).ptr = cold.ptr
           /\ HeapWithoutOld(c) \in [Heaps -> [value : [Blks -> Int], in : SUBSET Blks]]
           /\ \A h \in Heaps : HeapWithoutOld(c)[h].in = heap[h].in
           /\ GcWithoutOld(c) \in GcType
           /\ GcWithoutOld(c).state = gc.state /\ GcWithoutOld(c).victim = gc.victim
           /\ GcWithoutOld(c).page = gc.page /\ GcWithoutOld(c).valid = gc.valid
           /\ GcWithoutOld(c).encoded = gc.encoded /\ GcWithoutOld(c).inBlk = gc.inBlk
           /\ GcWithoutOld(c).state # "idle" => GcWithoutOld(c).fromHeap \in Int
<1>1. map[c] \in Address
  BY DEF TypeInv, MapOK
<1>2. hot \in LogType /\ cold \in LogType /\ gc \in GcType /\ (gc.state # "idle" => gc.fromHeap \in Int)
  BY DEF TypeInv, HotOK, ColdOK, GcOK
<1>3. HeapOK
  BY DEF TypeInv
<1>h. /\ HotWithoutOld(c) \in LogType
      /\ HotWithoutOld(c).page = hot.page /\ HotWithoutOld(c).second = hot.second
      /\ HotWithoutOld(c).recycled = hot.recycled /\ HotWithoutOld(c).blk = hot.blk
      /\ HotWithoutOld(c).list = hot.list /\ HotWithoutOld(c).nextLow = hot.nextLow
      /\ HotWithoutOld(c).ptr = hot.ptr
  <2>1. CASE map[c].at = "DRAMHotLog"
    <3>1. PICK s \in Slots : s = map[c].slot
      BY <1>1, <2>1, PartsLemma
    <3>2. HotWithoutOld(c) = Forget(hot, s)
      BY <2>1, <3>1 DEF HotWithoutOld
    <3>3. /\ Forget(hot, s) \in LogType
          /\ Forget(hot, s).page = hot.page
          /\ Forget(hot, s).second = hot.second
          /\ Forget(hot, s).recycled = hot.recycled
          /\ Forget(hot, s).blk = hot.blk
          /\ Forget(hot, s).list = hot.list
          /\ Forget(hot, s).nextLow = hot.nextLow
          /\ Forget(hot, s).ptr = hot.ptr
      BY <1>2, ForgetType
    <3>4. QED
      BY <3>2, <3>3
  <2>2. CASE map[c].at # "DRAMHotLog"
    BY <2>2, <1>2 DEF HotWithoutOld
  <2>3. QED
    BY <2>1, <2>2
<1>c. /\ ColdWithoutOld(c) \in LogType
      /\ ColdWithoutOld(c).page = cold.page /\ ColdWithoutOld(c).recycled = cold.recycled
      /\ ColdWithoutOld(c).blk = cold.blk /\ ColdWithoutOld(c).list = cold.list
      /\ ColdWithoutOld(c).ptr = cold.ptr
  <2>1. CASE map[c].at = "DRAMColdLog"
    <3>1. PICK s \in Slots : s = map[c].slot
      BY <1>1, <2>1, PartsLemma
    <3>2. ColdWithoutOld(c) = Forget(cold, s)
      BY <2>1, <3>1 DEF ColdWithoutOld
    <3>3. /\ Forget(cold, s) \in LogType
          /\ Forget(cold, s).page = cold.page
          /\ Forget(cold, s).recycled = cold.recycled
          /\ Forget(cold, s).blk = cold.blk
          /\ Forget(cold, s).list = cold.list
          /\ Forget(cold, s).ptr = cold.ptr
      BY <1>2, ForgetType
    <3>4. QED
      BY <3>2, <3>3
  <2>2. CASE map[c].at # "DRAMColdLog"
    BY <2>2, <1>2 DEF ColdWithoutOld
  <2>3. QED
    BY <2>1, <2>2
<1>p. /\ HeapWithoutOld(c) \in [Heaps -> [value : [Blks -> Int], in : SUBSET Blks]]
      /\ \A h \in Heaps : HeapWithoutOld(c)[h].in = heap[h].in
  <2>1. CASE InFlash(map[c])
    <3>1. PICK b \in Blks : b = map[c].blk
      BY <1>1, <2>1, PartsLemma
    <3>2. HeapWithoutOld(c) = Decremented(b, 1)
      BY <2>1, <3>1 DEF HeapWithoutOld
    <3>3. /\ Decremented(b, 1) \in [Heaps -> [value : [Blks -> Int], in : SUBSET Blks]]
          /\ \A h \in Heaps : Decremented(b, 1)[h].in = heap[h].in
      BY <1>3 DEF Decremented, HeapOK
    <3>4. HeapWithoutOld(c) \in [Heaps -> [value : [Blks -> Int], in : SUBSET Blks]]
      BY <3>2, <3>3
    <3>5. \A h \in Heaps : HeapWithoutOld(c)[h].in = heap[h].in
      BY <3>2, <3>3, Zenon
    <3>6. QED
      BY <3>4, <3>5
  <2>2. CASE ~InFlash(map[c])
    BY <2>2, <1>3 DEF HeapWithoutOld, HeapOK
  <2>3. QED
    BY <2>1, <2>2
<1>g. /\ GcWithoutOld(c) \in GcType
      /\ GcWithoutOld(c).state = gc.state /\ GcWithoutOld(c).victim = gc.victim
      /\ GcWithoutOld(c).page = gc.page /\ GcWithoutOld(c).valid = gc.valid
      /\ GcWithoutOld(c).encoded = gc.encoded /\ GcWithoutOld(c).inBlk = gc.inBlk
      /\ GcWithoutOld(c).state # "idle" => GcWithoutOld(c).fromHeap \in Int
  BY <1>2 DEF GcWithoutOld, GcType
<1>q. QED
  BY <1>h, <1>c, <1>p, <1>g

LEMMA WriteHotTypes ==
    ASSUME TypeInv, NEW c \in Chunks, WriteHot(c)
    PROVE  TypeInv'
<1>. DEFINE log == Buffered(HotWithoutOld(c), c)
<1>1. hot \in LogType /\ hot.ptr \in Slots
  BY LogFields DEF TypeInv, HotOK
<1>2. /\ log \in LogType /\ log.second = hot.second /\ log.recycled = hot.recycled /\ log.page = hot.page
  BY WithoutOldType, BufferedType
<1>3. hot' = log \/ hot' = [log EXCEPT !.precacheDone = TRUE]
  BY DEF WriteHot
<1>. HIDE DEF log
<1>4. hot' \in LogType /\ hot'.second = hot.second /\ hot'.recycled = hot.recycled /\ hot'.page = hot.page
  BY <1>2, <1>3 DEF LogType
<1>5. HotOK'
  BY <1>4 DEF HotOK, TypeInv
<1>6. ColdOK'
  BY WithoutOldType DEF WriteHot, ColdOK
<1>7. MapOK'
  BY <1>1, AddressLemma DEF TypeInv, MapOK, WriteHot
<1>8. HeapOK'
  BY WithoutOldType DEF WriteHot, HeapOK
<1>9. GcOK'
  BY WithoutOldType DEF WriteHot, GcOK, TypeInv
<1>10. ControlOK'
  BY DEF WriteHot, Goto, ControlOK, Labels, TypeInv
<1>11. CleanOK' /\ ListsOK' /\ ProgramsOK'
  BY DEF WriteHot, CleanOK, ListsOK, ProgramsOK, TypeInv
<1>12. QED
  BY <1>5, <1>6, <1>7, <1>8, <1>9, <1>10, <1>11 DEF TypeInv

LEMMA WriteColdTypes ==
    ASSUME TypeInv, NEW c \in Chunks, WriteCold(c)
    PROVE  TypeInv'
<1>1. cold \in LogType /\ cold.ptr \in Slots
  BY LogFields DEF TypeInv, ColdOK
<1>2. cold' \in LogType
  BY WithoutOldType, BufferedType DEF WriteCold
<1>3. HotOK'
  BY WithoutOldType DEF HotOK, TypeInv, WriteCold
<1>4. ColdOK'
  BY <1>2 DEF ColdOK
<1>5. MapOK'
  BY <1>1, AddressLemma DEF TypeInv, MapOK, WriteCold
<1>6. HeapOK'
  BY WithoutOldType DEF WriteCold, HeapOK
<1>7. GcOK'
  BY WithoutOldType DEF WriteCold, GcOK, TypeInv
<1>8. ControlOK'
  BY DEF WriteCold, Goto, ControlOK, Labels, TypeInv
<1>9. CleanOK' /\ ListsOK' /\ ProgramsOK'
  BY DEF WriteCold, CleanOK, ListsOK, ProgramsOK, TypeInv
<1>10. QED
  BY <1>3, <1>4, <1>5, <1>6, <1>7, <1>8, <1>9 DEF TypeInv

LEMMA MoveAwayTypes ==
    ASSUME TypeInv, NEW c \in Chunks, MoveAway(c)
    PROVE  TypeInv'
<1>1. HotOK' /\ ColdOK' /\ HeapOK' /\ GcOK'
  BY WithoutOldType DEF MoveAway, HotOK, ColdOK, HeapOK, GcOK, TypeInv
<1>2. MapOK'
  <2>1. Invalid \in Address
    BY DEF Address
  <2>2. QED
    BY <2>1 DEF MoveAway, TypeInv, MapOK
<1>3. CleanOK' /\ ListsOK' /\ ProgramsOK' /\ ControlOK'
  BY DEF MoveAway, CleanOK, ListsOK, ProgramsOK, ControlOK, TypeInv
<1>4. QED
  BY <1>1, <1>2, <1>3 DEF TypeInv

----------------------------------------------------------------------------
(* The flushes keep the types.                                             *)

LEMMA HeapAfterFlushType ==
    ASSUME HeapOK, NEW log \in LogType
    PROVE  /\ HeapAfterFlush(log) \in [Heaps -> [value : [Blks -> Int], in : SUBSET Blks]]
           /\ \A h \in Heaps : HeapAfterFlush(log)[h].in = heap[h].in
<1>1. S - Cardinality(Held(log, S)) \in Int
  BY HeldLemma, SizeLemma
<1>2. log.blk \in Blks
  BY LogFields
<1>3. CASE log.allValid
  BY <1>3 DEF HeapAfterFlush, HeapOK
<1>4. CASE ~log.allValid
  <2>1. HeapAfterFlush(log) = Decremented(log.blk, S - Cardinality(Held(log, S)))
    BY <1>4 DEF HeapAfterFlush
  <2>2. \A n \in Int : /\ Decremented(log.blk, n) \in [Heaps -> [value : [Blks -> Int], in : SUBSET Blks]]
                       /\ \A h \in Heaps : Decremented(log.blk, n)[h].in = heap[h].in
    BY <1>2 DEF Decremented, HeapOK
  <2>3. HeapAfterFlush(log) \in [Heaps -> [value : [Blks -> Int], in : SUBSET Blks]]
    BY <1>1, <2>1, <2>2
  <2>4. \A h \in Heaps : HeapAfterFlush(log)[h].in = heap[h].in
    BY <1>1, <2>1, <2>2, Zenon
  <2>5. QED
    BY <2>3, <2>4
<1>5. QED
  BY <1>3, <1>4

LEMMA FlushTypes ==
    ASSUME TypeInv, NEW log \in LogType, NEW buf, Flush(log, buf)
    PROVE  MapOK' /\ HeapOK' /\ ProgramsOK'
<1>1. S \in 0..S /\ FALSE \in BOOLEAN
  BY SizeLemma
<1>2. MapOK'
  BY <1>1, MapAfterFlushType DEF Flush, TypeInv, MapOK
<1>3. HeapOK'
  BY HeapAfterFlushType DEF Flush, TypeInv, HeapOK
<1>4. ProgramsOK'
  BY LogFields, ProgramType DEF Flush, TypeInv
<1>5. QED
  BY <1>2, <1>3, <1>4

LEMMA FlushHotTypes ==
    ASSUME TypeInv, FlushHot
    PROVE  TypeInv'
<1>1. hot \in LogType
  BY DEF TypeInv, HotOK
<1>2. MapOK' /\ HeapOK' /\ ProgramsOK'
  BY <1>1, FlushTypes DEF FlushHot
<1>3. HotOK'
  BY <1>1, FlushedType DEF FlushHot, HotOK, TypeInv
<1>4. ControlOK'
  BY DEF FlushHot, Goto, ControlOK, Labels, TypeInv
<1>5. ColdOK' /\ CleanOK' /\ GcOK' /\ ListsOK'
  BY DEF FlushHot, ColdOK, CleanOK, GcOK, ListsOK, TypeInv
<1>6. QED
  BY <1>2, <1>3, <1>4, <1>5 DEF TypeInv

LEMMA FlushColdTypes ==
    ASSUME TypeInv, FlushCold
    PROVE  TypeInv'
<1>1. cold \in LogType
  BY DEF TypeInv, ColdOK
<1>2. MapOK' /\ HeapOK' /\ ProgramsOK'
  BY <1>1, FlushTypes DEF FlushCold
<1>3. ColdOK'
  BY <1>1, FlushedType DEF FlushCold, ColdOK, TypeInv
<1>4. ControlOK'
  BY DEF FlushCold, Goto, ControlOK, Labels, TypeInv
<1>5. HotOK' /\ CleanOK' /\ GcOK' /\ ListsOK'
  BY DEF FlushCold, HotOK, CleanOK, GcOK, ListsOK, TypeInv
<1>6. QED
  BY <1>2, <1>3, <1>4, <1>5 DEF TypeInv

\* The list of the block after an encoded page was written.
RecycledPage(log, p) == [s \in Slots |-> IF s < R THEN EncodedEntry(log.chunk[s]) ELSE log.list[p][s]]

LEMMA FlushRecycledLog ==
    ASSUME hot \in LogType, FlushRecycled, hot.nextLow = hot.page
    PROVE  /\ hot' \in LogType
           /\ hot'.page = hot.page /\ hot'.second = hot.second /\ hot'.recycled = hot.recycled
           /\ hot'.blk = hot.blk /\ hot'.ptr = hot.ptr /\ hot'.nextLow = hot.nextLow
           /\ hot'.chunk = hot.chunk /\ hot'.allValid = TRUE
           /\ hot'.list = [hot.list EXCEPT ![hot.page] = RecycledPage(hot, hot.page)]
<1>1. hot.list[hot.page] \in PageType /\ hot.page \in Pages /\ hot.list \in [Pages -> PageType]
  BY LogFields, ListsLemma
<1>2. RecycledPage(hot, hot.page) \in PageType
  BY <1>1, LogFields, EntryLemma DEF RecycledPage, PageType
<1>3. [hot.list EXCEPT ![hot.page] = RecycledPage(hot, hot.page)] \in Lists
  BY <1>1, <1>2, ListsLemma
<1>4. hot' = [hot EXCEPT !.precacheDone = TRUE, !.allValid = TRUE,
                         !.list = [hot.list EXCEPT ![hot.page] = RecycledPage(hot, hot.page)]]
  BY <1>1 DEF FlushRecycled, RecycledPage, LogType
<1>5. QED
  BY <1>3, <1>4 DEF LogType

LEMMA FlushRecycledTypes ==
    ASSUME TypeInv, FlushRecycled
    PROVE  TypeInv'
<1>1. hot \in LogType /\ hot.blk \in Blks /\ hot.page \in Pages
  BY LogFields DEF TypeInv, HotOK
<1>2. CleanOK' /\ GcOK' /\ ColdOK'
  BY DEF FlushRecycled, CleanOK, GcOK, ColdOK, TypeInv
<1>3. ControlOK'
  BY DEF FlushRecycled, Hang, Goto, ControlOK, Labels, Hangs, TypeInv
<1>4. CASE hot.nextLow # hot.page
  BY <1>2, <1>3, <1>4 DEF FlushRecycled, TypeInv, MapOK, HotOK, HeapOK, ListsOK, ProgramsOK
<1>5. CASE hot.nextLow = hot.page
  <2>1. R \in 0..S /\ TRUE \in BOOLEAN
    BY SizeLemma
  <2>2. MapOK'
    BY <1>1, <1>5, <2>1, MapAfterFlushType DEF FlushRecycled, TypeInv, MapOK
  <2>3. HotOK'
    BY <1>1, <1>5, FlushRecycledLog DEF HotOK, TypeInv
  <2>4. RecycledShortfall(hot) \in Int
    BY <1>1, <2>1, HeldLemma, SizeLemma DEF RecycledShortfall
  <2>5. HeapOK'
    <3>1. heap' = [heap EXCEPT !["second"].value[hot.blk] = @ - RecycledShortfall(hot)]
      BY <1>5 DEF FlushRecycled
    <3>2. QED
      BY <1>1, <2>4, <3>1 DEF HeapOK, TypeInv, Heaps
  <2>6. ListsOK'
    BY <1>1, <1>5, ListsLemma DEF FlushRecycled, ListsOK, TypeInv
  <2>7. ProgramsOK'
    BY <1>1, <1>5, ProgramType DEF FlushRecycled, TypeInv
  <2>8. QED
    BY <1>2, <1>3, <2>2, <2>3, <2>5, <2>6, <2>7 DEF TypeInv
<1>6. QED
  BY <1>4, <1>5

----------------------------------------------------------------------------
(* The next page or block of the hot log keeps the types.                  *)

LEMMA AdvanceFirstTypes ==
    ASSUME TypeInv, AdvanceFirst
    PROVE  TypeInv'
<1>1. hot \in LogType /\ hot.page \in 0..(P - 2) /\ LowPage(hot.page) /\ hot.page <= P - 5 /\ hot.page # P - 5
  BY LogFields DEF TypeInv, HotOK, AdvanceFirst
<1>2. DEFINE next == IF hot.page = 0 THEN 1 ELSE hot.page + 2
<1>3. next \in 0..(P - 2) /\ LowPage(next) /\ next <= P - 5
  BY <1>1, SizeLemma DEF LowPage
<1>4. hot' = [hot EXCEPT !.page = next]
  BY DEF AdvanceFirst
<1>. HIDE DEF next
<1>5. HotOK'
  BY <1>1, <1>3, <1>4 DEF HotOK, LogType, TypeInv
<1>6. ControlOK'
  BY DEF AdvanceFirst, Goto, ControlOK, Labels, TypeInv
<1>7. MapOK' /\ ColdOK' /\ HeapOK' /\ CleanOK' /\ GcOK' /\ ListsOK' /\ ProgramsOK'
  BY DEF AdvanceFirst, MapOK, ColdOK, HeapOK, CleanOK, GcOK, ListsOK, ProgramsOK, TypeInv
<1>8. QED
  BY <1>5, <1>6, <1>7 DEF TypeInv

LEMMA FillFirstTypes ==
    ASSUME TypeInv, FillFirst
    PROVE  TypeInv'
<1>1. hot \in LogType /\ hot.blk \in Blks /\ hot.list \in Lists /\ MaxLowPage \in Pages
  BY LogFields, SizeLemma DEF TypeInv, HotOK, MaxLowPage, Pages
<1>2. HotOK'
  BY <1>1, ListsLemma DEF FillFirst, HotOK, LogType, TypeInv
<1>3. ProgramsOK'
  BY <1>1, ProgramType DEF FillFirst, TypeInv
<1>4. ListsOK'
  BY <1>1 DEF FillFirst, ListsOK, TypeInv
<1>5. HeapOK'
  BY <1>1 DEF FillFirst, HeapOK, Heaps, TypeInv
<1>6. ControlOK'
  BY DEF FillFirst, Goto, ControlOK, Labels, TypeInv
<1>7. MapOK' /\ ColdOK' /\ CleanOK' /\ GcOK'
  BY DEF FillFirst, MapOK, ColdOK, CleanOK, GcOK, TypeInv
<1>8. QED
  BY <1>2, <1>3, <1>4, <1>5, <1>6, <1>7 DEF TypeInv

LEMMA HeapReusingType ==
    ASSUME HeapOK, NEW b \in Blks
    PROVE  HeapReusing(b) \in [Heaps -> [value : [Blks -> Int], in : SUBSET Blks]]
BY SizeLemma DEF HeapOK, HeapReusing, Heaps

LEMMA TestLowPageType ==
    ASSUME HeapOK, NEW log \in LogType, log.second, NEW p \in Pages, TestLowPage(log, p)
    PROVE  HotOK' /\ HeapOK'
<1>1. CASE p < LastDataPage /\ CanReuseLowPage(log, p)
  <2>1. hot' = Reusing(log, p) /\ heap' = HeapReusing(log.blk)
    BY <1>1 DEF TestLowPage
  <2>2. Reusing(log, p) \in LogType /\ Reusing(log, p).second = log.second
    BY ReusingType
  <2>3. HotOK'
    BY <2>1, <2>2 DEF HotOK
  <2>4. HeapReusing(log.blk) \in [Heaps -> [value : [Blks -> Int], in : SUBSET Blks]]
    BY LogFields, HeapReusingType
  <2>5. QED
    BY <2>1, <2>3, <2>4 DEF HeapOK
<1>2. CASE ~(p < LastDataPage /\ CanReuseLowPage(log, p))
  BY <1>2 DEF TestLowPage, HotOK, HeapOK, LogType
<1>3. QED
  BY <1>1, <1>2

\* The page of a hot log in its second usage moves on.
LEMMA MovedLogType ==
    ASSUME NEW log \in LogType, NEW p \in 0..(P - 2), NEW recycled \in BOOLEAN
    PROVE  /\ [log EXCEPT !.page = p, !.recycled = recycled] \in LogType
           /\ [log EXCEPT !.page = p, !.recycled = recycled].second = log.second
           /\ [log EXCEPT !.page = p, !.recycled = recycled].page = p
           /\ [log EXCEPT !.page = p, !.recycled = recycled].recycled = recycled
           /\ [log EXCEPT !.page = p, !.recycled = recycled].blk = log.blk
           /\ [log EXCEPT !.page = p, !.recycled = recycled].list = log.list
           /\ [log EXCEPT !.page = p, !.recycled = recycled].nextLow = log.nextLow
           /\ [log EXCEPT !.page = p, !.recycled = recycled].chunk = log.chunk
           /\ [log EXCEPT !.page = p, !.recycled = recycled].ptr = log.ptr
           /\ [log EXCEPT !.page = p, !.recycled = recycled].allValid = log.allValid
BY DEF LogType

LEMMA SecondPages ==
    ASSUME TypeInv, hot.second, hot.page # LastDataPage
    PROVE  /\ hot \in LogType /\ hot.blk \in Blks
           /\ NextPage \in 0..(P - 2)
           /\ NextPage % 2 = 0 => NextPage + 1 \in Pages
           /\ NextPage % 2 = 1 => NextPage + 1 \in 0..(P - 2)
           /\ NextPage % 2 = 1 /\ NextPage + 2 < LastDataPage => NextPage + 2 \in Pages
           /\ NextPage % 2 \in {0, 1}
<1>1. hot \in LogType /\ hot.page \in 0..(P - 2) /\ hot.blk \in Blks
  BY LogFields DEF TypeInv, HotOK
<1>2. QED
  BY <1>1, SizeLemma DEF NextPage, LastDataPage, Pages

LEMMA AdvanceSecondTypes ==
    ASSUME TypeInv, AdvanceToHigh \/ AdvanceToTestedLow \/ AdvanceToPage1 \/ SkipLow
    PROVE  TypeInv'
<1>1. /\ hot.second /\ hot.page # LastDataPage
      /\ pc' = "idle"
      /\ UNCHANGED <<map, cold, clean, gc, lists, precached, programs, latest, frames>>
  BY DEF AdvanceToHigh, AdvanceToTestedLow, AdvanceToPage1, SkipLow, InSecondUsage, Goto
<1>2. MapOK' /\ ColdOK' /\ CleanOK' /\ GcOK' /\ ListsOK' /\ ProgramsOK' /\ ControlOK'
  BY <1>1 DEF MapOK, ColdOK, CleanOK, GcOK, ListsOK, ProgramsOK, ControlOK, Labels, TypeInv
<1>3. HeapOK /\ hot \in LogType
  BY DEF TypeInv, HotOK
<1>4. CASE AdvanceToHigh
  <2>1. NextPage % 2 = 0
    BY <1>4 DEF AdvanceToHigh
  <2>2. PICK log : log = [hot EXCEPT !.page = NextPage, !.recycled = FALSE]
    OBVIOUS
  <2>3. log \in LogType /\ log.second
    BY <1>1, <1>3, <2>2, SecondPages, MovedLogType
  <2>4. TestLowPage(log, NextPage + 1)
    BY <1>4, <2>2 DEF AdvanceToHigh
  <2>5. HotOK' /\ HeapOK'
    BY <1>1, <1>3, <2>1, <2>3, <2>4, SecondPages, TestLowPageType
  <2>6. QED
    BY <1>2, <2>5 DEF TypeInv
<1>5. CASE AdvanceToTestedLow
  <2>1. PICK log : log = [hot EXCEPT !.page = NextPage, !.recycled = TRUE]
    OBVIOUS
  <2>2. log \in LogType /\ log.second
    BY <1>1, <1>3, <2>1, SecondPages DEF LogType
  <2>3. hot' = log
    BY <1>5, <2>1 DEF AdvanceToTestedLow
  <2>4. HotOK'
    BY <2>2, <2>3 DEF HotOK
  <2>5. HeapOK'
    BY <1>5 DEF AdvanceToTestedLow, HeapOK, TypeInv
  <2>6. QED
    BY <1>2, <2>4, <2>5 DEF TypeInv
<1>6. CASE AdvanceToPage1
  <2>1. PICK log : log = [hot EXCEPT !.page = 1, !.recycled = TRUE]
    OBVIOUS
  <2>2. log \in LogType /\ log.second
    <3>1. 1 \in 0..(P - 2)
      BY SizeLemma
    <3>2. QED
      BY <1>1, <1>3, <2>1, <3>1 DEF LogType
  <2>3. hot' = Reusing(log, 1) /\ heap' = HeapReusing(hot.blk)
    BY <1>6, <2>1 DEF AdvanceToPage1
  <2>4. HotOK'
    BY <2>2, <2>3, SizeLemma, ReusingType DEF HotOK
  <2>5. HeapOK'
    BY <1>1, <1>3, <2>3, SecondPages, HeapReusingType DEF HeapOK
  <2>6. QED
    BY <1>2, <2>4, <2>5 DEF TypeInv
<1>7. CASE SkipLow
  <2>1. NextPage % 2 = 1
    BY <1>7 DEF SkipLow
  <2>2. PICK log : log = [hot EXCEPT !.page = NextPage + 1, !.recycled = FALSE]
    OBVIOUS
  <2>3. log \in LogType /\ log.second
    <3>1. PICK p \in 0..(P - 2) : p = NextPage + 1
      BY <1>1, <2>1, SecondPages
    <3>2. QED
      BY <1>1, <1>3, <2>2, <3>1, MovedLogType
  <2>4. IF NextPage + 2 < LastDataPage THEN TestLowPage(log, NextPage + 2)
        ELSE hot' = log /\ UNCHANGED heap
    BY <1>7, <2>2 DEF SkipLow
  <2>5. HotOK' /\ HeapOK'
    <3>1. CASE NextPage + 2 < LastDataPage
      BY <1>1, <1>3, <2>1, <2>3, <2>4, <3>1, SecondPages, TestLowPageType
    <3>2. CASE ~(NextPage + 2 < LastDataPage)
      BY <1>3, <2>3, <2>4, <3>2 DEF HotOK, HeapOK
    <3>3. QED
      BY <3>1, <3>2
  <2>6. QED
    BY <1>2, <2>5 DEF TypeInv
<1>8. QED
  BY <1>4, <1>5, <1>6, <1>7

LEMMA FillSecondTypes ==
    ASSUME TypeInv, FillSecond
    PROVE  TypeInv'
<1>1. hot \in LogType /\ hot.blk \in Blks /\ hot.list \in Lists /\ P - 1 \in Pages
  BY LogFields, SizeLemma DEF TypeInv, HotOK
<1>2. HotOK'
  BY <1>1, ListsLemma DEF FillSecond, HotOK, LogType, TypeInv
<1>3. ProgramsOK'
  BY <1>1, ProgramType DEF FillSecond, TypeInv
<1>4. ListsOK'
  BY <1>1 DEF FillSecond, ListsOK, TypeInv
<1>5. HeapOK'
  BY <1>1 DEF FillSecond, HeapOK, Heaps, TypeInv
<1>6. ControlOK'
  BY DEF FillSecond, Goto, ControlOK, Labels, TypeInv
<1>7. MapOK' /\ ColdOK' /\ CleanOK' /\ GcOK'
  BY DEF FillSecond, MapOK, ColdOK, CleanOK, GcOK, TypeInv
<1>8. QED
  BY <1>2, <1>3, <1>4, <1>5, <1>6, <1>7 DEF TypeInv

LEMMA HeadTailLemma ==
    ASSUME CleanOK, clean # <<>>
    PROVE  Head(clean) \in Blks /\ Tail(clean) \in Seq(Blks)
BY DEF CleanOK

LEMMA HotOnCleanBlkType ==
    ASSUME hot \in LogType, NEW b \in Blks
    PROVE  /\ HotOnCleanBlk(b) \in LogType
           /\ HotOnCleanBlk(b).page = 0 /\ HotOnCleanBlk(b).second = FALSE
           /\ HotOnCleanBlk(b).recycled = FALSE /\ HotOnCleanBlk(b).blk = b
           /\ HotOnCleanBlk(b).ptr = hot.ptr /\ HotOnCleanBlk(b).chunk = hot.chunk
           /\ HotOnCleanBlk(b).list = hot.list /\ HotOnCleanBlk(b).allValid = hot.allValid
<1>1. 0 \in 0..(P - 2)
  BY SizeLemma
<1>2. QED
  BY <1>1 DEF HotOnCleanBlk, LogType

LEMMA CleanLogOK ==
    ASSUME hot \in LogType, NEW b \in Blks, hot' = HotOnCleanBlk(b)
    PROVE  HotOK'
<1>1. /\ HotOnCleanBlk(b) \in LogType
      /\ HotOnCleanBlk(b).page = 0 /\ HotOnCleanBlk(b).recycled = FALSE
  BY HotOnCleanBlkType
<1>2. hot' \in LogType /\ hot'.page = 0 /\ ~hot'.recycled
  BY <1>1
<1>3. 0 <= P - 5 /\ LowPage(0)
  BY SizeLemma DEF LowPage
<1>4. QED
  BY <1>2, <1>3 DEF HotOK

LEMMA UseCleanBlkTypes ==
    ASSUME TypeInv, UseCleanBlk
    PROVE  TypeInv'
<1>1. clean # <<>> /\ CleanOK /\ hot \in LogType
  BY DEF UseCleanBlk, TypeInv, CleanOK, HotOK
<1>2. Head(clean) \in Blks /\ Tail(clean) \in Seq(Blks)
  BY <1>1, HeadTailLemma
<1>3. HotOK' /\ CleanOK'
  <2>1. hot' = HotOnCleanBlk(Head(clean)) /\ clean' = Tail(clean)
    BY DEF UseCleanBlk
  <2>2. HotOK'
    BY <1>1, <1>2, <2>1, CleanLogOK
  <2>3. QED
    BY <1>2, <2>1, <2>2 DEF CleanOK
<1>4. ControlOK'
  BY DEF UseCleanBlk, Goto, ControlOK, Labels, TypeInv
<1>5. MapOK' /\ ColdOK' /\ HeapOK' /\ GcOK' /\ ListsOK' /\ ProgramsOK'
  BY DEF UseCleanBlk, MapOK, ColdOK, HeapOK, GcOK, ListsOK, ProgramsOK, TypeInv
<1>6. QED
  BY <1>3, <1>4, <1>5 DEF TypeInv

LEMMA UseLastCleanBlkTypes ==
    ASSUME TypeInv, NEW hotFirst, UseLastCleanBlk(hotFirst)
    PROVE  TypeInv'
<1>1. CleanOK /\ hot \in LogType
  BY DEF TypeInv, HotOK
<1>2. ControlOK'
  BY DEF UseLastCleanBlk, Hang, Goto, ControlOK, Labels, Hangs, TypeInv
<1>3. MapOK' /\ ColdOK' /\ HeapOK' /\ GcOK' /\ ListsOK' /\ ProgramsOK'
  BY DEF UseLastCleanBlk, MapOK, ColdOK, HeapOK, GcOK, ListsOK, ProgramsOK, TypeInv
<1>4. CASE clean = <<>>
  BY <1>2, <1>3, <1>4 DEF UseLastCleanBlk, HotOK, CleanOK, TypeInv
<1>5. CASE clean # <<>>
  <2>1. Head(clean) \in Blks /\ Tail(clean) \in Seq(Blks)
    BY <1>1, <1>5, HeadTailLemma
  <2>2. HotOK' /\ CleanOK'
    <3>1. hot' = HotOnCleanBlk(Head(clean)) /\ clean' = Tail(clean)
      BY <1>5 DEF UseLastCleanBlk
    <3>2. HotOK'
      BY <1>1, <2>1, <3>1, CleanLogOK
    <3>3. QED
      BY <2>1, <3>1, <3>2 DEF CleanOK
  <2>3. QED
    BY <1>2, <1>3, <2>2 DEF TypeInv
<1>6. QED
  BY <1>4, <1>5

\* What the reuse of a block does to the hot log and the heaps; the first page
\* of the second usage is encoded, or page 2 comes first.
ReuseLog(b) == [hot EXCEPT !.blk = b, !.page = 0, !.second = TRUE, !.list = lists[b].low]
ReuseCount(h, b) == CASE h = "first" -> FirstUsageInit
                      [] h = "second" -> heap["first"].value[b]
                      [] h = "cold" -> SecondUsageInit
ReuseRemoved(b) == [h \in Heaps |-> Removed(h, b, ReuseCount(h, b))]
ReuseEncoding(b, p) ==
    /\ CanReuseLowPage(ReuseLog(b), p)
    /\ hot' = [Reusing([ReuseLog(b) EXCEPT !.page = p, !.recycled = TRUE], p)
                  EXCEPT !.precacheDone = TRUE]
    /\ heap' = [ReuseRemoved(b) EXCEPT !["second"].value[b] = @ + S]
    /\ pc' = "idle"
ReuseHighOnly(b) ==
    /\ hot' = [ReuseLog(b) EXCEPT !.page = 1, !.recycled = FALSE,
                                  !.precacheDone = FALSE, !.nextLow = None]
    /\ heap' = ReuseRemoved(b)
    /\ pc' = "advanceHot"

LEMMA ReuseBlkEffect ==
    ASSUME NEW hotFirst, ReuseBlk(hotFirst)
    PROVE  /\ pc = "findHot" /\ Len(clean) <= 2
           /\ UNCHANGED <<map, cold, clean, gc, lists, programs, latest, frames>>
           /\ \E b \in Roots("first") : \/ \E p \in {0, 1} : ReuseEncoding(b, p)
                                        \/ ReuseHighOnly(b)
<1>1. PICK b \in Roots("first") :
         LET n == heap["first"].value[b]
             removed == [h \in Heaps |-> Removed(h, b, CASE h = "first" -> FirstUsageInit
                                                         [] h = "second" -> n
                                                         [] h = "cold" -> SecondUsageInit)]
             log == [hot EXCEPT !.blk = b, !.page = 0, !.second = TRUE,
                                !.list = lists[b].low]
             first == {p \in {0, 1} : CanReuseLowPage(log, p)}
             p == IF 0 \in first THEN 0 ELSE 1
         IN IF first # {}
            THEN /\ hot' = [Reusing([log EXCEPT !.page = p, !.recycled = TRUE], p)
                               EXCEPT !.precacheDone = TRUE]
                 /\ heap' = [removed EXCEPT !["second"].value[b] = @ + S]
                 /\ precached' = <<b, hot.nextLow>>
                 /\ Goto("idle")
            ELSE /\ hot' = [log EXCEPT !.page = 1, !.recycled = FALSE,
                                       !.precacheDone = FALSE, !.nextLow = None]
                 /\ heap' = removed
                 /\ UNCHANGED precached
                 /\ Goto("advanceHot")
  BY DEF ReuseBlk
<1>2. DEFINE first == {p \in {0, 1} : CanReuseLowPage(ReuseLog(b), p)}
<1>3. CASE first # {}
  <2>1. PICK p \in {0, 1} : p = (IF 0 \in first THEN 0 ELSE 1)
    OBVIOUS
  <2>2. CanReuseLowPage(ReuseLog(b), p)
    BY <1>3, <2>1
  <2>3. ReuseEncoding(b, p)
    BY <1>1, <1>3, <2>1, <2>2 DEF ReuseEncoding, ReuseRemoved, ReuseCount, ReuseLog, Goto
  <2>4. QED
    BY <2>3 DEF ReuseBlk
<1>4. CASE first = {}
  <2>1. ReuseHighOnly(b)
    BY <1>1, <1>4 DEF ReuseHighOnly, ReuseRemoved, ReuseCount, ReuseLog, Goto
  <2>2. QED
    BY <2>1 DEF ReuseBlk
<1>5. QED
  BY <1>3, <1>4

HeapType == [Heaps -> [value : [Blks -> Int], in : SUBSET Blks]]

LEMMA ReuseRemovedType ==
    ASSUME HeapOK, NEW b \in Blks
    PROVE  /\ ReuseRemoved(b) \in HeapType
           /\ \A h \in Heaps : /\ ReuseRemoved(b)[h].in = heap[h].in \ {b}
                               /\ \A d \in Blks \ {b} : ReuseRemoved(b)[h].value[d] = heap[h].value[d]
           /\ ReuseRemoved(b)["second"].value[b] = heap["first"].value[b]
           /\ ReuseRemoved(b)["first"].value[b] = FirstUsageInit
           /\ ReuseRemoved(b)["cold"].value[b] = SecondUsageInit
<1>1. FirstUsageInit \in Int /\ SecondUsageInit \in Int
  BY SizeLemma DEF FirstUsageInit, SecondUsageInit
<1>2. \A h \in Heaps : /\ heap[h].value \in [Blks -> Int] /\ heap[h].in \in SUBSET Blks
  BY DEF HeapOK
<1>3. \A h \in Heaps : ReuseCount(h, b) \in Int
  BY <1>1, <1>2 DEF ReuseCount, Heaps
<1>4. \A h \in Heaps : Removed(h, b, ReuseCount(h, b)) =
                          [value |-> [heap[h].value EXCEPT ![b] = ReuseCount(h, b)],
                           in |-> heap[h].in \ {b}]
  BY DEF Removed
<1>5. ReuseRemoved(b) \in HeapType
  BY <1>2, <1>3, <1>4 DEF ReuseRemoved, HeapType
<1>6. \A h \in Heaps : /\ ReuseRemoved(b)[h].in = heap[h].in \ {b}
                       /\ ReuseRemoved(b)[h].value = [heap[h].value EXCEPT ![b] = ReuseCount(h, b)]
  BY <1>4 DEF ReuseRemoved
<1>7. \A h \in Heaps : \A d \in Blks \ {b} : ReuseRemoved(b)[h].value[d] = heap[h].value[d]
  BY <1>2, <1>6
<1>8. \A h \in Heaps : ReuseRemoved(b)[h].value[b] = ReuseCount(h, b)
  BY <1>2, <1>6
<1>9. /\ ReuseCount("second", b) = heap["first"].value[b]
      /\ ReuseCount("first", b) = FirstUsageInit
      /\ ReuseCount("cold", b) = SecondUsageInit
  BY DEF ReuseCount
<1>10. QED
  BY <1>5, <1>6, <1>7, <1>8, <1>9 DEF Heaps

LEMMA RootsLemma ==
    ASSUME HeapOK, NEW h \in Heaps, NEW b \in Roots(h)
    PROVE  b \in heap[h].in /\ b \in Blks
BY DEF Roots, HeapOK

LEMMA ReuseBlkTypes ==
    ASSUME TypeInv, NEW hotFirst, ReuseBlk(hotFirst)
    PROVE  TypeInv'
<1>1. PICK b \in Roots("first") : (\E p \in {0, 1} : ReuseEncoding(b, p)) \/ ReuseHighOnly(b)
  BY ReuseBlkEffect
<1>2. HeapOK /\ hot \in LogType /\ b \in Blks
  BY RootsLemma DEF TypeInv, HotOK, Heaps
<1>3. ReuseLog(b) \in LogType /\ ReuseLog(b).second = TRUE
  <2>1. lists[b].low \in Lists /\ 0 \in 0..(P - 2)
    BY <1>2, SizeLemma DEF TypeInv, ListsOK
  <2>2. QED
    BY <1>2, <2>1 DEF ReuseLog, LogType
<1>4. ControlOK'
  BY <1>1, ReuseBlkEffect DEF ReuseEncoding, ReuseHighOnly, ControlOK, Labels, TypeInv
<1>5. MapOK' /\ ColdOK' /\ CleanOK' /\ GcOK' /\ ListsOK' /\ ProgramsOK'
  BY ReuseBlkEffect DEF MapOK, ColdOK, CleanOK, GcOK, ListsOK, ProgramsOK, TypeInv
<1>6. CASE \E p \in {0, 1} : ReuseEncoding(b, p)
  <2>1. PICK p \in {0, 1} : ReuseEncoding(b, p)
    BY <1>6
  <2>2. p \in Pages /\ p \in 0..(P - 2)
    BY SizeLemma DEF Pages
  <2>3. PICK log : log = [ReuseLog(b) EXCEPT !.page = p, !.recycled = TRUE]
    OBVIOUS
  <2>4. log \in LogType /\ log.second = TRUE
    BY <1>3, <2>2, <2>3 DEF LogType
  <2>5. Reusing(log, p) \in LogType /\ Reusing(log, p).second = TRUE
    BY <2>2, <2>4, ReusingType
  <2>6. hot' = [Reusing(log, p) EXCEPT !.precacheDone = TRUE]
    BY <2>1, <2>3 DEF ReuseEncoding
  <2>7. hot' \in LogType /\ hot'.second = TRUE
    BY <2>5, <2>6 DEF LogType
  <2>8. HotOK'
    BY <2>7 DEF HotOK
  <2>9. HeapOK'
    <3>1. heap' = [ReuseRemoved(b) EXCEPT !["second"].value[b] = @ + S]
      BY <2>1 DEF ReuseEncoding
    <3>2. ReuseRemoved(b) \in HeapType /\ S \in Int
      BY <1>2, SizeLemma, ReuseRemovedType
    <3>3. heap' \in HeapType
      BY <1>2, <3>1, <3>2 DEF HeapType, Heaps
    <3>4. QED
      BY <3>3 DEF HeapOK, HeapType
  <2>10. QED
    BY <1>4, <1>5, <2>8, <2>9 DEF TypeInv
<1>7. CASE ReuseHighOnly(b)
  <2>1. 1 \in 0..(P - 2)
    BY SizeLemma
  <2>2. hot' \in LogType /\ hot'.second = TRUE
    BY <1>3, <1>7, <2>1 DEF ReuseHighOnly, LogType
  <2>3. HotOK'
    BY <2>2 DEF HotOK
  <2>4. HeapOK'
    BY <1>2, <1>7, ReuseRemovedType DEF ReuseHighOnly, HeapOK, HeapType
  <2>5. QED
    BY <1>4, <1>5, <2>3, <2>4 DEF TypeInv
<1>8. QED
  BY <1>1, <1>6, <1>7

----------------------------------------------------------------------------
(* The cold log and the collector keep the types.                          *)

LEMMA ReturnType ==
    ASSUME ControlOK, Return
    PROVE  ControlOK'
<1>1. CASE frames = <<>>
  BY <1>1 DEF Return, Goto, ControlOK, Labels
<1>2. CASE frames # <<>> /\ Top.kind = "copy"
  BY <1>2 DEF Return, Goto, ControlOK, Labels
<1>3. CASE frames # <<>> /\ Top.kind # "copy"
  <2>1. pc' = "collect" /\ frames' = SubSeq(frames, 1, Len(frames) - 1)
    BY <1>3 DEF Return, Goto, PopFrame
  <2>2. SubSeq(frames, 1, Len(frames) - 1) \in Seq(FrameType)
    BY <1>3 DEF ControlOK
  <2>3. QED
    BY <2>1, <2>2 DEF ControlOK, Labels
<1>4. QED
  BY <1>1, <1>2, <1>3

LEMMA AdvanceColdTypes ==
    ASSUME TypeInv, AdvanceCold
    PROVE  TypeInv'
<1>1. cold \in LogType /\ cold.page \in 0..(P - 2) /\ cold.page # P - 2
  BY LogFields DEF TypeInv, ColdOK, AdvanceCold, LastDataPage
<1>2. cold.page + 1 \in 0..(P - 2)
  BY <1>1, SizeLemma
<1>3. ColdOK'
  BY <1>1, <1>2 DEF AdvanceCold, ColdOK, LogType
<1>4. ControlOK'
  BY ReturnType DEF AdvanceCold, TypeInv
<1>5. MapOK' /\ HotOK' /\ HeapOK' /\ CleanOK' /\ GcOK' /\ ListsOK' /\ ProgramsOK'
  BY DEF AdvanceCold, MapOK, HotOK, HeapOK, CleanOK, GcOK, ListsOK, ProgramsOK, TypeInv
<1>6. QED
  BY <1>3, <1>4, <1>5 DEF TypeInv

LEMMA FillColdTypes ==
    ASSUME TypeInv, FillCold
    PROVE  TypeInv'
<1>1. cold \in LogType /\ cold.blk \in Blks /\ cold.list \in Lists /\ P - 1 \in Pages /\ CleanOK
  BY LogFields, SizeLemma DEF TypeInv, ColdOK
<1>2. ProgramsOK'
  BY <1>1, ProgramType DEF FillCold, TypeInv
<1>3. ListsOK'
  BY <1>1 DEF FillCold, ListsOK, TypeInv
<1>4. HeapOK'
  BY <1>1 DEF FillCold, HeapOK, Heaps, TypeInv
<1>5. ControlOK'
  BY DEF FillCold, Hang, Goto, ControlOK, Labels, Hangs, TypeInv
<1>6. MapOK' /\ HotOK' /\ GcOK'
  BY DEF FillCold, MapOK, HotOK, GcOK, TypeInv
<1>7. CASE clean = <<>>
  BY <1>1, <1>2, <1>3, <1>4, <1>5, <1>6, <1>7 DEF FillCold, ColdOK, CleanOK, TypeInv
<1>8. CASE clean # <<>>
  <2>1. Head(clean) \in Blks /\ Tail(clean) \in Seq(Blks) /\ 0 \in 0..(P - 2) /\ EmptyList \in Lists
    BY <1>1, <1>8, HeadTailLemma, SizeLemma, ListsLemma
  <2>2. cold' = [cold EXCEPT !.list = EmptyList, !.blk = Head(clean), !.page = 0] /\ clean' = Tail(clean)
    BY <1>8 DEF FillCold
  <2>3. ColdOK' /\ CleanOK'
    BY <1>1, <2>1, <2>2 DEF ColdOK, CleanOK, LogType
  <2>4. QED
    BY <1>2, <1>3, <1>4, <1>5, <1>6, <2>3 DEF TypeInv
<1>9. QED
  BY <1>7, <1>8

LEMMA ReclaimTypes ==
    ASSUME TypeInv, NEW b \in Blks, Reclaim(b)
    PROVE  /\ HeapOK' /\ CleanOK' /\ ListsOK' /\ ProgramsOK'
           /\ clean' = Append(clean, b)
           /\ \A h \in Heaps : /\ heap'[h].in = heap[h].in \ {b}
                               /\ heap'[h].value = [heap[h].value EXCEPT ![b] = InitialCount(h)]
<1>1. \A h \in Heaps : InitialCount(h) \in Int
  BY SizeLemma DEF InitialCount, FirstUsageInit, SecondUsageInit
<1>3. \A h \in Heaps : heap[h].value \in [Blks -> Int] /\ heap[h].in \in SUBSET Blks
  BY DEF TypeInv, HeapOK
<1>4. ASSUME NEW h \in Heaps
      PROVE  heap'[h] \in [value : [Blks -> Int], in : SUBSET Blks]
  <2>1. PICK value \in [Blks -> Int] : value = [heap[h].value EXCEPT ![b] = InitialCount(h)]
    BY <1>1, <1>3
  <2>2. PICK members \in SUBSET Blks : members = heap[h].in \ {b}
    BY <1>3
  <2>3. heap'[h] = [value |-> value, in |-> members]
    BY <2>1, <2>2 DEF Reclaim, Removed
  <2>4. QED
    BY <2>3
<1>5. HeapOK'
  BY <1>4 DEF HeapOK, Reclaim
<1>6. \A h \in Heaps : /\ heap'[h].in = heap[h].in \ {b}
                       /\ heap'[h].value = [heap[h].value EXCEPT ![b] = InitialCount(h)]
  BY DEF Reclaim, Removed
<1>7. CleanOK' /\ clean' = Append(clean, b)
  BY DEF Reclaim, CleanOK, TypeInv
<1>8. ListsOK' /\ ProgramsOK'
  BY ListsLemma DEF Reclaim, ListsOK, ProgramsOK, TypeInv
<1>9. QED
  BY <1>5, <1>6, <1>7, <1>8

LEMMA CollectAgainTypes ==
    ASSUME TypeInv, CollectAgain
    PROVE  TypeInv'
<1>1. MapOK' /\ HotOK' /\ ColdOK'
  BY DEF CollectAgain, MapOK, HotOK, ColdOK, TypeInv
<1>2. gc \in GcType /\ HeapOK /\ frames' = frames
  BY DEF TypeInv, GcOK, CollectAgain
<1>3. CASE gc.state = "idle" /\ heap[VictimHeap].in # {}
  <2>1. InitGC /\ VictimHeap \in Heaps
    BY <1>3 DEF CollectAgain, VictimHeap, Heaps
  <2>2. PICK b \in Roots(VictimHeap) :
          LET n == heap[VictimHeap].value[b]
              started == [gc EXCEPT !.victim = b, !.fromHeap = n, !.inBlk = 0]
          IN /\ Goto("collect")
             /\ IF n > 0
                THEN /\ gc' = [started EXCEPT !.state = "read", !.page = 0, !.encoded = FALSE]
                     /\ UNCHANGED <<heap, clean, lists, programs, latest>>
                ELSE /\ gc' = [started EXCEPT !.state = "idle"]
                     /\ Reclaim(b)
    BY <1>3, <2>1 DEF InitGC
  <2>3. b \in Blks
    BY <1>2, <2>1, RootsLemma
  <2>4. PICK n \in Int : n = heap[VictimHeap].value[b]
    BY <1>2, <2>1, <2>3 DEF HeapOK
  <2>5. ControlOK'
    BY <1>2, <2>2 DEF Goto, ControlOK, Labels, TypeInv
  <2>6. GcOK'
    <3>1. gc.valid = {}
      BY <1>3 DEF TypeInv, GcOK
    <3>2. PICK started : started = [gc EXCEPT !.victim = b, !.fromHeap = n, !.inBlk = 0]
      OBVIOUS
    <3>t. b \in Blks \cup {None} /\ n \in Int \cup {None}
      BY <2>3, <2>4
    <3>g. started \in GcType
      <4>1. PICK chosen : chosen = [gc EXCEPT !.victim = b, !.fromHeap = n]
        OBVIOUS
      <4>2. chosen \in GcType
        BY <1>2, <3>t, <4>1 DEF GcType
      <4>3. started = [chosen EXCEPT !.inBlk = 0]
        BY <1>2, <3>2, <4>1 DEF GcType
      <4>4. QED
        BY <4>2, <4>3 DEF GcType
    <3>3. /\ started \in GcType /\ started.victim = b /\ started.fromHeap = n
          /\ started.valid = {} /\ started.state = "idle"
      BY <1>2, <1>3, <3>g, <3>1, <3>2 DEF GcType
    <3>4. \/ gc' = [started EXCEPT !.state = "read", !.page = 0, !.encoded = FALSE]
          \/ gc' = [started EXCEPT !.state = "idle"]
      BY <2>2, <2>4, <3>2
    <3>5. gc' \in GcType
      <4>1. CASE gc' = [started EXCEPT !.state = "read", !.page = 0, !.encoded = FALSE]
        BY <3>g, <4>1 DEF GcType
      <4>2. CASE gc' = [started EXCEPT !.state = "idle"]
        BY <3>g, <4>2 DEF GcType
      <4>3. QED
        BY <3>4, <4>1, <4>2
    <3>6. gc'.state # "write" /\ gc'.victim = b /\ gc'.fromHeap = n /\ gc'.valid = {}
      BY <3>3, <3>4 DEF GcType
    <3>7. QED
      BY <2>3, <2>4, <3>5, <3>6 DEF GcOK
  <2>7. HeapOK' /\ CleanOK' /\ ListsOK' /\ ProgramsOK'
    <3>1. CASE n > 0
      BY <2>2, <2>4, <3>1 DEF HeapOK, CleanOK, ListsOK, ProgramsOK, TypeInv
    <3>2. CASE ~(n > 0)
      BY <2>2, <2>3, <2>4, <3>2, ReclaimTypes
    <3>3. QED
      BY <3>1, <3>2
  <2>8. QED
    BY <1>1, <2>5, <2>6, <2>7 DEF TypeInv
<1>4. CASE ~(gc.state = "idle" /\ heap[VictimHeap].in # {})
  <2>1. pc' \in {"no candidate", "collect"} /\ UNCHANGED <<heap, clean, gc, lists, programs, latest>>
    BY <1>4 DEF CollectAgain, InitGC, Hang, Goto
  <2>2. QED
    BY <1>1, <1>2, <2>1 DEF TypeInv, HeapOK, CleanOK, GcOK, ListsOK, ProgramsOK, ControlOK, Labels, Hangs
<1>5. QED
  BY <1>3, <1>4

LEMMA EnoughCleanTypes ==
    ASSUME TypeInv, EnoughClean
    PROVE  TypeInv'
<1>1. ControlOK'
  BY ReturnType DEF EnoughClean, TypeInv
<1>2. MapOK' /\ HotOK' /\ ColdOK' /\ HeapOK' /\ CleanOK' /\ GcOK' /\ ListsOK' /\ ProgramsOK'
  BY DEF EnoughClean, MapOK, HotOK, ColdOK, HeapOK, CleanOK, GcOK, ListsOK, ProgramsOK, TypeInv
<1>3. QED
  BY <1>1, <1>2 DEF TypeInv

LEMMA GcIdleTypes ==
    ASSUME TypeInv, GcIdle
    PROVE  TypeInv'
<1>1. ControlOK'
  BY DEF GcIdle, Goto, ControlOK, Labels, TypeInv
<1>2. MapOK' /\ HotOK' /\ ColdOK' /\ HeapOK' /\ CleanOK' /\ GcOK' /\ ListsOK' /\ ProgramsOK'
  BY DEF GcIdle, MapOK, HotOK, ColdOK, HeapOK, CleanOK, GcOK, ListsOK, ProgramsOK, TypeInv
<1>3. QED
  BY <1>1, <1>2 DEF TypeInv

LEMMA ValidSlotsLemma ==
    ASSUME NEW p \in Pages
    PROVE  /\ ValidSlots(p) \in SUBSET Slots /\ IsFiniteSet(ValidSlots(p))
           /\ Cardinality(ValidSlots(p)) \in Nat
           /\ IsEncoded(p) \in BOOLEAN
<1>1. ValidSlots(p) \in SUBSET Slots
  BY SizeLemma DEF ValidSlots
<1>2. IsFiniteSet(Slots)
  BY SizeLemma, FS_Interval DEF Slots
<1>3. IsFiniteSet(ValidSlots(p))
  BY <1>1, <1>2, FS_Subset
<1>4. QED
  BY <1>1, <1>3, FS_CardinalityType DEF IsEncoded

LEMMA ReadPageTypes ==
    ASSUME TypeInv, ReadPage
    PROVE  TypeInv'
<1>1. MapOK' /\ HotOK' /\ ColdOK' /\ HeapOK' /\ CleanOK' /\ ListsOK' /\ ProgramsOK'
  BY DEF ReadPage, MapOK, HotOK, ColdOK, HeapOK, CleanOK, ListsOK, ProgramsOK, TypeInv
<1>2. ControlOK'
  BY DEF ReadPage, Hang, Goto, ControlOK, Labels, Hangs, TypeInv
<1>3. CASE MeetsInconsistent
  BY <1>1, <1>2, <1>3 DEF ReadPage, GcOK, TypeInv
<1>4. CASE ~MeetsInconsistent
  <2>1. PICK p \in Pages :
          /\ ScannedTo(p) /\ ValidSlots(p) # {}
          /\ gc' = [gc EXCEPT !.state = "write", !.page = p, !.valid = ValidSlots(p),
                              !.encoded = IsEncoded(p),
                              !.inBlk = @ + Cardinality(ValidSlots(p))]
    BY <1>4 DEF ReadPage
  <2>2. p \in Nat /\ p <= P - 2
    BY <2>1, SizeLemma DEF ScannedTo, LastDataPage
  <2>3. PICK found \in SUBSET Slots : found = ValidSlots(p)
    BY ValidSlotsLemma
  <2>4. PICK n \in Int : n = gc.inBlk + Cardinality(ValidSlots(p))
    BY ValidSlotsLemma DEF TypeInv, GcOK, GcType
  <2>5. PICK e \in BOOLEAN : e = IsEncoded(p)
    BY ValidSlotsLemma
  <2>6. gc \in GcType /\ gc.state = "read" /\ gc.victim \in Blks /\ gc.fromHeap \in Int
    BY DEF ReadPage, TypeInv, GcOK
  <2>7. gc' = [gc EXCEPT !.state = "write", !.page = p, !.valid = found,
                         !.encoded = e, !.inBlk = n]
    BY <2>1, <2>3, <2>4, <2>5, <2>6 DEF GcType
  <2>8. GcOK'
    <3>1. gc' \in GcType
      BY <2>2, <2>6, <2>7 DEF GcType
    <3>2. gc'.state = "write" /\ gc'.victim = gc.victim /\ gc'.fromHeap = gc.fromHeap /\ gc'.page = p
      BY <2>6, <2>7 DEF GcType
    <3>3. QED
      BY <2>2, <2>6, <3>1, <3>2 DEF GcOK
  <2>9. QED
    BY <1>1, <1>2, <2>8 DEF TypeInv
<1>5. QED
  BY <1>3, <1>4

LEMMA EndOfVictimTypes ==
    ASSUME TypeInv, EndOfVictim
    PROVE  TypeInv'
<1>1. MapOK' /\ HotOK' /\ ColdOK'
  BY DEF EndOfVictim, MapOK, HotOK, ColdOK, TypeInv
<1>2. ControlOK'
  BY DEF EndOfVictim, Hang, Goto, ControlOK, Labels, Hangs, TypeInv
<1>3. gc \in GcType /\ gc.state = "read" /\ gc.valid = {} /\ gc.victim \in Blks
  BY DEF EndOfVictim, TypeInv, GcOK
<1>4. CASE gc.inBlk # gc.fromHeap
  BY <1>1, <1>2, <1>4 DEF EndOfVictim, TypeInv, HeapOK, CleanOK, GcOK, ListsOK, ProgramsOK
<1>5. CASE gc.inBlk = gc.fromHeap
  <2>1. HeapOK' /\ CleanOK' /\ ListsOK' /\ ProgramsOK'
    BY <1>3, <1>5, ReclaimTypes DEF EndOfVictim
  <2>2. P - 1 \in Nat
    BY SizeLemma
  <2>3. GcOK'
    BY <1>3, <1>5, <2>2 DEF EndOfVictim, GcOK, GcType
  <2>4. QED
    BY <1>1, <1>2, <2>1, <2>3 DEF TypeInv
<1>6. QED
  BY <1>4, <1>5

\* The slots of the victim's page hold chunks or None.
LEMMA SlotChunkLemma ==
    ASSUME TypeInv, gc.state = "write"
    PROVE  \A s \in Slots : SlotChunk(s) \in Chunks \cup {None}
<1>1. gc.victim \in Blks /\ gc.page \in Pages
  BY SizeLemma DEF TypeInv, GcOK, GcType, Pages
<1>2. lists[gc.victim].high \in [Pages -> PageType]
  BY <1>1, ListsLemma DEF TypeInv, ListsOK
<1>3. lists[gc.victim].high[gc.page] \in [Slots -> EntryType]
  BY <1>1, <1>2 DEF PageType
<1>4. QED
  BY <1>3 DEF SlotChunk, VictimEntry, EntryType

LEMMA AppendFrame ==
    ASSUME ControlOK, NEW f \in FrameType
    PROVE  Append(frames, f) \in Seq(FrameType)
BY DEF ControlOK

LEMMA CopyWholePageTypes ==
    ASSUME TypeInv, CopyWholePage
    PROVE  TypeInv'
<1>1. cold \in LogType /\ cold.blk \in Blks /\ cold.page \in Pages /\ cold.page \in 0..(P - 2) /\ cold.list \in Lists
  BY LogFields DEF TypeInv, ColdOK
<1>2. gc \in GcType /\ gc.state = "write"
  BY DEF TypeInv, GcOK, CopyWholePage
<1>3. \A s \in Slots : Entry(SlotChunk(s)) \in EntryType
  BY <1>2, SlotChunkLemma, EntryLemma
<1>4. ColdOK'
  <2>1. PICK page \in PageType : page = [s \in Slots |-> Entry(SlotChunk(s))]
    BY <1>3 DEF PageType
  <2>2. [cold.list EXCEPT ![cold.page] = page] \in Lists
    BY <1>1, <2>1, ListsLemma
  <2>3. cold' = [cold EXCEPT !.list = [cold.list EXCEPT ![cold.page] = page]]
    BY <1>1, <2>1 DEF CopyWholePage, LogType
  <2>4. QED
    BY <1>1, <2>2, <2>3 DEF ColdOK, LogType
<1>5. MapOK'
  <2>1. \A s \in Slots : FlashWLog(cold.blk, cold.page, s) \in Address
    BY <1>1 DEF Address
  <2>2. \A c \in Chunks : (\E s \in Slots : SlotChunk(s) = c) =>
                             (CHOOSE s \in Slots : SlotChunk(s) = c) \in Slots
    OBVIOUS
  <2>3. QED
    BY <2>1, <2>2 DEF CopyWholePage, MapOK, TypeInv
<1>6. GcOK'
  <2>n. PICK next \in Nat : next = gc.page + 1
    BY <1>2 DEF GcType
  <2>1. gc' = [gc EXCEPT !.state = "read", !.page = next, !.valid = {}, !.encoded = FALSE]
    BY <1>2, <2>n DEF CopyWholePage, GcType
  <2>2. gc' \in GcType
    BY <1>2, <2>1 DEF GcType
  <2>3. gc'.state = "read" /\ gc'.victim = gc.victim /\ gc'.fromHeap = gc.fromHeap /\ gc'.valid = {}
    BY <1>2, <2>1 DEF GcType
  <2>4. QED
    BY <1>2, <2>2, <2>3 DEF GcOK, TypeInv
<1>7. ControlOK'
  <2>1. [kind |-> "tail"] \in FrameType
    BY DEF FrameType
  <2>2. QED
    BY <2>1, AppendFrame DEF CopyWholePage, Goto, PushFrame, ControlOK, Labels, TypeInv
<1>8. ProgramsOK'
  BY <1>1, ProgramType DEF CopyWholePage, TypeInv
<1>9. HotOK' /\ HeapOK' /\ CleanOK' /\ ListsOK'
  BY DEF CopyWholePage, HotOK, HeapOK, CleanOK, ListsOK, TypeInv
<1>10. QED
  BY <1>4, <1>5, <1>6, <1>7, <1>8, <1>9 DEF TypeInv

LEMMA CopyByChunkTypes ==
    ASSUME TypeInv, CopyByChunk
    PROVE  TypeInv'
<1>1. gc \in GcType /\ gc.state = "write" /\ gc.victim \in Blks /\ gc.page \in Pages
  BY SizeLemma DEF TypeInv, GcOK, GcType, CopyByChunk, Pages
<1>2. GcOK'
  <2>1. CASE FullPageValid
    <3>1. PICK found \in SUBSET Slots :
             found = gc.valid \ {CHOOSE s \in Moved : \A t \in Moved : s <= t}
      BY <1>1 DEF GcType
    <3>2. PICK n \in Int : n = gc.inBlk - 1
      BY <1>1 DEF GcType
    <3>3. gc' = [gc EXCEPT !.valid = found, !.inBlk = n]
      BY <1>1, <2>1, <3>1, <3>2 DEF CopyByChunk, GcType
    <3>h. gc' \in GcType
      BY <1>1, <3>3 DEF GcType
    <3>4. gc'.state = gc.state /\ gc'.victim = gc.victim /\ gc'.fromHeap = gc.fromHeap /\ gc'.page = gc.page
      BY <1>1, <3>3 DEF GcType
    <3>5. QED
      BY <1>1, <3>h, <3>4 DEF GcOK, TypeInv
  <2>2. CASE ~FullPageValid
    BY <2>2 DEF CopyByChunk, GcOK, TypeInv
  <2>3. QED
    BY <2>1, <2>2
<1>3. ControlOK'
  <2>1. PICK f \in FrameType : f = [kind |-> "copy", blk |-> gc.victim, page |-> gc.page, encoded |-> gc.encoded]
    BY <1>1 DEF FrameType, GcType
  <2>2. QED
    BY <2>1, AppendFrame DEF CopyByChunk, Goto, PushFrame, ControlOK, Labels, TypeInv
<1>4. MapOK' /\ HotOK' /\ ColdOK' /\ HeapOK' /\ CleanOK' /\ ListsOK' /\ ProgramsOK'
  BY DEF CopyByChunk, MapOK, HotOK, ColdOK, HeapOK, CleanOK, ListsOK, ProgramsOK, TypeInv
<1>5. QED
  BY <1>2, <1>3, <1>4 DEF TypeInv

LEMMA CopyChunkTypes ==
    ASSUME TypeInv, CopyChunk
    PROVE  TypeInv'
<1>. DEFINE s == CHOOSE t \in gc.valid : \A u \in gc.valid : t <= u
            c == SlotChunk(s)
<1>1. gc \in GcType /\ gc.state = "write" /\ gc.valid \subseteq Slots /\ gc.valid # {}
  BY DEF TypeInv, GcOK, GcType, CopyChunk
<1>2. s \in Slots
  <2>1. \E t \in gc.valid : \A u \in gc.valid : t <= u
    <3>1. gc.valid \subseteq 0..(S - 1) /\ gc.valid # {} /\ S - 1 \in Nat
      BY <1>1, SizeLemma DEF Slots
    <3>2. QED
      BY <3>1, LeastElement
  <2>2. QED
    BY <1>1, <2>1
<1>3. c \in Chunks \cup {None}
  BY <1>1, <1>2, SlotChunkLemma
<1>4. cold \in LogType /\ cold.ptr \in Slots
  BY LogFields DEF TypeInv, ColdOK
<1>5. HotOK' /\ HeapOK' /\ CleanOK' /\ ListsOK' /\ ProgramsOK'
  BY DEF CopyChunk, HotOK, HeapOK, CleanOK, ListsOK, ProgramsOK, TypeInv
<1>6. ControlOK'
  BY DEF CopyChunk, Goto, ControlOK, Labels, TypeInv
<1>7. PICK left \in SUBSET Slots : left = gc.valid \ {s}
  BY <1>1
<1>8. PICK done : done = [gc EXCEPT !.valid = left]
  OBVIOUS
<1>9. /\ done \in GcType /\ done.state = "write" /\ done.victim = gc.victim
      /\ done.fromHeap = gc.fromHeap /\ done.page = gc.page /\ done.inBlk \in Int
  BY <1>1, <1>7, <1>8 DEF GcType
<1>10. \/ gc' = done /\ cold' = Buffered(cold, c) /\ map' = [map EXCEPT ![c] = DRAMColdLog(cold.ptr)]
       \/ gc' = [done EXCEPT !.inBlk = @ - 1] /\ cold' = cold /\ map' = map
  BY <1>7, <1>8 DEF CopyChunk
<1>. HIDE DEF s, c
<1>11. ColdOK' /\ MapOK'
  <2>1. CASE cold' = Buffered(cold, c) /\ map' = [map EXCEPT ![c] = DRAMColdLog(cold.ptr)]
    <3>1. ColdOK'
      BY <1>3, <1>4, <2>1, BufferedType DEF ColdOK
    <3>2. DRAMColdLog(cold.ptr) \in Address
      BY <1>4, AddressLemma
    <3>3. MapOK'
      BY <2>1, <3>2 DEF MapOK, TypeInv
    <3>4. QED
      BY <3>1, <3>3
  <2>2. CASE cold' = cold /\ map' = map
    BY <2>2 DEF ColdOK, MapOK, TypeInv
  <2>3. QED
    BY <1>10, <2>1, <2>2
<1>12. GcOK'
  <2>1. PICK n \in Int : n = done.inBlk - 1
    BY <1>9
  <2>2. gc' = done \/ gc' = [done EXCEPT !.inBlk = n]
    BY <1>9, <1>10, <2>1 DEF GcType
  <2>3. gc' \in GcType
    <3>1. CASE gc' = [done EXCEPT !.inBlk = n]
      BY <1>9, <3>1 DEF GcType
    <3>2. QED
      BY <1>9, <2>2, <3>1
  <2>4. gc'.state = "write" /\ gc'.victim = gc.victim /\ gc'.fromHeap = gc.fromHeap /\ gc'.page = gc.page
    BY <1>9, <2>2 DEF GcType
  <2>5. QED
    BY <1>1, <2>3, <2>4 DEF GcOK, TypeInv
<1>13. QED
  BY <1>5, <1>6, <1>11, <1>12 DEF TypeInv

LEMMA EndOfPageTypes ==
    ASSUME TypeInv, EndOfPage
    PROVE  TypeInv'
<1>1. gc \in GcType /\ gc.valid = {}
  BY DEF TypeInv, GcOK, EndOfPage
<1>2. GcOK'
  <2>1. CASE gc.state = "write"
    <3>1. PICK next \in Nat : next = gc.page + 1
      BY <1>1 DEF GcType
    <3>2. gc' = [gc EXCEPT !.state = "read", !.page = next, !.encoded = FALSE]
      BY <1>1, <2>1, <3>1 DEF EndOfPage, GcType
    <3>3. gc' \in GcType
      BY <1>1, <3>2 DEF GcType
    <3>4. gc'.state = "read" /\ gc'.victim = gc.victim /\ gc'.fromHeap = gc.fromHeap /\ gc'.valid = {}
      BY <1>1, <3>2 DEF GcType
    <3>5. QED
      BY <2>1, <3>3, <3>4 DEF GcOK, TypeInv
  <2>2. CASE gc.state # "write"
    BY <2>2 DEF EndOfPage, GcOK, TypeInv
  <2>3. QED
    BY <2>1, <2>2
<1>3. ControlOK'
  <2>1. SubSeq(frames, 1, Len(frames) - 1) \in Seq(FrameType)
    BY DEF ControlOK, TypeInv
  <2>2. QED
    BY <2>1 DEF EndOfPage, Goto, PopFrame, ControlOK, Labels
<1>4. MapOK' /\ HotOK' /\ ColdOK' /\ HeapOK' /\ CleanOK' /\ ListsOK' /\ ProgramsOK'
  BY DEF EndOfPage, MapOK, HotOK, ColdOK, HeapOK, CleanOK, ListsOK, ProgramsOK, TypeInv
<1>5. QED
  BY <1>2, <1>3, <1>4 DEF TypeInv

\* The steps of the firmware, named one by one.
LEMMA NextCases ==
    ASSUME Next
    PROVE  \/ \E c \in Chunks : WriteHot(c) \/ WriteCold(c) \/ MoveAway(c)
           \/ FlushHot \/ FlushCold \/ FlushRecycled
           \/ AdvanceFirst \/ FillFirst
           \/ AdvanceToHigh \/ AdvanceToTestedLow \/ AdvanceToPage1 \/ SkipLow \/ FillSecond
           \/ UseCleanBlk \/ (\E hotFirst \in HotFirst : ReuseBlk(hotFirst) \/ UseLastCleanBlk(hotFirst))
           \/ AdvanceCold \/ FillCold
           \/ CollectAgain \/ EnoughClean \/ GcIdle \/ ReadPage \/ EndOfVictim
           \/ CopyWholePage \/ CopyByChunk \/ CopyChunk \/ EndOfPage
BY DEF Next, HostWrite, Firmware, HotLog, ColdLog, Collector

LEMMA TypeStep == TypeInv /\ [Next]_vars => TypeInv'
<1>. SUFFICES ASSUME TypeInv, [Next]_vars PROVE TypeInv'
  OBVIOUS
<1>1. CASE UNCHANGED vars
  BY <1>1 DEF vars, TypeInv, MapOK, HotOK, ColdOK, HeapOK, CleanOK, GcOK, ListsOK, ProgramsOK, ControlOK
<1>2. ASSUME NEW c \in Chunks, WriteHot(c) \/ WriteCold(c) \/ MoveAway(c) PROVE TypeInv'
  BY <1>2, WriteHotTypes, WriteColdTypes, MoveAwayTypes
<1>3. CASE FlushHot \/ FlushCold \/ FlushRecycled
  BY <1>3, FlushHotTypes, FlushColdTypes, FlushRecycledTypes
<1>4. CASE AdvanceFirst \/ FillFirst
  BY <1>4, AdvanceFirstTypes, FillFirstTypes
<1>5. CASE AdvanceToHigh \/ AdvanceToTestedLow \/ AdvanceToPage1 \/ SkipLow \/ FillSecond
  BY <1>5, AdvanceSecondTypes, FillSecondTypes
<1>6. CASE UseCleanBlk
  BY <1>6, UseCleanBlkTypes
<1>7. ASSUME NEW hotFirst \in HotFirst, ReuseBlk(hotFirst) \/ UseLastCleanBlk(hotFirst) PROVE TypeInv'
  BY <1>7, ReuseBlkTypes, UseLastCleanBlkTypes
<1>8. CASE AdvanceCold \/ FillCold
  BY <1>8, AdvanceColdTypes, FillColdTypes
<1>9. CASE CollectAgain \/ EnoughClean \/ GcIdle
  BY <1>9, CollectAgainTypes, EnoughCleanTypes, GcIdleTypes
<1>10. CASE ReadPage \/ EndOfVictim
  BY <1>10, ReadPageTypes, EndOfVictimTypes
<1>11. CASE CopyWholePage \/ CopyByChunk \/ CopyChunk \/ EndOfPage
  BY <1>11, CopyWholePageTypes, CopyByChunkTypes, CopyChunkTypes, EndOfPageTypes
<1>12. QED
  BY NextCases, <1>1, <1>2, <1>3, <1>4, <1>5, <1>6, <1>7, <1>8, <1>9, <1>10, <1>11

LEMMA TypesImply == TypeInv => TypeOK
<1>. SUFFICES ASSUME TypeInv PROVE TypeOK
  OBVIOUS
<1>1. \A h \in Heaps : heap[h].in \subseteq Blks /\ heap[h].value \in [Blks -> Int]
  BY DEF TypeInv, HeapOK
<1>2. gc.state \in {"idle", "read", "write"} /\ gc.valid \subseteq Slots
  BY DEF TypeInv, GcOK, GcType
<1>3. /\ map \in [Chunks -> Address] /\ hot \in LogType /\ cold \in LogType /\ clean \in Seq(Blks)
      /\ lists \in [Blks -> [low : Lists, high : Lists]] /\ programs \in [Blks -> [Pages -> Nat]]
  BY DEF TypeInv, MapOK, HotOK, ColdOK, CleanOK, ListsOK, ProgramsOK
<1>4. /\ frames \in Seq(FrameType)
      /\ pc \in {"idle", "flushHot", "advanceHot", "findHot", "flushCold", "advanceCold",
                 "while", "collect", "copy"} \cup Hangs
  BY DEF TypeInv, ControlOK, Labels
<1>5. QED
  BY <1>1, <1>2, <1>3, <1>4 DEF TypeOK

LEMMA TypesAlways == Spec => []TypeInv
BY InitTypes, TypeStep, PTL DEF Spec

\* Every variable keeps its kind in every state of every bank; in particular no
\* address points to the last page of a block, where the DRAM buffers have theirs.
THEOREM TypeCorrect == Spec => []TypeOK
BY TypesAlways, TypesImply, PTL

----------------------------------------------------------------------------
(* The roles of the blocks.                                                *)

\* The members of a sequence, and a sequence without repetition.
Members(s) == {s[i] : i \in 1..Len(s)}
Distinct(s) == \A i, j \in 1..Len(s) : s[i] = s[j] => i = j

LEMMA TailMembers ==
    ASSUME NEW B, NEW s \in Seq(B), s # <<>>, Distinct(s)
    PROVE  /\ Distinct(Tail(s)) /\ Members(Tail(s)) = Members(s) \ {Head(s)}
           /\ Head(s) \in Members(s) /\ Len(Tail(s)) = Len(s) - 1 /\ Len(s) \in Nat \ {0}
<1>1. Len(s) \in Nat \ {0} /\ Len(Tail(s)) = Len(s) - 1 /\ Head(s) = s[1]
  OBVIOUS
<1>2. \A i \in 1..Len(Tail(s)) : Tail(s)[i] = s[i + 1] /\ i + 1 \in 1..Len(s)
  BY <1>1
<1>3. Distinct(Tail(s))
  <2>1. SUFFICES ASSUME NEW i \in 1..Len(Tail(s)), NEW j \in 1..Len(Tail(s)), Tail(s)[i] = Tail(s)[j]
                 PROVE  i = j
    BY DEF Distinct
  <2>2. i + 1 = j + 1
    BY <1>2, <2>1 DEF Distinct
  <2>3. QED
    BY <1>1, <2>2
<1>4. Members(Tail(s)) \subseteq Members(s) \ {Head(s)}
  <2>1. SUFFICES ASSUME NEW i \in 1..Len(Tail(s))
                 PROVE  Tail(s)[i] \in Members(s) \ {Head(s)}
    BY DEF Members
  <2>2. s[i + 1] # s[1]
    BY <1>1, <1>2 DEF Distinct
  <2>3. QED
    BY <1>1, <1>2, <2>2 DEF Members
<1>5. Members(s) \ {Head(s)} \subseteq Members(Tail(s))
  <2>1. SUFFICES ASSUME NEW i \in 1..Len(s), s[i] # s[1]
                 PROVE  s[i] \in Members(Tail(s))
    BY <1>1 DEF Members
  <2>2. i - 1 \in 1..Len(Tail(s)) /\ (i - 1) + 1 = i
    BY <1>1, <2>1
  <2>3. Tail(s)[i - 1] = s[i]
    BY <1>2, <2>2
  <2>4. QED
    BY <2>2, <2>3 DEF Members
<1>6. Members(Tail(s)) = Members(s) \ {Head(s)}
  BY <1>4, <1>5, Zenon
<1>7. Head(s) \in Members(s)
  BY <1>1 DEF Members
<1>8. QED
  BY <1>1, <1>3, <1>6, <1>7

LEMMA AppendMembers ==
    ASSUME NEW B, NEW s \in Seq(B), NEW b \in B, Distinct(s), b \notin Members(s)
    PROVE  /\ Distinct(Append(s, b)) /\ Members(Append(s, b)) = Members(s) \cup {b}
           /\ Len(Append(s, b)) = Len(s) + 1
<1>1. Len(s) \in Nat /\ Len(Append(s, b)) = Len(s) + 1 /\ Append(s, b)[Len(s) + 1] = b
  OBVIOUS
<1>2. \A i \in 1..Len(s) : Append(s, b)[i] = s[i] /\ s[i] # b
  BY DEF Members
<1>3. 1..Len(Append(s, b)) = 1..Len(s) \cup {Len(s) + 1}
  BY <1>1
<1>4. Distinct(Append(s, b))
  BY <1>1, <1>2, <1>3 DEF Distinct
<1>5. Members(Append(s, b)) = Members(s) \cup {b}
  BY <1>1, <1>2, <1>3 DEF Members
<1>6. QED
  BY <1>1, <1>4, <1>5

InHeaps == heap["first"].in \cup heap["second"].in \cup heap["cold"].in

\* A block is clean, in one heap or in one log.  When the hot log has filled its
\* block (findHot), that block is in a heap and the log has none.
Partition ==
    /\ CleanBlks \cap InHeaps = {}
    /\ heap["first"].in \cap heap["second"].in = {}
    /\ heap["first"].in \cap heap["cold"].in = {}
    /\ heap["second"].in \cap heap["cold"].in = {}
    /\ cold.blk \notin CleanBlks \cup InHeaps
    /\ pc = "findHot" => hot.blk \in InHeaps
    /\ pc # "findHot" => hot.blk \notin CleanBlks \cup InHeaps \cup {cold.blk}
    /\ Blks \subseteq CleanBlks \cup InHeaps \cup {cold.blk, hot.blk}

RoleInv == /\ Distinct(clean)
           /\ pc \notin Hangs => Partition
           /\ gc.state # "idle" => gc.victim \in heap["second"].in \cup heap["cold"].in

\* The step changes no role: it leaves the clean list, the members of the heaps
\* and the blocks of the logs alone, and starts no collection.
KeepsRoles ==
    /\ clean' = clean
    /\ \A h \in Heaps : heap'[h].in = heap[h].in
    /\ hot'.blk = hot.blk /\ cold'.blk = cold.blk
    /\ pc \notin Hangs /\ pc # "findHot" /\ pc' # "findHot"
    /\ gc'.state # "idle" => gc.state # "idle" /\ gc'.victim = gc.victim

LEMMA RolesKept ==
    ASSUME RoleInv, KeepsRoles
    PROVE  RoleInv'
<1>1. /\ heap'["first"].in = heap["first"].in /\ heap'["second"].in = heap["second"].in
      /\ heap'["cold"].in = heap["cold"].in
  BY DEF KeepsRoles, Heaps
<1>2. InHeaps' = InHeaps /\ CleanBlks' = CleanBlks
  BY <1>1 DEF InHeaps, CleanBlks, KeepsRoles
<1>3. Partition /\ Distinct(clean)'
  BY DEF RoleInv, KeepsRoles
<1>4. Partition'
  BY <1>1, <1>2, <1>3 DEF Partition, KeepsRoles
<1>5. gc'.state # "idle" => gc'.victim \in heap'["second"].in \cup heap'["cold"].in
  BY <1>1 DEF KeepsRoles, RoleInv
<1>6. QED
  BY <1>3, <1>4, <1>5 DEF RoleInv

\* The labels where the firmware goes on.
LEMMA LabelsLemma ==
    /\ \A l \in {"idle", "flushHot", "advanceHot", "findHot", "flushCold", "advanceCold",
                 "while", "collect", "copy"} : l \notin Hangs
    /\ "findHot" \notin Hangs
BY DEF Hangs

LEMMA WriteKeeps ==
    ASSUME TypeInv, NEW c \in Chunks, WriteHot(c) \/ WriteCold(c) \/ MoveAway(c)
    PROVE  KeepsRoles
<1>1. CASE WriteHot(c)
  <2>. DEFINE log == Buffered(HotWithoutOld(c), c)
  <2>1. log \in LogType /\ log.blk = hot.blk
    BY WithoutOldType, BufferedType
  <2>2. hot' = log \/ hot' = [log EXCEPT !.precacheDone = TRUE]
    BY <1>1 DEF WriteHot
  <2>. HIDE DEF log
  <2>3. hot'.blk = hot.blk
    BY <2>1, <2>2 DEF LogType
  <2>4. cold'.blk = cold.blk /\ gc'.state = gc.state /\ gc'.victim = gc.victim
    BY <1>1, WithoutOldType DEF WriteHot
  <2>5. \A h \in Heaps : heap'[h].in = heap[h].in
    BY <1>1, WithoutOldType DEF WriteHot
  <2>6. pc = "idle" /\ pc' # "findHot" /\ clean' = clean
    BY <1>1 DEF WriteHot, Goto
  <2>7. QED
    BY <2>3, <2>4, <2>5, <2>6, LabelsLemma DEF KeepsRoles
<1>2. CASE WriteCold(c)
  <2>1. cold' = Buffered(ColdWithoutOld(c), c) /\ hot' = HotWithoutOld(c) /\ gc' = GcWithoutOld(c)
        /\ heap' = HeapWithoutOld(c)
    BY <1>2 DEF WriteCold
  <2>2. Buffered(ColdWithoutOld(c), c).blk = cold.blk
    BY WithoutOldType, BufferedType
  <2>3. cold'.blk = cold.blk /\ hot'.blk = hot.blk /\ gc'.state = gc.state /\ gc'.victim = gc.victim
    BY <2>1, <2>2, WithoutOldType
  <2>4. \A h \in Heaps : heap'[h].in = heap[h].in
    BY <2>1, WithoutOldType
  <2>5. pc = "idle" /\ pc' # "findHot" /\ clean' = clean
    BY <1>2 DEF WriteCold, Goto
  <2>6. QED
    BY <2>3, <2>4, <2>5, LabelsLemma DEF KeepsRoles
<1>3. CASE MoveAway(c)
  <2>1. /\ hot' = HotWithoutOld(c) /\ cold' = ColdWithoutOld(c) /\ gc' = GcWithoutOld(c)
        /\ heap' = HeapWithoutOld(c) /\ pc = "idle" /\ pc' = pc /\ clean' = clean
    BY <1>3 DEF MoveAway
  <2>2. QED
    BY <2>1, WithoutOldType, LabelsLemma DEF KeepsRoles
<1>4. QED
  BY <1>1, <1>2, <1>3

LEMMA FlushKeeps ==
    ASSUME TypeInv, FlushHot \/ FlushCold \/ FlushRecycled
    PROVE  KeepsRoles
<1>1. hot \in LogType /\ cold \in LogType /\ HeapOK
  BY DEF TypeInv, HotOK, ColdOK
<1>2. CASE FlushHot
  <2>1. hot' = Flushed(hot) /\ heap' = HeapAfterFlush(hot)
    BY <1>2 DEF FlushHot, Flush
  <2>2. hot'.blk = hot.blk
    BY <1>1, <2>1, FlushedType
  <2>3. \A h \in Heaps : heap'[h].in = heap[h].in
    BY <1>1, <2>1, HeapAfterFlushType
  <2>4. pc = "flushHot" /\ pc' = "advanceHot" /\ UNCHANGED <<cold, clean, gc>>
    BY <1>2 DEF FlushHot, Goto
  <2>5. QED
    BY <2>2, <2>3, <2>4, LabelsLemma DEF KeepsRoles
<1>3. CASE FlushCold
  <2>1. cold' = Flushed(cold) /\ heap' = HeapAfterFlush(cold)
    BY <1>3 DEF FlushCold, Flush
  <2>2. cold'.blk = cold.blk
    BY <1>1, <2>1, FlushedType
  <2>3. \A h \in Heaps : heap'[h].in = heap[h].in
    BY <1>1, <2>1, HeapAfterFlushType
  <2>4. pc = "flushCold" /\ pc' = "advanceCold" /\ UNCHANGED <<hot, clean, gc>>
    BY <1>3 DEF FlushCold, Goto
  <2>5. QED
    BY <2>2, <2>3, <2>4, LabelsLemma DEF KeepsRoles
<1>4. CASE FlushRecycled
  <2>1. pc = "flushHot" /\ pc' \in {"precache mismatch", "advanceHot"} /\ UNCHANGED <<cold, clean, gc>>
    BY <1>4 DEF FlushRecycled, Hang, Goto
  <2>2. CASE hot.nextLow # hot.page
    <3>1. UNCHANGED <<hot, heap>>
      BY <1>4, <2>2 DEF FlushRecycled
    <3>2. QED
      BY <2>1, <3>1, LabelsLemma DEF KeepsRoles
  <2>3. CASE hot.nextLow = hot.page
    <3>1. hot'.blk = hot.blk
      BY <1>1, <1>4, <2>3, FlushRecycledLog
    <3>2. heap' = [heap EXCEPT !["second"].value[hot.blk] = @ - RecycledShortfall(hot)]
      BY <1>4, <2>3 DEF FlushRecycled
    <3>3. \A h \in Heaps : heap'[h].in = heap[h].in
      BY <1>1, <3>2 DEF HeapOK
    <3>4. QED
      BY <2>1, <3>1, <3>3, LabelsLemma DEF KeepsRoles
  <2>4. QED
    BY <2>2, <2>3
<1>5. QED
  BY <1>2, <1>3, <1>4

LEMMA TestLowPageKeeps ==
    ASSUME HeapOK, NEW log \in LogType, NEW p \in Pages, TestLowPage(log, p)
    PROVE  hot'.blk = log.blk /\ \A h \in Heaps : heap'[h].in = heap[h].in
<1>1. CASE p < LastDataPage /\ CanReuseLowPage(log, p)
  <2>1. hot' = Reusing(log, p) /\ heap' = [heap EXCEPT !["second"].value[log.blk] = @ + S]
    BY <1>1 DEF TestLowPage, HeapReusing
  <2>2. hot'.blk = log.blk
    BY <2>1, ReusingType
  <2>3. \A h \in Heaps : heap'[h].in = heap[h].in
    BY <2>1 DEF HeapOK
  <2>4. QED
    BY <2>2, <2>3
<1>2. CASE ~(p < LastDataPage /\ CanReuseLowPage(log, p))
  BY <1>2 DEF TestLowPage, LogType
<1>3. QED
  BY <1>1, <1>2

LEMMA AdvanceHotKeeps ==
    ASSUME TypeInv, AdvanceFirst \/ AdvanceToHigh \/ AdvanceToTestedLow \/ AdvanceToPage1 \/ SkipLow
    PROVE  KeepsRoles
<1>1. hot \in LogType /\ HeapOK /\ hot.blk \in Blks
  BY LogFields DEF TypeInv, HotOK
<1>2. pc = "advanceHot" /\ pc' = "idle" /\ UNCHANGED <<cold, clean, gc>>
  BY DEF AdvanceFirst, AdvanceToHigh, AdvanceToTestedLow, AdvanceToPage1, SkipLow, InSecondUsage, Goto
<1>3. SUFFICES hot'.blk = hot.blk /\ \A h \in Heaps : heap'[h].in = heap[h].in
  BY <1>2, LabelsLemma DEF KeepsRoles
<1>4. CASE AdvanceFirst \/ AdvanceToTestedLow
  BY <1>1, <1>4 DEF AdvanceFirst, AdvanceToTestedLow, LogType
<1>5. CASE AdvanceToHigh
  <2>1. hot.second /\ hot.page # LastDataPage /\ NextPage % 2 = 0
    BY <1>5 DEF AdvanceToHigh, InSecondUsage
  <2>2. PICK log : log = [hot EXCEPT !.page = NextPage, !.recycled = FALSE]
    OBVIOUS
  <2>3. log \in LogType /\ log.blk = hot.blk
    BY <1>1, <2>1, <2>2, SecondPages, MovedLogType
  <2>4. TestLowPage(log, NextPage + 1) /\ NextPage + 1 \in Pages
    BY <1>5, <2>1, <2>2, SecondPages DEF AdvanceToHigh
  <2>5. QED
    BY <1>1, <2>3, <2>4, TestLowPageKeeps
<1>6. CASE AdvanceToPage1
  <2>1. PICK log : log = [hot EXCEPT !.page = 1, !.recycled = TRUE]
    OBVIOUS
  <2>2. log \in LogType /\ log.blk = hot.blk
    <3>1. 1 \in 0..(P - 2)
      BY SizeLemma
    <3>2. QED
      BY <1>1, <2>1, <3>1 DEF LogType
  <2>3. hot' = Reusing(log, 1) /\ heap' = [heap EXCEPT !["second"].value[hot.blk] = @ + S]
    BY <1>6, <2>1 DEF AdvanceToPage1, HeapReusing
  <2>4. hot'.blk = hot.blk
    BY <2>2, <2>3, SizeLemma, ReusingType
  <2>5. \A h \in Heaps : heap'[h].in = heap[h].in
    BY <1>1, <2>3 DEF HeapOK
  <2>6. QED
    BY <2>4, <2>5
<1>7. CASE SkipLow
  <2>1. hot.second /\ hot.page # LastDataPage /\ NextPage % 2 = 1
    BY <1>7 DEF SkipLow, InSecondUsage
  <2>2. PICK log : log = [hot EXCEPT !.page = NextPage + 1, !.recycled = FALSE]
    OBVIOUS
  <2>3. log \in LogType /\ log.blk = hot.blk
    <3>1. PICK p \in 0..(P - 2) : p = NextPage + 1
      BY <2>1, SecondPages
    <3>2. QED
      BY <1>1, <2>2, <3>1, MovedLogType
  <2>4. IF NextPage + 2 < LastDataPage THEN TestLowPage(log, NextPage + 2)
        ELSE hot' = log /\ UNCHANGED heap
    BY <1>7, <2>2 DEF SkipLow
  <2>5. CASE NextPage + 2 < LastDataPage
    BY <1>1, <2>1, <2>3, <2>4, <2>5, SecondPages, TestLowPageKeeps
  <2>6. CASE ~(NextPage + 2 < LastDataPage)
    BY <2>3, <2>4, <2>6
  <2>7. QED
    BY <2>5, <2>6
<1>8. QED
  BY <1>4, <1>5, <1>6, <1>7

LEMMA ReturnLabel ==
    ASSUME Return
    PROVE  /\ pc' \in {"idle", "copy", "collect"}
           /\ pc' = "idle" => frames = <<>> /\ frames' = <<>>
           /\ pc' = "copy" => frames # <<>> /\ Top.kind = "copy" /\ frames' = frames
           /\ pc' = "collect" => frames # <<>> /\ frames' = SubSeq(frames, 1, Len(frames) - 1)
BY DEF Return, Goto, PopFrame

LEMMA CollectorKeeps ==
    ASSUME TypeInv,
           AdvanceCold \/ EnoughClean \/ GcIdle \/ ReadPage \/ CopyWholePage
           \/ CopyByChunk \/ CopyChunk \/ EndOfPage
    PROVE  KeepsRoles
<1>1. cold \in LogType /\ gc \in GcType
  BY DEF TypeInv, ColdOK, GcOK
<1>2. /\ UNCHANGED <<hot, heap, clean>>
      /\ pc \in {"advanceCold", "while", "collect", "copy"}
  BY DEF AdvanceCold, EnoughClean, GcIdle, ReadPage, CopyWholePage, CopyByChunk, CopyChunk, EndOfPage
<1>3. pc' # "findHot"
  <2>1. CASE AdvanceCold \/ EnoughClean
    BY <2>1, ReturnLabel DEF AdvanceCold, EnoughClean
  <2>2. CASE GcIdle \/ ReadPage \/ CopyWholePage \/ CopyByChunk \/ CopyChunk \/ EndOfPage
    BY <2>2 DEF GcIdle, ReadPage, CopyWholePage, CopyByChunk, CopyChunk, EndOfPage, Goto, Hang
  <2>3. QED
    BY <2>1, <2>2
<1>4. cold'.blk = cold.blk
  <2>1. CASE CopyChunk
    <3>1. \/ cold' = cold
          \/ cold' = Buffered(cold, SlotChunk(CHOOSE t \in gc.valid : \A u \in gc.valid : t <= u))
      BY <2>1 DEF CopyChunk
    <3>2. \A c : Buffered(cold, c).blk = cold.blk
      BY <1>1 DEF Buffered, LogType
    <3>3. QED
      BY <3>1, <3>2, Zenon
  <2>2. CASE AdvanceCold \/ CopyWholePage
    BY <1>1, <2>2 DEF AdvanceCold, CopyWholePage, LogType
  <2>3. CASE EnoughClean \/ GcIdle \/ ReadPage \/ CopyByChunk \/ EndOfPage
    BY <2>3 DEF EnoughClean, GcIdle, ReadPage, CopyByChunk, EndOfPage
  <2>4. QED
    BY <2>1, <2>2, <2>3
<1>5. gc'.state # "idle" => gc.state # "idle" /\ gc'.victim = gc.victim
  <2>1. CASE AdvanceCold \/ EnoughClean \/ GcIdle
    BY <2>1 DEF AdvanceCold, EnoughClean, GcIdle
  <2>2. CASE ReadPage
    BY <1>1, <2>2 DEF ReadPage, GcType
  <2>3. CASE CopyWholePage
    BY <1>1, <2>3 DEF CopyWholePage, GcType
  <2>4. CASE CopyByChunk
    BY <1>1, <2>4 DEF CopyByChunk, GcType
  <2>5. CASE CopyChunk
    <3>1. PICK left : \/ gc' = [gc EXCEPT !.valid = left]
                      \/ gc' = [[gc EXCEPT !.valid = left] EXCEPT !.inBlk = @ - 1]
      BY <2>5 DEF CopyChunk
    <3>2. QED
      BY <1>1, <2>5, <3>1 DEF GcType
  <2>6. CASE EndOfPage
    BY <1>1, <2>6 DEF EndOfPage, GcType
  <2>7. QED
    BY <2>1, <2>2, <2>3, <2>4, <2>5, <2>6
<1>6. pc \notin Hangs /\ pc # "findHot"
  BY <1>2 DEF Hangs
<1>7. QED
  BY <1>2, <1>3, <1>4, <1>5, <1>6 DEF KeepsRoles

----------------------------------------------------------------------------
(* The steps that give a block another role.                               *)

LEMMA CleanMembers == CleanBlks = Members(clean) /\ CleanBlks' = Members(clean')
BY DEF CleanBlks, Members

\* The first clean block is taken, and a block is added at the end.
LEMMA PopClean ==
    ASSUME CleanOK, Distinct(clean), clean # <<>>, clean' = Tail(clean)
    PROVE  Distinct(clean') /\ CleanBlks' = CleanBlks \ {Head(clean)} /\ Head(clean) \in CleanBlks
<1>1. /\ Distinct(Tail(clean)) /\ Members(Tail(clean)) = Members(clean) \ {Head(clean)}
      /\ Head(clean) \in Members(clean)
  BY TailMembers DEF CleanOK
<1>2. Distinct(clean') /\ Members(clean') = Members(clean) \ {Head(clean)}
  BY <1>1
<1>3. QED
  BY <1>1, <1>2, CleanMembers

LEMMA AppendClean ==
    ASSUME CleanOK, Distinct(clean), NEW b \in Blks, b \notin CleanBlks, clean' = Append(clean, b)
    PROVE  Distinct(clean') /\ CleanBlks' = CleanBlks \cup {b}
<1>1. b \notin Members(clean)
  BY CleanMembers
<1>2. Distinct(Append(clean, b)) /\ Members(Append(clean, b)) = Members(clean) \cup {b}
  BY <1>1, AppendMembers DEF CleanOK
<1>3. Distinct(clean') /\ Members(clean') = Members(clean) \cup {b}
  BY <1>2
<1>4. QED
  BY <1>3, CleanMembers

\* A full block of a log goes to the heap h.
LEMMA FillRoles ==
    ASSUME TypeInv, RoleInv, FillFirst \/ FillSecond
    PROVE  RoleInv'
<1>1. hot \in LogType /\ HeapOK /\ hot.blk \in Blks
  BY LogFields DEF TypeInv, HotOK
<1>2. /\ pc = "advanceHot" /\ pc' = "findHot" /\ UNCHANGED <<cold, clean, gc>>
      /\ hot' = [hot EXCEPT !.list = EmptyList]
  BY DEF FillFirst, FillSecond, Goto
<1>3. Partition /\ hot'.blk = hot.blk
  BY <1>1, <1>2, LabelsLemma DEF RoleInv, LogType
<1>4. CleanBlks' = CleanBlks
  BY <1>2 DEF CleanBlks
<1>5. CASE FillFirst
  <2>1. heap' = [heap EXCEPT !["first"].in = @ \cup {hot.blk}]
    BY <1>5 DEF FillFirst
  <2>2. /\ heap'["first"].in = heap["first"].in \cup {hot.blk}
        /\ heap'["second"].in = heap["second"].in /\ heap'["cold"].in = heap["cold"].in
    BY <1>1, <2>1 DEF HeapOK, Heaps
  <2>3. QED
    BY <1>2, <1>3, <1>4, <2>2 DEF RoleInv, Partition, InHeaps
<1>6. CASE FillSecond
  <2>1. heap' = [heap EXCEPT !["second"].in = @ \cup {hot.blk}]
    BY <1>6 DEF FillSecond
  <2>2. /\ heap'["second"].in = heap["second"].in \cup {hot.blk}
        /\ heap'["first"].in = heap["first"].in /\ heap'["cold"].in = heap["cold"].in
    BY <1>1, <2>1 DEF HeapOK, Heaps
  <2>3. QED
    BY <1>2, <1>3, <1>4, <2>2 DEF RoleInv, Partition, InHeaps
<1>7. QED
  BY <1>5, <1>6

\* The hot log takes the first clean block.
LEMMA CleanBlkRoles ==
    ASSUME TypeInv, RoleInv, pc = "findHot", pc' # "findHot", clean # <<>>,
           hot' = HotOnCleanBlk(Head(clean)), clean' = Tail(clean), UNCHANGED <<cold, heap, gc>>
    PROVE  RoleInv'
<1>1. hot \in LogType /\ CleanOK /\ Distinct(clean) /\ Partition
  BY LabelsLemma DEF TypeInv, HotOK, RoleInv
<1>2. /\ Distinct(clean') /\ CleanBlks' = CleanBlks \ {Head(clean)} /\ Head(clean) \in CleanBlks
  BY <1>1, PopClean
<1>3. hot'.blk = Head(clean)
  BY <1>1 DEF HotOnCleanBlk, LogType
<1>4. Distinct(clean)'
  BY <1>2 DEF Distinct
<1>5. Partition'
  BY <1>1, <1>2, <1>3 DEF Partition, InHeaps
<1>6. QED
  BY <1>4, <1>5 DEF RoleInv

LEMMA FindHotRoles ==
    ASSUME TypeInv, RoleInv, NEW hotFirst, UseCleanBlk \/ ReuseBlk(hotFirst) \/ UseLastCleanBlk(hotFirst)
    PROVE  RoleInv'
<1>1. pc = "findHot" /\ UNCHANGED <<cold, gc>>
  BY ReuseBlkEffect DEF UseCleanBlk, UseLastCleanBlk
<1>2. Partition /\ HeapOK /\ hot \in LogType
  BY <1>1, LabelsLemma DEF RoleInv, TypeInv, HotOK
<1>3. CASE UseCleanBlk
  <2>1. clean # <<>>
    BY <1>3 DEF UseCleanBlk
  <2>2. QED
    BY <1>3, <2>1, CleanBlkRoles DEF UseCleanBlk, Goto
<1>4. CASE UseLastCleanBlk(hotFirst)
  <2>1. CASE clean # <<>>
    BY <1>4, <2>1, CleanBlkRoles DEF UseLastCleanBlk, Goto
  <2>2. CASE clean = <<>>
    <3>1. pc' \in Hangs /\ UNCHANGED <<hot, clean, heap>>
      BY <1>4, <2>2 DEF UseLastCleanBlk, Hang, Hangs
    <3>2. QED
      BY <1>1, <3>1 DEF RoleInv, Distinct
  <2>3. QED
    BY <2>1, <2>2
<1>5. CASE ReuseBlk(hotFirst)
  <2>1. PICK b \in Roots("first") : (\E p \in {0, 1} : ReuseEncoding(b, p)) \/ ReuseHighOnly(b)
    BY <1>5, ReuseBlkEffect
  <2>2. b \in heap["first"].in /\ b \in Blks
    BY <1>2, RootsLemma DEF Heaps
  <2>3. clean' = clean /\ CleanBlks' = CleanBlks
    BY <1>5, ReuseBlkEffect DEF CleanBlks
  <2>4. ReuseRemoved(b) \in HeapType /\ \A h \in Heaps : ReuseRemoved(b)[h].in = heap[h].in \ {b}
    BY <1>2, <2>2, ReuseRemovedType
  <2>5. hot'.blk = b /\ pc' \in {"idle", "advanceHot"} /\ \A h \in Heaps : heap'[h].in = heap[h].in \ {b}
    <3>1. CASE \E p \in {0, 1} : ReuseEncoding(b, p)
      <4>1. PICK p \in {0, 1} : ReuseEncoding(b, p)
        BY <3>1
      <4>2. hot'.blk = b
        BY <1>2, <4>1 DEF ReuseEncoding, Reusing, ReuseLog, LogType
      <4>3. heap' = [ReuseRemoved(b) EXCEPT !["second"].value[b] = @ + S]
        BY <4>1 DEF ReuseEncoding
      <4>4. \A h \in Heaps : heap'[h].in = ReuseRemoved(b)[h].in
        BY <2>4, <4>3 DEF HeapType
      <4>5. QED
        BY <2>4, <4>1, <4>2, <4>4 DEF ReuseEncoding
    <3>2. CASE ReuseHighOnly(b)
      <4>1. hot'.blk = b
        BY <1>2, <3>2 DEF ReuseHighOnly, ReuseLog, LogType
      <4>2. QED
        BY <2>4, <3>2, <4>1 DEF ReuseHighOnly
    <3>3. QED
      BY <2>1, <3>1, <3>2
  <2>6. /\ heap'["first"].in = heap["first"].in \ {b} /\ heap'["second"].in = heap["second"].in
        /\ heap'["cold"].in = heap["cold"].in
    <3>1. b \notin heap["second"].in /\ b \notin heap["cold"].in
      BY <1>2, <2>2 DEF Partition
    <3>2. /\ heap'["first"].in = heap["first"].in \ {b} /\ heap'["second"].in = heap["second"].in \ {b}
          /\ heap'["cold"].in = heap["cold"].in \ {b}
      BY <2>5 DEF Heaps
    <3>3. QED
      BY <3>1, <3>2
  <2>7. Partition'
    BY <1>1, <1>2, <2>2, <2>3, <2>5, <2>6 DEF Partition, InHeaps
  <2>8. Distinct(clean)'
    BY <2>3 DEF RoleInv
  <2>9. gc'.state # "idle" => gc'.victim \in heap'["second"].in \cup heap'["cold"].in
    BY <1>1, <2>6 DEF RoleInv
  <2>10. QED
    BY <2>7, <2>8, <2>9 DEF RoleInv
<1>6. QED
  BY <1>3, <1>4, <1>5

LEMMA FillColdRoles ==
    ASSUME TypeInv, RoleInv, FillCold
    PROVE  RoleInv'
<1>1. cold \in LogType /\ HeapOK /\ cold.blk \in Blks /\ clean \in Seq(Blks)
  BY LogFields DEF TypeInv, ColdOK, CleanOK
<1>2. pc = "advanceCold" /\ UNCHANGED <<hot, gc>>
  BY DEF FillCold
<1>3. Partition /\ Distinct(clean)
  BY <1>2, LabelsLemma DEF RoleInv
<1>4. heap' = [heap EXCEPT !["cold"].in = @ \cup {cold.blk}]
  BY DEF FillCold
<1>5. /\ heap'["cold"].in = heap["cold"].in \cup {cold.blk}
      /\ heap'["first"].in = heap["first"].in /\ heap'["second"].in = heap["second"].in
  BY <1>1, <1>4 DEF HeapOK, Heaps
<1>6. gc'.state # "idle" => gc'.victim \in heap'["second"].in \cup heap'["cold"].in
  BY <1>2, <1>5 DEF RoleInv
<1>7. CASE clean = <<>>
  <2>1. pc' \in Hangs /\ clean' = clean
    BY <1>7 DEF FillCold, Hang, Hangs
  <2>2. QED
    BY <1>3, <1>6, <2>1 DEF RoleInv, Distinct
<1>8. CASE clean # <<>>
  <2>1. cold' = [cold EXCEPT !.list = EmptyList, !.blk = Head(clean), !.page = 0]
        /\ clean' = Tail(clean) /\ pc' = "while"
    BY <1>8 DEF FillCold, Goto
  <2>2. cold'.blk = Head(clean)
    BY <1>1, <2>1 DEF LogType
  <2>3. /\ Distinct(clean') /\ CleanBlks' = CleanBlks \ {Head(clean)} /\ Head(clean) \in CleanBlks
    BY <1>3, <1>8, <2>1, PopClean DEF TypeInv
  <2>4. Partition'
    BY <1>2, <1>3, <1>5, <2>1, <2>2, <2>3 DEF Partition, InHeaps
  <2>5. Distinct(clean)'
    BY <2>3 DEF Distinct
  <2>6. QED
    BY <1>6, <2>4, <2>5 DEF RoleInv
<1>9. QED
  BY <1>7, <1>8

\* The victim, a block of the heap second or cold, becomes clean.
LEMMA ReclaimRoles ==
    ASSUME TypeInv, RoleInv, NEW b \in heap["second"].in \cup heap["cold"].in, Reclaim(b),
           pc \notin Hangs, pc # "findHot", pc' # "findHot", gc'.state = "idle", UNCHANGED <<hot, cold>>
    PROVE  RoleInv'
<1>1. Partition /\ Distinct(clean) /\ clean \in Seq(Blks) /\ b \in Blks
  BY DEF RoleInv, TypeInv, CleanOK, HeapOK, Heaps
<1>2. b \notin CleanBlks /\ b \in InHeaps /\ b # cold.blk /\ b # hot.blk
  BY <1>1 DEF Partition, InHeaps
<1>3. clean' = Append(clean, b) /\ \A h \in Heaps : heap'[h].in = heap[h].in \ {b}
  BY <1>1, ReclaimTypes
<1>4. /\ heap'["first"].in = heap["first"].in \ {b} /\ heap'["second"].in = heap["second"].in \ {b}
      /\ heap'["cold"].in = heap["cold"].in \ {b}
  BY <1>3 DEF Heaps
<1>5. Distinct(clean') /\ CleanBlks' = CleanBlks \cup {b}
  BY <1>1, <1>2, <1>3, AppendClean DEF TypeInv
<1>6. Partition'
  BY <1>1, <1>2, <1>4, <1>5 DEF Partition, InHeaps
<1>7. Distinct(clean)'
  BY <1>5 DEF Distinct
<1>8. QED
  BY <1>6, <1>7 DEF RoleInv

\* What a collection starts with: the victim is noted, or erased if it is empty.
LEMMA CollectAgainEffect ==
    ASSUME TypeInv, CollectAgain
    PROVE  /\ pc = "while" /\ UNCHANGED <<hot, cold, frames>>
           /\ \/ /\ pc' \in {"no candidate", "collect"}
                 /\ UNCHANGED <<heap, clean, gc, lists, programs, latest>>
              \/ /\ gc.state = "idle" /\ pc' = "collect"
                 /\ \E b \in heap["second"].in \cup heap["cold"].in :
                       \/ /\ gc'.state = "read" /\ gc'.victim = b
                          /\ UNCHANGED <<heap, clean, lists, programs, latest>>
                       \/ gc'.state = "idle" /\ Reclaim(b)
<1>1. gc \in GcType /\ HeapOK
  BY DEF TypeInv, GcOK
<1>2. pc = "while" /\ UNCHANGED <<hot, cold, frames>>
  BY DEF CollectAgain
<1>3. CASE gc.state = "idle" /\ heap[VictimHeap].in # {}
  <2>1. InitGC /\ VictimHeap \in {"second", "cold"}
    BY <1>3 DEF CollectAgain, VictimHeap
  <2>2. PICK b \in Roots(VictimHeap) :
          LET n == heap[VictimHeap].value[b]
              started == [gc EXCEPT !.victim = b, !.fromHeap = n, !.inBlk = 0]
          IN /\ Goto("collect")
             /\ IF n > 0
                THEN /\ gc' = [started EXCEPT !.state = "read", !.page = 0, !.encoded = FALSE]
                     /\ UNCHANGED <<heap, clean, lists, programs, latest>>
                ELSE /\ gc' = [started EXCEPT !.state = "idle"]
                     /\ Reclaim(b)
    BY <1>3, <2>1 DEF InitGC
  <2>3. b \in heap[VictimHeap].in
    BY DEF Roots
  <2>4. b \in heap["second"].in \cup heap["cold"].in
    BY <2>1, <2>3
  <2>5. PICK n : n = heap[VictimHeap].value[b]
    OBVIOUS
  <2>6. PICK started : started = [gc EXCEPT !.victim = b, !.fromHeap = n, !.inBlk = 0]
    OBVIOUS
  <2>7. CASE n > 0
    <3>1. /\ gc' = [started EXCEPT !.state = "read", !.page = 0, !.encoded = FALSE]
          /\ UNCHANGED <<heap, clean, lists, programs, latest>>
      BY <2>2, <2>5, <2>6, <2>7
    <3>2. gc'.state = "read" /\ gc'.victim = b
      BY <1>1, <2>6, <3>1 DEF GcType
    <3>3. QED
      BY <1>2, <1>3, <2>2, <2>4, <3>1, <3>2 DEF Goto
  <2>8. CASE ~(n > 0)
    <3>1. gc' = [started EXCEPT !.state = "idle"] /\ Reclaim(b)
      BY <2>2, <2>5, <2>6, <2>8
    <3>2. gc'.state = "idle"
      BY <1>1, <2>6, <3>1 DEF GcType
    <3>3. QED
      BY <1>2, <1>3, <2>2, <2>4, <3>1, <3>2 DEF Goto
  <2>9. QED
    BY <2>7, <2>8
<1>4. CASE ~(gc.state = "idle" /\ heap[VictimHeap].in # {})
  BY <1>2, <1>4 DEF CollectAgain, InitGC, Hang, Goto
<1>5. QED
  BY <1>3, <1>4

LEMMA CollectAgainRoles ==
    ASSUME TypeInv, RoleInv, CollectAgain
    PROVE  RoleInv'
<1>1. pc = "while" /\ UNCHANGED <<hot, cold, frames>> /\ pc \notin Hangs /\ pc # "findHot"
  BY CollectAgainEffect DEF Hangs
<1>2. CASE pc' \in {"no candidate", "collect"} /\ UNCHANGED <<heap, clean, gc>>
  <2>1. KeepsRoles
    BY <1>1, <1>2 DEF KeepsRoles
  <2>2. QED
    BY <2>1, RolesKept
<1>3. ASSUME NEW b \in heap["second"].in \cup heap["cold"].in, pc' = "collect",
             gc'.state = "read", gc'.victim = b, UNCHANGED <<heap, clean>>
      PROVE  RoleInv'
  <2>1. Partition /\ Distinct(clean)
    BY <1>1 DEF RoleInv
  <2>2. Partition'
    BY <1>1, <1>3, <2>1 DEF Partition, InHeaps, CleanBlks
  <2>3. QED
    BY <1>3, <2>1, <2>2 DEF RoleInv, Distinct
<1>4. ASSUME NEW b \in heap["second"].in \cup heap["cold"].in, pc' = "collect",
             gc'.state = "idle", Reclaim(b)
      PROVE  RoleInv'
  <2>1. pc' # "findHot"
    BY <1>4
  <2>2. QED
    BY <1>1, <1>4, <2>1, ReclaimRoles
<1>5. QED
  BY CollectAgainEffect, <1>2, <1>3, <1>4

LEMMA EndOfVictimRoles ==
    ASSUME TypeInv, RoleInv, EndOfVictim
    PROVE  RoleInv'
<1>1. pc = "collect" /\ UNCHANGED <<hot, cold>> /\ pc \notin Hangs /\ pc # "findHot" /\ gc.state = "read"
  BY DEF EndOfVictim, Hangs
<1>2. gc.victim \in heap["second"].in \cup heap["cold"].in
  BY <1>1 DEF RoleInv
<1>3. CASE gc.inBlk # gc.fromHeap
  <2>1. pc' = "count mismatch" /\ UNCHANGED <<heap, clean, gc>>
    BY <1>3 DEF EndOfVictim, Hang
  <2>2. KeepsRoles
    BY <1>1, <2>1 DEF KeepsRoles
  <2>3. QED
    BY <2>2, RolesKept
<1>4. CASE gc.inBlk = gc.fromHeap
  <2>1. Reclaim(gc.victim) /\ pc' = pc
    BY <1>4 DEF EndOfVictim
  <2>2. gc'.state = "idle"
    BY <1>4 DEF EndOfVictim, TypeInv, GcOK, GcType
  <2>3. PICK b \in heap["second"].in \cup heap["cold"].in : b = gc.victim
    BY <1>2
  <2>4. Reclaim(b) /\ pc' # "findHot"
    BY <1>1, <2>1, <2>3
  <2>5. QED
    BY <1>1, <2>2, <2>4, ReclaimRoles
<1>5. QED
  BY <1>3, <1>4

LEMMA InitClean ==
    ASSUME Init
    PROVE  /\ Len(clean) = NumBlks - 2 /\ Distinct(clean) /\ CleanBlks = 2..(NumBlks - 1)
<1>1. clean = [i \in 1..(NumBlks - 2) |-> i + 1] /\ NumBlks - 2 \in Nat
  BY SizeLemma DEF Init
<1>2. Len(clean) = NumBlks - 2 /\ DOMAIN clean = 1..(NumBlks - 2)
  BY <1>1
<1>3. Distinct(clean)
  BY <1>1, <1>2 DEF Distinct
<1>4. CleanBlks \subseteq 2..(NumBlks - 1)
  <2>1. \A i \in 1..Len(clean) : clean[i] \in 2..(NumBlks - 1)
    BY <1>1, <1>2, SizeLemma
  <2>2. QED
    BY <2>1 DEF CleanBlks
<1>5. ASSUME NEW b \in 2..(NumBlks - 1)
      PROVE  b \in CleanBlks
  <2>1. b - 1 \in 1..Len(clean) /\ clean[b - 1] = b
    BY <1>1, <1>2, SizeLemma
  <2>2. QED
    BY <2>1 DEF CleanBlks
<1>6. CleanBlks = 2..(NumBlks - 1)
  BY <1>4, <1>5
<1>7. QED
  BY <1>2, <1>3, <1>6

LEMMA RoleInit == Init => RoleInv
<1>. SUFFICES ASSUME Init PROVE RoleInv
  OBVIOUS
<1>1. hot.blk = 0 /\ cold.blk = 1 /\ gc.state = "idle" /\ pc = "idle"
  BY DEF Init, FreshLog
<1>2. InHeaps = {} /\ heap["first"].in = {} /\ heap["second"].in = {} /\ heap["cold"].in = {}
  BY DEF Init, InHeaps, Heaps
<1>3. Blks \subseteq CleanBlks \cup {cold.blk, hot.blk}
  BY <1>1, InitClean, SizeLemma DEF Blks
<1>4. 0 \notin CleanBlks /\ 1 \notin CleanBlks
  BY InitClean
<1>5. Partition
  BY <1>1, <1>2, <1>3, <1>4 DEF Partition
<1>6. QED
  BY <1>1, <1>5, InitClean DEF RoleInv

LEMMA RoleStep == TypeInv /\ RoleInv /\ [Next]_vars => RoleInv'
<1>. SUFFICES ASSUME TypeInv, RoleInv, [Next]_vars PROVE RoleInv'
  OBVIOUS
<1>1. CASE UNCHANGED vars
  BY <1>1 DEF vars, RoleInv, Partition, InHeaps, CleanBlks, Distinct
<1>2. ASSUME NEW c \in Chunks, WriteHot(c) \/ WriteCold(c) \/ MoveAway(c) PROVE RoleInv'
  BY <1>2, WriteKeeps, RolesKept
<1>3. CASE FlushHot \/ FlushCold \/ FlushRecycled
  BY <1>3, FlushKeeps, RolesKept
<1>4. CASE AdvanceFirst \/ AdvanceToHigh \/ AdvanceToTestedLow \/ AdvanceToPage1 \/ SkipLow
  BY <1>4, AdvanceHotKeeps, RolesKept
<1>5. CASE FillFirst \/ FillSecond
  BY <1>5, FillRoles
<1>6. ASSUME NEW hotFirst, UseCleanBlk \/ ReuseBlk(hotFirst) \/ UseLastCleanBlk(hotFirst) PROVE RoleInv'
  BY <1>6, FindHotRoles
<1>7. CASE FillCold
  BY <1>7, FillColdRoles
<1>8. CASE CollectAgain \/ EndOfVictim
  BY <1>8, CollectAgainRoles, EndOfVictimRoles
<1>9. CASE AdvanceCold \/ EnoughClean \/ GcIdle \/ ReadPage \/ CopyWholePage
           \/ CopyByChunk \/ CopyChunk \/ EndOfPage
  BY <1>9, CollectorKeeps, RolesKept
<1>10. QED
  BY NextCases, <1>1, <1>2, <1>3, <1>4, <1>5, <1>6, <1>7, <1>8, <1>9

LEMMA RolesAlways == Spec => [](TypeInv /\ RoleInv)
<1>1. Init => TypeInv /\ RoleInv
  BY InitTypes, RoleInit
<1>2. TypeInv /\ RoleInv /\ [Next]_vars => (TypeInv /\ RoleInv)'
  BY TypeStep, RoleStep
<1>3. QED
  BY <1>1, <1>2, PTL DEF Spec

LEMMA RolesImply == RoleInv => OneRole
<1>. SUFFICES ASSUME RoleInv PROVE OneRole
  OBVIOUS
<1>1. \A i, j \in 1..Len(clean) : clean[i] = clean[j] => i = j
  BY DEF RoleInv, Distinct
<1>2. ASSUME pc \notin {"findHot"} \cup Hangs, NEW b \in Blks
      PROVE  Cardinality({r \in {"clean", "hot", "coldLog"} \cup Heaps :
                            CASE r = "clean"   -> b \in CleanBlks
                              [] r = "hot"     -> b = hot.blk
                              [] r = "coldLog" -> b = cold.blk
                              [] OTHER         -> b \in heap[r].in}) = 1
  <2> DEFINE Names == {"clean", "hot", "coldLog"} \cup Heaps
             Has(r) == CASE r = "clean"   -> b \in CleanBlks
                         [] r = "hot"     -> b = hot.blk
                         [] r = "coldLog" -> b = cold.blk
                         [] OTHER         -> b \in heap[r].in
  <2>1. /\ Has("clean") <=> b \in CleanBlks
        /\ Has("hot") <=> b = hot.blk
        /\ Has("coldLog") <=> b = cold.blk
        /\ Has("first") <=> b \in heap["first"].in
        /\ Has("second") <=> b \in heap["second"].in
        /\ Has("cold") <=> b \in heap["cold"].in
    OBVIOUS
  <2>2. Names = {"clean", "hot", "coldLog", "first", "second", "cold"}
    BY DEF Heaps
  <2>3. Partition
    BY <1>2 DEF RoleInv
  <2> HIDE DEF Has, Names
  <2>4. \E r \in Names : Has(r) /\ \A q \in Names : Has(q) => q = r
    BY <1>2, <2>1, <2>2, <2>3 DEF Partition, InHeaps
  <2>5. PICK r \in Names : Has(r) /\ \A q \in Names : Has(q) => q = r
    BY <2>4
  <2>6. {q \in Names : Has(q)} = {r}
    BY <2>5
  <2>7. Cardinality({q \in Names : Has(q)}) = 1
    BY <2>6, FS_Singleton
  <2>8. QED
    BY <2>7 DEF Names, Has
<1>3. QED
  BY <1>1, <1>2 DEF OneRole

\* A block never has two roles and never none: it is clean, in one log or in one
\* heap, whatever was written, flushed, encoded and collected before.
THEOREM RolesCorrect == Spec => []OneRole
BY RolesAlways, RolesImply, PTL

----------------------------------------------------------------------------
(* The reserve of clean blocks.                                            *)

\* Outside the loop that collects, the firmware works for the host alone and has
\* two clean blocks; a copy of the collector knows what it copies.
Reserve ==
    /\ pc \in {"idle", "flushHot", "advanceHot", "findHot"} => frames = <<>> /\ Len(clean) >= 2
    /\ pc \in {"flushCold", "advanceCold"} /\ frames = <<>> => Len(clean) >= 2
    /\ pc = "copy" => frames # <<>> /\ Top.kind = "copy"

LEMMA ReserveReturn ==
    ASSUME Return, clean' = clean, frames = <<>> => Len(clean) >= 2
    PROVE  Reserve'
<1>1. CASE pc' = "idle"
  BY <1>1, ReturnLabel DEF Reserve
<1>2. CASE pc' = "copy"
  BY <1>2, ReturnLabel DEF Reserve, Top
<1>3. CASE pc' = "collect"
  BY <1>3 DEF Reserve
<1>4. QED
  BY <1>1, <1>2, <1>3, ReturnLabel

LEMMA AppendTop ==
    ASSUME ControlOK, NEW f \in FrameType
    PROVE  Append(frames, f) # <<>> /\ Append(frames, f)[Len(Append(frames, f))] = f
BY DEF ControlOK

LEMMA ReserveInit == Init => Reserve
BY InitClean, SizeLemma DEF Init, Reserve

LEMMA ReserveStep == TypeInv /\ Reserve /\ [Next]_vars => Reserve'
<1>. SUFFICES ASSUME TypeInv, Reserve, [Next]_vars PROVE Reserve'
  OBVIOUS
<1>1. CASE UNCHANGED vars
  BY <1>1 DEF vars, Reserve, Top
<1>2. ASSUME NEW c \in Chunks, WriteHot(c) \/ WriteCold(c) \/ MoveAway(c) PROVE Reserve'
  <2>1. pc = "idle" /\ pc' \in {"idle", "flushHot", "flushCold"} /\ UNCHANGED <<clean, frames>>
    BY <1>2 DEF WriteHot, WriteCold, MoveAway, Goto
  <2>2. QED
    BY <2>1 DEF Reserve
<1>3. CASE FlushHot \/ FlushRecycled
  <2>1. pc = "flushHot" /\ pc' \in {"precache mismatch", "advanceHot"} /\ UNCHANGED <<clean, frames>>
    BY <1>3 DEF FlushHot, FlushRecycled, Hang, Goto
  <2>2. QED
    BY <2>1 DEF Reserve
<1>4. CASE FlushCold
  BY <1>4 DEF FlushCold, Goto, Reserve
<1>5. CASE AdvanceFirst \/ AdvanceToHigh \/ AdvanceToTestedLow \/ AdvanceToPage1 \/ SkipLow
           \/ FillFirst \/ FillSecond
  <2>1. pc = "advanceHot" /\ pc' \in {"idle", "findHot"} /\ UNCHANGED <<clean, frames>>
    BY <1>5 DEF AdvanceFirst, AdvanceToHigh, AdvanceToTestedLow, AdvanceToPage1, SkipLow,
                FillFirst, FillSecond, InSecondUsage, Goto
  <2>2. QED
    BY <2>1 DEF Reserve
<1>6. CASE UseCleanBlk
  <2>1. pc = "findHot" /\ pc' = "idle" /\ clean' = Tail(clean) /\ Len(clean) > 2 /\ frames' = frames
    BY <1>6 DEF UseCleanBlk, Goto
  <2>2. clean # <<>> /\ Len(Tail(clean)) = Len(clean) - 1 /\ Len(clean) \in Nat
    BY <2>1 DEF TypeInv, CleanOK
  <2>3. QED
    BY <2>1, <2>2 DEF Reserve
<1>7. ASSUME NEW hotFirst \in HotFirst, ReuseBlk(hotFirst) \/ UseLastCleanBlk(hotFirst) PROVE Reserve'
  <2>1. CASE ReuseBlk(hotFirst)
    <3>1. pc = "findHot" /\ UNCHANGED <<clean, frames>>
      BY <2>1 DEF ReuseBlk
    <3>2. pc' \in {"idle", "advanceHot"}
      BY <2>1 DEF ReuseBlk, Goto
    <3>3. QED
      BY <3>1, <3>2 DEF Reserve
  <2>2. CASE UseLastCleanBlk(hotFirst)
    <3>1. pc' \in {"pop of an empty list", "while"}
      BY <2>2 DEF UseLastCleanBlk, Goto, Hang
    <3>2. QED
      BY <3>1 DEF Reserve
  <2>3. QED
    BY <1>7, <2>1, <2>2
<1>8. CASE AdvanceCold
  BY <1>8, ReserveReturn DEF AdvanceCold, Reserve
<1>9. CASE FillCold
  <2>1. pc' \in {"pop of an empty list", "while"}
    BY <1>9 DEF FillCold, Goto, Hang
  <2>2. QED
    BY <2>1 DEF Reserve
<1>10. CASE CollectAgain
  BY <1>10, CollectAgainEffect DEF Reserve
<1>11. CASE EnoughClean
  BY <1>11, ReserveReturn DEF EnoughClean, CleanBlksAfterGc
<1>12. CASE GcIdle \/ ReadPage \/ EndOfVictim \/ EndOfPage
  <2>1. pc' \in {"while", "collect", "inconsistent lpns", "count mismatch"}
    BY <1>12 DEF GcIdle, ReadPage, EndOfVictim, EndOfPage, Goto, Hang
  <2>2. QED
    BY <2>1 DEF Reserve
<1>13. CASE CopyWholePage
  <2>1. pc' = "advanceCold" /\ frames' = Append(frames, [kind |-> "tail"])
    BY <1>13 DEF CopyWholePage, Goto, PushFrame
  <2>2. [kind |-> "tail"] \in FrameType
    BY DEF FrameType
  <2>3. frames' # <<>>
    BY <2>1, <2>2, AppendTop DEF TypeInv
  <2>4. QED
    BY <2>1, <2>3 DEF Reserve
<1>14. CASE CopyByChunk
  <2>1. PICK f : f = [kind |-> "copy", blk |-> gc.victim, page |-> gc.page, encoded |-> gc.encoded]
    OBVIOUS
  <2>2. pc' = "copy" /\ frames' = Append(frames, f)
    BY <1>14, <2>1 DEF CopyByChunk, Goto, PushFrame
  <2>3. f \in FrameType /\ f.kind = "copy"
    <3>1. gc.victim \in Blks /\ gc.page \in Pages /\ gc.encoded \in BOOLEAN
      BY <1>14, SizeLemma DEF CopyByChunk, TypeInv, GcOK, GcType, Pages
    <3>2. QED
      BY <2>1, <3>1 DEF FrameType
  <2>4. Append(frames, f) # <<>> /\ Append(frames, f)[Len(Append(frames, f))] = f
    BY <2>3, AppendTop DEF TypeInv
  <2>5. frames' # <<>> /\ frames'[Len(frames')] = f
    BY <2>2, <2>4
  <2>6. QED
    BY <2>2, <2>3, <2>5 DEF Reserve, Top
<1>15. CASE CopyChunk
  <2>1. pc = "copy" /\ frames' = frames /\ pc' \in {"copy", "flushCold"}
    BY <1>15 DEF CopyChunk, Goto
  <2>2. QED
    BY <2>1 DEF Reserve, Top
<1>16. QED
  BY NextCases, <1>1, <1>2, <1>3, <1>4, <1>5, <1>6, <1>7, <1>8, <1>9, <1>10, <1>11, <1>12, <1>13,
     <1>14, <1>15

LEMMA ReserveAlways == Spec => []Reserve
<1>1. Init => Reserve
  BY ReserveInit
<1>2. TypeInv /\ Reserve /\ [Next]_vars => Reserve'
  BY ReserveStep
<1>3. QED
  BY <1>1, <1>2, TypesAlways, PTL DEF Spec

\* Every host write leaves two clean blocks behind, one for the log that fills
\* next and one for the collector: the tests of findNewLpnForHotLog and of the
\* loop around garbageCollectLog are enough, with no test at the pops themselves.
THEOREM ReserveCorrect == Spec => []CleanReserve
<1>1. Reserve => CleanReserve
  BY DEF Reserve, CleanReserve
<1>2. QED
  BY <1>1, ReserveAlways, PTL

----------------------------------------------------------------------------
(* How often a page is programmed between two erasures.                    *)

\* The pages a log has programmed in this usage of its block: those it passed,
\* and the one it is at once it was flushed.
HotDone(p) == p < hot.page \/ (p = hot.page /\ pc = "advanceHot")
ColdDone(p) == p < cold.page \/ (p = cold.page /\ pc = "advanceCold")
Once(c) == IF c THEN 1 ELSE 0
HotBound(p) == IF hot.second THEN Once(LowPage(p)) + Once(HotDone(p))
               ELSE Once(LowPage(p) /\ HotDone(p))

\* A half-written block has its low pages programmed at most once, and a log adds
\* at most one program to each page it passed.
Programs(b, p) ==
    /\ b \in heap["first"].in => programs[b][p] <= Once(LowPage(p))
    /\ b = cold.blk => programs[b][p] <= Once(ColdDone(p))
    /\ b = hot.blk /\ pc # "findHot" => programs[b][p] <= HotBound(p)
ProgInv == /\ ProgramDiscipline
           /\ pc \notin Hangs => \A b \in Blks, p \in Pages : Programs(b, p)

LEMMA DisciplineLemma ==
    ProgramDiscipline <=> \A b \in Blks, p \in Pages : /\ programs[b][p] <= 1 + Once(LowPage(p))
                                                       /\ b \in CleanBlks => programs[b][p] = 0
BY DEF ProgramDiscipline, LowPage, Once

LEMMA DisciplinePrimed ==
    ProgramDiscipline' <=> \A b \in Blks, p \in Pages : /\ programs'[b][p] <= 1 + Once(LowPage(p))
                                                        /\ b \in CleanBlks' => programs'[b][p] = 0
BY DEF ProgramDiscipline, LowPage, Once

LEMMA ProgrammedOnce ==
    ASSUME ProgramsOK, NEW b \in Blks, NEW p \in Pages, Program(b, p)
    PROVE  \A d \in Blks, q \in Pages :
              programs'[d][q] = IF d = b /\ q = p THEN programs[d][q] + 1 ELSE programs[d][q]
BY DEF ProgramsOK, Program

LEMMA ProgramsNat ==
    ASSUME ProgramsOK, NEW b \in Blks, NEW p \in Pages
    PROVE  programs[b][p] \in Nat
BY DEF ProgramsOK

LEMMA OnceLemma == \A c, d \in BOOLEAN : (c => d) => Once(c) <= Once(d) /\ Once(c) \in 0..1
BY DEF Once

LEMMA KeptSets ==
    ASSUME KeepsRoles
    PROVE  CleanBlks' = CleanBlks /\ heap'["first"].in = heap["first"].in /\ pc \notin Hangs
BY DEF KeepsRoles, CleanBlks, Heaps

\* A step that programs nothing, and after which the logs have passed no fewer pages.
LEMMA ProgramsKept ==
    ASSUME TypeInv, ProgInv, KeepsRoles, programs' = programs, hot'.second = hot.second,
           \A p \in Pages : (HotDone(p) => HotDone(p)') /\ (ColdDone(p) => ColdDone(p)')
    PROVE  ProgInv'
<1>1. CleanBlks' = CleanBlks /\ heap'["first"].in = heap["first"].in /\ pc \notin Hangs
  BY KeptSets
<1>2. ProgramDiscipline'
  BY <1>1, DisciplineLemma, DisciplinePrimed DEF ProgInv
<1>3. ASSUME NEW b \in Blks, NEW p \in Pages
      PROVE  Programs(b, p)'
  <2>1. Programs(b, p) /\ programs'[b][p] = programs[b][p] /\ programs[b][p] \in Nat
    BY <1>1, ProgramsNat DEF ProgInv, TypeInv
  <2>2. Once(ColdDone(p)) <= Once(ColdDone(p))' /\ HotBound(p) <= HotBound(p)'
    BY DEF Once, HotBound
  <2>3. HotBound(p) \in Nat /\ Once(ColdDone(p)) \in Nat /\ HotBound(p)' \in Nat /\ Once(ColdDone(p))' \in Nat
    BY DEF Once, HotBound
  <2>4. b \in heap'["first"].in => programs'[b][p] <= Once(LowPage(p))
    BY <1>1, <2>1 DEF Programs
  <2>5. b = cold'.blk => programs'[b][p] <= Once(ColdDone(p))'
    BY <2>1, <2>2, <2>3 DEF Programs, KeepsRoles
  <2>6. b = hot'.blk /\ pc' # "findHot" => programs'[b][p] <= HotBound(p)'
    BY <2>1, <2>2, <2>3 DEF Programs, KeepsRoles
  <2>7. QED
    BY <2>4, <2>5, <2>6 DEF Programs
<1>4. QED
  BY <1>2, <1>3 DEF ProgInv

\* A flush of the hot log, and one of the cold log.
LEMMA ProgramsHotFlushed ==
    ASSUME TypeInv, RoleInv, ProgInv, KeepsRoles, Program(hot.blk, hot.page),
           pc = "flushHot", pc' = "advanceHot", hot'.page = hot.page, hot'.second = hot.second,
           cold' = cold
    PROVE  ProgInv'
<1>1. /\ CleanBlks' = CleanBlks /\ heap'["first"].in = heap["first"].in /\ pc \notin Hangs
      /\ pc' \notin Hangs /\ hot'.blk = hot.blk
  BY KeptSets DEF Hangs, KeepsRoles
<1>2. /\ hot.blk \in Blks /\ hot.page \in Pages /\ hot.page \in Nat
      /\ ~hot.second => LowPage(hot.page)
  BY LogFields, SizeLemma DEF TypeInv, HotOK
<1>3. \A b \in Blks, p \in Pages :
         programs'[b][p] = IF b = hot.blk /\ p = hot.page THEN programs[b][p] + 1 ELSE programs[b][p]
  BY <1>2, ProgrammedOnce DEF TypeInv
<1>4. hot.blk \notin CleanBlks /\ hot.blk \notin heap["first"].in /\ hot.blk # cold.blk
  BY <1>1 DEF RoleInv, Partition, InHeaps
<1>5. \A b \in Blks, p \in Pages : Programs(b, p) /\ programs[b][p] \in Nat
  BY <1>1, ProgramsNat DEF ProgInv, TypeInv
<1>6. ~HotDone(hot.page) /\ HotDone(hot.page)'
  BY <1>2 DEF HotDone
<1>7. programs[hot.blk][hot.page] <= Once(LowPage(hot.page))
      /\ (~hot.second => programs[hot.blk][hot.page] = 0)
  BY <1>2, <1>5, <1>6 DEF Programs, HotBound, Once
<1>8. ProgramDiscipline'
  <2>1. \A b \in Blks, p \in Pages : /\ programs[b][p] <= 1 + Once(LowPage(p))
                                     /\ b \in CleanBlks => programs[b][p] = 0
    BY DisciplineLemma DEF ProgInv
  <2>2. \A b \in Blks, p \in Pages : programs'[b][p] <= 1 + Once(LowPage(p))
    BY <1>3, <1>5, <1>7, <2>1 DEF Once
  <2>3. \A b \in Blks, p \in Pages : b \in CleanBlks' => programs'[b][p] = 0
    BY <1>1, <1>3, <1>4, <2>1
  <2>4. QED
    BY <2>2, <2>3, DisciplinePrimed
<1>9. ASSUME NEW b \in Blks, NEW p \in Pages
      PROVE  Programs(b, p)'
  <2>1. CASE b = hot.blk /\ p = hot.page
    <3>1. programs'[b][p] <= HotBound(p)'
      BY <1>2, <1>3, <1>5, <1>6, <1>7, <2>1 DEF HotBound, Once
    <3>2. QED
      BY <1>1, <1>4, <2>1, <3>1 DEF Programs
  <2>2. CASE ~(b = hot.blk /\ p = hot.page)
    <3>1. programs'[b][p] = programs[b][p] /\ Programs(b, p)
      BY <1>3, <1>5, <2>2
    <3>2. b = hot.blk => (HotDone(p)' <=> HotDone(p))
      BY <2>2 DEF HotDone
    <3>3. b = hot.blk => HotBound(p)' = HotBound(p)
      BY <3>2 DEF HotBound, Once
    <3>4. ColdDone(p) => ColdDone(p)'
      BY DEF ColdDone
    <3>5. b = cold.blk => programs'[b][p] <= Once(ColdDone(p))'
      BY <3>1, <3>4, <1>5 DEF Programs, Once
    <3>6. QED
      BY <1>1, <3>1, <3>3, <3>5 DEF Programs
  <2>3. QED
    BY <2>1, <2>2
<1>10. QED
  BY <1>8, <1>9 DEF ProgInv

LEMMA ProgramsColdFlushed ==
    ASSUME TypeInv, RoleInv, ProgInv, KeepsRoles, Program(cold.blk, cold.page),
           pc \in {"flushCold", "collect"}, pc' = "advanceCold", cold'.page = cold.page, hot' = hot
    PROVE  ProgInv'
<1>1. /\ CleanBlks' = CleanBlks /\ heap'["first"].in = heap["first"].in /\ pc \notin Hangs
      /\ pc' \notin Hangs /\ cold'.blk = cold.blk
  BY KeptSets DEF Hangs, KeepsRoles
<1>2. cold.blk \in Blks /\ cold.page \in Pages /\ cold.page \in Nat
  BY LogFields, SizeLemma DEF TypeInv, ColdOK
<1>3. \A b \in Blks, p \in Pages :
         programs'[b][p] = IF b = cold.blk /\ p = cold.page THEN programs[b][p] + 1 ELSE programs[b][p]
  BY <1>2, ProgrammedOnce DEF TypeInv
<1>4. cold.blk \notin CleanBlks /\ cold.blk \notin heap["first"].in /\ hot.blk # cold.blk
  BY <1>1 DEF RoleInv, Partition, InHeaps
<1>5. \A b \in Blks, p \in Pages : Programs(b, p) /\ programs[b][p] \in Nat
  BY <1>1, ProgramsNat DEF ProgInv, TypeInv
<1>6. ~ColdDone(cold.page) /\ ColdDone(cold.page)'
  BY <1>2 DEF ColdDone
<1>7. programs[cold.blk][cold.page] = 0
  BY <1>2, <1>5, <1>6 DEF Programs, Once
<1>8. ProgramDiscipline'
  <2>1. \A b \in Blks, p \in Pages : /\ programs[b][p] <= 1 + Once(LowPage(p))
                                     /\ b \in CleanBlks => programs[b][p] = 0
    BY DisciplineLemma DEF ProgInv
  <2>2. \A b \in Blks, p \in Pages : programs'[b][p] <= 1 + Once(LowPage(p))
    BY <1>3, <1>5, <1>7, <2>1 DEF Once
  <2>3. \A b \in Blks, p \in Pages : b \in CleanBlks' => programs'[b][p] = 0
    BY <1>1, <1>3, <1>4, <2>1
  <2>4. QED
    BY <2>2, <2>3, DisciplinePrimed
<1>9. ASSUME NEW b \in Blks, NEW p \in Pages
      PROVE  Programs(b, p)'
  <2>1. CASE b = cold.blk /\ p = cold.page
    <3>1. programs'[b][p] <= Once(ColdDone(p))'
      BY <1>2, <1>3, <1>6, <1>7, <2>1 DEF Once
    <3>2. QED
      BY <1>1, <1>4, <2>1, <3>1 DEF Programs
  <2>2. CASE ~(b = cold.blk /\ p = cold.page)
    <3>1. programs'[b][p] = programs[b][p] /\ Programs(b, p)
      BY <1>3, <1>5, <2>2
    <3>2. b = cold.blk => (ColdDone(p)' <=> ColdDone(p))
      BY <2>2 DEF ColdDone
    <3>3. b = cold.blk => programs'[b][p] <= Once(ColdDone(p))'
      BY <3>1, <3>2 DEF Programs, Once
    <3>4. HotDone(p)' <=> HotDone(p)
      BY DEF HotDone
    <3>5. HotBound(p)' = HotBound(p)
      BY <3>4 DEF HotBound, Once
    <3>6. QED
      BY <1>1, <3>1, <3>3, <3>5 DEF Programs
  <2>3. QED
    BY <2>1, <2>2
<1>10. QED
  BY <1>8, <1>9 DEF ProgInv

\* A block that fills gets its list of chunks on a page its log did not pass.
LEMMA FillFirstPrograms ==
    ASSUME TypeInv, RoleInv, ProgInv, FillFirst
    PROVE  ProgInv'
<1>1. /\ pc = "advanceHot" /\ ~hot.second /\ hot.page = P - 5 /\ pc' = "findHot"
      /\ Program(hot.blk, MaxLowPage) /\ UNCHANGED <<cold, clean>> /\ pc \notin Hangs
      /\ hot' = [hot EXCEPT !.list = EmptyList]
      /\ heap' = [heap EXCEPT !["first"].in = @ \cup {hot.blk}]
  BY DEF FillFirst, Goto, Hangs
<1>2. hot.blk \in Blks /\ MaxLowPage \in Pages /\ LowPage(MaxLowPage) /\ hot.page < MaxLowPage
      /\ P \in Nat
  BY <1>1, LogFields, SizeLemma DEF TypeInv, HotOK, MaxLowPage, LowPage, Pages
<1>3. heap'["first"].in = heap["first"].in \cup {hot.blk} /\ hot'.blk = hot.blk /\ CleanBlks' = CleanBlks
  BY <1>1 DEF TypeInv, HeapOK, Heaps, HotOK, LogType, CleanBlks
<1>4. hot.blk \notin CleanBlks /\ hot.blk # cold.blk
  BY <1>1 DEF RoleInv, Partition
<1>5. \A b \in Blks, p \in Pages : Programs(b, p) /\ programs[b][p] \in Nat
  BY <1>1, ProgramsNat DEF ProgInv, TypeInv
<1>6. \A b \in Blks, p \in Pages :
         programs'[b][p] = IF b = hot.blk /\ p = MaxLowPage THEN programs[b][p] + 1 ELSE programs[b][p]
  BY <1>1, <1>2, ProgrammedOnce DEF TypeInv
<1>7. \A p \in Pages : programs[hot.blk][p] <= Once(LowPage(p) /\ HotDone(p))
  BY <1>1, <1>2, <1>5 DEF Programs, HotBound
<1>8. ~HotDone(MaxLowPage)
  BY <1>1, <1>2, LogFields, SizeLemma DEF HotDone, MaxLowPage
<1>9. \A p \in Pages : programs'[hot.blk][p] <= Once(LowPage(p))
  BY <1>2, <1>5, <1>6, <1>7, <1>8 DEF Once
<1>10. \A b \in Blks, p \in Pages : b # hot.blk => programs'[b][p] = programs[b][p]
  BY <1>6
<1>11. ProgramDiscipline'
  <2>1. \A b \in Blks, p \in Pages : /\ programs[b][p] <= 1 + Once(LowPage(p))
                                     /\ b \in CleanBlks => programs[b][p] = 0
    BY DisciplineLemma DEF ProgInv
  <2>2. \A p \in Pages : programs'[hot.blk][p] <= 1 + Once(LowPage(p))
    BY <1>2, <1>5, <1>6, <1>9 DEF Once
  <2>3. QED
    BY <1>3, <1>4, <1>10, <2>1, <2>2, DisciplinePrimed
<1>12. ASSUME NEW b \in Blks, NEW p \in Pages
       PROVE  Programs(b, p)'
  <2>1. ColdDone(p)' <=> ColdDone(p)
    BY <1>1 DEF ColdDone
  <2>2. Once(ColdDone(p))' = Once(ColdDone(p))
    BY <2>1 DEF Once
  <2>3. Programs(b, p)
    BY <1>5
  <2>4. CASE b = hot.blk
    BY <1>1, <1>3, <1>4, <1>9, <2>4 DEF Programs
  <2>5. CASE b # hot.blk
    BY <1>1, <1>3, <1>10, <2>2, <2>3, <2>5 DEF Programs
  <2>6. QED
    BY <2>4, <2>5
<1>13. QED
  BY <1>11, <1>12 DEF ProgInv

LEMMA FillSecondPrograms ==
    ASSUME TypeInv, RoleInv, ProgInv, FillSecond
    PROVE  ProgInv'
<1>1. /\ pc = "advanceHot" /\ hot.second /\ hot.page = P - 2 /\ pc' = "findHot"
      /\ Program(hot.blk, P - 1) /\ UNCHANGED <<cold, clean>> /\ pc \notin Hangs
      /\ hot' = [hot EXCEPT !.list = EmptyList]
      /\ heap' = [heap EXCEPT !["second"].in = @ \cup {hot.blk}]
  BY DEF FillSecond, Goto, Hangs, LastDataPage
<1>2. hot.blk \in Blks /\ P - 1 \in Pages /\ ~LowPage(P - 1) /\ P \in Nat
  BY LogFields, SizeLemma DEF TypeInv, HotOK, LowPage
<1>3. heap'["first"].in = heap["first"].in /\ hot'.blk = hot.blk /\ CleanBlks' = CleanBlks
  BY <1>1 DEF TypeInv, HeapOK, Heaps, HotOK, LogType, CleanBlks
<1>4. hot.blk \notin CleanBlks /\ hot.blk # cold.blk /\ hot.blk \notin heap["first"].in
  BY <1>1 DEF RoleInv, Partition, InHeaps
<1>5. \A b \in Blks, p \in Pages : Programs(b, p) /\ programs[b][p] \in Nat
  BY <1>1, ProgramsNat DEF ProgInv, TypeInv
<1>6. \A b \in Blks, p \in Pages :
         programs'[b][p] = IF b = hot.blk /\ p = P - 1 THEN programs[b][p] + 1 ELSE programs[b][p]
  BY <1>1, <1>2, ProgrammedOnce DEF TypeInv
<1>7. ~HotDone(P - 1)
  BY <1>1, <1>2 DEF HotDone
<1>8. programs[hot.blk][P - 1] = 0
  BY <1>1, <1>2, <1>5, <1>7 DEF Programs, HotBound, Once
<1>9. \A b \in Blks, p \in Pages : b # hot.blk => programs'[b][p] = programs[b][p]
  BY <1>6
<1>10. ProgramDiscipline'
  <2>1. \A b \in Blks, p \in Pages : /\ programs[b][p] <= 1 + Once(LowPage(p))
                                     /\ b \in CleanBlks => programs[b][p] = 0
    BY DisciplineLemma DEF ProgInv
  <2>2. \A p \in Pages : programs'[hot.blk][p] <= 1 + Once(LowPage(p))
    BY <1>2, <1>5, <1>6, <1>8, <2>1 DEF Once
  <2>3. QED
    BY <1>3, <1>4, <1>9, <2>1, <2>2, DisciplinePrimed
<1>11. ASSUME NEW b \in Blks, NEW p \in Pages
       PROVE  Programs(b, p)'
  <2>1. ColdDone(p)' <=> ColdDone(p)
    BY <1>1 DEF ColdDone
  <2>2. Once(ColdDone(p))' = Once(ColdDone(p))
    BY <2>1 DEF Once
  <2>3. Programs(b, p)
    BY <1>5
  <2>4. CASE b = hot.blk
    BY <1>1, <1>3, <1>4, <2>4 DEF Programs
  <2>5. CASE b # hot.blk
    BY <1>1, <1>3, <1>9, <2>2, <2>3, <2>5 DEF Programs
  <2>6. QED
    BY <2>4, <2>5
<1>12. QED
  BY <1>10, <1>11 DEF ProgInv

LEMMA FillColdPrograms ==
    ASSUME TypeInv, RoleInv, ProgInv, FillCold
    PROVE  ProgInv'
<1>1. /\ pc = "advanceCold" /\ cold.page = P - 2 /\ pc \notin Hangs /\ pc' # "advanceHot"
      /\ Program(cold.blk, P - 1) /\ hot' = hot
      /\ heap' = [heap EXCEPT !["cold"].in = @ \cup {cold.blk}]
  BY DEF FillCold, Goto, Hang, Hangs, LastDataPage
<1>2. cold.blk \in Blks /\ P - 1 \in Pages /\ ~LowPage(P - 1) /\ P \in Nat
  BY LogFields, SizeLemma DEF TypeInv, ColdOK, LowPage
<1>3. heap'["first"].in = heap["first"].in
  BY <1>1 DEF TypeInv, HeapOK, Heaps
<1>4. cold.blk \notin CleanBlks /\ hot.blk # cold.blk /\ cold.blk \notin heap["first"].in /\ Distinct(clean)
  BY <1>1 DEF RoleInv, Partition, InHeaps
<1>5. \A b \in Blks, p \in Pages : Programs(b, p) /\ programs[b][p] \in Nat
  BY <1>1, ProgramsNat DEF ProgInv, TypeInv
<1>6. \A b \in Blks, p \in Pages :
         programs'[b][p] = IF b = cold.blk /\ p = P - 1 THEN programs[b][p] + 1 ELSE programs[b][p]
  BY <1>1, <1>2, ProgrammedOnce DEF TypeInv
<1>7. ~ColdDone(P - 1)
  BY <1>1, <1>2 DEF ColdDone
<1>8. programs[cold.blk][P - 1] = 0
  BY <1>1, <1>2, <1>5, <1>7 DEF Programs, Once
<1>9. \A b \in Blks, p \in Pages : b # cold.blk => programs'[b][p] = programs[b][p]
  BY <1>6
<1>10. CleanBlks' \subseteq CleanBlks
  <2>1. CASE clean = <<>>
    BY <2>1 DEF FillCold, CleanBlks
  <2>2. CASE clean # <<>>
    <3>1. clean' = Tail(clean)
      BY <2>2 DEF FillCold
    <3>2. QED
      BY <1>4, <2>2, <3>1, PopClean DEF TypeInv
  <2>3. QED
    BY <2>1, <2>2
<1>11. ProgramDiscipline'
  <2>1. \A b \in Blks, p \in Pages : /\ programs[b][p] <= 1 + Once(LowPage(p))
                                     /\ b \in CleanBlks => programs[b][p] = 0
    BY DisciplineLemma DEF ProgInv
  <2>2. \A p \in Pages : programs'[cold.blk][p] <= 1 + Once(LowPage(p))
    BY <1>2, <1>5, <1>6, <1>8, <2>1 DEF Once
  <2>3. QED
    BY <1>4, <1>9, <1>10, <2>1, <2>2, DisciplinePrimed
<1>12. ASSUME pc' \notin Hangs, NEW b \in Blks, NEW p \in Pages
       PROVE  Programs(b, p)'
  <2>1. clean # <<>> /\ cold'.blk = Head(clean)
    BY <1>12 DEF FillCold, Hang, Hangs, TypeInv, ColdOK, LogType
  <2>2. Head(clean) \in CleanBlks
    <3>1. clean' = Tail(clean)
      BY <2>1 DEF FillCold
    <3>2. QED
      BY <1>4, <2>1, <3>1, PopClean DEF TypeInv
  <2>3. b \in CleanBlks => programs[b][p] = 0
    BY DisciplineLemma DEF ProgInv
  <2>4. HotDone(p)' => HotDone(p)
    BY <1>1 DEF HotDone
  <2>5. HotDone(p) <=> HotDone(p)'
    BY <1>1, <2>4 DEF HotDone
  <2>6. HotBound(p)' = HotBound(p)
    BY <1>1, <2>5 DEF HotBound, Once
  <2>7. b = cold'.blk => programs'[b][p] <= Once(ColdDone(p))'
    BY <1>4, <1>9, <2>1, <2>2, <2>3 DEF Once
  <2>8. b = hot'.blk /\ pc' # "findHot" => programs'[b][p] <= HotBound(p)'
    BY <1>1, <1>4, <1>5, <1>9, <2>6 DEF Programs
  <2>9. b \in heap'["first"].in => programs'[b][p] <= Once(LowPage(p))
    BY <1>3, <1>4, <1>5, <1>9 DEF Programs
  <2>10. QED
    BY <2>7, <2>8, <2>9 DEF Programs
<1>13. QED
  BY <1>11, <1>12 DEF ProgInv

LEMMA CleanBlkPrograms ==
    ASSUME TypeInv, RoleInv, ProgInv, pc = "findHot", pc' \in {"idle", "while"}, clean # <<>>,
           hot' = HotOnCleanBlk(Head(clean)), clean' = Tail(clean), UNCHANGED <<cold, heap, programs>>
    PROVE  ProgInv'
<1>1. Partition /\ Distinct(clean) /\ pc \notin Hangs
  BY DEF RoleInv, Hangs
<1>2. hot'.blk = Head(clean) /\ ~hot'.second
  BY DEF HotOnCleanBlk, TypeInv, HotOK, LogType
<1>3. CleanBlks' \subseteq CleanBlks /\ Head(clean) \in CleanBlks
  BY <1>1, PopClean DEF TypeInv
<1>4. ProgramDiscipline'
  BY <1>3, DisciplineLemma, DisciplinePrimed DEF ProgInv
<1>5. ASSUME NEW b \in Blks, NEW p \in Pages
      PROVE  Programs(b, p)'
  <2>1. Programs(b, p) /\ (b \in CleanBlks => programs[b][p] = 0)
    BY <1>1, DisciplineLemma DEF ProgInv
  <2>2. HotBound(p)' >= 0
    BY DEF HotBound, Once
  <2>3. Once(ColdDone(p))' = Once(ColdDone(p))
    BY DEF ColdDone, Once
  <2>4. QED
    BY <1>2, <1>3, <2>1, <2>2, <2>3 DEF Programs
<1>6. QED
  BY <1>4, <1>5 DEF ProgInv

\* A half-written block comes back with its low pages programmed once.
LEMMA ReuseBlkPrograms ==
    ASSUME TypeInv, RoleInv, ProgInv, NEW hotFirst, ReuseBlk(hotFirst)
    PROVE  ProgInv'
<1>1. pc = "findHot" /\ UNCHANGED <<cold, clean, programs>> /\ pc \notin Hangs
  BY ReuseBlkEffect DEF Hangs
<1>2. PICK b \in Roots("first") : (\E p \in {0, 1} : ReuseEncoding(b, p)) \/ ReuseHighOnly(b)
  BY ReuseBlkEffect
<1>3. b \in heap["first"].in /\ b \in Blks
  BY RootsLemma DEF Heaps, TypeInv
<1>4. ReuseRemoved(b) \in HeapType /\ ReuseRemoved(b)["first"].in = heap["first"].in \ {b}
  BY <1>3, ReuseRemovedType DEF Heaps, TypeInv
<1>5. hot'.blk = b /\ hot'.second /\ pc' \in {"idle", "advanceHot"} /\ heap'["first"].in \subseteq heap["first"].in
  <2>1. CASE \E p \in {0, 1} : ReuseEncoding(b, p)
    <3>1. PICK p \in {0, 1} : ReuseEncoding(b, p)
      BY <2>1
    <3>2. hot'.blk = b /\ hot'.second
      BY <3>1 DEF ReuseEncoding, Reusing, ReuseLog, LogType, TypeInv, HotOK
    <3>3. heap' = [ReuseRemoved(b) EXCEPT !["second"].value[b] = @ + S]
      BY <3>1 DEF ReuseEncoding
    <3>4. heap'["first"].in = ReuseRemoved(b)["first"].in
      BY <1>4, <3>3 DEF HeapType, Heaps
    <3>5. QED
      BY <1>4, <3>1, <3>2, <3>4 DEF ReuseEncoding
  <2>2. CASE ReuseHighOnly(b)
    <3>1. hot'.blk = b /\ hot'.second
      BY <2>2 DEF ReuseHighOnly, ReuseLog, LogType, TypeInv, HotOK
    <3>2. QED
      BY <1>4, <2>2, <3>1 DEF ReuseHighOnly
  <2>3. QED
    BY <1>2, <2>1, <2>2
<1>6. ProgramDiscipline'
  BY <1>1, DisciplineLemma, DisciplinePrimed DEF ProgInv, CleanBlks
<1>7. ASSUME NEW d \in Blks, NEW p \in Pages
      PROVE  Programs(d, p)'
  <2>1. Programs(d, p) /\ Programs(b, p) /\ programs[d][p] \in Nat
    BY <1>1, <1>3, ProgramsNat DEF ProgInv, TypeInv
  <2>2. Once(LowPage(p)) <= HotBound(p)' /\ Once(LowPage(p)) \in Nat /\ HotBound(p)' \in Nat
    BY <1>5 DEF HotBound, Once
  <2>3. Once(ColdDone(p))' = Once(ColdDone(p))
    BY <1>1, <1>5 DEF ColdDone, Once
  <2>4. d = hot'.blk => programs'[d][p] <= HotBound(p)'
    BY <1>1, <1>3, <1>5, <2>1, <2>2 DEF Programs
  <2>5. QED
    BY <1>1, <1>5, <2>1, <2>3, <2>4 DEF Programs
<1>8. QED
  BY <1>6, <1>7 DEF ProgInv

\* An erased block has no program.
LEMMA ReclaimPrograms ==
    ASSUME TypeInv, RoleInv, ProgInv, NEW b \in heap["second"].in \cup heap["cold"].in, Reclaim(b),
           pc \in {"while", "collect"}, pc' = "collect", UNCHANGED <<hot, cold>>
    PROVE  ProgInv'
<1>1. Partition /\ Distinct(clean) /\ pc \notin Hangs /\ b \in Blks
  BY DEF RoleInv, TypeInv, HeapOK, Heaps, Hangs
<1>2. b \notin CleanBlks
  BY <1>1 DEF Partition, InHeaps
<1>3. heap'["first"].in \subseteq heap["first"].in /\ clean' = Append(clean, b)
  BY <1>1, ReclaimTypes DEF Heaps
<1>4. CleanBlks' = CleanBlks \cup {b}
  BY <1>1, <1>2, <1>3, AppendClean DEF TypeInv
<1>5. \A d \in Blks, p \in Pages : programs'[d][p] = IF d = b THEN 0 ELSE programs[d][p]
  BY DEF Reclaim, TypeInv, ProgramsOK
<1>6. \A p \in Pages : Once(LowPage(p)) \in 0..1 /\ HotBound(p)' \in Nat /\ Once(ColdDone(p))' \in Nat
  BY DEF Once, HotBound
<1>7. ProgramDiscipline'
  <2>1. \A d \in Blks, p \in Pages : /\ programs[d][p] <= 1 + Once(LowPage(p))
                                     /\ d \in CleanBlks => programs[d][p] = 0
    BY DisciplineLemma DEF ProgInv
  <2>2. QED
    BY <1>4, <1>5, <1>6, <2>1, DisciplinePrimed
<1>8. ASSUME NEW d \in Blks, NEW p \in Pages
      PROVE  Programs(d, p)'
  <2>1. Programs(d, p)
    BY <1>1 DEF ProgInv
  <2>2. Once(ColdDone(p))' = Once(ColdDone(p)) /\ HotBound(p)' = HotBound(p)
    BY DEF ColdDone, HotDone, HotBound, Once
  <2>3. CASE d = b
    BY <1>5, <1>6, <2>3 DEF Programs
  <2>4. CASE d # b
    BY <1>3, <1>5, <2>1, <2>2, <2>4 DEF Programs
  <2>5. QED
    BY <2>3, <2>4
<1>9. QED
  BY <1>7, <1>8 DEF ProgInv

\* The hot log goes on to a later page.
LEMMA AdvanceHotPage ==
    ASSUME TypeInv, AdvanceFirst \/ AdvanceToHigh \/ AdvanceToTestedLow \/ AdvanceToPage1 \/ SkipLow
    PROVE  /\ hot'.page > hot.page /\ hot'.page \in Nat /\ hot.page \in Nat /\ hot'.second = hot.second
<1>1. hot \in LogType /\ hot.page \in Nat /\ hot.page \in 0..(P - 2)
  BY LogFields, SizeLemma DEF TypeInv, HotOK
<1>2. CASE AdvanceFirst
  BY <1>1, <1>2 DEF AdvanceFirst, LogType
<1>3. CASE AdvanceToTestedLow
  BY <1>1, <1>3 DEF AdvanceToTestedLow, NextPage, LogType
<1>4. CASE AdvanceToPage1
  <2>1. PICK log : log = [hot EXCEPT !.page = 1, !.recycled = TRUE]
    OBVIOUS
  <2>2. log \in LogType /\ log.page = 1 /\ log.second = hot.second
    <3>1. 1 \in 0..(P - 2)
      BY SizeLemma
    <3>2. QED
      BY <1>1, <2>1, <3>1 DEF LogType
  <2>3. hot' = Reusing(log, 1) /\ hot.page + 1 = 1
    BY <1>4, <2>1 DEF AdvanceToPage1, NextPage
  <2>4. hot'.page = 1 /\ hot'.second = hot.second
    BY <2>2, <2>3, SizeLemma, ReusingType
  <2>5. QED
    BY <1>1, <2>3, <2>4
<1>5. ASSUME NEW log \in LogType, NEW p, TestLowPage(log, p)
      PROVE  hot'.page = log.page /\ hot'.second = log.second
  BY <1>5 DEF TestLowPage, Reusing, LogType
<1>6. CASE AdvanceToHigh
  <2>1. hot.second /\ hot.page # LastDataPage
    BY <1>6 DEF AdvanceToHigh, InSecondUsage
  <2>2. PICK log : log = [hot EXCEPT !.page = NextPage, !.recycled = FALSE]
    OBVIOUS
  <2>3. log \in LogType /\ log.page = NextPage /\ log.second = hot.second
    BY <1>1, <2>1, <2>2, SecondPages, MovedLogType
  <2>4. hot'.page = NextPage /\ hot'.second = hot.second
    BY <1>5, <1>6, <2>2, <2>3 DEF AdvanceToHigh
  <2>5. QED
    BY <1>1, <2>4 DEF NextPage
<1>7. CASE SkipLow
  <2>1. hot.second /\ hot.page # LastDataPage /\ NextPage % 2 = 1
    BY <1>7 DEF SkipLow, InSecondUsage
  <2>2. PICK log : log = [hot EXCEPT !.page = NextPage + 1, !.recycled = FALSE]
    OBVIOUS
  <2>3. log \in LogType /\ log.page = NextPage + 1 /\ log.second = hot.second
    <3>1. PICK p \in 0..(P - 2) : p = NextPage + 1
      BY <2>1, SecondPages
    <3>2. QED
      BY <1>1, <2>2, <3>1, MovedLogType
  <2>4. \/ hot' = log
        \/ TestLowPage(log, NextPage + 2)
    BY <1>7, <2>2 DEF SkipLow
  <2>5. hot'.page = NextPage + 1 /\ hot'.second = hot.second
    BY <1>5, <2>3, <2>4
  <2>6. QED
    BY <1>1, <2>5 DEF NextPage
<1>8. QED
  BY <1>2, <1>3, <1>4, <1>6, <1>7

\* A write of the host leaves both logs on their pages.
LEMMA WritePages ==
    ASSUME TypeInv, NEW c \in Chunks, WriteHot(c) \/ WriteCold(c) \/ MoveAway(c)
    PROVE  /\ hot'.page = hot.page /\ hot'.second = hot.second /\ cold'.page = cold.page
           /\ programs' = programs
<1>1. CASE WriteHot(c)
  <2>. DEFINE log == Buffered(HotWithoutOld(c), c)
  <2>1. log \in LogType /\ log.page = hot.page /\ log.second = hot.second
    BY WithoutOldType, BufferedType
  <2>2. hot' = log \/ hot' = [log EXCEPT !.precacheDone = TRUE]
    BY <1>1 DEF WriteHot
  <2>. HIDE DEF log
  <2>3. hot'.page = hot.page /\ hot'.second = hot.second
    BY <2>1, <2>2 DEF LogType
  <2>4. cold'.page = cold.page /\ programs' = programs
    BY <1>1, WithoutOldType DEF WriteHot
  <2>5. QED
    BY <2>3, <2>4
<1>2. CASE WriteCold(c)
  <2>1. cold' = Buffered(ColdWithoutOld(c), c) /\ hot' = HotWithoutOld(c) /\ programs' = programs
    BY <1>2 DEF WriteCold
  <2>2. Buffered(ColdWithoutOld(c), c).page = cold.page
    BY WithoutOldType, BufferedType
  <2>3. QED
    BY <2>1, <2>2, WithoutOldType
<1>3. CASE MoveAway(c)
  BY <1>3, WithoutOldType DEF MoveAway
<1>4. QED
  BY <1>1, <1>2, <1>3

\* The labels at which a log has not yet done with its page stay behind it.
LEMMA CollectorPages ==
    ASSUME TypeInv,
           AdvanceCold \/ EnoughClean \/ GcIdle \/ ReadPage \/ CopyByChunk \/ CopyChunk \/ EndOfPage
    PROVE  /\ hot' = hot /\ programs' = programs /\ pc # "advanceHot"
           /\ \/ cold'.page = cold.page /\ pc # "advanceCold"
              \/ cold'.page = cold.page + 1
           /\ cold.page \in Nat
<1>1. cold \in LogType /\ cold.page \in 0..(P - 2) /\ cold.page + 1 \in Int
  BY LogFields DEF TypeInv, ColdOK
<1>2. /\ hot' = hot /\ programs' = programs /\ pc # "advanceHot" /\ (AdvanceCold \/ pc # "advanceCold")
  BY DEF AdvanceCold, EnoughClean, GcIdle, ReadPage, CopyByChunk, CopyChunk, EndOfPage
<1>3. CASE AdvanceCold
  BY <1>1, <1>2, <1>3 DEF AdvanceCold, LogType
<1>4. CASE CopyChunk
  <2>1. \/ cold' = cold
        \/ cold' = Buffered(cold, SlotChunk(CHOOSE t \in gc.valid : \A u \in gc.valid : t <= u))
    BY <1>4 DEF CopyChunk
  <2>2. \A c : Buffered(cold, c).page = cold.page
    BY <1>1 DEF Buffered, LogType
  <2>3. cold'.page = cold.page
    BY <2>1, <2>2, Zenon
  <2>4. QED
    BY <1>1, <1>2, <1>4, <2>3 DEF CopyChunk
<1>5. CASE EnoughClean \/ GcIdle \/ ReadPage \/ CopyByChunk \/ EndOfPage
  <2>1. pc # "advanceCold" /\ cold' = cold
    BY <1>5 DEF EnoughClean, GcIdle, ReadPage, CopyByChunk, EndOfPage
  <2>2. QED
    BY <1>1, <1>2, <2>1
<1>6. QED
  BY <1>3, <1>4, <1>5

LEMMA DisciplineKept ==
    ASSUME ProgramDiscipline, clean' = clean, programs' = programs
    PROVE  ProgramDiscipline'
<1>1. CleanBlks' = CleanBlks
  BY DEF CleanBlks
<1>2. QED
  BY <1>1, DisciplineLemma, DisciplinePrimed

LEMMA ProgramsInit == Init => ProgInv
<1>. SUFFICES ASSUME Init PROVE ProgInv
  OBVIOUS
<1>1. \A b \in Blks, p \in Pages : programs[b][p] = 0
  BY DEF Init
<1>2. \A p \in Pages : Once(LowPage(p)) \in Nat /\ Once(ColdDone(p)) \in Nat /\ HotBound(p) \in Nat
  BY DEF Once, HotBound
<1>3. ProgramDiscipline
  BY <1>1, <1>2, DisciplineLemma
<1>4. \A b \in Blks, p \in Pages : Programs(b, p)
  BY <1>1, <1>2 DEF Programs
<1>5. QED
  BY <1>3, <1>4 DEF ProgInv

LEMMA ProgramsStep == TypeInv /\ RoleInv /\ ProgInv /\ [Next]_vars => ProgInv'
<1>. SUFFICES ASSUME TypeInv, RoleInv, ProgInv, [Next]_vars PROVE ProgInv'
  OBVIOUS
<1>p. /\ hot \in LogType /\ cold \in LogType /\ hot.blk \in Blks /\ cold.blk \in Blks
      /\ hot.page \in Nat /\ cold.page \in Nat /\ Pages \subseteq Nat
  BY LogFields, SizeLemma DEF TypeInv, HotOK, ColdOK
<1>1. CASE UNCHANGED vars
  <2>1. /\ hot' = hot /\ cold' = cold /\ pc' = pc /\ programs' = programs /\ heap' = heap /\ clean' = clean
    BY <1>1 DEF vars
  <2>2. QED
    BY <2>1 DEF ProgInv, ProgramDiscipline, CleanBlks, Programs, HotBound, Once, HotDone, ColdDone
<1>2. ASSUME NEW c \in Chunks, WriteHot(c) \/ WriteCold(c) \/ MoveAway(c) PROVE ProgInv'
  <2>1. KeepsRoles
    BY <1>2, WriteKeeps
  <2>2. pc = "idle"
    BY <1>2 DEF WriteHot, WriteCold, MoveAway
  <2>3. \A p \in Pages : (HotDone(p) => HotDone(p)') /\ (ColdDone(p) => ColdDone(p)')
    BY <1>2, <2>2, WritePages DEF HotDone, ColdDone
  <2>4. QED
    BY <1>2, <2>1, <2>3, WritePages, ProgramsKept
<1>3. CASE FlushHot
  <2>1. KeepsRoles
    BY <1>3, FlushKeeps
  <2>2. /\ pc = "flushHot" /\ pc' = "advanceHot" /\ cold' = cold /\ hot' = Flushed(hot)
        /\ Program(hot.blk, hot.page)
    BY <1>3 DEF FlushHot, Flush, Goto
  <2>3. hot'.page = hot.page /\ hot'.second = hot.second
    BY <1>p, <2>2, FlushedType
  <2>4. QED
    BY <2>1, <2>2, <2>3, ProgramsHotFlushed
<1>4. CASE FlushRecycled
  <2>1. KeepsRoles
    BY <1>4, FlushKeeps
  <2>2. CASE hot.nextLow # hot.page
    <3>1. UNCHANGED <<hot, cold, programs>> /\ pc = "flushHot" /\ pc' = "precache mismatch"
      BY <1>4, <2>2 DEF FlushRecycled, Hang
    <3>2. \A p \in Pages : (HotDone(p) => HotDone(p)') /\ (ColdDone(p) => ColdDone(p)')
      BY <3>1 DEF HotDone, ColdDone
    <3>3. QED
      BY <2>1, <3>1, <3>2, ProgramsKept
  <2>3. CASE hot.nextLow = hot.page
    <3>1. pc = "flushHot" /\ pc' = "advanceHot" /\ cold' = cold /\ Program(hot.blk, hot.page)
      BY <1>4, <2>3 DEF FlushRecycled, Goto
    <3>2. hot'.page = hot.page /\ hot'.second = hot.second
      BY <1>p, <1>4, <2>3, FlushRecycledLog
    <3>3. QED
      BY <2>1, <3>1, <3>2, ProgramsHotFlushed
  <2>4. QED
    BY <2>2, <2>3
<1>5. CASE FlushCold
  <2>1. KeepsRoles
    BY <1>5, FlushKeeps
  <2>2. /\ pc = "flushCold" /\ pc' = "advanceCold" /\ hot' = hot /\ cold' = Flushed(cold)
        /\ Program(cold.blk, cold.page)
    BY <1>5 DEF FlushCold, Flush, Goto
  <2>3. cold'.page = cold.page
    BY <1>p, <2>2, FlushedType
  <2>4. QED
    BY <2>1, <2>2, <2>3, ProgramsColdFlushed
<1>6. CASE AdvanceFirst \/ AdvanceToHigh \/ AdvanceToTestedLow \/ AdvanceToPage1 \/ SkipLow
  <2>1. KeepsRoles
    BY <1>6, AdvanceHotKeeps
  <2>2. cold' = cold /\ programs' = programs /\ pc = "advanceHot"
    BY <1>6 DEF AdvanceFirst, AdvanceToHigh, AdvanceToTestedLow, AdvanceToPage1, SkipLow, InSecondUsage
  <2>3. hot'.page > hot.page /\ hot'.page \in Nat /\ hot'.second = hot.second
    BY <1>6, AdvanceHotPage
  <2>4. \A p \in Pages : (HotDone(p) => HotDone(p)') /\ (ColdDone(p) => ColdDone(p)')
    BY <1>p, <2>2, <2>3 DEF HotDone, ColdDone
  <2>5. QED
    BY <2>1, <2>2, <2>3, <2>4, ProgramsKept
<1>7. CASE FillFirst \/ FillSecond
  BY <1>7, FillFirstPrograms, FillSecondPrograms
<1>8. CASE UseCleanBlk
  <2>1. clean # <<>>
    BY <1>8 DEF UseCleanBlk
  <2>2. QED
    BY <1>8, <2>1, CleanBlkPrograms DEF UseCleanBlk, Goto
<1>9. ASSUME NEW hotFirst \in HotFirst, ReuseBlk(hotFirst) PROVE ProgInv'
  BY <1>9, ReuseBlkPrograms
<1>10. ASSUME NEW hotFirst \in HotFirst, UseLastCleanBlk(hotFirst) PROVE ProgInv'
  <2>1. CASE clean # <<>>
    BY <1>10, <2>1, CleanBlkPrograms DEF UseLastCleanBlk, Goto
  <2>2. CASE clean = <<>>
    <3>1. pc' \in Hangs /\ clean' = clean /\ programs' = programs
      BY <1>10, <2>2 DEF UseLastCleanBlk, Hang, Hangs
    <3>2. ProgramDiscipline'
      BY <3>1, DisciplineKept DEF ProgInv
    <3>3. QED
      BY <3>1, <3>2 DEF ProgInv
  <2>3. QED
    BY <2>1, <2>2
<1>11. CASE FillCold
  BY <1>11, FillColdPrograms
<1>12. CASE CollectAgain
  <2>1. pc = "while" /\ UNCHANGED <<hot, cold>> /\ pc \notin Hangs /\ pc # "findHot"
    BY <1>12, CollectAgainEffect DEF Hangs
  <2>2. \A p \in Pages : (HotDone(p) => HotDone(p)') /\ (ColdDone(p) => ColdDone(p)')
    BY <2>1 DEF HotDone, ColdDone
  <2>3. ASSUME UNCHANGED <<heap, clean, programs>>, pc' \in {"no candidate", "collect"}
        PROVE  ProgInv'
    <3>0. clean' = clean /\ programs' = programs
      BY <2>3
    <3>1. ProgramDiscipline'
      BY <3>0, DisciplineKept DEF ProgInv
    <3>2. \A b \in Blks, p \in Pages : Programs(b, p)'
      BY <2>1, <2>3 DEF ProgInv, Programs, HotBound, Once, HotDone, ColdDone
    <3>3. QED
      BY <3>1, <3>2 DEF ProgInv
  <2>4. ASSUME NEW b \in heap["second"].in \cup heap["cold"].in, Reclaim(b), pc' = "collect"
        PROVE  ProgInv'
    BY <2>1, <2>4, ReclaimPrograms
  <2>5. QED
    BY <1>12, <2>3, <2>4, CollectAgainEffect
<1>13. CASE EndOfVictim
  <2>1. pc = "collect" /\ UNCHANGED <<hot, cold>> /\ gc.state = "read"
    BY <1>13 DEF EndOfVictim
  <2>2. CASE gc.inBlk # gc.fromHeap
    <3>1. clean' = clean /\ programs' = programs /\ pc' = "count mismatch"
      BY <1>13, <2>2 DEF EndOfVictim, Hang
    <3>2. ProgramDiscipline'
      BY <3>1, DisciplineKept DEF ProgInv
    <3>3. QED
      BY <3>1, <3>2 DEF ProgInv, Hangs
  <2>3. CASE gc.inBlk = gc.fromHeap
    <3>1. Reclaim(gc.victim) /\ pc' = "collect"
      BY <1>13, <2>1, <2>3 DEF EndOfVictim
    <3>2. PICK b \in heap["second"].in \cup heap["cold"].in : b = gc.victim
      BY <2>1 DEF RoleInv
    <3>3. Reclaim(b)
      BY <3>1, <3>2
    <3>4. QED
      BY <2>1, <3>1, <3>3, ReclaimPrograms
  <2>4. QED
    BY <2>2, <2>3
<1>14. CASE CopyWholePage
  <2>1. KeepsRoles
    BY <1>14, CollectorKeeps
  <2>2. /\ pc = "collect" /\ pc' = "advanceCold" /\ hot' = hot /\ Program(cold.blk, cold.page)
        /\ cold' = [cold EXCEPT !.list[cold.page] = [s \in Slots |-> Entry(SlotChunk(s))]]
    BY <1>14 DEF CopyWholePage, Goto
  <2>3. cold'.page = cold.page
    BY <1>p, <2>2 DEF LogType
  <2>4. QED
    BY <2>1, <2>2, <2>3, ProgramsColdFlushed
<1>15. CASE AdvanceCold \/ EnoughClean \/ GcIdle \/ ReadPage \/ CopyByChunk \/ CopyChunk \/ EndOfPage
  <2>1. KeepsRoles
    BY <1>15, CollectorKeeps
  <2>2. \A p \in Pages : (HotDone(p) => HotDone(p)') /\ (ColdDone(p) => ColdDone(p)')
    BY <1>p, <1>15, CollectorPages DEF HotDone, ColdDone
  <2>3. QED
    BY <1>15, <2>1, <2>2, CollectorPages, ProgramsKept
<1>16. QED
  BY NextCases, <1>1, <1>2, <1>3, <1>4, <1>5, <1>6, <1>7, <1>8, <1>9, <1>10, <1>11, <1>12, <1>13,
     <1>14, <1>15

LEMMA ProgramsAlways == Spec => []ProgInv
<1>1. Init => ProgInv
  BY ProgramsInit
<1>2. TypeInv /\ RoleInv /\ ProgInv /\ [Next]_vars => ProgInv'
  BY ProgramsStep
<1>3. QED
  BY <1>1, <1>2, RolesAlways, PTL DEF Spec

\* The flash allows one program of a page between two erasures, and a second one
\* of a low page that is encoded: the two logs, the collector's copies and the
\* lists saved at the end of a usage never program more, and a block that is
\* handed out as clean was erased after its last program.
THEOREM ProgramsCorrect == Spec => []ProgramDiscipline
BY ProgramsAlways, PTL DEF ProgInv

----------------------------------------------------------------------------
(* The same with the trims of the host.                                    *)

\* A trim changes the map, a count of the heaps, or a slot of the hot buffer.
LEMMA TrimEffect ==
    ASSUME TypeInv, NEW c \in Chunks, Trim(c)
    PROVE  /\ pc = "idle" /\ map' = [map EXCEPT ![c] = Invalid]
           /\ UNCHANGED <<cold, clean, gc, lists, programs, pc, frames>>
           /\ \/ /\ hot' = hot /\ map[c].at = "FlashWLog" /\ map[c].blk \in Blks
                 /\ heap' = Decremented(map[c].blk, 1)
              \/ /\ heap' = heap /\ map[c].at = "DRAMHotLog" /\ map[c].slot \in Slots
                 /\ hot' = [hot EXCEPT !.chunk[map[c].slot] = None]
<1>1. map[c] \in Address
  BY DEF TypeInv, MapOK
<1>2. map[c].at = "FlashWLog" => map[c].blk \in Blks
  BY <1>1, PartsLemma DEF InFlash
<1>3. map[c].at = "DRAMHotLog" => map[c].slot \in Slots
  BY <1>1, PartsLemma
<1>4. pc = "idle" /\ map' = [map EXCEPT ![c] = Invalid] /\ (TrimFlash(c) \/ TrimHot(c))
  BY DEF Trim
<1>5. UNCHANGED <<cold, clean, gc, lists, programs, pc, frames>>
  BY DEF Trim
<1>6. QED
  BY <1>2, <1>3, <1>4, <1>5 DEF TrimFlash, TrimHot

\* It leaves the logs where they are, and the members of the heaps.
LEMMA TrimKeeps ==
    ASSUME TypeInv, NEW c \in Chunks, Trim(c)
    PROVE  /\ KeepsRoles
           /\ hot' \in LogType /\ hot'.page = hot.page /\ hot'.second = hot.second
           /\ hot'.recycled = hot.recycled /\ hot'.blk = hot.blk /\ hot'.ptr = hot.ptr
           /\ hot'.list = hot.list /\ hot'.nextLow = hot.nextLow /\ hot'.allValid = hot.allValid
           /\ heap' \in HeapType /\ \A h \in Heaps : heap'[h].in = heap[h].in
<1>1. /\ hot \in LogType /\ HeapOK
  BY DEF TypeInv, HotOK
<1>2. CASE heap' = Decremented(map[c].blk, 1) /\ hot' = hot /\ map[c].blk \in Blks
  <2>1. heap' \in HeapType /\ \A h \in Heaps : heap'[h].in = heap[h].in
    <3>1. PICK b \in Blks : b = map[c].blk
      BY <1>2
    <3>2. heap' = Decremented(b, 1)
      BY <1>2, <3>1
    <3>3. Decremented(b, 1) \in HeapType /\ \A h \in Heaps : Decremented(b, 1)[h].in = heap[h].in
      <4>1. 1 \in Int /\ HeapOK
        BY <1>1
      <4>2. /\ Decremented(b, 1) \in [Heaps -> [value : [Blks -> Int], in : SUBSET Blks]]
            /\ \A h \in Heaps : /\ Decremented(b, 1)[h].in = heap[h].in
                               /\ Decremented(b, 1)[h].value = [heap[h].value EXCEPT ![b] = @ - 1]
        BY <4>1, DecrementedType
      <4>3. QED
        BY <4>2, Zenon DEF HeapType
    <3>4. QED
      BY <3>2, <3>3
  <2>2. QED
    <3>1. clean' = clean /\ cold' = cold /\ gc' = gc /\ pc' = pc /\ pc = "idle"
      BY TrimEffect
    <3>2. hot' = hot
      BY <1>2
    <3>3. KeepsRoles
      BY <2>1, <3>1, <3>2 DEF KeepsRoles, Hangs
    <3>4. QED
      BY <1>1, <2>1, <3>2, <3>3
<1>3. CASE heap' = heap /\ map[c].slot \in Slots /\ hot' = [hot EXCEPT !.chunk[map[c].slot] = None]
  <2>1. /\ hot'.page = hot.page /\ hot'.second = hot.second /\ hot'.recycled = hot.recycled
        /\ hot'.blk = hot.blk /\ hot'.ptr = hot.ptr /\ hot'.list = hot.list
        /\ hot'.nextLow = hot.nextLow /\ hot'.allValid = hot.allValid
    BY <1>1, <1>3 DEF LogType
  <2>2. hot' \in LogType
    <3>1. PICK s \in Slots : s = map[c].slot
      BY <1>3
    <3>2. hot' = [hot EXCEPT !.chunk[s] = None]
      BY <1>3, <3>1
    <3>3. QED
      BY <1>1, <3>2 DEF LogType
  <2>3. QED
    <3>1. clean' = clean /\ cold' = cold /\ gc' = gc /\ pc' = pc /\ pc = "idle"
      BY TrimEffect
    <3>2. heap' \in HeapType /\ \A h \in Heaps : heap'[h].in = heap[h].in
      BY <1>1, <1>3 DEF HeapOK, HeapType
    <3>3. KeepsRoles
      BY <2>1, <3>1, <3>2 DEF KeepsRoles, Hangs
    <3>4. QED
      BY <2>1, <2>2, <3>2, <3>3
<1>4. QED
  BY <1>2, <1>3, TrimEffect

\* The whole of what the proofs above keep.
Structure == TypeInv /\ RoleInv /\ Reserve /\ ProgInv

LEMMA TrimStep ==
    ASSUME Structure, NEW c \in Chunks, Trim(c)
    PROVE  Structure'
<1>0. TypeInv /\ RoleInv /\ Reserve /\ ProgInv
  BY DEF Structure
<1>1. /\ pc = "idle" /\ map' = [map EXCEPT ![c] = Invalid]
      /\ UNCHANGED <<cold, clean, gc, lists, programs, pc, frames>>
  BY <1>0, TrimEffect
<1>2. /\ KeepsRoles
      /\ hot' \in LogType /\ hot'.page = hot.page /\ hot'.second = hot.second
      /\ hot'.recycled = hot.recycled /\ heap' \in HeapType
  BY <1>0, TrimKeeps
<1>3. TypeInv'
  <2>1. MapOK'
    <3>1. Invalid \in Address
      BY DEF Address
    <3>2. QED
      BY <1>0, <1>1, <3>1 DEF TypeInv, MapOK
  <2>2. HotOK' /\ HeapOK'
    BY <1>0, <1>2 DEF TypeInv, HotOK, HeapOK, HeapType
  <2>3. ColdOK' /\ CleanOK' /\ GcOK' /\ ListsOK' /\ ProgramsOK' /\ ControlOK'
    BY <1>0, <1>1 DEF TypeInv, ColdOK, CleanOK, GcOK, ListsOK, ProgramsOK, ControlOK
  <2>4. QED
    BY <2>1, <2>2, <2>3 DEF TypeInv
<1>4. RoleInv'
  BY <1>0, <1>2, RolesKept
<1>5. Reserve'
  BY <1>0, <1>1 DEF Reserve, Top
<1>6. ProgInv'
  <2>1. \A p \in Pages : (HotDone(p) => HotDone(p)') /\ (ColdDone(p) => ColdDone(p)')
    BY <1>1, <1>2 DEF HotDone, ColdDone
  <2>2. programs' = programs
    BY <1>1
  <2>3. QED
    BY <1>0, <1>2, <2>1, <2>2, ProgramsKept
<1>7. QED
  BY <1>3, <1>4, <1>5, <1>6 DEF Structure

LEMMA StructureStep == Structure /\ [Next]_vars => Structure'
BY TypeStep, RoleStep, ReserveStep, ProgramsStep DEF Structure

LEMMA StructureInit == Init => Structure
BY InitTypes, RoleInit, ReserveInit, ProgramsInit DEF Structure

LEMMA StructureBankStep == Structure /\ [BankNext]_vars => Structure'
BY StructureStep, TrimStep DEF BankNext

\* The bank alone, whatever the table of the blocks says.
BankSpec == Init /\ [][BankNext]_vars

LEMMA StructureAlways == BankSpec => []Structure
BY StructureInit, StructureBankStep, PTL DEF BankSpec

\* As long as no entry of the table was overwritten, the steps are those of the bank.
LEMMA IntactStep == Intact' /\ [TrimNext]_<<vars, astray>> => Intact /\ [BankNext]_vars
<1>1. Intact' /\ UNCHANGED <<vars, astray>> => Intact /\ UNCHANGED vars
  BY DEF Intact
<1>2. Intact' /\ TrimNext => Intact /\ [BankNext]_vars
  BY DEF TrimNext, BankStep, OtherBankFlush, Astray
<1>3. QED
  BY <1>1, <1>2

LEMMA StructureTrimmed == TrimSpec => [](Intact => Structure)
<1>1. Init => (Intact => Structure)
  BY StructureInit
<1>2. (Intact => Structure) /\ [TrimNext]_<<vars, astray>> => (Intact => Structure)'
  BY IntactStep, StructureBankStep
<1>3. QED
  BY <1>1, <1>2, PTL DEF TrimSpec

\* A bank none of whose blocks has its entry at the end of the table, every bank but the
\* last, keeps its part of the table whatever is trimmed: for it the theorems below hold
\* without their condition.
THEOREM TableKept == TableBlks = {} /\ TrimSpec => []Intact
<1>1. SUFFICES ASSUME TableBlks = {} PROVE TrimSpec => []Intact
  OBVIOUS
<1>2. Intact /\ [TrimNext]_<<vars, astray>> => Intact'
  BY <1>1 DEF Intact, TrimNext, BankStep, OtherBankFlush, Overwrite, Astray
<1>3. QED
  BY <1>2, PTL DEF TrimSpec

\* trimRange (ftl.c:1049) tells the heaps and the hot buffer what the host gave up, and
\* although its bookkeeping is incomplete (see NeverHangs in the run trim), whatever is
\* trimmed between the writes every block keeps one role, two clean blocks are left after
\* each write, and no page is programmed more often than the flash allows: in the last
\* bank until a flush with a hole it is not told of overwrites a block's entry in LOG_BMT
\* (write.c:78, 169), in the other banks always (TableKept).
THEOREM StructureUnderTrims ==
    TrimSpec => [](Intact => TypeOK /\ OneRole /\ CleanReserve /\ ProgramDiscipline)
<1>1. Structure => TypeOK /\ OneRole /\ CleanReserve /\ ProgramDiscipline
  <2>1. Reserve => CleanReserve
    BY DEF Reserve, CleanReserve
  <2>2. QED
    BY <2>1, TypesImply, RolesImply DEF Structure, ProgInv
<1>2. QED
  BY <1>1, StructureTrimmed, PTL
=============================================================================
