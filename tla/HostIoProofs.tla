---------------------------- MODULE HostIoProofs ----------------------------
(***************************************************************************)
(* Proofs about HostIo for every geometry of the drive, every ring of      *)
(* buffers and every set of requests: the types, that the map leads to the *)
(* newest sectors, and that a read gets them.                              *)
(***************************************************************************)
EXTENDS HostIo, FiniteSetTheorems, TLAPS

----------------------------------------------------------------------------
(* The invariant.                                                          *)

\* Sector x of chunk i of page l, and where a log buffer has it.
InChunks == 0..SectorsPerChunk-1
SectorOf(l, i, x) == l * SectorsPerPage + i * SectorsPerChunk + x
AddrOf(t, b, s, x) == LogBuf(t, b) + s * SectorsPerChunk + x

\* What sector x of the chunk at place p is, in memory mem and pages fl.
Content(p, mem, fl, x) ==
    IF p = Invalid THEN Ones
    ELSE IF InDram(p) THEN mem[AddrOf(p.loc, p.bank, p.slot, x)]
    ELSE fl[p.bank][p.page][p.slot * SectorsPerChunk + x]

\* NewestStored, chunk by chunk: but for the sectors in gone, the map leads to d.
Newest(m, mem, fl, d, gone) ==
    \A l \in Lpns, i \in Chunks, x \in InChunks :
        SectorOf(l, i, x) \in gone \/ Content(m[l][i], mem, fl, x) = d[SectorOf(l, i, x)]

Maps == [Lpns -> [Chunks -> Places]]
CtrlBlocks == [ptr : Chunks, owner : [Chunks -> Owners], recycled : BOOLEAN]
Ctrls == [Temps -> [Banks -> CtrlBlocks]]

\* The map leads to a log buffer only where that buffer has the chunk, ...
PlacesOK(m, own) ==
    \A l \in Lpns, i \in Chunks :
        \/ m[l][i] = Invalid
        \/ InDram(m[l][i]) /\ m[l][i].page = 0 /\ own[m[l][i].loc][m[l][i].bank].owner[m[l][i].slot] = <<l, i>>
        \/ m[l][i].loc \in {"flash", "encoded"}

\* ... and a log buffer has, below ptr, only chunks that the map leads to there.
OwnersOK(m, own) ==
    \A t \in Temps, b \in Banks, s \in Chunks, l \in Lpns, i \in Chunks :
        own[t][b].owner[s] = <<l, i>> => s < own[t][b].ptr /\ m[l][i] = Place(t, b, 0, s)

PtrsOK == \A t \in Temps, b \in Banks : ctrl[t][b].ptr \in Slots(ctrl[t][b])

\* The request lies on the drive, and what it has still to do does too.
Here == req.lpn * SectorsPerPage + req.off
RequestOK ==
    /\ req.op # "none" => Here + req.rem <= NumSectors
    /\ req.op = "write" => req.piece <= req.rem /\ req.off + req.piece <= SectorsPerPage /\ DOMAIN answer = {}
    /\ req.op = "read" => DOMAIN answer \subseteq 0..Here-1

\* The host and the firmware are at the same buffer of a ring between
\* requests; in a write the host is ahead by the pages that are left, and each
\* sector is in the buffer in which the firmware will look for it.
PagesLeft == (req.off + req.rem + SectorsPerPage - 1) \div SectorsPerPage
BufferOf(lba) == (g_ftl_write_buf_id + (lba \div SectorsPerPage - req.lpn)) % NumWrBuffers
RingsOK ==
    /\ hostRd = g_ftl_read_buf_id
    /\ req.op # "write" => hostWr = g_ftl_write_buf_id
    /\ req.op = "write" =>
        /\ PagesLeft <= NumWrBuffers
        /\ hostWr = (g_ftl_write_buf_id + PagesLeft) % NumWrBuffers
        /\ \A lba \in Here..Here+req.rem-1 :
              wbuf[BufferOf(lba) * SectorsPerPage + (lba % SectorsPerPage)] = Written(writes, lba)

Inv ==
    /\ TypeOK
    /\ PlacesOK(map, ctrl) /\ OwnersOK(map, ctrl) /\ PtrsOK
    /\ RequestOK /\ RingsOK
    /\ NewestStored /\ ReadsNewest

----------------------------------------------------------------------------
(* Arithmetic.                                                             *)

LEMMA DivLemma ==
    ASSUME NEW a \in Nat, NEW n \in Nat, n > 0
    PROVE  a \div n \in Nat /\ a % n \in 0..n-1 /\ a = (a \div n) * n + (a % n)
OBVIOUS

LEMMA DivUnique ==
    ASSUME NEW n \in Nat, NEW q \in Int, NEW r \in 0..n-1
    PROVE  (q * n + r) \div n = q /\ (q * n + r) % n = r
OBVIOUS

\* A product with a smaller factor is less by the other factor at least.
LEMMA TimesLemma ==
    ASSUME NEW n \in Nat, NEW q \in Int, NEW p \in Int, q < p
    PROVE  q * n \in Int /\ p * n \in Int /\ q * n + n <= p * n
OBVIOUS

\* Different multiples leave room for the rest of each.
LEMMA ApartLemma ==
    ASSUME NEW n \in Nat, NEW q \in Int, NEW p \in Int, NEW x \in 0..n-1, NEW y \in 0..n-1,
           q * n + x = p * n + y
    PROVE  q = p /\ x = y
BY DivUnique

LEMMA Sizes ==
    /\ NumBanks \in Nat /\ NumLpns \in Nat /\ SectorsPerChunk \in Nat /\ NumWrBuffers \in Nat /\ NumRdBuffers \in Nat
    /\ NumBanks > 0 /\ NumLpns > 0 /\ SectorsPerChunk > 0 /\ NumWrBuffers > 0 /\ NumRdBuffers > 0
    /\ ChunksPerPage \in Nat /\ ChunksPerRecycledPage \in Nat
    /\ 0 < ChunksPerRecycledPage /\ ChunksPerRecycledPage < ChunksPerPage
    /\ SectorsPerPage \in Nat /\ SectorsPerPage > 0 /\ NumSectors \in Nat
    /\ SectorsPerPage = ChunksPerPage * SectorsPerChunk
    /\ NumSectors = NumLpns * SectorsPerPage /\ NumSectors <= OverwriteBit /\ OverwriteBit \in Nat
    /\ MaxWrites \in Nat
<1>1. {NumBanks, NumLpns, SectorsPerChunk, NumWrBuffers, NumRdBuffers, ChunksPerPage, ChunksPerRecycledPage} \subseteq Nat \ {0}
  BY SizeAssumption
<1>2. \A a, b \in Nat \ {0} : a * b \in Nat \ {0}
  OBVIOUS
<1>3. SectorsPerPage \in Nat \ {0}
  BY <1>1, <1>2 DEF SectorsPerPage
<1>4. NumSectors \in Nat
  BY <1>1, <1>2, <1>3 DEF NumSectors
<1>5. QED
  BY <1>1, <1>3, <1>4, SizeAssumption DEF SectorsPerPage, NumSectors

\* A sector of a chunk within its page.
LEMMA InPageLemma ==
    ASSUME NEW i \in Chunks, NEW x \in InChunks
    PROVE  /\ i * SectorsPerChunk + x \in PageSectors
           /\ (i * SectorsPerChunk + x) \div SectorsPerChunk = i
           /\ (i * SectorsPerChunk + x) % SectorsPerChunk = x
<1>1. i \in Nat /\ i < ChunksPerPage /\ x \in 0..SectorsPerChunk-1
  BY Sizes DEF Chunks, InChunks
<1>2. i * SectorsPerChunk \in Nat /\ i * SectorsPerChunk + SectorsPerChunk <= SectorsPerPage
  BY <1>1, Sizes, TimesLemma
<1>3. QED
  BY <1>1, <1>2, Sizes, DivUnique DEF PageSectors

LEMMA InPageParts ==
    ASSUME NEW y \in PageSectors
    PROVE  /\ y \div SectorsPerChunk \in Chunks /\ y % SectorsPerChunk \in InChunks
           /\ y = (y \div SectorsPerChunk) * SectorsPerChunk + (y % SectorsPerChunk)
<1>1. y \in Nat /\ y < SectorsPerPage
  BY Sizes DEF PageSectors
<1> DEFINE q == y \div SectorsPerChunk
<1>2. q \in Nat /\ y % SectorsPerChunk \in InChunks /\ y = q * SectorsPerChunk + (y % SectorsPerChunk)
  BY <1>1, Sizes, DivLemma DEF InChunks
<1>3. q < ChunksPerPage
  <2>1. SUFFICES ASSUME ChunksPerPage <= q PROVE FALSE
    BY <1>2, Sizes
  <2>2. ChunksPerPage * SectorsPerChunk <= q * SectorsPerChunk
    BY <2>1, <1>2, Sizes, TimesLemma
  <2>3. QED
    BY <2>2, <1>1, <1>2, Sizes DEF InChunks
<1>4. QED
  BY <1>2, <1>3, Sizes DEF Chunks

LEMMA SectorLemma ==
    ASSUME NEW l \in Lpns, NEW y \in PageSectors
    PROVE  /\ l * SectorsPerPage + y \in Sectors
           /\ (l * SectorsPerPage + y) \div SectorsPerPage = l
           /\ (l * SectorsPerPage + y) % SectorsPerPage = y
<1>1. l \in Nat /\ l < NumLpns /\ y \in 0..SectorsPerPage-1
  BY Sizes DEF Lpns, PageSectors
<1>2. l * SectorsPerPage \in Nat /\ l * SectorsPerPage + SectorsPerPage <= NumSectors
  BY <1>1, Sizes, TimesLemma
<1>3. QED
  BY <1>1, <1>2, Sizes, DivUnique DEF Sectors

LEMMA SectorParts ==
    ASSUME NEW s \in Sectors
    PROVE  /\ s \div SectorsPerPage \in Lpns /\ s % SectorsPerPage \in PageSectors
           /\ s = (s \div SectorsPerPage) * SectorsPerPage + (s % SectorsPerPage)
<1>1. s \in Nat /\ s < NumSectors
  BY Sizes DEF Sectors
<1> DEFINE q == s \div SectorsPerPage
<1>2. q \in Nat /\ s % SectorsPerPage \in PageSectors /\ s = q * SectorsPerPage + (s % SectorsPerPage)
  BY <1>1, Sizes, DivLemma DEF PageSectors
<1>3. q < NumLpns
  <2>1. SUFFICES ASSUME NumLpns <= q PROVE FALSE
    BY <1>2, Sizes
  <2>2. NumLpns * SectorsPerPage <= q * SectorsPerPage
    BY <2>1, <1>2, Sizes, TimesLemma
  <2>3. QED
    BY <2>2, <1>1, <1>2, Sizes DEF PageSectors
<1>4. QED
  BY <1>2, <1>3, Sizes DEF Lpns

\* A chunk is the same part of the drive counted in pages or in chunks.
LEMMA ChunkLemma ==
    ASSUME NEW l \in Lpns, NEW i \in Chunks, NEW x \in InChunks
    PROVE  /\ SectorOf(l, i, x) \in Sectors
           /\ SectorOf(l, i, x) \div SectorsPerPage = l
           /\ SectorOf(l, i, x) % SectorsPerPage = i * SectorsPerChunk + x
           /\ (SectorOf(l, i, x) % SectorsPerPage) \div SectorsPerChunk = i
           /\ SectorOf(l, i, x) % SectorsPerChunk = x
           /\ SectorOf(l, i, x) \div SectorsPerChunk = l * ChunksPerPage + i
<1>1. i * SectorsPerChunk + x \in PageSectors
  BY InPageLemma
<1>2. SectorOf(l, i, x) = l * SectorsPerPage + (i * SectorsPerChunk + x)
  BY Sizes DEF SectorOf, Lpns, Chunks, InChunks
<1>3. SectorOf(l, i, x) = (l * ChunksPerPage + i) * SectorsPerChunk + x
  BY Sizes DEF SectorOf, Lpns, Chunks, InChunks
<1>4. l * ChunksPerPage + i \in Int /\ x \in 0..SectorsPerChunk-1
  BY Sizes DEF Lpns, Chunks, InChunks
<1>5. /\ SectorOf(l, i, x) % SectorsPerChunk = x
      /\ SectorOf(l, i, x) \div SectorsPerChunk = l * ChunksPerPage + i
  BY <1>3, <1>4, Sizes, DivUnique
<1>6. QED
  BY <1>1, <1>2, <1>5, SectorLemma, InPageLemma

LEMMA SectorIsOf ==
    ASSUME NEW s \in Sectors
    PROVE  \E l \in Lpns, i \in Chunks, x \in InChunks : s = SectorOf(l, i, x)
<1>1. PICK l \in Lpns, y \in PageSectors : s = l * SectorsPerPage + y
  BY SectorParts
<1>2. PICK i \in Chunks, x \in InChunks : y = i * SectorsPerChunk + x
  BY InPageParts
<1>3. s = SectorOf(l, i, x)
  BY <1>1, <1>2, Sizes DEF SectorOf, Lpns, Chunks, InChunks
<1>4. QED
  BY <1>3

\* Two sectors of the drive are the same only as the same one of a chunk.
LEMMA SectorApart ==
    ASSUME NEW l \in Lpns, NEW i \in Chunks, NEW x \in InChunks,
           NEW k \in Lpns, NEW j \in Chunks, NEW y \in InChunks,
           SectorOf(l, i, x) = SectorOf(k, j, y)
    PROVE  l = k /\ i = j /\ x = y
BY ChunkLemma

\* Every sector of every log buffer has its own address.
LEMMA AddrLemma ==
    ASSUME NEW t \in Temps, NEW b \in Banks, NEW s \in Chunks, NEW x \in InChunks
    PROVE  /\ LogBuf(t, b) \in Nat
           /\ LogBuf(t, b) + SectorsPerPage <= 2 * NumBanks * SectorsPerPage
           /\ AddrOf(t, b, s, x) \in DramAddrs
           /\ AddrOf(t, b, s, x) = LogBuf(t, b) + (s * SectorsPerChunk + x)
<1> DEFINE buf == (IF t = "hot" THEN 0 ELSE NumBanks) + b
<1>1. buf \in Nat /\ buf < 2 * NumBanks
  BY Sizes DEF Banks
<1>2. /\ buf * SectorsPerPage \in Nat
      /\ buf * SectorsPerPage + SectorsPerPage <= (2 * NumBanks) * SectorsPerPage
  <2>1. buf \in Int /\ 2 * NumBanks \in Int
    BY <1>1, Sizes
  <2> QED
  BY <1>1, <2>1, Sizes, TimesLemma
<1>3. LogBuf(t, b) = buf * SectorsPerPage
  BY DEF LogBuf
<1>4. s * SectorsPerChunk + x \in PageSectors /\ s * SectorsPerChunk \in Int /\ x \in Int
  <2>1. s \in Int /\ x \in Int
    BY Sizes DEF Chunks, InChunks
  <2>2. QED
    BY <2>1, InPageLemma, Sizes
<1> HIDE DEF buf
<1>5. AddrOf(t, b, s, x) = LogBuf(t, b) + (s * SectorsPerChunk + x)
  BY <1>2, <1>3, <1>4 DEF AddrOf
<1>6. QED
  BY <1>2, <1>3, <1>4, <1>5, Sizes DEF DramAddrs, PageSectors

LEMMA AddrApart ==
    ASSUME NEW t \in Temps, NEW b \in Banks, NEW s \in Chunks, NEW x \in InChunks,
           NEW u \in Temps, NEW c \in Banks, NEW r \in Chunks, NEW y \in InChunks,
           AddrOf(t, b, s, x) = AddrOf(u, c, r, y)
    PROVE  t = u /\ b = c /\ s = r /\ x = y
<1> DEFINE bufT == (IF t = "hot" THEN 0 ELSE NumBanks) + b
           bufU == (IF u = "hot" THEN 0 ELSE NumBanks) + c
           sx == s * SectorsPerChunk + x
           ry == r * SectorsPerChunk + y
<1>1. bufT \in Int /\ bufU \in Int
  BY Sizes DEF Banks
<1>2. sx \in 0..SectorsPerPage-1 /\ ry \in 0..SectorsPerPage-1
  BY InPageLemma DEF PageSectors
<1>3. bufT * SectorsPerPage + sx = bufU * SectorsPerPage + ry
  BY AddrLemma DEF LogBuf
<1>4. bufT = bufU /\ sx = ry
  <2> HIDE DEF bufT, bufU, sx, ry
  <2>1. QED
    BY <1>1, <1>2, <1>3, Sizes, ApartLemma
<1>5. t = u /\ b = c
  BY <1>4, Sizes DEF Banks, Temps
<1>6. s = r /\ x = y
  BY <1>4, Sizes, ApartLemma DEF Chunks, InChunks
<1>7. QED
  BY <1>5, <1>6

----------------------------------------------------------------------------
(* Memory, and what is stored in it.                                       *)

LEMMA CopyLemma ==
    ASSUME NEW D \in SUBSET Int, NEW mem \in [D -> Int], NEW E, NEW from \in [E -> Int],
           NEW dst \in Int, NEW src \in Int, NEW n \in Int
    PROVE  /\ mem_copy(mem, dst, from, src, n) \in [D -> Int]
           /\ \A a \in D : a \notin dst..dst+n-1 => mem_copy(mem, dst, from, src, n)[a] = mem[a]
           /\ \A a \in D : a \in dst..dst+n-1 /\ src + a - dst \in E =>
                 mem_copy(mem, dst, from, src, n)[a] = from[src + a - dst]
BY DEF mem_copy, Junk

LEMMA SetLemma ==
    ASSUME NEW D \in SUBSET Int, NEW mem \in [D -> Int], NEW dst \in Int, NEW n \in Int
    PROVE  /\ mem_set(mem, dst, n) \in [D -> Int]
           /\ \A a \in D : a \notin dst..dst+n-1 => mem_set(mem, dst, n)[a] = mem[a]
           /\ \A a \in D : a \in dst..dst+n-1 => mem_set(mem, dst, n)[a] = Ones
BY DEF mem_set, Ones

LEMMA PlaceLemma ==
    /\ \A t \in Temps, b \in Banks, s \in Chunks : Place(t, b, 0, s) \in Places /\ InDram(Place(t, b, 0, s))
    /\ Invalid \in Places /\ ~InDram(Invalid)
    /\ \A p \in Places : /\ InDram(p) => p.loc \in Temps
                         /\ p.loc \in {"flash", "encoded"} => ~InDram(p) /\ p # Invalid
                         /\ p.bank \in Banks /\ p.page \in Pages /\ p.slot \in Chunks
<1>1. 0 \in Banks /\ 0 \in Pages /\ 0 \in Chunks
  <2>1. NumLpns * ChunksPerPage \in Nat
    BY Sizes
  <2>2. QED
    BY <2>1, Sizes DEF Banks, Pages, Chunks
<1>2. QED
  BY <1>1 DEF Place, Places, Invalid, InDram, Temps

LEMMA ContentType ==
    ASSUME NEW p \in Places, NEW x \in InChunks, NEW mem \in [DramAddrs -> Int],
           NEW fl \in [Banks -> [Pages -> [PageSectors -> Int]]]
    PROVE  Content(p, mem, fl, x) \in Int
<1>1. p.bank \in Banks /\ p.page \in Pages /\ p.slot \in Chunks
  BY PlaceLemma
<1>2. p.slot * SectorsPerChunk + x \in PageSectors
  BY <1>1, InPageLemma
<1>3. CASE p = Invalid
  BY <1>3 DEF Content, Ones
<1>4. CASE p # Invalid /\ InDram(p)
  <2>1. AddrOf(p.loc, p.bank, p.slot, x) \in DramAddrs
    BY <1>1, <1>4, AddrLemma, PlaceLemma
  <2>2. QED
    BY <2>1, <1>4 DEF Content
<1>5. CASE p # Invalid /\ ~InDram(p)
  BY <1>1, <1>2, <1>5 DEF Content
<1>6. QED
  BY <1>3, <1>4, <1>5

\* A sector is stored where its chunk is.
LEMMA StoredLemma ==
    \A l \in Lpns, i \in Chunks, x \in InChunks :
        map \in Maps => Stored(SectorOf(l, i, x)) = Content(map[l][i], dram, flash, x)
<1>1. SUFFICES ASSUME NEW l \in Lpns, NEW i \in Chunks, NEW x \in InChunks, map \in Maps
               PROVE  Stored(SectorOf(l, i, x)) = Content(map[l][i], dram, flash, x)
  OBVIOUS
<1> DEFINE s == SectorOf(l, i, x)
           p == map[l][i]
<1>2. PlaceOf(s) = p /\ s % SectorsPerChunk = x /\ s % SectorsPerPage = i * SectorsPerChunk + x
  BY ChunkLemma DEF PlaceOf
<1>3. DramAddr(p, s) = AddrOf(p.loc, p.bank, p.slot, x)
  BY <1>2 DEF DramAddr, AddrOf
<1>4. QED
  BY <1>2, <1>3 DEF Stored, Content

LEMMA NewestLemma == map \in Maps => (NewestStored <=> Newest(map, dram, flash, disk, lost))
<1>1. SUFFICES ASSUME map \in Maps PROVE NewestStored <=> Newest(map, dram, flash, disk, lost)
  OBVIOUS
<1>2. ASSUME NewestStored PROVE Newest(map, dram, flash, disk, lost)
  BY <1>1, <1>2, StoredLemma, ChunkLemma DEF NewestStored, Newest
<1>3. ASSUME Newest(map, dram, flash, disk, lost) PROVE NewestStored
  <2>1. SUFFICES ASSUME NEW s \in Sectors PROVE s \in lost \/ Stored(s) = disk[s]
    BY DEF NewestStored
  <2>2. PICK l \in Lpns, i \in Chunks, x \in InChunks : s = SectorOf(l, i, x)
    BY SectorIsOf
  <2>3. SectorOf(l, i, x) \in lost \/ Content(map[l][i], dram, flash, x) = disk[SectorOf(l, i, x)]
    BY <1>3 DEF Newest
  <2>4. QED
    BY <2>2, <2>3, <1>1, StoredLemma
<1>4. QED
  BY <1>2, <1>3

\* There are more pages in a bank than chunks: one is free.
LEMMA FreePageLemma ==
    ASSUME NEW m \in Maps, NEW bank \in Banks
    PROVE  /\ FreePage(m, bank) \in Pages
           /\ \A l \in Lpns, i \in Chunks :
                 ~(m[l][i].loc \in {"flash", "encoded"} /\ m[l][i].bank = bank /\ m[l][i].page = FreePage(m, bank))
<1> DEFINE Used(l, i, p) == m[l][i].loc \in {"flash", "encoded"} /\ m[l][i].bank = bank /\ m[l][i].page = p
           Free(p) == \A l \in Lpns, i \in Chunks : ~Used(l, i, p)
<1>1. SUFFICES ASSUME \A p \in Pages : ~Free(p) PROVE FALSE
  <2>1. FreePage(m, bank) = CHOOSE p \in Pages : Free(p)
    BY DEF FreePage
  <2>2. PICK p \in Pages : Free(p)
    BY <1>1
  <2>3. FreePage(m, bank) \in Pages /\ Free(FreePage(m, bank))
    BY <2>1, <2>2, Zenon
  <2>4. QED
    BY <2>3
<1> DEFINE f == [p \in Pages |-> CHOOSE k \in Lpns \X Chunks : Used(k[1], k[2], p)]
<1>2. \A p \in Pages : f[p] \in Lpns \X Chunks /\ Used(f[p][1], f[p][2], p)
  <2>1. SUFFICES ASSUME NEW p \in Pages
                 PROVE  f[p] \in Lpns \X Chunks /\ Used(f[p][1], f[p][2], p)
    OBVIOUS
  <2>2. PICK l \in Lpns, i \in Chunks : Used(l, i, p)
    BY <1>1
  <2>3. <<l, i>> \in Lpns \X Chunks /\ Used(<<l, i>>[1], <<l, i>>[2], p)
    BY <2>2
  <2> HIDE DEF Used
  <2>4. QED
    BY <2>3
<1>3. f \in [Pages -> Lpns \X Chunks]
  BY <1>2
<1>4. /\ IsFiniteSet(Pages) /\ Cardinality(Pages) = NumLpns * ChunksPerPage + 1
      /\ IsFiniteSet(Lpns) /\ Cardinality(Lpns) = NumLpns
      /\ IsFiniteSet(Chunks) /\ Cardinality(Chunks) = ChunksPerPage
      /\ NumLpns * ChunksPerPage \in Nat
  <2>1. NumLpns * ChunksPerPage \in Nat
    BY Sizes
  <2>2. 0 \in Int /\ NumLpns - 1 \in Int /\ ChunksPerPage - 1 \in Int
    BY Sizes
  <2>3. IsFiniteSet(Pages) /\ Cardinality(Pages) = NumLpns * ChunksPerPage + 1
    BY <2>1, FS_Interval DEF Pages
  <2>4. IsFiniteSet(Lpns) /\ Cardinality(Lpns) = NumLpns
    BY <2>2, Sizes, FS_Interval DEF Lpns
  <2>5. IsFiniteSet(Chunks) /\ Cardinality(Chunks) = ChunksPerPage
    BY <2>2, Sizes, FS_Interval DEF Chunks
  <2>6. QED
    BY <2>1, <2>3, <2>4, <2>5
<1>5. IsFiniteSet(Lpns \X Chunks) /\ Cardinality(Lpns \X Chunks) = NumLpns * ChunksPerPage
  BY <1>4, FS_Product
<1>6. Cardinality(Lpns \X Chunks) < Cardinality(Pages)
  BY <1>4, <1>5
<1>7. PICK p, q \in Pages : p # q /\ f[p] = f[q]
  <2> HIDE DEF f
  <2>1. QED
    BY <1>3, <1>4, <1>5, <1>6, FS_PigeonHole
<1>8. QED
  BY <1>2, <1>7

----------------------------------------------------------------------------
(* ftl_write.                                                              *)

\* A piece begins in a chunk of the drive and what is written of it ends there.
LEMMA PieceLemma ==
    ASSUME TypeOK, RequestOK, req.op = "write", req.piece > 0
    PROVE  /\ req.lpn \in Lpns /\ req.off \div SectorsPerChunk \in Chunks
           /\ InChunk \in InChunks
           /\ req.off = (req.off \div SectorsPerChunk) * SectorsPerChunk + InChunk
           /\ SectsToWrite \in Nat /\ 0 < SectsToWrite
           /\ SectsToWrite <= req.piece /\ SectsToWrite <= req.rem
           /\ InChunk + SectsToWrite <= SectorsPerChunk
           /\ req.off + SectsToWrite <= SectorsPerPage
           /\ Here = SectorOf(req.lpn, req.off \div SectorsPerChunk, InChunk)
<1>1. /\ req.lpn \in 0..NumLpns /\ req.off \in PageSectors /\ req.rem \in 0..NumSectors
      /\ req.piece \in 0..SectorsPerChunk
  BY DEF TypeOK
<1>2. req.piece \in Nat /\ req.rem \in Nat /\ req.lpn \in Nat /\ req.off \in Nat
  BY <1>1, Sizes DEF PageSectors
<1>3. req.off \div SectorsPerChunk \in Chunks /\ InChunk \in InChunks
      /\ req.off = (req.off \div SectorsPerChunk) * SectorsPerChunk + InChunk
  BY <1>1, InPageParts DEF InChunk
<1>4. InChunk \in Nat /\ InChunk < SectorsPerChunk
  BY <1>3, Sizes DEF InChunks
<1>5. req.piece <= req.rem /\ req.off + req.piece <= SectorsPerPage /\ Here + req.rem <= NumSectors
  BY DEF RequestOK
<1>6. /\ SectsToWrite \in Nat /\ 0 < SectsToWrite /\ SectsToWrite <= req.piece
      /\ InChunk + SectsToWrite <= SectorsPerChunk
  BY <1>2, <1>4, Sizes DEF SectsToWrite
<1>7. req.lpn \in Lpns
  <2>1. SUFFICES ASSUME NumLpns <= req.lpn PROVE FALSE
    BY <1>2, Sizes DEF Lpns
  <2>2. NumSectors <= req.lpn * SectorsPerPage /\ req.lpn * SectorsPerPage \in Int
    BY <2>1, <1>2, Sizes, TimesLemma
  <2>3. QED
    BY <2>2, <1>2, <1>5, Sizes DEF Here
<1>8. Here = SectorOf(req.lpn, req.off \div SectorsPerChunk, InChunk)
  <2> DEFINE page == req.lpn * SectorsPerPage
             chunk == (req.off \div SectorsPerChunk) * SectorsPerChunk
  <2>1. page \in Int /\ chunk \in Int /\ InChunk \in Int
    BY <1>2, <1>3, <1>4, Sizes DEF Chunks
  <2>2. Here = page + req.off /\ SectorOf(req.lpn, req.off \div SectorsPerChunk, InChunk) = page + chunk + InChunk
    BY DEF Here, SectorOf
  <2>3. req.off = chunk + InChunk
    BY <1>3
  <2> HIDE DEF page, chunk
  <2>4. QED
    BY <2>1, <2>2, <2>3
<1>9. QED
  BY <1>2, <1>3, <1>5, <1>6, <1>7, <1>8, Sizes

\* The firmware finds the sectors of the piece in the buffer it counted to.
LEMMA SourceLemma ==
    ASSUME TypeOK, RequestOK, RingsOK, req.op = "write", req.piece > 0, NEW k \in 0..SectsToWrite-1
    PROVE  Src \in Int /\ Src + k \in WrAddrs /\ wbuf[Src + k] = Written(writes, Here + k)
<1> DEFINE lba == Here + k
<1>1. /\ req.lpn \in Lpns /\ req.off + k \in PageSectors /\ k \in Nat /\ k < req.rem
      /\ req.rem \in Nat /\ req.off \in Nat
  <2>1. req.off \in PageSectors /\ req.rem \in 0..NumSectors
    BY DEF TypeOK
  <2>2. QED
    BY <2>1, PieceLemma, Sizes DEF PageSectors
<1>2. req.lpn * SectorsPerPage \in Nat
  BY <1>1, Sizes DEF Lpns
<1>3. lba = req.lpn * SectorsPerPage + (req.off + k)
  BY <1>1, <1>2 DEF Here
<1>4. lba \div SectorsPerPage = req.lpn /\ lba % SectorsPerPage = req.off + k
  BY <1>1, <1>3, SectorLemma
<1>5. g_ftl_write_buf_id \in 0..NumWrBuffers-1
  BY DEF TypeOK
<1>6. BufferOf(lba) = g_ftl_write_buf_id
  <2>1. BufferOf(lba) = (g_ftl_write_buf_id + (req.lpn - req.lpn)) % NumWrBuffers
    BY <1>4 DEF BufferOf
  <2>2. req.lpn - req.lpn = 0
    BY <1>1, Sizes DEF Lpns
  <2>3. QED
    BY <2>1, <2>2, <1>5, Sizes
<1>7. lba \in Here..Here+req.rem-1
  BY <1>1, <1>2 DEF Here
<1>8. wbuf[g_ftl_write_buf_id * SectorsPerPage + (req.off + k)] = Written(writes, lba)
  BY <1>4, <1>6, <1>7 DEF RingsOK
<1>9. /\ g_ftl_write_buf_id * SectorsPerPage \in Nat
      /\ g_ftl_write_buf_id * SectorsPerPage + SectorsPerPage <= NumWrBuffers * SectorsPerPage
      /\ NumWrBuffers * SectorsPerPage \in Nat
  BY <1>5, Sizes, TimesLemma
<1>10. Src \in Nat /\ Src + k = g_ftl_write_buf_id * SectorsPerPage + (req.off + k)
  BY <1>1, <1>9 DEF Src
<1>11. Src + k \in WrAddrs
  BY <1>1, <1>9, <1>10, Sizes DEF WrAddrs, PageSectors
<1>12. QED
  BY <1>8, <1>10, <1>11

LEMMA CtrlLemma ==
    ASSUME TypeOK
    PROVE  /\ req.temp \in Temps /\ req.bank \in Banks /\ Ctrl \in CtrlBlocks /\ Ctrl.ptr \in Chunks
           /\ Dst \in Nat
           /\ \A x \in InChunks : Dst + x = AddrOf(req.temp, req.bank, Ctrl.ptr, x) /\ Dst + x \in DramAddrs
<1>1. req.temp \in Temps /\ req.bank \in Banks
  BY DEF TypeOK
<1>2. Ctrl \in CtrlBlocks
  BY <1>1 DEF TypeOK, Ctrl, CtrlBlocks
<1>3. Ctrl.ptr \in Chunks
  BY <1>2 DEF CtrlBlocks
<1>4. Ctrl.ptr * SectorsPerChunk \in Nat /\ LogBuf(req.temp, req.bank) \in Nat
  <2>1. 0 \in InChunks /\ Ctrl.ptr \in Nat
    BY <1>3, Sizes DEF InChunks, Chunks
  <2>2. QED
    BY <2>1, <1>1, <1>3, AddrLemma, Sizes
<1>5. Dst \in Nat
  BY <1>4 DEF Dst
<1>6. \A x \in InChunks : Dst + x = AddrOf(req.temp, req.bank, Ctrl.ptr, x)
  BY DEF Dst, AddrOf
<1>7. QED
  BY <1>1, <1>2, <1>3, <1>5, <1>6, AddrLemma

\* What is written over 0xFF, or over the old chunk, and what else changes.
LEMMA WriteNewLemma ==
    ASSUME TypeOK, RequestOK, RingsOK, req.op = "write", req.piece > 0,
           NEW n \in Nat, n = SectsToWrite \/ n = SectorsPerChunk
    PROVE  /\ writeChunkNew(n) \in [DramAddrs -> Int]
           /\ \A x \in InChunks : x \in InChunk..InChunk+SectsToWrite-1 =>
                 writeChunkNew(n)[Dst + x] = Written(writes, Here + (x - InChunk))
           /\ n # SectorsPerChunk => \A x \in InChunks : x \notin InChunk..InChunk+SectsToWrite-1 =>
                 writeChunkNew(n)[Dst + x] = Ones
           /\ \A a \in DramAddrs : a \notin Dst..Dst+SectorsPerChunk-1 /\ a \notin Dst+SectorsPerChunk..Dst+InChunk+n-1 =>
                 writeChunkNew(n)[a] = dram[a]
<1> DEFINE base == IF n # SectorsPerChunk THEN mem_set(dram, Dst, SectorsPerChunk) ELSE dram
           mem == mem_copy(base, Dst + InChunk, wbuf, Src, n)
<1>1. writeChunkNew(n) = mem
  BY DEF writeChunkNew
<1>2. DramAddrs \in SUBSET Int /\ dram \in [DramAddrs -> Int] /\ wbuf \in [WrAddrs -> Int]
  BY DEF TypeOK, DramAddrs
<1>3. InChunk \in Nat /\ SectsToWrite \in Nat /\ 0 < SectsToWrite /\ InChunk + SectsToWrite <= SectorsPerChunk
  BY PieceLemma, Sizes DEF InChunks
<1>4. Dst \in Int /\ Dst + InChunk \in Int /\ SectorsPerChunk \in Int /\ \A x \in InChunks : Dst + x \in DramAddrs
  BY <1>3, CtrlLemma, Sizes
<1>5. Src \in Int /\ \A k \in 0..SectsToWrite-1 : Src + k \in WrAddrs /\ wbuf[Src + k] = Written(writes, Here + k)
  BY <1>3, SourceLemma
<1>6. /\ base \in [DramAddrs -> Int]
      /\ \A a \in DramAddrs : a \notin Dst..Dst+SectorsPerChunk-1 => base[a] = dram[a]
      /\ n # SectorsPerChunk => \A a \in DramAddrs : a \in Dst..Dst+SectorsPerChunk-1 => base[a] = Ones
  <2>1. CASE n # SectorsPerChunk
    BY <2>1, <1>2, <1>4, SetLemma
  <2>2. CASE n = SectorsPerChunk
    BY <2>2, <1>2
  <2>3. QED
    BY <2>1, <2>2
<1> HIDE DEF base
<1>7. /\ mem \in [DramAddrs -> Int]
      /\ \A a \in DramAddrs : a \notin Dst+InChunk..Dst+InChunk+n-1 => mem[a] = base[a]
      /\ \A a \in DramAddrs : a \in Dst+InChunk..Dst+InChunk+n-1 /\ Src + a - (Dst + InChunk) \in WrAddrs =>
            mem[a] = wbuf[Src + a - (Dst + InChunk)]
  BY <1>2, <1>4, <1>5, <1>6, CopyLemma
<1> HIDE DEF mem
<1>8. ASSUME NEW x \in InChunks, x \in InChunk..InChunk+SectsToWrite-1
      PROVE  mem[Dst + x] = Written(writes, Here + (x - InChunk))
  <2>1. x - InChunk \in 0..SectsToWrite-1 /\ x \in Int
    BY <1>3, <1>8
  <2>2. Src + (Dst + x) - (Dst + InChunk) = Src + (x - InChunk)
    BY <2>1, <1>3, <1>4, <1>5
  <2>3. Dst + x \in Dst+InChunk..Dst+InChunk+n-1
    BY <2>1, <1>3, <1>4, Sizes
  <2>4. mem[Dst + x] = wbuf[Src + (x - InChunk)]
    BY <2>1, <2>2, <2>3, <1>4, <1>5, <1>7
  <2>5. QED
    BY <2>1, <2>4, <1>5
<1>9. ASSUME n # SectorsPerChunk, NEW x \in InChunks, x \notin InChunk..InChunk+SectsToWrite-1
      PROVE  mem[Dst + x] = Ones
  <2>1. n = SectsToWrite /\ x \in Int /\ 0 <= x /\ x < SectorsPerChunk
    BY <1>9, Sizes DEF InChunks
  <2>2. Dst + x \notin Dst+InChunk..Dst+InChunk+n-1 /\ Dst + x \in Dst..Dst+SectorsPerChunk-1
    BY <2>1, <1>3, <1>4, <1>9
  <2>3. QED
    BY <2>2, <1>4, <1>6, <1>7, <1>9
<1>10. ASSUME NEW a \in DramAddrs, a \notin Dst..Dst+SectorsPerChunk-1, a \notin Dst+SectorsPerChunk..Dst+InChunk+n-1
       PROVE  mem[a] = dram[a]
  <2>1. a \notin Dst+InChunk..Dst+InChunk+n-1
    BY <1>2, <1>3, <1>4, <1>10, Sizes
  <2>2. QED
    BY <2>1, <1>6, <1>7, <1>10
<1>11. QED
  BY <1>1, <1>7, <1>8, <1>9, <1>10

LEMMA WritePartialLemma ==
    ASSUME TypeOK, RequestOK, RingsOK, req.op = "write", req.piece > 0, NEW old \in Places
    PROVE  LET mem == writePartialChunkWhenOldChunkIsInFlashLog(SectsToWrite, old)
           IN  /\ mem \in [DramAddrs -> Int]
               /\ \A x \in InChunks : x \in InChunk..InChunk+SectsToWrite-1 =>
                     mem[Dst + x] = Written(writes, Here + (x - InChunk))
               /\ \A x \in InChunks : x \notin InChunk..InChunk+SectsToWrite-1 =>
                     mem[Dst + x] = flash[old.bank][old.page][old.slot * SectorsPerChunk + x]
               /\ \A a \in DramAddrs : a \notin Dst..Dst+SectorsPerChunk-1 => mem[a] = dram[a]
<1> DEFINE from == flash[old.bank][old.page]
           base == mem_copy(dram, Dst, from, old.slot * SectorsPerChunk, SectorsPerChunk)
           n == SectsToWrite
           mem == mem_copy(base, Dst + InChunk, wbuf, Src, n)
<1>1. writePartialChunkWhenOldChunkIsInFlashLog(SectsToWrite, old) = mem
  BY DEF writePartialChunkWhenOldChunkIsInFlashLog
<1>2. DramAddrs \in SUBSET Int /\ dram \in [DramAddrs -> Int] /\ wbuf \in [WrAddrs -> Int]
  BY DEF TypeOK, DramAddrs
<1>3. InChunk \in Nat /\ n \in Nat /\ 0 < n /\ InChunk + n <= SectorsPerChunk
  BY PieceLemma, Sizes DEF InChunks
<1>4. Dst \in Int /\ Dst + InChunk \in Int /\ SectorsPerChunk \in Int /\ \A x \in InChunks : Dst + x \in DramAddrs
  BY <1>3, CtrlLemma, Sizes
<1>5. Src \in Int /\ \A k \in 0..n-1 : Src + k \in WrAddrs /\ wbuf[Src + k] = Written(writes, Here + k)
  BY <1>3, SourceLemma
<1>6. from \in [PageSectors -> Int] /\ old.slot * SectorsPerChunk \in Int
      /\ \A x \in InChunks : old.slot * SectorsPerChunk + x \in PageSectors
  <2>1. old.bank \in Banks /\ old.page \in Pages /\ old.slot \in Chunks
    BY PlaceLemma
  <2>2. old.slot \in Int
    BY <2>1, Sizes DEF Chunks
  <2>3. flash \in [Banks -> [Pages -> [PageSectors -> Int]]]
    BY DEF TypeOK
  <2>4. from \in [PageSectors -> Int]
    BY <2>1, <2>3
  <2>5. old.slot * SectorsPerChunk \in Int
    BY <2>2, Sizes
  <2>6. QED
    BY <2>1, <2>4, <2>5, InPageLemma
<1> HIDE DEF from, n
<1>7. /\ base \in [DramAddrs -> Int]
      /\ \A a \in DramAddrs : a \notin Dst..Dst+SectorsPerChunk-1 => base[a] = dram[a]
      /\ \A a \in DramAddrs : a \in Dst..Dst+SectorsPerChunk-1 /\ old.slot * SectorsPerChunk + a - Dst \in PageSectors =>
            base[a] = from[old.slot * SectorsPerChunk + a - Dst]
  BY <1>2, <1>4, <1>6, CopyLemma
<1> HIDE DEF base
<1>8. /\ mem \in [DramAddrs -> Int]
      /\ \A a \in DramAddrs : a \notin Dst+InChunk..Dst+InChunk+n-1 => mem[a] = base[a]
      /\ \A a \in DramAddrs : a \in Dst+InChunk..Dst+InChunk+n-1 /\ Src + a - (Dst + InChunk) \in WrAddrs =>
            mem[a] = wbuf[Src + a - (Dst + InChunk)]
  BY <1>2, <1>3, <1>4, <1>5, <1>7, CopyLemma
<1> HIDE DEF mem
<1>9. ASSUME NEW x \in InChunks, x \in InChunk..InChunk+n-1
      PROVE  mem[Dst + x] = Written(writes, Here + (x - InChunk))
  <2>1. x - InChunk \in 0..n-1 /\ x \in Int
    BY <1>3, <1>9
  <2>2. Src + (Dst + x) - (Dst + InChunk) = Src + (x - InChunk)
    BY <2>1, <1>3, <1>4, <1>5
  <2>3. Dst + x \in Dst+InChunk..Dst+InChunk+n-1
    BY <2>1, <1>3, <1>4, Sizes
  <2>4. mem[Dst + x] = wbuf[Src + (x - InChunk)]
    BY <2>1, <2>2, <2>3, <1>4, <1>5, <1>8
  <2>5. QED
    BY <2>1, <2>4, <1>5
<1>10. ASSUME NEW x \in InChunks, x \notin InChunk..InChunk+n-1
       PROVE  mem[Dst + x] = from[old.slot * SectorsPerChunk + x]
  <2>1. x \in Int /\ 0 <= x /\ x < SectorsPerChunk
    BY <1>10, Sizes DEF InChunks
  <2>2. Dst + x \notin Dst+InChunk..Dst+InChunk+n-1 /\ Dst + x \in Dst..Dst+SectorsPerChunk-1
    BY <2>1, <1>3, <1>4, <1>10
  <2>3. old.slot * SectorsPerChunk + (Dst + x) - Dst = old.slot * SectorsPerChunk + x
    BY <2>1, <1>4, <1>6
  <2>4. QED
    BY <2>2, <2>3, <1>4, <1>6, <1>7, <1>8
<1>11. ASSUME NEW a \in DramAddrs, a \notin Dst..Dst+SectorsPerChunk-1
       PROVE  mem[a] = dram[a]
  <2>1. a \notin Dst+InChunk..Dst+InChunk+n-1
    BY <1>2, <1>3, <1>4, <1>11, Sizes
  <2>2. QED
    BY <2>1, <1>7, <1>8, <1>11
<1>12. QED
  BY <1>1, <1>8, <1>9, <1>10, <1>11 DEF n, from

InPiece(x) == x \in InChunk..InChunk+SectsToWrite-1
Overrun(old) == {a \in DramAddrs : old.loc = "encoded" /\ a \in Dst+SectorsPerChunk..Dst+SectorsPerChunk+InChunk-1}

\* What the place of the new chunk holds, whatever the old one is.
LEMMA NewContentsLemma ==
    ASSUME TypeOK, RequestOK, RingsOK, req.op = "write", req.piece > 0, NEW old \in Places
    PROVE  LET mem == NewContents(SectsToWrite, old)
           IN  /\ mem \in [DramAddrs -> Int]
               /\ \A x \in InChunks : InPiece(x) => mem[Dst + x] = Written(writes, Here + (x - InChunk))
               /\ \A x \in InChunks : ~InPiece(x) /\ old.loc \notin {"flash", "encoded"} => mem[Dst + x] = Ones
               /\ \A x \in InChunks : ~InPiece(x) /\ old.loc = "flash" =>
                     mem[Dst + x] = flash[old.bank][old.page][old.slot * SectorsPerChunk + x]
               /\ \A a \in DramAddrs : a \notin Dst..Dst+SectorsPerChunk-1 /\ a \notin Overrun(old) => mem[a] = dram[a]
<1> DEFINE mem == NewContents(SectsToWrite, old)
           n == SectsToWrite
<1>1. InChunk \in Nat /\ n \in Nat /\ InChunk + n <= SectorsPerChunk /\ SectorsPerChunk \in Nat /\ Dst \in Nat
  BY PieceLemma, CtrlLemma, Sizes DEF InChunks
<1>2. ASSUME NEW x \in InChunks, ~InPiece(x) PROVE n # SectorsPerChunk
  BY <1>1, <1>2 DEF InPiece, InChunks
<1>3. CASE old.loc = "flash" /\ n # SectorsPerChunk
  <2>1. mem = writePartialChunkWhenOldChunkIsInFlashLog(n, old)
    BY <1>3 DEF NewContents
  <2>2. QED
    BY <2>1, <1>3, WritePartialLemma DEF InPiece
<1>4. CASE old.loc = "encoded"
  <2>1. mem = writeChunkNew(SectorsPerChunk)
    BY <1>4 DEF NewContents
  <2>2. Dst+InChunk+SectorsPerChunk-1 = Dst+SectorsPerChunk+InChunk-1
    BY <1>1
  <2>3. \A a \in DramAddrs : a \notin Overrun(old) => a \notin Dst+SectorsPerChunk..Dst+InChunk+SectorsPerChunk-1
    BY <2>2, <1>4 DEF Overrun
  <2>4. QED
    BY <2>1, <2>3, <1>1, <1>4, WriteNewLemma DEF InPiece
<1>5. CASE old.loc # "encoded" /\ ~(old.loc = "flash" /\ n # SectorsPerChunk)
  <2>1. mem = writeChunkNew(n)
    BY <1>5 DEF NewContents
  <2>2. \A a : a \notin Dst+SectorsPerChunk..Dst+InChunk+n-1
    BY <1>1
  <2>3. /\ mem \in [DramAddrs -> Int]
        /\ \A x \in InChunks : InPiece(x) => mem[Dst + x] = Written(writes, Here + (x - InChunk))
        /\ n # SectorsPerChunk => \A x \in InChunks : ~InPiece(x) => mem[Dst + x] = Ones
        /\ \A a \in DramAddrs : a \notin Dst..Dst+SectorsPerChunk-1 => mem[a] = dram[a]
    BY <2>1, <2>2, <1>1, WriteNewLemma DEF InPiece
  <2>4. QED
    BY <2>3, <1>2, <1>5
<1>6. QED
  BY <1>3, <1>4, <1>5

\* What the host last wrote, and which of it the code has dropped, with the piece written.
NewDisk == [s \in Sectors |-> IF s \in PieceSectors(SectsToWrite) THEN Written(writes, s) ELSE disk[s]]
NewLost(old) == (lost \ PieceSectors(SectsToWrite)) \cup Dropped(SectsToWrite, old)

\* Of the chunk that is written the piece is new and the rest, where it is not merged,
\* is lost; of the others only what the copy runs over.
LEMMA NewDiskLemma ==
    ASSUME TypeOK, RequestOK, req.op = "write", req.piece > 0, NEW old \in Places
    PROVE  LET idx == req.off \div SectorsPerChunk
           IN  /\ NewDisk \in [Sectors -> Int]
               /\ \A x \in InChunks :
                     /\ InPiece(x) => NewDisk[SectorOf(req.lpn, idx, x)] = Written(writes, Here + (x - InChunk))
                     /\ ~InPiece(x) => \/ SectorOf(req.lpn, idx, x) \in NewLost(old)
                                       \/ /\ ~InDram(old) /\ old.loc # "encoded"
                                          /\ SectorOf(req.lpn, idx, x) \notin lost
                                          /\ NewDisk[SectorOf(req.lpn, idx, x)] = disk[SectorOf(req.lpn, idx, x)]
               /\ \A l \in Lpns, i \in Chunks, x \in InChunks : l # req.lpn \/ i # idx =>
                     \/ SectorOf(l, i, x) \in NewLost(old)
                     \/ /\ SectorOf(l, i, x) \notin lost
                        /\ NewDisk[SectorOf(l, i, x)] = disk[SectorOf(l, i, x)]
                        /\ InDram(map[l][i]) =>
                              AddrOf(map[l][i].loc, map[l][i].bank, map[l][i].slot, x) \notin Overrun(old)
<1> DEFINE idx == req.off \div SectorsPerChunk
           n == SectsToWrite
           exp == NewDisk
           gone == NewLost(old)
           chunk == {s \in Sectors : s \div SectorsPerChunk = Here \div SectorsPerChunk}
<1>1. /\ InChunk \in InChunks /\ InChunk \in Nat /\ n \in Nat /\ InChunk + n <= SectorsPerChunk
      /\ SectorsPerChunk \in Nat /\ 0 < n
      /\ req.lpn \in Lpns /\ idx \in Chunks /\ Here = SectorOf(req.lpn, idx, InChunk)
  BY PieceLemma, Sizes DEF InChunks
<1>2. Here \in Nat
  <2>1. Here \in Sectors
    BY <1>1, ChunkLemma
  <2>2. QED
    BY <2>1, Sizes DEF Sectors
<1>3. \A s \in Sectors :
         /\ exp[s] = IF s \in Here..Here+n-1 THEN Written(writes, s) ELSE disk[s]
         /\ s \notin Here..Here+n-1 =>
               (s \in gone <=> \/ s \in lost
                               \/ s \in chunk /\ (InDram(old) \/ old.loc = "encoded")
                               \/ InDram(PlaceOf(s)) /\ DramAddr(PlaceOf(s), s) \in Overrun(old))
  BY DEF NewDisk, NewLost, PieceSectors, Dropped, Here, Overrun
<1> HIDE DEF n, exp, gone, chunk
<1>4. \A x \in InChunks : SectorOf(req.lpn, idx, x) = Here + (x - InChunk)
  <2>1. req.lpn * SectorsPerPage \in Int /\ idx * SectorsPerChunk \in Int
    BY <1>1, Sizes DEF Lpns, Chunks
  <2>2. QED
    BY <2>1, <1>1 DEF SectorOf, InChunks
<1>5. \A l \in Lpns, i \in Chunks, x \in InChunks :
         SectorOf(l, i, x) \in Here..Here+n-1 => l = req.lpn /\ i = idx /\ x \in InChunk..InChunk+n-1
  <2>1. SUFFICES ASSUME NEW l \in Lpns, NEW i \in Chunks, NEW x \in InChunks, SectorOf(l, i, x) \in Here..Here+n-1
                 PROVE  l = req.lpn /\ i = idx /\ x \in InChunk..InChunk+n-1
    OBVIOUS
  <2> DEFINE y == InChunk + (SectorOf(l, i, x) - Here)
  <2>2. SectorOf(l, i, x) \in Nat
    BY ChunkLemma, Sizes DEF Sectors
  <2>3. y \in InChunks /\ y \in InChunk..InChunk+n-1 /\ SectorOf(l, i, x) = Here + (y - InChunk)
    BY <2>1, <2>2, <1>1, <1>2 DEF InChunks
  <2> HIDE DEF y
  <2>4. SectorOf(l, i, x) = SectorOf(req.lpn, idx, y)
    BY <2>3, <1>4
  <2>5. QED
    BY <2>3, <2>4, <1>1, SectorApart
<1>6. \A l \in Lpns, i \in Chunks, x \in InChunks : SectorOf(l, i, x) \in chunk <=> l = req.lpn /\ i = idx
  <2>1. SUFFICES ASSUME NEW l \in Lpns, NEW i \in Chunks, NEW x \in InChunks
                 PROVE  SectorOf(l, i, x) \in chunk <=> l = req.lpn /\ i = idx
    OBVIOUS
  <2>2. /\ SectorOf(l, i, x) \in Sectors
        /\ SectorOf(l, i, x) \div SectorsPerChunk = l * ChunksPerPage + i
        /\ Here \div SectorsPerChunk = req.lpn * ChunksPerPage + idx
    BY <1>1, ChunkLemma
  <2>3. l * ChunksPerPage + i = req.lpn * ChunksPerPage + idx => l = req.lpn /\ i = idx
    <3>1. l \in Int /\ req.lpn \in Int /\ i \in 0..ChunksPerPage-1 /\ idx \in 0..ChunksPerPage-1
      BY <1>1, Sizes DEF Lpns, Chunks
    <3> HIDE DEF idx
    <3>2. QED
      BY <3>1, Sizes, ApartLemma
  <2>4. QED
    BY <2>2, <2>3 DEF chunk
<1>7. exp \in [Sectors -> Int]
  <2>1. exp = [s \in Sectors |-> exp[s]]
    BY DEF exp, NewDisk
  <2>2. \A s \in Sectors : Written(writes, s) \in Int /\ disk[s] \in Int
    <3>1. writes \in Nat /\ disk \in [Sectors -> Int] /\ NumSectors \in Int
      BY Sizes DEF TypeOK
    <3>2. writes * NumSectors \in Int
      BY <3>1
    <3>3. QED
      BY <3>1, <3>2 DEF Written, Sectors
  <2>3. \A s \in Sectors : exp[s] \in Int
    BY <2>2, <1>3
  <2>4. QED
    BY <2>1, <2>3
<1>8. ASSUME NEW x \in InChunks
      PROVE  LET s == SectorOf(req.lpn, idx, x)
             IN  /\ InPiece(x) => exp[s] = Written(writes, Here + (x - InChunk))
                 /\ ~InPiece(x) =>
                       s \in gone \/ (~InDram(old) /\ old.loc # "encoded" /\ s \notin lost /\ exp[s] = disk[s])
  <2> DEFINE s == SectorOf(req.lpn, idx, x)
  <2>1. s \in Sectors /\ s \in chunk /\ s = Here + (x - InChunk)
    BY <1>1, <1>4, <1>6, ChunkLemma
  <2>2. InPiece(x) <=> s \in Here..Here+n-1
    BY <2>1, <1>1, <1>2 DEF InPiece, InChunks, n
  <2> HIDE DEF s
  <2>3. QED
    BY <2>1, <2>2, <1>3 DEF s
<1>9. ASSUME NEW l \in Lpns, NEW i \in Chunks, NEW x \in InChunks, l # req.lpn \/ i # idx
      PROVE  LET s == SectorOf(l, i, x)
             IN  \/ s \in gone
                 \/ /\ s \notin lost /\ exp[s] = disk[s]
                    /\ InDram(map[l][i]) =>
                          AddrOf(map[l][i].loc, map[l][i].bank, map[l][i].slot, x) \notin Overrun(old)
  <2> DEFINE s == SectorOf(l, i, x)
  <2>1. s \in Sectors /\ s \notin chunk /\ s \notin Here..Here+n-1
    BY <1>5, <1>6, <1>9, ChunkLemma
  <2>2. PlaceOf(s) = map[l][i] /\ s % SectorsPerChunk = x
    BY ChunkLemma DEF PlaceOf
  <2>3. DramAddr(PlaceOf(s), s) = AddrOf(map[l][i].loc, map[l][i].bank, map[l][i].slot, x)
    BY <2>2 DEF DramAddr, AddrOf
  <2> HIDE DEF s
  <2>4. QED
    BY <2>1, <2>2, <2>3, <1>3 DEF s
<1>10. QED
  BY <1>7, <1>8, <1>9 DEF exp, gone, n

\* The chunk that is written, where it was, and the map and the log buffers
\* with it in its new place.
Idx == req.off \div SectorsPerChunk
Old == map[req.lpn][Idx]
NewMap == [map EXCEPT ![req.lpn][Idx] = Place(req.temp, req.bank, 0, Ctrl.ptr)]
NewBlock == [Forgotten(Old)[req.temp][req.bank] EXCEPT !.owner[Ctrl.ptr] = <<req.lpn, Idx>>]

LEMMA OwnerLemma ==
    \A own \in Ctrls, t \in Temps, b \in Banks, s \in Chunks :
        /\ own[t][b].owner[s] \in Owners /\ own[t][b].ptr \in Chunks /\ own[t][b].recycled \in BOOLEAN
        /\ \A l \in Lpns, i \in Chunks : NoOwner # <<l, i>>
BY Sizes DEF Ctrls, CtrlBlocks, NoOwner, Lpns

LEMMA ForgottenLemma ==
    ASSUME TypeOK, NEW old \in Places
    PROVE  /\ Forgotten(old) \in Ctrls
           /\ \A t \in Temps, b \in Banks, s \in Chunks :
                 /\ Forgotten(old)[t][b].ptr = ctrl[t][b].ptr
                 /\ Forgotten(old)[t][b].recycled = ctrl[t][b].recycled
                 /\ Forgotten(old)[t][b].owner[s] =
                       IF InDram(old) /\ t = old.loc /\ b = old.bank /\ s = old.slot THEN NoOwner ELSE ctrl[t][b].owner[s]
<1>1. ctrl \in Ctrls
  BY DEF TypeOK, Ctrls, CtrlBlocks
<1>2. CASE InDram(old)
  <2>1. old.loc \in Temps /\ old.bank \in Banks /\ old.slot \in Chunks /\ NoOwner \in Owners
    BY <1>2, PlaceLemma DEF Owners
  <2>2. Forgotten(old) = [ctrl EXCEPT ![old.loc][old.bank].owner[old.slot] = NoOwner]
    BY <1>2 DEF Forgotten
  <2> DEFINE block == [ctrl[old.loc][old.bank] EXCEPT !.owner[old.slot] = NoOwner]
  <2>3. ctrl[old.loc][old.bank] \in CtrlBlocks
    BY <1>1, <2>1 DEF Ctrls
  <2>4. /\ block \in CtrlBlocks
        /\ block.ptr = ctrl[old.loc][old.bank].ptr /\ block.recycled = ctrl[old.loc][old.bank].recycled
        /\ \A s \in Chunks : block.owner[s] = IF s = old.slot THEN NoOwner ELSE ctrl[old.loc][old.bank].owner[s]
    BY <2>1, <2>3 DEF CtrlBlocks
  <2>5. Forgotten(old) = [ctrl EXCEPT ![old.loc][old.bank] = block]
    BY <2>2
  <2> HIDE DEF block
  <2>6. /\ Forgotten(old) \in Ctrls
        /\ \A t \in Temps, b \in Banks :
              Forgotten(old)[t][b] = IF t = old.loc /\ b = old.bank THEN block ELSE ctrl[t][b]
    BY <1>1, <2>1, <2>4, <2>5 DEF Ctrls
  <2>7. QED
    BY <1>2, <2>1, <2>4, <2>6
<1>3. CASE ~InDram(old)
  BY <1>1, <1>3 DEF Forgotten
<1>4. QED
  BY <1>2, <1>3

\* The chunk enters the log buffer: the map and the buffers agree as before.
LEMMA EnterLemma ==
    ASSUME TypeOK, PlacesOK(map, ctrl), OwnersOK(map, ctrl), PtrsOK, RequestOK, req.op = "write", req.piece > 0
    PROVE  /\ Old \in Places /\ NewMap \in Maps /\ NewBlock \in CtrlBlocks
           /\ NewBlock.ptr = Ctrl.ptr /\ Slots(NewBlock) = Slots(Ctrl)
           /\ \A l \in Lpns, i \in Chunks :
                 NewMap[l][i] = IF l = req.lpn /\ i = Idx THEN Place(req.temp, req.bank, 0, Ctrl.ptr) ELSE map[l][i]
           /\ LET own == [Forgotten(Old) EXCEPT ![req.temp][req.bank] = NewBlock]
              IN  /\ own \in Ctrls /\ own[req.temp][req.bank] = NewBlock
                  /\ \A t \in Temps, b \in Banks : t # req.temp \/ b # req.bank => own[t][b] = Forgotten(Old)[t][b]
                  /\ PlacesOK(NewMap, own)
                  /\ \A t \in Temps, b \in Banks, s \in Chunks, l \in Lpns, i \in Chunks :
                        own[t][b].owner[s] = <<l, i>> =>
                           /\ NewMap[l][i] = Place(t, b, 0, s)
                           /\ s < ctrl[t][b].ptr \/ (t = req.temp /\ b = req.bank /\ s = Ctrl.ptr)
<1> DEFINE own == [Forgotten(Old) EXCEPT ![req.temp][req.bank] = NewBlock]
<1>1. /\ req.lpn \in Lpns /\ Idx \in Chunks /\ req.temp \in Temps /\ req.bank \in Banks /\ Ctrl.ptr \in Chunks
      /\ Ctrl = ctrl[req.temp][req.bank] /\ map \in Maps /\ ctrl \in Ctrls
  BY PieceLemma, CtrlLemma DEF Idx, Ctrl, TypeOK, Maps, Ctrls, CtrlBlocks
<1>2. Old \in Places
  BY <1>1 DEF Old, Maps
<1>3. Place(req.temp, req.bank, 0, Ctrl.ptr) \in Places /\ InDram(Place(req.temp, req.bank, 0, Ctrl.ptr))
  BY <1>1, PlaceLemma
<1>4. NewMap \in Maps
      /\ \A l \in Lpns, i \in Chunks :
            NewMap[l][i] = IF l = req.lpn /\ i = Idx THEN Place(req.temp, req.bank, 0, Ctrl.ptr) ELSE map[l][i]
  BY <1>1, <1>3 DEF NewMap, Maps
<1>5. Forgotten(Old) \in Ctrls
  BY <1>2, ForgottenLemma
<1>6. /\ NewBlock \in CtrlBlocks /\ NewBlock.ptr = Forgotten(Old)[req.temp][req.bank].ptr
      /\ NewBlock.recycled = Forgotten(Old)[req.temp][req.bank].recycled
      /\ \A s \in Chunks : NewBlock.owner[s] = IF s = Ctrl.ptr THEN <<req.lpn, Idx>>
                                               ELSE Forgotten(Old)[req.temp][req.bank].owner[s]
  <2>1. <<req.lpn, Idx>> \in Owners
    BY <1>1 DEF Owners
  <2>2. Forgotten(Old)[req.temp][req.bank] \in CtrlBlocks
    BY <1>1, <1>5 DEF Ctrls
  <2>3. QED
    BY <1>1, <2>1, <2>2 DEF NewBlock, CtrlBlocks
<1>7. NewBlock.ptr = Ctrl.ptr /\ NewBlock.recycled = Ctrl.recycled
  BY <1>1, <1>2, <1>6, ForgottenLemma
<1>8. Slots(NewBlock) = Slots(Ctrl)
  BY <1>7 DEF Slots
<1>9. /\ own \in Ctrls /\ own[req.temp][req.bank] = NewBlock
      /\ \A t \in Temps, b \in Banks : t # req.temp \/ b # req.bank => own[t][b] = Forgotten(Old)[t][b]
  BY <1>1, <1>5, <1>6 DEF Ctrls
<1> HIDE DEF own
<1>10. \A t \in Temps, b \in Banks, s \in Chunks :
          own[t][b].owner[s] = IF t = req.temp /\ b = req.bank /\ s = Ctrl.ptr THEN <<req.lpn, Idx>>
                               ELSE IF InDram(Old) /\ t = Old.loc /\ b = Old.bank /\ s = Old.slot THEN NoOwner
                               ELSE ctrl[t][b].owner[s]
  <2>1. SUFFICES ASSUME NEW t \in Temps, NEW b \in Banks, NEW s \in Chunks
                 PROVE  own[t][b].owner[s] = IF t = req.temp /\ b = req.bank /\ s = Ctrl.ptr THEN <<req.lpn, Idx>>
                               ELSE IF InDram(Old) /\ t = Old.loc /\ b = Old.bank /\ s = Old.slot THEN NoOwner
                               ELSE ctrl[t][b].owner[s]
    OBVIOUS
  <2>2. Forgotten(Old)[t][b].owner[s] = IF InDram(Old) /\ t = Old.loc /\ b = Old.bank /\ s = Old.slot THEN NoOwner
                                        ELSE ctrl[t][b].owner[s]
    BY <1>2, ForgottenLemma
  <2>3. CASE t = req.temp /\ b = req.bank
    BY <1>1, <1>6, <1>9, <2>2, <2>3
  <2>4. CASE t # req.temp \/ b # req.bank
    BY <1>9, <2>2, <2>4
  <2>5. QED
    BY <2>3, <2>4
<1>11. ASSUME NEW t \in Temps, NEW b \in Banks, NEW s \in Chunks, NEW l \in Lpns, NEW i \in Chunks,
              own[t][b].owner[s] = <<l, i>>
       PROVE  /\ NewMap[l][i] = Place(t, b, 0, s)
              /\ s < ctrl[t][b].ptr \/ (t = req.temp /\ b = req.bank /\ s = Ctrl.ptr)
  <2>1. CASE t = req.temp /\ b = req.bank /\ s = Ctrl.ptr
    <3>1. own[t][b].owner[s] = <<req.lpn, Idx>>
      BY <1>10, <2>1
    <3>2. l = req.lpn /\ i = Idx
      BY <1>11, <3>1
    <3>3. QED
      BY <3>2, <1>4, <2>1
  <2>2. CASE ~(t = req.temp /\ b = req.bank /\ s = Ctrl.ptr)
    <3>1. ctrl[t][b].owner[s] = <<l, i>> /\ ~(InDram(Old) /\ t = Old.loc /\ b = Old.bank /\ s = Old.slot)
      BY <1>1, <1>10, <1>11, <2>2, OwnerLemma
    <3>2. s < ctrl[t][b].ptr /\ map[l][i] = Place(t, b, 0, s)
      BY <3>1 DEF OwnersOK
    <3>3. ~(l = req.lpn /\ i = Idx)
      BY <3>1, <3>2, PlaceLemma DEF Old, Place
    <3>4. QED
      BY <3>2, <3>3, <1>4
  <2>3. QED
    BY <2>1, <2>2
<1>12. PlacesOK(NewMap, own)
  <2>1. SUFFICES ASSUME NEW l \in Lpns, NEW i \in Chunks
                 PROVE  \/ NewMap[l][i] = Invalid
                        \/ /\ InDram(NewMap[l][i]) /\ NewMap[l][i].page = 0
                           /\ own[NewMap[l][i].loc][NewMap[l][i].bank].owner[NewMap[l][i].slot] = <<l, i>>
                        \/ NewMap[l][i].loc \in {"flash", "encoded"}
    BY DEF PlacesOK
  <2>2. CASE l = req.lpn /\ i = Idx
    <3>1. NewMap[l][i] = Place(req.temp, req.bank, 0, Ctrl.ptr)
      BY <1>4, <2>2
    <3>2. own[req.temp][req.bank].owner[Ctrl.ptr] = <<l, i>>
      BY <1>1, <1>10, <2>2
    <3> DEFINE p == Place(req.temp, req.bank, 0, Ctrl.ptr)
    <3>3. p.loc = req.temp /\ p.bank = req.bank /\ p.slot = Ctrl.ptr /\ p.page = 0 /\ NewMap[l][i] = p /\ InDram(p)
      BY <3>1, <1>3 DEF Place
    <3> HIDE DEF p
    <3>4. QED
      BY <3>2, <3>3
  <2>3. CASE ~(l = req.lpn /\ i = Idx)
    <3> DEFINE p == map[l][i]
    <3>1. NewMap[l][i] = p /\ p \in Places
      BY <1>1, <1>4, <2>3 DEF Maps
    <3>2. CASE InDram(p)
      <4>1. p.loc \in Temps /\ p.bank \in Banks /\ p.slot \in Chunks /\ p.loc \notin {"flash", "encoded"} /\ p # Invalid
        BY <3>1, <3>2, PlaceLemma
      <4>2. p.page = 0 /\ ctrl[p.loc][p.bank].owner[p.slot] = <<l, i>>
        BY <4>1 DEF PlacesOK
      <4>3. p.slot < ctrl[p.loc][p.bank].ptr
        <5> HIDE DEF p
        <5>1. \A t \in Temps, b \in Banks, s \in Chunks : ctrl[t][b].owner[s] = <<l, i>> => s < ctrl[t][b].ptr
          BY DEF OwnersOK
        <5>2. QED
          BY <4>1, <4>2, <5>1
      <4>4. ~(p.loc = req.temp /\ p.bank = req.bank /\ p.slot = Ctrl.ptr)
        BY <4>1, <4>3, <1>1, Sizes DEF Chunks
      <4>5. ~(InDram(Old) /\ p.loc = Old.loc /\ p.bank = Old.bank /\ p.slot = Old.slot)
        <5>1. SUFFICES ASSUME InDram(Old), p.loc = Old.loc, p.bank = Old.bank, p.slot = Old.slot PROVE FALSE
          OBVIOUS
        <5>2. Old = map[req.lpn][Idx] /\ Old # Invalid /\ Old.loc \notin {"flash", "encoded"}
          BY <1>2, <5>1, PlaceLemma DEF Old
        <5>3. ctrl[Old.loc][Old.bank].owner[Old.slot] = <<req.lpn, Idx>>
          BY <1>1, <5>2 DEF PlacesOK
        <5> HIDE DEF p
        <5>4. <<l, i>> = <<req.lpn, Idx>>
          BY <4>2, <5>1, <5>3
        <5>5. QED
          BY <5>4, <2>3
      <4>6. own[p.loc][p.bank].owner[p.slot] = <<l, i>>
        <5> HIDE DEF p
        <5>1. QED
          BY <4>1, <4>2, <4>4, <4>5, <1>10
      <4>7. QED
        BY <3>1, <3>2, <4>2, <4>6
    <3>3. CASE ~InDram(p)
      BY <3>1, <3>3 DEF PlacesOK
    <3>4. QED
      BY <3>2, <3>3
  <2>4. QED
    BY <2>2, <2>3
<1>13. QED
  BY <1>2, <1>4, <1>6, <1>7, <1>8, <1>9, <1>11, <1>12 DEF own

\* With the chunk in the log buffer the map leads to what the host last wrote.
LEMMA EnterNewest ==
    ASSUME TypeOK, PlacesOK(map, ctrl), OwnersOK(map, ctrl), PtrsOK, RequestOK, RingsOK, NewestStored,
           req.op = "write", req.piece > 0
    PROVE  Newest(NewMap, NewContents(SectsToWrite, Old), flash, NewDisk, NewLost(Old))
<1> DEFINE mem == NewContents(SectsToWrite, Old)
           exp == NewDisk
           gone == NewLost(Old)
<1>1. /\ req.lpn \in Lpns /\ Idx \in Chunks /\ req.temp \in Temps /\ req.bank \in Banks /\ Ctrl.ptr \in Chunks
      /\ Ctrl = ctrl[req.temp][req.bank] /\ map \in Maps /\ ctrl \in Ctrls /\ Old \in Places
  BY PieceLemma, CtrlLemma, EnterLemma DEF Idx, Ctrl, TypeOK, Maps, Ctrls, CtrlBlocks
<1>2. Newest(map, dram, flash, disk, lost)
  BY <1>1, NewestLemma
<1>3. \A l \in Lpns, i \in Chunks :
         NewMap[l][i] = IF l = req.lpn /\ i = Idx THEN Place(req.temp, req.bank, 0, Ctrl.ptr) ELSE map[l][i]
  BY EnterLemma
<1>4. \A x \in InChunks : Dst + x = AddrOf(req.temp, req.bank, Ctrl.ptr, x)
  BY CtrlLemma
<1>5. ASSUME NEW x \in InChunks
      PROVE  LET s == SectorOf(req.lpn, Idx, x)
             IN  s \in gone \/ Content(NewMap[req.lpn][Idx], mem, flash, x) = exp[s]
  <2> DEFINE s == SectorOf(req.lpn, Idx, x)
  <2>1. Content(NewMap[req.lpn][Idx], mem, flash, x) = mem[Dst + x]
    <3>1. NewMap[req.lpn][Idx] = Place(req.temp, req.bank, 0, Ctrl.ptr)
      BY <1>1, <1>3
    <3>2. Place(req.temp, req.bank, 0, Ctrl.ptr) # Invalid /\ InDram(Place(req.temp, req.bank, 0, Ctrl.ptr))
      BY <1>1, PlaceLemma
    <3>3. QED
      BY <3>1, <3>2, <1>4 DEF Content, Place
  <2>2. CASE InPiece(x)
    <3>1. exp[s] = Written(writes, Here + (x - InChunk))
      BY <1>1, <2>2, NewDiskLemma DEF Idx
    <3>2. mem[Dst + x] = Written(writes, Here + (x - InChunk))
      BY <1>1, <2>2, NewContentsLemma
    <3>3. QED
      BY <2>1, <3>1, <3>2
  <2>3. CASE ~InPiece(x)
    <3>1. s \in gone \/ (~InDram(Old) /\ Old.loc # "encoded" /\ s \notin lost /\ exp[s] = disk[s])
      BY <1>1, <2>3, NewDiskLemma DEF Idx
    <3>2. SUFFICES ASSUME ~InDram(Old), Old.loc # "encoded", s \notin lost, exp[s] = disk[s]
                   PROVE  mem[Dst + x] = disk[s]
      BY <2>1, <3>1
    <3>3. Content(Old, dram, flash, x) = disk[s]
      BY <1>1, <1>2, <3>2 DEF Newest, Old
    <3>4. Old = Invalid \/ Old.loc = "flash"
      BY <1>1, <3>2 DEF PlacesOK, Old
    <3>5. CASE Old = Invalid
      <4>1. disk[s] = Ones /\ Old.loc \notin {"flash", "encoded"}
        BY <3>3, <3>5 DEF Content, Invalid, Place
      <4>2. QED
        BY <4>1, <1>1, <2>3, NewContentsLemma
    <3>6. CASE Old.loc = "flash"
      <4>1. mem[Dst + x] = flash[Old.bank][Old.page][Old.slot * SectorsPerChunk + x]
        BY <1>1, <2>3, <3>6, NewContentsLemma
      <4>2. Content(Old, dram, flash, x) = flash[Old.bank][Old.page][Old.slot * SectorsPerChunk + x]
        BY <3>6, <3>2 DEF Content, Invalid, Place
      <4>3. QED
        BY <3>3, <4>1, <4>2
    <3>7. QED
      BY <3>4, <3>5, <3>6
  <2>4. QED
    BY <2>2, <2>3
<1>6. ASSUME NEW l \in Lpns, NEW i \in Chunks, NEW x \in InChunks, l # req.lpn \/ i # Idx
      PROVE  LET s == SectorOf(l, i, x) IN s \in gone \/ Content(NewMap[l][i], mem, flash, x) = exp[s]
  <2> DEFINE s == SectorOf(l, i, x)
             p == map[l][i]
  <2>1. NewMap[l][i] = p /\ p \in Places
    BY <1>1, <1>3, <1>6 DEF Maps
  <2>2. \/ s \in gone
        \/ s \notin lost /\ exp[s] = disk[s] /\ (InDram(p) => AddrOf(p.loc, p.bank, p.slot, x) \notin Overrun(Old))
    BY <1>1, <1>6, NewDiskLemma DEF Idx
  <2>3. SUFFICES ASSUME s \notin gone PROVE Content(p, mem, flash, x) = disk[s]
    BY <2>1, <2>2
  <2>4. Content(p, dram, flash, x) = disk[s]
    BY <1>2, <2>2, <2>3 DEF Newest
  <2>5. CASE InDram(p) /\ p # Invalid
    <3> DEFINE a == AddrOf(p.loc, p.bank, p.slot, x)
    <3>1. p.loc \in Temps /\ p.bank \in Banks /\ p.slot \in Chunks /\ p.loc \notin {"flash", "encoded"}
      BY <2>1, <2>5, PlaceLemma
    <3>2. ctrl[p.loc][p.bank].owner[p.slot] = <<l, i>>
      BY <3>1, <2>5 DEF PlacesOK
    <3>3. p.slot < ctrl[p.loc][p.bank].ptr
      <4> HIDE DEF p
      <4>1. \A t \in Temps, b \in Banks, r \in Chunks : ctrl[t][b].owner[r] = <<l, i>> => r < ctrl[t][b].ptr
        BY DEF OwnersOK
      <4>2. QED
        BY <3>1, <3>2, <4>1
    <3>4. ~(p.loc = req.temp /\ p.bank = req.bank /\ p.slot = Ctrl.ptr)
      BY <3>1, <3>3, <1>1, Sizes DEF Chunks
    <3>5. a \in DramAddrs
      BY <3>1, AddrLemma
    <3>6. a \notin Dst..Dst+SectorsPerChunk-1
      <4>1. SUFFICES ASSUME a \in Dst..Dst+SectorsPerChunk-1 PROVE FALSE
        OBVIOUS
      <4>2. a - Dst \in InChunks /\ Dst + (a - Dst) = a
        BY <4>1, <3>5, CtrlLemma, Sizes DEF InChunks, DramAddrs
      <4>3. AddrOf(p.loc, p.bank, p.slot, x) = AddrOf(req.temp, req.bank, Ctrl.ptr, a - Dst)
        BY <4>2, <1>4
      <4> HIDE DEF a
      <4>4. QED
        BY <4>2, <4>3, <3>1, <3>4, <1>1, AddrApart
    <3>7. a \notin Overrun(Old)
      BY <2>2, <2>3, <2>5
    <3>8. mem[a] = dram[a]
      BY <3>5, <3>6, <3>7, <1>1, NewContentsLemma
    <3>9. QED
      BY <2>4, <2>5, <3>8 DEF Content
  <2>6. CASE ~(InDram(p) /\ p # Invalid)
    BY <2>4, <2>6 DEF Content
  <2>7. QED
    BY <2>5, <2>6
<1>7. QED
  BY <1>5, <1>6 DEF Newest

\* A full buffer becomes a page that nothing refers to: the chunks it held are
\* there now, and every chunk holds what it did.
LEMMA FlushLemma ==
    ASSUME TypeOK, PlacesOK(map, ctrl), OwnersOK(map, ctrl), PtrsOK, RequestOK, req.op = "write", req.piece > 0,
           NEW mem \in [DramAddrs -> Int], NEW again \in BOOLEAN
    PROVE  LET page == FreePage(NewMap, req.bank)
               after == Flushed(NewMap, NewBlock, req.temp, req.bank, page)
               fl == [flash EXCEPT ![req.bank] = Programmed(after, mem, req.temp, req.bank, page)]
               own == [Forgotten(Old) EXCEPT ![req.temp][req.bank] = [FreshCtrl EXCEPT !.recycled = again]]
           IN  /\ after \in Maps /\ own \in Ctrls /\ fl \in [Banks -> [Pages -> [PageSectors -> Int]]]
               /\ PlacesOK(after, own) /\ OwnersOK(after, own)
               /\ \A t \in Temps, b \in Banks : own[t][b].ptr \in Slots(own[t][b])
               /\ \A l \in Lpns, i \in Chunks, x \in InChunks :
                     Content(after[l][i], mem, fl, x) = Content(NewMap[l][i], mem, flash, x)
<1> DEFINE page == FreePage(NewMap, req.bank)
           after == Flushed(NewMap, NewBlock, req.temp, req.bank, page)
           pages == Programmed(after, mem, req.temp, req.bank, page)
           fl == [flash EXCEPT ![req.bank] = pages]
           fresh == [FreshCtrl EXCEPT !.recycled = again]
           own == [Forgotten(Old) EXCEPT ![req.temp][req.bank] = fresh]
           entered == [Forgotten(Old) EXCEPT ![req.temp][req.bank] = NewBlock]
           loc == IF NewBlock.recycled THEN "encoded" ELSE "flash"
           Held(l, i) == \E s \in Slots(NewBlock) : NewBlock.owner[s] = <<l, i>>
           SlotOf(l, i) == CHOOSE s \in Slots(NewBlock) : NewBlock.owner[s] = <<l, i>>
<1>1. /\ req.temp \in Temps /\ req.bank \in Banks /\ Ctrl.ptr \in Chunks
      /\ Ctrl = ctrl[req.temp][req.bank] /\ flash \in [Banks -> [Pages -> [PageSectors -> Int]]]
  BY CtrlLemma DEF Ctrl, TypeOK
<1>2. /\ Old \in Places /\ NewMap \in Maps /\ NewBlock \in CtrlBlocks
      /\ NewBlock.ptr = Ctrl.ptr /\ Slots(NewBlock) = Slots(Ctrl)
  BY EnterLemma
<1>3. /\ entered \in Ctrls /\ entered[req.temp][req.bank] = NewBlock
      /\ \A t \in Temps, b \in Banks : t # req.temp \/ b # req.bank => entered[t][b] = Forgotten(Old)[t][b]
      /\ PlacesOK(NewMap, entered)
  BY EnterLemma
<1>4. \A t \in Temps, b \in Banks, s \in Chunks, l \in Lpns, i \in Chunks :
         entered[t][b].owner[s] = <<l, i>> =>
            /\ NewMap[l][i] = Place(t, b, 0, s)
            /\ s < ctrl[t][b].ptr \/ (t = req.temp /\ b = req.bank /\ s = Ctrl.ptr)
  BY EnterLemma
<1> HIDE DEF entered
<1>5. /\ Slots(NewBlock) \subseteq Chunks /\ \A s \in Chunks : s <= Ctrl.ptr => s \in Slots(NewBlock)
  <2>1. Ctrl.ptr \in Slots(Ctrl)
    BY <1>1 DEF PtrsOK
  <2>2. QED
    BY <2>1, <1>2, Sizes DEF Slots, Chunks
<1>6. page \in Pages /\ \A l \in Lpns, i \in Chunks :
         ~(NewMap[l][i].loc \in {"flash", "encoded"} /\ NewMap[l][i].bank = req.bank /\ NewMap[l][i].page = page)
  BY <1>1, <1>2, FreePageLemma
<1> HIDE DEF page
<1>7. \A l \in Lpns, i \in Chunks : Held(l, i) =>
         /\ SlotOf(l, i) \in Slots(NewBlock) /\ SlotOf(l, i) \in Chunks
         /\ NewMap[l][i] = Place(req.temp, req.bank, 0, SlotOf(l, i))
  <2>1. SUFFICES ASSUME NEW l \in Lpns, NEW i \in Chunks, Held(l, i)
                 PROVE  /\ SlotOf(l, i) \in Slots(NewBlock) /\ SlotOf(l, i) \in Chunks
                        /\ NewMap[l][i] = Place(req.temp, req.bank, 0, SlotOf(l, i))
    OBVIOUS
  <2>2. SlotOf(l, i) \in Slots(NewBlock) /\ NewBlock.owner[SlotOf(l, i)] = <<l, i>>
    BY <2>1
  <2> HIDE DEF SlotOf, Held
  <2>3. SlotOf(l, i) \in Chunks /\ entered[req.temp][req.bank].owner[SlotOf(l, i)] = <<l, i>>
    BY <2>2, <1>3, <1>5
  <2>4. NewMap[l][i] = Place(req.temp, req.bank, 0, SlotOf(l, i))
    BY <2>3, <1>1, <1>4
  <2>5. QED
    BY <2>2, <2>3, <2>4
<1>8. \A l \in Lpns, i \in Chunks :
         after[l][i] = IF Held(l, i) THEN Place(loc, req.bank, page, SlotOf(l, i)) ELSE NewMap[l][i]
  BY DEF Flushed
<1> DEFINE New(l, i) == IF Held(l, i) THEN Place(loc, req.bank, page, SlotOf(l, i)) ELSE NewMap[l][i]
<1>9. after = [l \in Lpns |-> [i \in Chunks |-> New(l, i)]]
  BY DEF Flushed
<1> HIDE DEF Held, SlotOf, after
<1>10. \A l \in Lpns, i \in Chunks : Held(l, i) =>
          /\ Place(loc, req.bank, page, SlotOf(l, i)) \in Places
          /\ Place(loc, req.bank, page, SlotOf(l, i)) # Invalid
          /\ ~InDram(Place(loc, req.bank, page, SlotOf(l, i)))
  BY <1>1, <1>6, <1>7 DEF Place, Places, Invalid, InDram, Temps
<1>11. after \in Maps
  BY <1>2, <1>9, <1>10 DEF Maps
\* What stays in a log buffer is in another one.
<1>12. ASSUME NEW l \in Lpns, NEW i \in Chunks, ~Held(l, i), InDram(NewMap[l][i])
       PROVE  /\ NewMap[l][i].loc \in Temps /\ NewMap[l][i].bank \in Banks /\ NewMap[l][i].slot \in Chunks
              /\ NewMap[l][i].loc # req.temp \/ NewMap[l][i].bank # req.bank
              /\ entered[NewMap[l][i].loc][NewMap[l][i].bank].owner[NewMap[l][i].slot] = <<l, i>>
              /\ NewMap[l][i].page = 0
  <2> DEFINE p == NewMap[l][i]
  <2>1. p \in Places
    BY <1>2 DEF Maps
  <2>2. p.loc \in Temps /\ p.bank \in Banks /\ p.slot \in Chunks /\ p # Invalid /\ p.loc \notin {"flash", "encoded"}
    BY <2>1, <1>12, PlaceLemma
  <2>3. p.page = 0 /\ entered[p.loc][p.bank].owner[p.slot] = <<l, i>>
    BY <2>2, <1>3 DEF PlacesOK
  <2>4. p.loc # req.temp \/ p.bank # req.bank
    <3>1. SUFFICES ASSUME p.loc = req.temp, p.bank = req.bank PROVE FALSE
      OBVIOUS
    <3>2. NewBlock.owner[p.slot] = <<l, i>>
      BY <3>1, <2>3, <1>3
    <3>3. p.slot < ctrl[req.temp][req.bank].ptr \/ p.slot = Ctrl.ptr
      <4> HIDE DEF p
      <4>1. entered[req.temp][req.bank].owner[p.slot] = <<l, i>>
        BY <3>2, <1>3
      <4>2. QED
        BY <4>1, <2>2, <1>1, <1>4
    <3>4. p.slot \in Slots(NewBlock)
      BY <3>3, <2>2, <1>1, <1>5, Sizes DEF Chunks
    <3>5. QED
      BY <3>2, <3>4, <1>12 DEF Held
  <2>5. QED
    BY <2>2, <2>3, <2>4
<1>13. fresh \in CtrlBlocks /\ fresh.ptr = 0 /\ fresh.recycled = again /\ \A s \in Chunks : fresh.owner[s] = NoOwner
  <2>1. 0 \in Chunks /\ NoOwner \in Owners
    BY Sizes DEF Chunks, Owners
  <2>2. QED
    BY <2>1 DEF FreshCtrl, CtrlBlocks
<1> HIDE DEF fresh
<1>14. /\ own \in Ctrls /\ own[req.temp][req.bank] = fresh
       /\ \A t \in Temps, b \in Banks : t # req.temp \/ b # req.bank => own[t][b] = entered[t][b]
  <2>1. Forgotten(Old) \in Ctrls
    BY <1>2, ForgottenLemma
  <2>2. QED
    BY <2>1, <1>1, <1>3, <1>13 DEF Ctrls
<1> HIDE DEF own
<1>15. PlacesOK(after, own)
  <2>1. SUFFICES ASSUME NEW l \in Lpns, NEW i \in Chunks
                 PROVE  \/ after[l][i] = Invalid
                        \/ /\ InDram(after[l][i]) /\ after[l][i].page = 0
                           /\ own[after[l][i].loc][after[l][i].bank].owner[after[l][i].slot] = <<l, i>>
                        \/ after[l][i].loc \in {"flash", "encoded"}
    BY DEF PlacesOK
  <2>2. CASE Held(l, i)
    <3>1. after[l][i] = Place(loc, req.bank, page, SlotOf(l, i)) /\ loc \in {"flash", "encoded"}
      BY <1>8, <2>2
    <3>2. QED
      BY <3>1 DEF Place
  <2>3. CASE ~Held(l, i)
    <3>1. after[l][i] = NewMap[l][i]
      BY <1>8, <2>3
    <3>2. CASE InDram(NewMap[l][i])
      <4> DEFINE p == NewMap[l][i]
      <4>1. /\ p.loc \in Temps /\ p.bank \in Banks /\ p.slot \in Chunks
            /\ p.loc # req.temp \/ p.bank # req.bank
            /\ entered[p.loc][p.bank].owner[p.slot] = <<l, i>> /\ p.page = 0
        BY <3>2, <2>3, <1>12
      <4>2. own[p.loc][p.bank] = entered[p.loc][p.bank]
        <5> HIDE DEF p
        <5>1. QED
          BY <4>1, <1>14
      <4>3. QED
        BY <3>1, <3>2, <4>1, <4>2
    <3>3. CASE ~InDram(NewMap[l][i])
      BY <3>1, <3>3, <1>3 DEF PlacesOK
    <3>4. QED
      BY <3>2, <3>3
  <2>4. QED
    BY <2>2, <2>3
<1>16. OwnersOK(after, own)
  <2>1. SUFFICES ASSUME NEW t \in Temps, NEW b \in Banks, NEW s \in Chunks, NEW l \in Lpns, NEW i \in Chunks,
                        own[t][b].owner[s] = <<l, i>>
                 PROVE  s < own[t][b].ptr /\ after[l][i] = Place(t, b, 0, s)
    BY DEF OwnersOK
  <2>2. t # req.temp \/ b # req.bank
    BY <2>1, <1>13, <1>14, OwnerLemma
  <2>3. entered[t][b].owner[s] = <<l, i>> /\ own[t][b].ptr = ctrl[t][b].ptr
    BY <2>1, <2>2, <1>2, <1>3, <1>14, ForgottenLemma
  <2>4. NewMap[l][i] = Place(t, b, 0, s) /\ s < ctrl[t][b].ptr
    BY <2>2, <2>3, <1>4
  <2>5. ~Held(l, i)
    <3>1. SUFFICES ASSUME Held(l, i) PROVE FALSE
      OBVIOUS
    <3>2. NewMap[l][i] = Place(req.temp, req.bank, 0, SlotOf(l, i))
      BY <3>1, <1>7
    <3>3. QED
      BY <3>2, <2>2, <2>4 DEF Place
  <2>6. QED
    BY <2>3, <2>4, <2>5, <1>8
<1>17. ASSUME NEW t \in Temps, NEW b \in Banks PROVE own[t][b].ptr \in Slots(own[t][b])
  <2>1. CASE t = req.temp /\ b = req.bank
    BY <2>1, <1>13, <1>14, Sizes DEF Slots
  <2>2. CASE t # req.temp \/ b # req.bank
    <3>1. own[t][b].ptr = ctrl[t][b].ptr /\ own[t][b].recycled = ctrl[t][b].recycled
      <4>1. 0 \in Chunks
        BY Sizes DEF Chunks
      <4>2. QED
        BY <4>1, <2>2, <1>2, <1>3, <1>14, ForgottenLemma
    <3>2. ctrl[t][b].ptr \in Slots(ctrl[t][b])
      BY DEF PtrsOK
    <3>3. QED
      BY <3>1, <3>2 DEF Slots
  <2>3. QED
    BY <2>1, <2>2
<1>18. \A s \in PageSectors : LogBuf(req.temp, req.bank) + s \in DramAddrs
  BY <1>1, AddrLemma, InPageParts
<1>19. /\ pages \in [Pages -> [PageSectors -> Int]]
       /\ \A s \in PageSectors : pages[page][s] = mem[LogBuf(req.temp, req.bank) + s]
       /\ \A l \in Lpns, i \in Chunks :
             after[l][i].loc \in {"flash", "encoded"} /\ after[l][i].bank = req.bank /\ after[l][i].page # page
             /\ after[l][i].page \in Pages => pages[after[l][i].page] = flash[req.bank][after[l][i].page]
  <2>1. pages \in [Pages -> [PageSectors -> Int]]
    BY <1>1, <1>18 DEF Programmed, Ones
  <2>2. \A s \in PageSectors : pages[page][s] = mem[LogBuf(req.temp, req.bank) + s]
    BY <1>6 DEF Programmed
  <2>3. ASSUME NEW l \in Lpns, NEW i \in Chunks, after[l][i].loc \in {"flash", "encoded"},
               after[l][i].bank = req.bank, after[l][i].page # page, after[l][i].page \in Pages
        PROVE  pages[after[l][i].page] = flash[req.bank][after[l][i].page]
    BY <2>3 DEF Programmed
  <2>4. QED
    BY <2>1, <2>2, <2>3
<1> HIDE DEF pages
<1>20. fl \in [Banks -> [Pages -> [PageSectors -> Int]]] /\ fl[req.bank] = pages
       /\ \A b \in Banks : b # req.bank => fl[b] = flash[b]
  BY <1>1, <1>19
<1> HIDE DEF fl
<1>21. ASSUME NEW l \in Lpns, NEW i \in Chunks, NEW x \in InChunks
       PROVE  Content(after[l][i], mem, fl, x) = Content(NewMap[l][i], mem, flash, x)
  <2>1. CASE Held(l, i)
    <3> DEFINE s == SlotOf(l, i)
    <3>1. s \in Chunks /\ NewMap[l][i] = Place(req.temp, req.bank, 0, s) /\ after[l][i] = Place(loc, req.bank, page, s)
      BY <2>1, <1>7, <1>8
    <3>2. s * SectorsPerChunk + x \in PageSectors
      BY <3>1, InPageLemma
    <3>3. AddrOf(req.temp, req.bank, s, x) = LogBuf(req.temp, req.bank) + (s * SectorsPerChunk + x)
      BY <3>1, <1>1, AddrLemma
    <3>4. Content(after[l][i], mem, fl, x) = pages[page][s * SectorsPerChunk + x]
      BY <2>1, <3>1, <1>10, <1>20 DEF Content, Place
    <3>5. Content(NewMap[l][i], mem, flash, x) = mem[AddrOf(req.temp, req.bank, s, x)]
      <4>1. NewMap[l][i] # Invalid /\ InDram(NewMap[l][i])
        BY <3>1, <1>1, PlaceLemma
      <4>2. QED
        BY <4>1, <3>1 DEF Content, Place
    <3>6. QED
      BY <3>2, <3>3, <3>4, <3>5, <1>19
  <2>2. CASE ~Held(l, i)
    <3> DEFINE p == NewMap[l][i]
    <3>1. after[l][i] = p /\ p \in Places
      BY <2>2, <1>2, <1>8 DEF Maps
    <3>2. CASE p = Invalid \/ InDram(p)
      BY <3>1, <3>2 DEF Content
    <3>3. CASE p # Invalid /\ ~InDram(p)
      <4>1. p.loc \in {"flash", "encoded"} /\ p.bank \in Banks /\ p.page \in Pages
        BY <3>1, <3>3, <1>3, PlaceLemma DEF PlacesOK
      <4>2. fl[p.bank][p.page] = flash[p.bank][p.page]
        <5>1. CASE p.bank # req.bank
          BY <4>1, <5>1, <1>20
        <5>2. CASE p.bank = req.bank
          <6>1. p.page # page
            BY <4>1, <5>2, <1>6
          <6>2. pages[p.page] = flash[req.bank][p.page]
            <7> HIDE DEF p
            <7>1. /\ after[l][i].loc \in {"flash", "encoded"} /\ after[l][i].bank = req.bank
                  /\ after[l][i].page # page /\ after[l][i].page \in Pages
              BY <3>1, <4>1, <5>2, <6>1
            <7>2. pages[after[l][i].page] = flash[req.bank][after[l][i].page]
              BY <7>1, <1>19
            <7>3. QED
              BY <3>1, <7>2
          <6>3. QED
            BY <5>2, <6>2, <1>20
        <5>3. QED
          BY <5>1, <5>2
      <4>3. QED
        BY <3>1, <3>3, <4>2 DEF Content
    <3>4. QED
      BY <3>2, <3>3
  <2>3. QED
    BY <2>1, <2>2
<1>22. QED
  BY <1>11, <1>14, <1>15, <1>16, <1>17, <1>20, <1>21 DEF page, after, pages, fl, fresh, own

----------------------------------------------------------------------------
(* The rings of buffers.                                                   *)

LEMMA AroundLemma ==
    ASSUME NEW n \in Nat, n > 0, NEW k \in Nat
    PROVE  (k + n) % n = k % n /\ (k + n) \div n = (k \div n) + 1
<1> DEFINE q == k \div n
           r == k % n
<1>1. q \in Nat /\ r \in 0..n-1 /\ k = q * n + r
  BY DivLemma
<1>2. (q + 1) * n = q * n + n /\ q * n \in Nat
  BY <1>1
<1>3. k + n = (q + 1) * n + r
  BY <1>1, <1>2
<1> HIDE DEF q, r
<1>4. (k + n) \div n = q + 1 /\ (k + n) % n = r
  BY <1>1, <1>3, DivUnique
<1>5. QED
  BY <1>4 DEF q, r

\* To go on by one buffer and then by k more.
LEMMA NextBufferLemma ==
    ASSUME NEW n \in Nat, n > 0, NEW g \in 0..n-1, NEW k \in Nat
    PROVE  (g + 1) % n \in 0..n-1 /\ (((g + 1) % n) + k) % n = (g + (k + 1)) % n
<1>1. CASE g + 1 < n
  <2>1. (g + 1) % n = g + 1
    BY <1>1
  <2>2. QED
    BY <2>1, <1>1
<1>2. CASE g + 1 = n
  <2>1. (g + 1) % n = 0
    BY <1>2
  <2>2. g + (k + 1) = k + n
    BY <1>2
  <2>3. (k + n) % n = k % n
    BY AroundLemma
  <2>4. (((g + 1) % n) + k) % n = k % n
    BY <2>1
  <2>5. (g + 1) % n \in 0..n-1
    BY <2>1
  <2>6. QED
    BY <2>2, <2>3, <2>4, <2>5
<1>3. QED
  BY <1>1, <1>2

\* How many buffers after g buffer (g + k) % n is.
LEMMA CountBackLemma ==
    ASSUME NEW n \in Nat, NEW g \in 0..n-1, NEW k \in 0..n-1
    PROVE  (g + k) % n \in 0..n-1 /\ (((g + k) % n) - g + n) % n = k
OBVIOUS

\* The pages of a request, counted from its first sector and from its page.
LEMMA PagesLemma ==
    ASSUME NEW lba \in Sectors, NEW n \in 1..NumSectors
    PROVE  /\ PagesOf(lba, n) = ((lba % SectorsPerPage) + n + SectorsPerPage - 1) \div SectorsPerPage
           /\ \A s \in lba..lba+n-1 : s \div SectorsPerPage - lba \div SectorsPerPage \in 0..PagesOf(lba, n)-1
<1> DEFINE q == lba \div SectorsPerPage
           off == lba % SectorsPerPage
<1>1. q \in Nat /\ off \in Nat /\ lba = q * SectorsPerPage + off /\ lba \in Nat /\ n \in Nat /\ n > 0
  <2>1. lba \in Nat /\ n \in Nat /\ n > 0
    BY Sizes DEF Sectors
  <2>2. QED
    BY <2>1, Sizes, DivLemma
<1> HIDE DEF q, off
<1>2. ASSUME NEW y \in Nat
      PROVE  (q * SectorsPerPage + y) \div SectorsPerPage = q + (y \div SectorsPerPage)
  <2> DEFINE d == y \div SectorsPerPage
             r == y % SectorsPerPage
  <2>1. d \in Nat /\ r \in 0..SectorsPerPage-1 /\ y = d * SectorsPerPage + r
    BY Sizes, DivLemma
  <2>2. (q + d) * SectorsPerPage = q * SectorsPerPage + d * SectorsPerPage
    BY <1>1, <2>1, Sizes
  <2>3. q * SectorsPerPage \in Nat /\ d * SectorsPerPage \in Nat
    BY <1>1, <2>1, Sizes
  <2> HIDE DEF d, r
  <2>4. q * SectorsPerPage + y = (q + d) * SectorsPerPage + r
    BY <2>1, <2>2, <2>3
  <2>5. QED
    BY <2>1, <2>4, <1>1, Sizes, DivUnique DEF d
<1>3. q * SectorsPerPage \in Nat
  BY <1>1, Sizes
<1>4. (lba + n - 1) \div SectorsPerPage = q + ((off + n - 1) \div SectorsPerPage)
  <2>1. lba + n - 1 = q * SectorsPerPage + (off + n - 1) /\ off + n - 1 \in Nat
    BY <1>1, <1>3
  <2>2. QED
    BY <2>1, <1>2
<1>5. (off + n + SectorsPerPage - 1) \div SectorsPerPage = ((off + n - 1) \div SectorsPerPage) + 1
  <2>1. off + n + SectorsPerPage - 1 = (off + n - 1) + SectorsPerPage /\ off + n - 1 \in Nat
    BY <1>1, Sizes
  <2>2. QED
    BY <2>1, Sizes, AroundLemma
<1>6. (off + n - 1) \div SectorsPerPage \in Nat
  BY <1>1, Sizes, DivLemma
<1>7. PagesOf(lba, n) = ((off + n - 1) \div SectorsPerPage) + 1
  BY <1>1, <1>4, <1>6 DEF PagesOf, q
<1>8. ASSUME NEW s \in lba..lba+n-1
      PROVE  s \div SectorsPerPage - q \in 0..PagesOf(lba, n)-1
  <2> DEFINE y == s - q * SectorsPerPage
  <2>1. y \in Nat /\ y <= off + n - 1 /\ s = q * SectorsPerPage + y
    BY <1>1, <1>3
  <2> HIDE DEF y
  <2>2. s \div SectorsPerPage = q + (y \div SectorsPerPage)
    BY <2>1, <1>2
  <2>3. y \div SectorsPerPage <= (off + n - 1) \div SectorsPerPage
    <3> DEFINE a == y \div SectorsPerPage
               b == (off + n - 1) \div SectorsPerPage
    <3>1. /\ a \in Nat /\ y % SectorsPerPage \in 0..SectorsPerPage-1
          /\ y = a * SectorsPerPage + (y % SectorsPerPage)
      BY <2>1, Sizes, DivLemma
    <3>2. /\ b \in Nat /\ (off + n - 1) % SectorsPerPage \in 0..SectorsPerPage-1
          /\ off + n - 1 = b * SectorsPerPage + ((off + n - 1) % SectorsPerPage)
      <4>1. off + n - 1 \in Nat
        BY <1>1
      <4>2. QED
        BY <4>1, Sizes, DivLemma
    <3>3. SUFFICES ASSUME b < a PROVE FALSE
      BY <3>1, <3>2
    <3> HIDE DEF a, b
    <3>4. /\ b * SectorsPerPage + SectorsPerPage <= a * SectorsPerPage
          /\ a * SectorsPerPage \in Int /\ b * SectorsPerPage \in Int
      BY <3>1, <3>2, <3>3, Sizes, TimesLemma
    <3>5. QED
      BY <2>1, <3>1, <3>2, <3>4, <1>1, Sizes
  <2>4. y \div SectorsPerPage \in Nat
    BY <2>1, Sizes, DivLemma
  <2>5. QED
    BY <2>2, <2>3, <2>4, <1>1, <1>6, <1>7
<1>9. QED
  BY <1>5, <1>7, <1>8 DEF q, off

\* What the host sent is where the firmware will look for it.
LEMMA SentLemma ==
    ASSUME TypeOK, NEW lba \in Sectors, NEW n \in 1..NumSectors, PagesOf(lba, n) <= NumWrBuffers,
           NEW s \in lba..lba+n-1
    PROVE  Sent(lba, n)[((hostWr + (s \div SectorsPerPage - lba \div SectorsPerPage)) % NumWrBuffers) * SectorsPerPage
                        + (s % SectorsPerPage)]
             = Written(writes + 1, s)
<1> DEFINE q == lba \div SectorsPerPage
           k == s \div SectorsPerPage - q
           buf == (hostWr + k) % NumWrBuffers
           r == s % SectorsPerPage
           a == buf * SectorsPerPage + r
<1>1. q \in Nat /\ s \in Nat /\ s \div SectorsPerPage \in Nat /\ PagesOf(lba, n) \in Int
  <2>1. lba \in Nat /\ n \in Nat /\ n > 0
    BY Sizes DEF Sectors
  <2>2. s \in Nat /\ lba + n - 1 \in Nat
    BY <2>1
  <2>3. (lba + n - 1) \div SectorsPerPage \in Nat /\ q \in Nat /\ s \div SectorsPerPage \in Nat
    BY <2>1, <2>2, Sizes, DivLemma
  <2>4. QED
    BY <2>2, <2>3 DEF PagesOf
<1>2. k \in 0..NumWrBuffers-1
  <2>1. k \in 0..PagesOf(lba, n)-1
    BY PagesLemma
  <2>2. QED
    BY <2>1, <1>1, Sizes
<1>3. hostWr \in 0..NumWrBuffers-1
  BY DEF TypeOK
<1>4. buf \in 0..NumWrBuffers-1 /\ (buf - hostWr + NumWrBuffers) % NumWrBuffers = k
  <2> HIDE DEF k
  <2>1. QED
    BY <1>2, <1>3, Sizes, CountBackLemma
<1>5. r \in 0..SectorsPerPage-1 /\ s = (s \div SectorsPerPage) * SectorsPerPage + r
  BY <1>1, Sizes, DivLemma
<1> HIDE DEF buf
<1>6. a \in WrAddrs /\ a \div SectorsPerPage = buf /\ a % SectorsPerPage = r
  <2> HIDE DEF r
  <2>1. /\ buf * SectorsPerPage \in Nat /\ NumWrBuffers * SectorsPerPage \in Nat
        /\ buf * SectorsPerPage + SectorsPerPage <= NumWrBuffers * SectorsPerPage
    BY <1>4, Sizes, TimesLemma
  <2>2. a \in WrAddrs
    BY <2>1, <1>5, Sizes DEF WrAddrs
  <2>3. buf \in Int
    BY <1>4
  <2>4. QED
    BY <2>2, <2>3, <1>5, Sizes, DivUnique
<1>7. q + k = s \div SectorsPerPage
  BY <1>1
<1>8. (q + ((a \div SectorsPerPage - hostWr + NumWrBuffers) % NumWrBuffers)) * SectorsPerPage + (a % SectorsPerPage) = s
  BY <1>4, <1>5, <1>6, <1>7
<1> HIDE DEF a
<1>9. Sent(lba, n)[a] = Written(writes + 1, s)
  BY <1>6, <1>8 DEF Sent, q
<1>10. QED
  BY <1>9 DEF a, buf

----------------------------------------------------------------------------
(* The invariant holds at first, and each action preserves it.             *)

LEMMA InitInv == Init => Inv
<1>1. SUFFICES ASSUME Init PROVE Inv
  OBVIOUS
<1>2. 0 \in Banks /\ 0 \in Pages /\ 0 \in Chunks /\ 0 \in PageSectors /\ 0 \in 0..NumLpns
      /\ 0 \in 0..NumWrBuffers-1 /\ 0 \in 0..NumRdBuffers-1 /\ 0 \in 0..NumSectors /\ 0 \in 0..SectorsPerChunk
      /\ 0 \in 0..MaxWrites
  <2>1. 0 \in Banks /\ 0 \in Pages /\ 0 \in Chunks
    <3>1. NumLpns * ChunksPerPage \in Nat
      BY Sizes
    <3>2. QED
      BY <3>1, Sizes DEF Banks, Pages, Chunks
  <2>2. QED
    BY <2>1, Sizes DEF PageSectors
<1>3. TypeOK
  <2>1. Invalid \in Places /\ NoOwner \in Owners
    BY PlaceLemma DEF Owners
  <2>2. map \in [Lpns -> [Chunks -> Places]]
    BY <1>1, <2>1 DEF Init
  <2>3. ctrl \in [Temps -> [Banks -> [ptr : Chunks, owner : [Chunks -> Owners], recycled : BOOLEAN]]]
    BY <1>1, <1>2, <2>1 DEF Init, FreshCtrl
  <2>4. dram \in [DramAddrs -> Int] /\ wbuf \in [WrAddrs -> Int] /\ flash \in [Banks -> [Pages -> [PageSectors -> Int]]]
    BY <1>1 DEF Init, Junk, Ones
  <2>5. /\ rbuf \in [0..NumRdBuffers-1 -> [PageSectors -> Int]] /\ disk \in [Sectors -> Int]
        /\ DOMAIN answer \subseteq Sectors /\ \A s \in DOMAIN answer : answer[s] \in Int
    BY <1>1 DEF Init, Junk, Ones
  <2>6. req \in [op : {"none", "write", "read"}, temp : Temps, lpn : 0..NumLpns, off : PageSectors,
                 rem : 0..NumSectors, bank : Banks, piece : 0..SectorsPerChunk]
    BY <1>1, <1>2 DEF Init, NoRequest, Temps
  <2>7. QED
    BY <1>1, <1>2, <2>2, <2>3, <2>4, <2>5, <2>6 DEF TypeOK, Init
<1>4. PlacesOK(map, ctrl)
  BY <1>1 DEF Init, PlacesOK
<1>5. OwnersOK(map, ctrl)
  <2>1. \A t \in Temps, b \in Banks, s \in Chunks : ctrl[t][b].owner[s] = NoOwner
    BY <1>1 DEF Init, FreshCtrl
  <2>2. \A l \in Lpns, i \in Chunks : NoOwner # <<l, i>>
    BY Sizes DEF NoOwner, Lpns
  <2>3. QED
    BY <2>1, <2>2 DEF OwnersOK
<1>6. PtrsOK
  BY <1>1, Sizes DEF Init, PtrsOK, FreshCtrl, Slots
<1>7. RequestOK /\ RingsOK
  BY <1>1 DEF Init, RequestOK, RingsOK, NoRequest
<1>8. NewestStored
  <2>1. Newest(map, dram, flash, disk, lost)
    BY <1>1, ChunkLemma DEF Init, Newest, Content
  <2>2. map \in Maps
    BY <1>3 DEF TypeOK, Maps
  <2>3. QED
    BY <2>1, <2>2, NewestLemma
<1>9. ReadsNewest
  BY <1>1 DEF Init, ReadsNewest
<1>10. QED
  BY <1>3, <1>4, <1>5, <1>6, <1>7, <1>8, <1>9 DEF Inv

RequestType == [op : {"none", "write", "read"}, temp : Temps, lpn : 0..NumLpns, off : PageSectors,
                rem : 0..NumSectors, bank : Banks, piece : 0..SectorsPerChunk]

\* An action that leaves what is stored alone keeps what the map says of it.
LEMMA StorageKept ==
    Inv /\ UNCHANGED storage =>
        /\ PlacesOK(map, ctrl)' /\ OwnersOK(map, ctrl)' /\ PtrsOK' /\ NewestStored'
        /\ UNCHANGED received => ReadsNewest'
        /\ answer' = [s \in {} |-> Ones] => ReadsNewest'
<1>1. SUFFICES ASSUME Inv, UNCHANGED storage
               PROVE  /\ PlacesOK(map, ctrl)' /\ OwnersOK(map, ctrl)' /\ PtrsOK' /\ NewestStored'
                      /\ UNCHANGED received => ReadsNewest'
                      /\ answer' = [s \in {} |-> Ones] => ReadsNewest'
  OBVIOUS
<1>2. map' = map /\ ctrl' = ctrl /\ dram' = dram /\ flash' = flash /\ disk' = disk /\ lost' = lost
  BY <1>1 DEF storage
<1>3. PlacesOK(map, ctrl)' /\ OwnersOK(map, ctrl)'
  <2>1. PlacesOK(map, ctrl)'
    BY <1>1, <1>2 DEF Inv, PlacesOK
  <2>2. OwnersOK(map, ctrl)'
    BY <1>1, <1>2 DEF Inv, OwnersOK
  <2>3. QED
    BY <2>1, <2>2
<1>4. PtrsOK'
  BY <1>1, <1>2 DEF Inv, PtrsOK, Slots
<1>5. NewestStored'
  BY <1>1, <1>2 DEF Inv, NewestStored, Stored, PlaceOf, DramAddr, LogBuf
<1>6. UNCHANGED received => ReadsNewest'
  BY <1>1, <1>2 DEF Inv, ReadsNewest, received
<1>7. answer' = [s \in {} |-> Ones] => ReadsNewest'
  BY DEF ReadsNewest
<1>8. QED
  BY <1>3, <1>4, <1>5, <1>6, <1>7

LEMMA ftl_writeStep ==
    ASSUME NEW lba \in Sectors, NEW n \in 1..NumSectors, lba + n <= NumSectors, Inv, ftl_write(lba, n)
    PROVE  Inv'
<1>1. /\ req.op = "none" /\ writes < MaxWrites /\ PagesOf(lba, n) <= NumWrBuffers /\ writes' = writes + 1
      /\ wbuf' = Sent(lba, n) /\ hostWr' = (hostWr + PagesOf(lba, n)) % NumWrBuffers
      /\ answer' = [s \in {} |-> Ones] /\ misread' = {}
      /\ UNCHANGED <<storage, g_ftl_write_buf_id, readRing>>
      /\ req' = [NoRequest EXCEPT !.op = "write", !.temp = IF n >= nSectsHotThreshold THEN "cold" ELSE "hot",
                                  !.lpn = lba \div SectorsPerPage, !.off = lba % SectorsPerPage, !.rem = n]
  BY DEF ftl_write
<1>2. TypeOK /\ RingsOK
  BY DEF Inv
<1>3. /\ lba \div SectorsPerPage \in Lpns /\ lba % SectorsPerPage \in PageSectors
      /\ lba = (lba \div SectorsPerPage) * SectorsPerPage + (lba % SectorsPerPage)
      /\ lba \in Nat /\ n \in Nat /\ n > 0
  BY SectorParts, Sizes DEF Sectors
<1>4. /\ req'.op = "write" /\ req'.temp \in Temps /\ req'.lpn = lba \div SectorsPerPage
      /\ req'.off = lba % SectorsPerPage /\ req'.rem = n /\ req'.piece = 0 /\ req' \in RequestType
  <2>1. 0 \in Banks /\ 0 \in 0..SectorsPerChunk /\ lba \div SectorsPerPage \in 0..NumLpns /\ n \in 0..NumSectors
    BY <1>3, Sizes DEF Banks, Lpns
  <2> DEFINE t == IF n >= nSectsHotThreshold THEN "cold" ELSE "hot"
  <2>2. t \in Temps
    BY DEF Temps
  <2>3. req' = [NoRequest EXCEPT !.op = "write", !.temp = t,
                                 !.lpn = lba \div SectorsPerPage, !.off = lba % SectorsPerPage, !.rem = n]
    BY <1>1
  <2> HIDE DEF t
  <2>4. QED
    BY <1>3, <2>1, <2>2, <2>3 DEF NoRequest, RequestType
<1>5. Here' = lba
  BY <1>3, <1>4 DEF Here
<1>6. writes' \in 0..MaxWrites /\ writes \in Nat
  <2>1. writes \in 0..MaxWrites
    BY <1>2 DEF TypeOK
  <2>2. writes' = writes + 1 /\ writes < MaxWrites
    BY <1>1
  <2>3. QED
    BY <2>1, <2>2, Sizes
<1>7. wbuf' \in [WrAddrs -> Int]
  <2>1. \A s \in lba..lba+n-1 : Written(writes + 1, s) \in Int
    BY <1>3, <1>6, Sizes DEF Written
  <2>2. wbuf \in [WrAddrs -> Int]
    BY <1>2 DEF TypeOK
  <2>3. QED
    BY <1>1, <2>1, <2>2 DEF Sent
<1>8. g_ftl_write_buf_id' = g_ftl_write_buf_id /\ hostRd' = hostRd /\ g_ftl_read_buf_id' = g_ftl_read_buf_id /\ rbuf' = rbuf
      /\ map' = map /\ ctrl' = ctrl /\ dram' = dram /\ flash' = flash /\ disk' = disk /\ lost' = lost
  BY <1>1 DEF storage, readRing
<1>9. /\ hostWr = g_ftl_write_buf_id /\ hostWr \in 0..NumWrBuffers-1 /\ hostRd = g_ftl_read_buf_id
      /\ hostWr' \in 0..NumWrBuffers-1 /\ PagesOf(lba, n) \in Nat
      /\ PagesOf(lba, n) = ((lba % SectorsPerPage) + n + SectorsPerPage - 1) \div SectorsPerPage
  <2>1. hostWr = g_ftl_write_buf_id /\ hostWr \in 0..NumWrBuffers-1 /\ hostRd = g_ftl_read_buf_id
    BY <1>1, <1>2 DEF TypeOK, RingsOK
  <2>2. PagesOf(lba, n) = ((lba % SectorsPerPage) + n + SectorsPerPage - 1) \div SectorsPerPage
    BY PagesLemma
  <2>3. lba % SectorsPerPage \in Nat
    BY <1>3, Sizes DEF PageSectors
  <2>4. (lba % SectorsPerPage) + n + SectorsPerPage - 1 \in Nat
    BY <1>3, <2>3, Sizes
  <2>5. PagesOf(lba, n) \in Nat
    BY <2>2, <2>4, Sizes, DivLemma
  <2>6. hostWr + PagesOf(lba, n) \in Nat
    BY <2>1, <2>5
  <2>7. hostWr' \in 0..NumWrBuffers-1
    BY <2>6, <1>1, Sizes, DivLemma
  <2>8. QED
    BY <2>1, <2>2, <2>5, <2>7
<1>10. TypeOK'
  <2>1. DOMAIN answer' = {}
    BY <1>1
  <2>2. req' \in [op : {"none", "write", "read"}, temp : Temps, lpn : 0..NumLpns, off : PageSectors,
                  rem : 0..NumSectors, bank : Banks, piece : 0..SectorsPerChunk]
    BY <1>4 DEF RequestType
  <2>3. QED
    BY <1>1, <1>2, <1>6, <1>7, <1>8, <1>9, <2>1, <2>2 DEF TypeOK
<1>11. RequestOK'
  <2>1. (Here + req.rem)' <= NumSectors /\ DOMAIN answer' = {}
    BY <1>1, <1>4, <1>5
  <2>2. req'.piece <= req'.rem /\ req'.off + req'.piece <= SectorsPerPage
    BY <1>3, <1>4, Sizes DEF PageSectors
  <2>3. QED
    BY <1>4, <2>1, <2>2 DEF RequestOK
<1>12. RingsOK'
  <2>1. PagesLeft' = PagesOf(lba, n)
    BY <1>4, <1>9 DEF PagesLeft
  <2>2. ASSUME NEW s \in (Here..Here+req.rem-1)'
        PROVE  (wbuf[BufferOf(s) * SectorsPerPage + (s % SectorsPerPage)])' = Written(writes, s)'
    <3>1. s \in lba..lba+n-1
      BY <1>4, <1>5
    <3>2. BufferOf(s)' = (hostWr + (s \div SectorsPerPage - lba \div SectorsPerPage)) % NumWrBuffers
      BY <1>4, <1>8, <1>9 DEF BufferOf
    <3>3. Written(writes, s)' = Written(writes + 1, s)
      BY <1>1 DEF Written
    <3>4. QED
      BY <3>1, <3>2, <3>3, <1>1, <1>2, SentLemma
  <2>3. QED
    BY <1>1, <1>4, <1>8, <1>9, <2>1, <2>2 DEF RingsOK
<1>13. QED
  BY <1>1, <1>10, <1>11, <1>12, StorageKept DEF Inv

LEMMA writeToLogBlkStep ==
    ASSUME Inv, writeToLogBlk
    PROVE  Inv'
<1> DEFINE size == PieceSize(req.off, req.rem)
           bank == chooseNewBank(req.lpn * ChunksPerPage + req.off \div SectorsPerChunk)
<1>1. /\ req.op = "write" /\ req.rem > 0 /\ req' = [req EXCEPT !.bank = bank, !.piece = size]
      /\ UNCHANGED <<storage, ring, readRing, received, writes>>
  BY DEF writeToLogBlk
<1>2. TypeOK /\ RequestOK /\ RingsOK
  BY DEF Inv
<1>3. req \in RequestType /\ req.off \in Nat /\ req.off < SectorsPerPage /\ req.rem \in Nat /\ req.lpn \in Nat
  BY <1>2, Sizes DEF TypeOK, RequestType, PageSectors
<1>4. /\ size \in 0..SectorsPerChunk /\ size <= req.rem /\ req.off + size <= SectorsPerPage
  BY <1>1, <1>3, Sizes DEF PieceSize
<1>5. bank \in Banks
  <2>1. req.lpn * ChunksPerPage \in Nat /\ req.off \div SectorsPerChunk \in Nat
    BY <1>3, Sizes, DivLemma
  <2>2. QED
    BY <2>1, Sizes, DivLemma DEF chooseNewBank, Banks
<1> HIDE DEF size, bank
<1>6. /\ req' \in RequestType /\ req'.op = req.op /\ req'.lpn = req.lpn /\ req'.off = req.off
      /\ req'.rem = req.rem /\ req'.piece = size
  BY <1>1, <1>3, <1>4, <1>5 DEF RequestType
<1>7. TypeOK'
  <2>1. req' \in [op : {"none", "write", "read"}, temp : Temps, lpn : 0..NumLpns, off : PageSectors,
                  rem : 0..NumSectors, bank : Banks, piece : 0..SectorsPerChunk]
    BY <1>6 DEF RequestType
  <2>2. QED
    BY <1>1, <1>2, <2>1 DEF TypeOK, storage, ring, readRing, received
<1>8. RequestOK'
  BY <1>1, <1>2, <1>4, <1>6 DEF RequestOK, Here, received
<1>9. RingsOK'
  <2>1. /\ wbuf' = wbuf /\ g_ftl_write_buf_id' = g_ftl_write_buf_id /\ hostWr' = hostWr
        /\ hostRd' = hostRd /\ g_ftl_read_buf_id' = g_ftl_read_buf_id /\ writes' = writes
    BY <1>1 DEF ring, readRing
  <2>2. QED
    BY <1>2, <1>6, <2>1 DEF RingsOK, PagesLeft, BufferOf, Here, Written
<1>10. QED
  BY <1>1, <1>7, <1>8, <1>9, StorageKept DEF Inv

LEMMA NoRequestType == NoRequest \in RequestType
<1>1. 0 \in Banks /\ 0 \in 0..SectorsPerChunk /\ 0 \in 0..NumLpns /\ 0 \in 0..NumSectors /\ 0 \in PageSectors
  BY Sizes DEF Banks, PageSectors
<1>2. QED
  BY <1>1 DEF NoRequest, RequestType, Temps

\* The buffer of a page that was not filled is the last one of the request.
LEMMA EndWriteStep ==
    ASSUME Inv, EndWrite
    PROVE  Inv'
<1>1. /\ req.op = "write" /\ req.rem = 0 /\ req' = NoRequest
      /\ g_ftl_write_buf_id' = IF req.off # 0 THEN NextWrBuffer(g_ftl_write_buf_id) ELSE g_ftl_write_buf_id
      /\ UNCHANGED <<storage, wbuf, hostWr, readRing, received, writes>>
  BY DEF EndWrite
<1>2. TypeOK /\ RingsOK
  BY DEF Inv
<1>3. g_ftl_write_buf_id \in 0..NumWrBuffers-1 /\ req.off \in 0..SectorsPerPage-1
  BY <1>2 DEF TypeOK, PageSectors
<1>4. hostWr = (g_ftl_write_buf_id + PagesLeft) % NumWrBuffers
  BY <1>1, <1>2 DEF RingsOK
<1>5. hostWr = g_ftl_write_buf_id'
  <2>1. CASE req.off = 0
    <3>1. PagesLeft = 0
      BY <1>1, <2>1, Sizes DEF PagesLeft
    <3>2. QED
      BY <3>1, <2>1, <1>1, <1>3, <1>4, Sizes
  <2>2. CASE req.off # 0
    <3>1. req.off + req.rem + SectorsPerPage - 1 = 1 * SectorsPerPage + (req.off - 1) /\ req.off - 1 \in 0..SectorsPerPage-1
      BY <1>1, <1>3, <2>2, Sizes
    <3>2. PagesLeft = 1
      BY <3>1, Sizes, DivUnique DEF PagesLeft
    <3>3. QED
      BY <3>2, <2>2, <1>1, <1>4 DEF NextWrBuffer
  <2>3. QED
    BY <2>1, <2>2
<1>6. TypeOK'
  <2>1. hostWr \in 0..NumWrBuffers-1
    BY <1>2 DEF TypeOK
  <2>2. req' \in [op : {"none", "write", "read"}, temp : Temps, lpn : 0..NumLpns, off : PageSectors,
                  rem : 0..NumSectors, bank : Banks, piece : 0..SectorsPerChunk]
    BY <1>1, NoRequestType DEF RequestType
  <2>3. QED
    BY <1>1, <1>2, <1>5, <2>1, <2>2 DEF TypeOK, storage, readRing, received
<1>7. RequestOK' /\ RingsOK'
  <2>1. req'.op = "none"
    BY <1>1 DEF NoRequest
  <2>2. QED
    BY <2>1, <1>1, <1>2, <1>5 DEF RequestOK, RingsOK, readRing
<1>8. QED
  BY <1>1, <1>6, <1>7, StorageKept DEF Inv

LEMMA ftl_readStep ==
    ASSUME NEW lba \in Sectors, NEW n \in 1..NumSectors, lba + n <= NumSectors, Inv, ftl_read(lba, n)
    PROVE  Inv'
<1>1. lba % OverwriteBit = lba
  BY Sizes DEF Sectors
<1>2. /\ req.op = "none" /\ answer' = [s \in {} |-> Ones] /\ misread' = {}
      /\ UNCHANGED <<storage, ring, readRing, writes>>
      /\ req' = [NoRequest EXCEPT !.op = "read", !.lpn = lba \div SectorsPerPage,
                                  !.off = lba % SectorsPerPage, !.rem = n]
  BY <1>1 DEF ftl_read
<1>3. TypeOK /\ RingsOK
  BY DEF Inv
<1>4. /\ lba \div SectorsPerPage \in Lpns /\ lba % SectorsPerPage \in PageSectors
      /\ lba = (lba \div SectorsPerPage) * SectorsPerPage + (lba % SectorsPerPage)
      /\ n \in 0..NumSectors /\ lba \div SectorsPerPage \in 0..NumLpns
  <2>1. /\ lba \div SectorsPerPage \in Lpns /\ lba % SectorsPerPage \in PageSectors
        /\ lba = (lba \div SectorsPerPage) * SectorsPerPage + (lba % SectorsPerPage)
    BY SectorParts
  <2>2. QED
    BY <2>1, Sizes DEF Lpns
<1>5. /\ req'.op = "read" /\ req'.lpn = lba \div SectorsPerPage /\ req'.off = lba % SectorsPerPage
      /\ req'.rem = n /\ req' \in RequestType
  BY <1>2, <1>4, NoRequestType DEF NoRequest, RequestType
<1>6. Here' = lba
  BY <1>4, <1>5 DEF Here
<1>7. TypeOK'
  <2>1. req' \in [op : {"none", "write", "read"}, temp : Temps, lpn : 0..NumLpns, off : PageSectors,
                  rem : 0..NumSectors, bank : Banks, piece : 0..SectorsPerChunk]
    BY <1>5 DEF RequestType
  <2>2. DOMAIN answer' = {}
    BY <1>2
  <2>3. QED
    BY <1>2, <1>3, <2>1, <2>2 DEF TypeOK, storage, ring, readRing
<1>8. RequestOK' /\ RingsOK'
  <2>1. DOMAIN answer' = {}
    BY <1>2
  <2>2. QED
    BY <2>1, <1>2, <1>3, <1>5, <1>6 DEF RequestOK, RingsOK, ring, readRing
<1>9. QED
  BY <1>2, <1>7, <1>8, StorageKept DEF Inv

LEMMA EndReadStep ==
    ASSUME Inv, EndRead
    PROVE  Inv'
<1>1. req.op = "read" /\ req' = NoRequest /\ UNCHANGED <<storage, ring, readRing, received, writes>>
  BY DEF EndRead
<1>2. TypeOK /\ RingsOK
  BY DEF Inv
<1>3. TypeOK'
  <2>1. req' \in [op : {"none", "write", "read"}, temp : Temps, lpn : 0..NumLpns, off : PageSectors,
                  rem : 0..NumSectors, bank : Banks, piece : 0..SectorsPerChunk]
    BY <1>1, NoRequestType DEF RequestType
  <2>2. QED
    BY <1>1, <1>2, <2>1 DEF TypeOK, storage, ring, readRing, received
<1>4. RequestOK' /\ RingsOK'
  <2>1. req'.op = "none"
    BY <1>1 DEF NoRequest
  <2>2. QED
    BY <2>1, <1>1, <1>2 DEF RequestOK, RingsOK, ring, readRing
<1>5. QED
  BY <1>1, <1>3, <1>4, StorageKept DEF Inv

LEMMA StutterStep ==
    ASSUME Inv, UNCHANGED vars
    PROVE  Inv'
<1>1. UNCHANGED <<storage, ring, readRing, req, received, writes>>
  BY DEF vars
<1>2. TypeOK' /\ RequestOK'
  BY <1>1 DEF Inv, TypeOK, RequestOK, Here, storage, ring, readRing, received
<1>3. RingsOK'
  BY <1>1 DEF Inv, RingsOK, PagesLeft, BufferOf, Here, Written, ring, readRing
<1>4. QED
  BY <1>1, <1>2, <1>3, StorageKept DEF Inv

\* writeChunkOld, with its parts by name.
LEMMA writeChunkOldParts ==
    ASSUME writeChunkOld
    PROVE  /\ req.op = "write" /\ req.piece > 0
           /\ dram' = NewContents(SectsToWrite, Old) /\ disk' = NewDisk /\ lost' = NewLost(Old)
           /\ \/ /\ NewBlock.ptr + 1 \in Slots(NewBlock)
                 /\ ctrl' = [Forgotten(Old) EXCEPT ![req.temp][req.bank] = [NewBlock EXCEPT !.ptr = @ + 1]]
                 /\ map' = NewMap /\ flash' = flash
              \/ \E again \in BOOLEAN :
                 LET page == FreePage(NewMap, req.bank)
                     after == Flushed(NewMap, NewBlock, req.temp, req.bank, page)
                 IN  /\ ctrl' = [Forgotten(Old) EXCEPT ![req.temp][req.bank] = [FreshCtrl EXCEPT !.recycled = again]]
                     /\ map' = after
                     /\ flash' = [flash EXCEPT ![req.bank] =
                                     Programmed(after, NewContents(SectsToWrite, Old), req.temp, req.bank, page)]
           /\ req' = [req EXCEPT !.off = (req.off + SectsToWrite) % SectorsPerPage, !.rem = @ - SectsToWrite,
                                 !.piece = @ - SectsToWrite,
                                 !.lpn = IF (req.off + SectsToWrite) % SectorsPerPage = 0 THEN @ + 1 ELSE @]
           /\ g_ftl_write_buf_id' = IF (req.off + SectsToWrite) % SectorsPerPage = 0
                                    THEN NextWrBuffer(g_ftl_write_buf_id) ELSE g_ftl_write_buf_id
           /\ UNCHANGED <<wbuf, hostWr, readRing, received, writes>>
<1>1. CASE NewBlock.ptr + 1 \in Slots(NewBlock)
  BY <1>1 DEF writeChunkOld, NewBlock, NewMap, Old, Idx, NewDisk, NewLost
<1>2. CASE NewBlock.ptr + 1 \notin Slots(NewBlock)
  BY <1>2 DEF writeChunkOld, NewBlock, NewMap, Old, Idx, NewDisk, NewLost
<1>3. QED
  BY <1>1, <1>2

\* The request and the firmware's count of the buffers move on together.
LEMMA AdvanceLemma ==
    ASSUME Inv, writeChunkOld
    PROVE  /\ req' \in RequestType /\ req'.op = "write" /\ Here' = Here + SectsToWrite
           /\ g_ftl_write_buf_id' \in 0..NumWrBuffers-1
           /\ RequestOK' /\ RingsOK'
<1> DEFINE n == SectsToWrite
           N == NumWrBuffers
           SPP == SectorsPerPage
           g == g_ftl_write_buf_id
           off == (req.off + n) % SPP
<1>1. /\ req.op = "write" /\ req.piece > 0
      /\ req' = [req EXCEPT !.off = off, !.rem = @ - n, !.piece = @ - n, !.lpn = IF off = 0 THEN @ + 1 ELSE @]
      /\ g' = IF off = 0 THEN NextWrBuffer(g) ELSE g
      /\ UNCHANGED <<wbuf, hostWr, readRing, received, writes>>
  BY writeChunkOldParts
<1>2. TypeOK /\ RequestOK /\ RingsOK
  BY DEF Inv
<1>3. /\ req.lpn \in Lpns /\ n \in Nat /\ 0 < n /\ n <= req.piece /\ n <= req.rem /\ req.off + n <= SPP
  BY <1>1, <1>2, PieceLemma
<1>4. /\ req \in RequestType /\ req.off \in Nat /\ req.off < SPP /\ req.rem \in Nat /\ req.piece \in Nat
      /\ req.rem <= NumSectors /\ req.piece <= SectorsPerChunk
      /\ req.lpn \in Nat /\ req.lpn < NumLpns /\ req.lpn * SPP \in Nat /\ (req.lpn + 1) * SPP = req.lpn * SPP + SPP
  <2>1. req \in RequestType
    BY <1>2 DEF TypeOK, RequestType
  <2>2. req.off \in 0..SectorsPerPage-1 /\ req.rem \in 0..NumSectors /\ req.piece \in 0..SectorsPerChunk
    BY <2>1 DEF RequestType, PageSectors
  <2>3. req.lpn \in Nat /\ req.lpn < NumLpns
    BY <1>3, Sizes DEF Lpns
  <2>4. req.lpn * SPP \in Nat /\ (req.lpn + 1) * SPP = req.lpn * SPP + SPP
    BY <2>3, Sizes
  <2>5. QED
    BY <2>1, <2>2, <2>3, <2>4, Sizes
<1>5. SPP \in Nat /\ SPP > 0 /\ N \in Nat /\ N > 0 /\ g \in 0..N-1
  BY <1>2, Sizes DEF TypeOK
<1> HIDE DEF n, N, SPP, g
<1>6. \/ off = req.off + n /\ off # 0 /\ off < SPP
      \/ off = 0 /\ req.off + n = SPP
  BY <1>3, <1>4, <1>5
<1> HIDE DEF off
<1>7. off \in Nat /\ off < SPP /\ off \in PageSectors
  <2>1. off \in Nat /\ off < SPP
    BY <1>3, <1>4, <1>5, <1>6
  <2>2. QED
    BY <2>1, <1>5 DEF PageSectors, SPP
<1>8. /\ req'.op = "write" /\ req'.off = off /\ req'.rem = req.rem - n /\ req'.piece = req.piece - n
      /\ req'.lpn = IF off = 0 THEN req.lpn + 1 ELSE req.lpn
      /\ req' \in RequestType
  <2>1. req.lpn + 1 \in 0..NumLpns /\ req.lpn \in 0..NumLpns
    BY <1>4, Sizes
  <2>2. req.rem - n \in 0..NumSectors /\ req.piece - n \in 0..SectorsPerChunk
    BY <1>3, <1>4, Sizes
  <2>3. QED
    BY <1>1, <1>4, <1>7, <2>1, <2>2 DEF RequestType
<1>9. Here = req.lpn * SPP + req.off /\ Here' = req'.lpn * SPP + off
  BY <1>8 DEF Here, SPP
<1>10. Here' = Here + n
  BY <1>3, <1>4, <1>5, <1>6, <1>8, <1>9
<1>11. RequestOK'
  <2>1. Here + req.rem <= NumSectors /\ req.piece <= req.rem /\ req.off + req.piece <= SPP /\ DOMAIN answer = {}
    BY <1>1, <1>2 DEF RequestOK, SPP
  <2>2. Here' + req'.rem <= NumSectors
    BY <2>1, <1>3, <1>4, <1>8, <1>9, <1>10
  <2>3. req.piece - n <= req.rem - n /\ off + (req.piece - n) <= SPP
    <3>1. CASE off # 0
      BY <3>1, <2>1, <1>3, <1>4, <1>5, <1>6
    <3>2. CASE off = 0
      <4>1. /\ req.piece \in Int /\ req.rem \in Int /\ n \in Int /\ SPP \in Int
            /\ n <= req.piece /\ req.piece <= req.rem /\ req.piece <= SPP /\ 0 < n
        BY <2>1, <1>3, <1>4, <1>5
      <4>2. QED
        BY <3>2, <4>1
    <3>3. QED
      BY <3>1, <3>2
  <2>4. req'.piece <= req'.rem /\ req'.off + req'.piece <= SPP
    BY <2>3, <1>8
  <2>5. QED
    BY <2>1, <2>2, <2>4, <1>1, <1>8 DEF RequestOK, SPP, received
<1>12. /\ PagesLeft <= N /\ hostWr = (g + PagesLeft) % N /\ hostRd = g_ftl_read_buf_id
       /\ \A lba \in Here..Here+req.rem-1 :
             wbuf[BufferOf(lba) * SPP + (lba % SPP)] = Written(writes, lba)
  BY <1>1, <1>2 DEF RingsOK, N, g, SPP
<1> DEFINE todo == req.off + req.rem + SPP - 1
<1>13. /\ todo \in Nat /\ PagesLeft = todo \div SPP /\ PagesLeft \in Nat
       /\ PagesLeft' = (off + (req.rem - n) + SPP - 1) \div SPP
  <2>1. todo \in Nat
    BY <1>4, <1>5
  <2>2. todo \div SPP \in Nat
    BY <2>1, <1>5, DivLemma
  <2>3. QED
    BY <2>1, <2>2, <1>8 DEF PagesLeft, SPP
<1>14. g' \in 0..N-1 /\ N' = N /\ SPP' = SPP
  <2>1. (g + 1) % N \in 0..N-1
    BY <1>5, NextBufferLemma
  <2>2. NextWrBuffer(g) = (g + 1) % N
    BY DEF NextWrBuffer, N
  <2>3. QED
    BY <2>1, <2>2, <1>1, <1>5 DEF N, SPP
<1>15. CASE off # 0
  <2>1. g' = g /\ req'.lpn = req.lpn /\ off = req.off + n
    BY <1>1, <1>6, <1>8, <1>15
  <2>2. PagesLeft' = PagesLeft
    <3>1. off + (req.rem - n) + SPP - 1 = todo
      BY <2>1, <1>3, <1>4, <1>5
    <3>2. QED
      BY <3>1, <1>13
  <2>3. ASSUME NEW lba \in (Here..Here+req.rem-1)'
        PROVE  (wbuf[BufferOf(lba) * SectorsPerPage + (lba % SectorsPerPage)])' = Written(writes, lba)'
    <3>1. lba \in Here..Here+req.rem-1
      BY <1>3, <1>4, <1>8, <1>9, <1>10
    <3>2. BufferOf(lba)' = BufferOf(lba)
      BY <2>1 DEF BufferOf, g
    <3>3. Written(writes, lba)' = Written(writes, lba) /\ wbuf' = wbuf
      BY <1>1 DEF Written
    <3>4. QED
      BY <3>1, <3>2, <3>3, <1>12 DEF SPP
  <2>4. RingsOK'
    BY <2>1, <2>2, <2>3, <1>1, <1>8, <1>12 DEF RingsOK, readRing, g, N
  <2>5. QED
    BY <2>4, <1>8, <1>10, <1>11, <1>14 DEF n, N, g
<1>16. CASE off = 0
  <2>1. g' = (g + 1) % N /\ req'.lpn = req.lpn + 1 /\ req.off + n = SPP
    BY <1>1, <1>6, <1>8, <1>16 DEF NextWrBuffer, N
  <2>2. PagesLeft' = PagesLeft - 1 /\ PagesLeft - 1 \in Nat
    <3> DEFINE less == off + (req.rem - n) + SPP - 1
    <3>1. todo = less + SPP /\ less \in Nat
      BY <2>1, <1>3, <1>4, <1>5, <1>16
    <3> HIDE DEF less
    <3>2. todo \div SPP = (less \div SPP) + 1 /\ less \div SPP \in Nat
      BY <3>1, <1>5, AroundLemma, DivLemma
    <3>3. QED
      BY <3>2, <1>13 DEF less
  <2>3. hostWr' = (g' + PagesLeft') % N
    <3>1. (((g + 1) % N) + (PagesLeft - 1)) % N = (g + ((PagesLeft - 1) + 1)) % N
      BY <2>2, <1>5, NextBufferLemma
    <3>2. (PagesLeft - 1) + 1 = PagesLeft
      BY <1>13
    <3>3. QED
      BY <3>1, <3>2, <2>1, <2>2, <1>1, <1>12
  <2>4. PagesLeft' <= N
    BY <2>2, <1>5, <1>12, <1>13
  <2>5. ASSUME NEW lba \in (Here..Here+req.rem-1)'
        PROVE  (wbuf[BufferOf(lba) * SectorsPerPage + (lba % SectorsPerPage)])' = Written(writes, lba)'
    <3>1. lba \in Here..Here+req.rem-1 /\ lba \in Nat /\ Here' <= lba
      BY <1>3, <1>4, <1>8, <1>9, <1>10
    <3>2. req.lpn + 1 <= lba \div SPP /\ lba \div SPP \in Nat
      <4> DEFINE q == lba \div SPP
      <4>1. q \in Nat /\ lba % SPP \in 0..SPP-1 /\ lba = q * SPP + (lba % SPP)
        BY <3>1, <1>5, DivLemma
      <4>2. (req.lpn + 1) * SPP <= lba
        <5>1. Here' = (req.lpn + 1) * SPP + 0
          BY <2>1, <1>9, <1>16
        <5>2. (req.lpn + 1) * SPP \in Nat
          BY <1>4, <1>5
        <5>3. QED
          BY <5>1, <5>2, <3>1
      <4> HIDE DEF q
      <4>3. SUFFICES ASSUME q < req.lpn + 1 PROVE FALSE
        BY <4>1, <1>4 DEF q
      <4>4. q * SPP + SPP <= (req.lpn + 1) * SPP /\ q * SPP \in Int /\ (req.lpn + 1) * SPP \in Int
        BY <4>1, <4>3, <1>4, <1>5, TimesLemma
      <4>5. QED
        BY <4>1, <4>2, <4>4, <1>5
    <3>3. BufferOf(lba)' = BufferOf(lba)
      <4> DEFINE k == lba \div SPP - (req.lpn + 1)
      <4>1. k \in Nat /\ k + 1 = lba \div SPP - req.lpn
        BY <3>2, <1>4
      <4>2. BufferOf(lba) = (g + (k + 1)) % N
        BY <4>1 DEF BufferOf, g, N, SPP
      <4>3. BufferOf(lba)' = (g' + k) % N
        BY <2>1 DEF BufferOf, g, N, SPP
      <4> HIDE DEF k
      <4>4. QED
        BY <4>1, <4>2, <4>3, <2>1, <1>5, NextBufferLemma
    <3>4. Written(writes, lba)' = Written(writes, lba) /\ wbuf' = wbuf
      BY <1>1 DEF Written
    <3>5. QED
      BY <3>1, <3>3, <3>4, <1>12 DEF SPP
  <2>6. RingsOK'
    BY <2>3, <2>4, <2>5, <1>1, <1>8, <1>12 DEF RingsOK, readRing, g, N
  <2>7. QED
    BY <2>6, <1>8, <1>10, <1>11, <1>14 DEF n, N, g
<1>17. QED
  BY <1>15, <1>16

LEMMA writeChunkOldStep ==
    ASSUME Inv, writeChunkOld
    PROVE  Inv'
<1> DEFINE mem == NewContents(SectsToWrite, Old)
           exp == NewDisk
           gone == NewLost(Old)
           entered == [Forgotten(Old) EXCEPT ![req.temp][req.bank] = NewBlock]
<1>1. /\ req.op = "write" /\ req.piece > 0 /\ dram' = mem /\ disk' = exp /\ lost' = gone
      /\ UNCHANGED <<wbuf, hostWr, readRing, received, writes>>
  BY writeChunkOldParts
<1>2. /\ TypeOK /\ PlacesOK(map, ctrl) /\ OwnersOK(map, ctrl) /\ PtrsOK /\ RequestOK /\ RingsOK /\ NewestStored
  BY DEF Inv
<1>3. /\ req' \in RequestType /\ req'.op = "write" /\ g_ftl_write_buf_id' \in 0..NumWrBuffers-1
      /\ RequestOK' /\ RingsOK'
  BY AdvanceLemma
<1>4. Old \in Places /\ NewMap \in Maps /\ NewBlock \in CtrlBlocks /\ NewBlock.ptr = Ctrl.ptr
  BY <1>1, <1>2, EnterLemma
<1>5. mem \in [DramAddrs -> Int]
  BY <1>1, <1>2, <1>4, NewContentsLemma
<1>6. exp \in [Sectors -> Int] /\ gone \subseteq Sectors
  <2>1. exp \in [Sectors -> Int]
    BY <1>1, <1>2, <1>4, NewDiskLemma
  <2>2. gone \subseteq Sectors
    BY <1>2 DEF TypeOK, NewLost, Dropped
  <2>3. QED
    BY <2>1, <2>2
<1>7. Newest(NewMap, mem, flash, exp, gone)
  BY <1>1, <1>2, EnterNewest
<1> HIDE DEF mem, exp, gone
<1>8. /\ map' \in Maps /\ ctrl' \in Ctrls /\ flash' \in [Banks -> [Pages -> [PageSectors -> Int]]]
      /\ PlacesOK(map', ctrl') /\ OwnersOK(map', ctrl')
      /\ \A t \in Temps, b \in Banks : ctrl'[t][b].ptr \in Slots(ctrl'[t][b])
      /\ Newest(map', mem, flash', exp, gone)
  <2>1. CASE /\ NewBlock.ptr + 1 \in Slots(NewBlock)
             /\ ctrl' = [Forgotten(Old) EXCEPT ![req.temp][req.bank] = [NewBlock EXCEPT !.ptr = @ + 1]]
             /\ map' = NewMap /\ flash' = flash
    <3> DEFINE block == [NewBlock EXCEPT !.ptr = @ + 1]
    <3>1. /\ req.temp \in Temps /\ req.bank \in Banks /\ Ctrl.ptr \in Chunks /\ Ctrl = ctrl[req.temp][req.bank]
          /\ flash \in [Banks -> [Pages -> [PageSectors -> Int]]]
      BY <1>2, CtrlLemma DEF Ctrl, TypeOK
    <3>2. /\ entered \in Ctrls /\ entered[req.temp][req.bank] = NewBlock
          /\ \A t \in Temps, b \in Banks : t # req.temp \/ b # req.bank => entered[t][b] = Forgotten(Old)[t][b]
          /\ PlacesOK(NewMap, entered)
      BY <1>1, <1>2, EnterLemma
    <3>3. \A t \in Temps, b \in Banks, s \in Chunks, l \in Lpns, i \in Chunks :
             entered[t][b].owner[s] = <<l, i>> =>
                /\ NewMap[l][i] = Place(t, b, 0, s)
                /\ s < ctrl[t][b].ptr \/ (t = req.temp /\ b = req.bank /\ s = Ctrl.ptr)
      BY <1>1, <1>2, EnterLemma
    <3> HIDE DEF entered
    <3>4. NewBlock.ptr + 1 \in Chunks
      BY <2>1, Sizes DEF Slots, Chunks
    <3>5. /\ block \in CtrlBlocks /\ block.ptr = Ctrl.ptr + 1 /\ block.owner = NewBlock.owner
          /\ block.recycled = NewBlock.recycled
      BY <1>4, <3>4 DEF CtrlBlocks
    <3>6. ctrl' = [Forgotten(Old) EXCEPT ![req.temp][req.bank] = block]
      BY <2>1
    <3> HIDE DEF block
    <3>7. Forgotten(Old) \in Ctrls
      BY <1>2, <1>4, ForgottenLemma
    <3>8. /\ ctrl' \in Ctrls /\ ctrl'[req.temp][req.bank] = block
          /\ \A t \in Temps, b \in Banks : t # req.temp \/ b # req.bank => ctrl'[t][b] = Forgotten(Old)[t][b]
      BY <3>1, <3>5, <3>6, <3>7 DEF Ctrls
    <3>9. \A t \in Temps, b \in Banks : ctrl'[t][b].owner = entered[t][b].owner
      BY <3>2, <3>5, <3>8
    <3>10. \A t \in Temps, b \in Banks : ~(t = req.temp /\ b = req.bank) =>
              ctrl'[t][b].ptr = ctrl[t][b].ptr /\ ctrl'[t][b].recycled = ctrl[t][b].recycled
      <4>1. 0 \in Chunks
        BY Sizes DEF Chunks
      <4>2. QED
        BY <4>1, <3>8, <1>2, <1>4, ForgottenLemma
    <3>11. PlacesOK(map', ctrl')
      <4>1. SUFFICES ASSUME NEW l \in Lpns, NEW i \in Chunks, NewMap[l][i] # Invalid,
                            NewMap[l][i].loc \notin {"flash", "encoded"}
                     PROVE  /\ InDram(NewMap[l][i]) /\ NewMap[l][i].page = 0
                            /\ ctrl'[NewMap[l][i].loc][NewMap[l][i].bank].owner[NewMap[l][i].slot] = <<l, i>>
        BY <2>1 DEF PlacesOK
      <4> DEFINE p == NewMap[l][i]
      <4>2. InDram(p) /\ p.page = 0 /\ entered[p.loc][p.bank].owner[p.slot] = <<l, i>>
        BY <4>1, <3>2 DEF PlacesOK
      <4>3. p.loc \in Temps /\ p.bank \in Banks
        BY <4>2, <1>4, PlaceLemma DEF Maps
      <4>4. QED
        BY <4>2, <4>3, <3>9
    <3>12. OwnersOK(map', ctrl')
      <4>0. map' = NewMap
        BY <2>1
      <4>1. SUFFICES ASSUME NEW t \in Temps, NEW b \in Banks, NEW s \in Chunks, NEW l \in Lpns, NEW i \in Chunks,
                            ctrl'[t][b].owner[s] = <<l, i>>
                     PROVE  s < ctrl'[t][b].ptr /\ NewMap[l][i] = Place(t, b, 0, s)
        BY <4>0 DEF OwnersOK
      <4>2. entered[t][b].owner[s] = <<l, i>>
        BY <4>1, <3>9
      <4>3. /\ NewMap[l][i] = Place(t, b, 0, s)
            /\ s < ctrl[t][b].ptr \/ (t = req.temp /\ b = req.bank /\ s = Ctrl.ptr)
        BY <4>2, <3>3
      <4>4. s \in Int /\ Ctrl.ptr \in Int
        BY <3>1, Sizes DEF Chunks
      <4>5. CASE t = req.temp /\ b = req.bank
        BY <4>3, <4>4, <4>5, <3>1, <3>5, <3>8
      <4>6. CASE ~(t = req.temp /\ b = req.bank)
        BY <4>3, <4>6, <3>10
      <4>7. QED
        BY <4>5, <4>6
    <3>13. ASSUME NEW t \in Temps, NEW b \in Banks PROVE ctrl'[t][b].ptr \in Slots(ctrl'[t][b])
      <4>1. CASE t = req.temp /\ b = req.bank
        BY <4>1, <2>1, <1>4, <3>5, <3>8 DEF Slots
      <4>2. CASE ~(t = req.temp /\ b = req.bank)
        BY <4>2, <3>10, <1>2 DEF PtrsOK, Slots
      <4>3. QED
        BY <4>1, <4>2
    <3>14. QED
      BY <2>1, <1>4, <1>7, <3>1, <3>8, <3>11, <3>12, <3>13
  <2>2. CASE \E again \in BOOLEAN :
                LET page == FreePage(NewMap, req.bank)
                    after == Flushed(NewMap, NewBlock, req.temp, req.bank, page)
                IN  /\ ctrl' = [Forgotten(Old) EXCEPT ![req.temp][req.bank] = [FreshCtrl EXCEPT !.recycled = again]]
                    /\ map' = after
                    /\ flash' = [flash EXCEPT ![req.bank] = Programmed(after, mem, req.temp, req.bank, page)]
    <3> DEFINE page == FreePage(NewMap, req.bank)
               after == Flushed(NewMap, NewBlock, req.temp, req.bank, page)
               fl == [flash EXCEPT ![req.bank] = Programmed(after, mem, req.temp, req.bank, page)]
               own(again) == [Forgotten(Old) EXCEPT ![req.temp][req.bank] = [FreshCtrl EXCEPT !.recycled = again]]
    <3>1. PICK again \in BOOLEAN : ctrl' = own(again) /\ map' = after /\ flash' = fl
      BY <2>2
    <3>5. /\ after \in Maps /\ own(again) \in Ctrls /\ fl \in [Banks -> [Pages -> [PageSectors -> Int]]]
          /\ PlacesOK(after, own(again)) /\ OwnersOK(after, own(again))
          /\ \A t \in Temps, b \in Banks : own(again)[t][b].ptr \in Slots(own(again)[t][b])
          /\ \A l \in Lpns, i \in Chunks, x \in InChunks :
                Content(after[l][i], mem, fl, x) = Content(NewMap[l][i], mem, flash, x)
      BY <1>1, <1>2, <1>5, FlushLemma
    <3> HIDE DEF page, after, fl, own
    <3>2. /\ map' \in Maps /\ ctrl' \in Ctrls /\ flash' \in [Banks -> [Pages -> [PageSectors -> Int]]]
          /\ PlacesOK(map', ctrl') /\ OwnersOK(map', ctrl')
          /\ \A t \in Temps, b \in Banks : ctrl'[t][b].ptr \in Slots(ctrl'[t][b])
          /\ \A l \in Lpns, i \in Chunks, x \in InChunks :
                Content(map'[l][i], mem, flash', x) = Content(NewMap[l][i], mem, flash, x)
      BY <3>1, <3>5
    <3>3. Newest(map', mem, flash', exp, gone)
      BY <3>2, <1>7 DEF Newest
    <3>4. QED
      BY <3>2, <3>3
  <2>3. QED
    BY <2>1, <2>2, writeChunkOldParts DEF mem
<1>9. TypeOK'
  <2>1. req' \in [op : {"none", "write", "read"}, temp : Temps, lpn : 0..NumLpns, off : PageSectors,
                  rem : 0..NumSectors, bank : Banks, piece : 0..SectorsPerChunk]
    BY <1>3 DEF RequestType
  <2>2. map' \in [Lpns -> [Chunks -> Places]]
    BY <1>8 DEF Maps
  <2>3. ctrl' \in [Temps -> [Banks -> [ptr : Chunks, owner : [Chunks -> Owners], recycled : BOOLEAN]]]
    BY <1>8 DEF Ctrls, CtrlBlocks
  <2>4. QED
    BY <1>1, <1>2, <1>3, <1>5, <1>6, <1>8, <2>1, <2>2, <2>3 DEF TypeOK, readRing, received
<1>10. PlacesOK(map, ctrl)' /\ OwnersOK(map, ctrl)' /\ PtrsOK'
  BY <1>8 DEF PlacesOK, OwnersOK, PtrsOK, Slots
<1>11. NewestStored'
  <2>1. (map \in Maps)' /\ Newest(map, dram, flash, disk, lost)'
    BY <1>1, <1>8 DEF Newest, Content, AddrOf, LogBuf, Maps
  <2>2. (map \in Maps)' => (NewestStored' <=> Newest(map, dram, flash, disk, lost)')
    BY NewestLemma, PTL
  <2>3. QED
    BY <2>1, <2>2
<1>12. ReadsNewest'
  <2>1. DOMAIN answer' = {}
    BY <1>1, <1>2 DEF RequestOK, received
  <2>2. QED
    BY <2>1 DEF ReadsNewest
<1>13. QED
  BY <1>3, <1>9, <1>10, <1>11, <1>12 DEF Inv

----------------------------------------------------------------------------
(* ftl_read.                                                               *)

\* A bounded set of numbers that is not empty has a least element: the
\* intervals that end at its elements have a smallest one.
LEMMA LeastElement ==
    ASSUME NEW n \in Nat, NEW T, T \subseteq 0..n, T # {}
    PROVE  \E x \in T : \A y \in T : x <= y
<1> DEFINE Intervals == {0..x : x \in T}
           Less == StrictSubsetOrdering(0..n)
<1>1. IsWellFoundedOn(Less, SUBSET (0..n))
  <2>1. IsFiniteSet(0..n)
    BY FS_Interval
  <2>2. FiniteSubsetsOf(0..n) = SUBSET (0..n)
    BY <2>1, FS_FiniteSubsetsOfFinite, Zenon
  <2>3. QED
    BY <2>2, FS_StrictSubsetOrderingWellFounded, Zenon
<1>2. Intervals \subseteq SUBSET (0..n) /\ Intervals # {}
  <2>1. \A x \in T : 0..x \subseteq 0..n
    OBVIOUS
  <2>2. QED
    BY <2>1, Zenon
<1>3. PICK I \in Intervals : \A J \in Intervals : ~ (<<J, I>> \in Less)
  <2> HIDE DEF Less, Intervals
  <2>1. QED
    BY <1>1, <1>2, WFMin, Zenon
<1>4. PICK x \in T : I = 0..x
  OBVIOUS
<1>5. ASSUME NEW y \in T, y < x
      PROVE  FALSE
  <2> DEFINE J == 0..y
  <2>1. J \in Intervals
    OBVIOUS
  <2>2. J \subseteq I /\ J # I
    <3>1. x \in Nat /\ y \in Nat
      OBVIOUS
    <3>2. x \in 0..x /\ x \notin 0..y
      BY <3>1, <1>5
    <3>3. QED
      BY <3>1, <3>2, <1>4, <1>5
  <2> HIDE DEF J, Intervals
  <2>3. J \in SUBSET (0..n) /\ I \in SUBSET (0..n)
    BY <1>2, <2>1
  <2>4. <<J, I>> \in Less
    BY <2>2, <2>3, Zenon DEF StrictSubsetOrdering
  <2> HIDE DEF Less
  <2>5. QED
    BY <1>3, <2>1, <2>4
<1>6. QED
  <2>1. \A y \in T : x <= y
    BY <1>5
  <2>2. QED
    BY <2>1

\* rebuildPageToFtlBuf is the end of a row of results, one for each chunk.
Start == [buf |-> [s \in PageSectors |-> Junk], done |-> {}, amiss |-> {}]
Builds(f, lpn, first, upto, last) ==
    f = [i \in first..upto |-> IF i = first THEN Start ELSE ReadChunk(f[i - 1], i - 1, lpn, last)]

\* Such a row exists: there is no first chunk at which it could not go on.
LEMMA RowExists ==
    ASSUME NEW lpn, NEW first \in Nat, NEW last \in Nat, first <= last
    PROVE  \E f : Builds(f, lpn, first, last, last)
<1> DEFINE Has(k) == \E f : Builds(f, lpn, first, k, last)
           T == {k \in 0..last : k >= first /\ ~Has(k)}
<1>1. SUFFICES ASSUME T # {} PROVE FALSE
  OBVIOUS
<1>2. PICK m \in T : \A k \in T : m <= k
  BY <1>1, LeastElement
<1>3. Has(first)
  <2> DEFINE f == [i \in first..first |-> Start]
  <2>1. Builds(f, lpn, first, first, last)
    BY DEF Builds
  <2>2. QED
    BY <2>1
<1>4. m \in Nat /\ m > first /\ m <= last
  BY <1>2, <1>3
<1>5. PICK f : Builds(f, lpn, first, m - 1, last)
  BY <1>2, <1>4
<1> DEFINE result == ReadChunk(f[m - 1], m - 1, lpn, last)
           g == [i \in first..m |-> IF i = m THEN result ELSE f[i]]
<1>6. \A i \in first..m-1 : f[i] = IF i = first THEN Start ELSE ReadChunk(f[i - 1], i - 1, lpn, last)
  BY <1>5 DEF Builds
<1> HIDE DEF Has, T
<1>7. \A i \in first..m : g[i] = IF i = first THEN Start ELSE ReadChunk(g[i - 1], i - 1, lpn, last)
  <2> TAKE i \in first..m
  <2>1. CASE i = m
    <3>1. g[i - 1] = f[m - 1] /\ i # first /\ g[i] = result
      BY <2>1, <1>4
    <3>2. QED
      BY <3>1, <2>1
  <2>2. CASE i # m
    <3>1. i \in first..m-1 /\ g[i] = f[i]
      BY <2>2, <1>4
    <3>2. CASE i = first
      BY <3>1, <3>2, <1>6
    <3>3. CASE i # first
      <4>1. g[i - 1] = f[i - 1]
        BY <3>1, <3>3, <1>4
      <4>2. QED
        BY <3>1, <3>3, <1>6, <4>1
    <3>4. QED
      BY <3>2, <3>3
  <2>3. QED
    BY <2>1, <2>2
<1>8. Builds(g, lpn, first, m, last)
  BY <1>7 DEF Builds
<1>9. QED
  BY <1>2, <1>8 DEF Has, T

LEMMA RowLemma ==
    ASSUME NEW lpn, NEW off \in Nat, NEW n \in Nat, NEW first \in Nat, NEW last \in Nat, first <= last,
           first = off \div SectorsPerChunk, last = (off + n + SectorsPerChunk - 1) \div SectorsPerChunk
    PROVE  \E f : Builds(f, lpn, first, last, last) /\ rebuildPageToFtlBuf(lpn, off, n) = f[last]
<1> DEFINE row == CHOOSE f : Builds(f, lpn, first, last, last)
<1>1. Builds(row, lpn, first, last, last)
  BY RowExists
<1>2. rebuildPageToFtlBuf(lpn, off, n) = row[last]
  BY Zenon DEF rebuildPageToFtlBuf, Builds, Start
<1>3. QED
  BY <1>1, <1>2

\* A chunk of FTL_BUF that is done holds what is stored of it, unless it is amiss.
Right(buf, lpn, j) ==
    \A x \in InChunks : buf[j * SectorsPerChunk + x] = Content(map[lpn][j], dram, flash, x)
Good(p, lpn) == \A j \in p.done \ p.amiss : Right(p.buf, lpn, j)

LEMMA InPageAway ==
    ASSUME NEW i \in Int, NEW x \in InChunks, NEW j \in Chunks, i # j
    PROVE  j * SectorsPerChunk + x \notin i * SectorsPerChunk..i * SectorsPerChunk+SectorsPerChunk-1
<1>1. j \in Int /\ x \in 0..SectorsPerChunk-1
  BY Sizes DEF Chunks, InChunks
<1>2. i * SectorsPerChunk \in Int /\ j * SectorsPerChunk \in Int
  BY <1>1, Sizes
<1>3. CASE i < j
  <2>1. i * SectorsPerChunk + SectorsPerChunk <= j * SectorsPerChunk
    BY <1>1, <1>3, Sizes, TimesLemma
  <2>2. QED
    BY <2>1, <1>1, <1>2, Sizes
<1>4. CASE j < i
  <2>1. j * SectorsPerChunk + SectorsPerChunk <= i * SectorsPerChunk
    BY <1>1, <1>4, Sizes, TimesLemma
  <2>2. QED
    BY <2>1, <1>1, <1>2, Sizes
<1>5. QED
  BY <1>1, <1>3, <1>4

LEMMA InPageApart ==
    ASSUME NEW i \in Chunks, NEW x \in InChunks, NEW j \in Chunks, i # j
    PROVE  j * SectorsPerChunk + x \notin i * SectorsPerChunk..i * SectorsPerChunk+SectorsPerChunk-1
<1>1. i \in Int
  BY Sizes DEF Chunks
<1>2. QED
  BY <1>1, InPageAway

LEMMA PutChunkLemma ==
    ASSUME NEW buf \in [PageSectors -> Int], NEW i \in Chunks, NEW E, NEW from \in [E -> Int], NEW src \in Int
    PROVE  /\ PutChunk(buf, i, from, src) \in [PageSectors -> Int]
           /\ \A x \in InChunks : src + x \in E => PutChunk(buf, i, from, src)[i * SectorsPerChunk + x] = from[src + x]
           /\ \A j \in Chunks, x \in InChunks : j # i =>
                 PutChunk(buf, i, from, src)[j * SectorsPerChunk + x] = buf[j * SectorsPerChunk + x]
<1> DEFINE dst == i * SectorsPerChunk
           new == mem_copy(buf, dst, from, src, SectorsPerChunk)
<1>1. PageSectors \in SUBSET Int /\ dst \in Int /\ SectorsPerChunk \in Int
  <2>1. i \in Int
    BY Sizes DEF Chunks
  <2>2. QED
    BY <2>1, Sizes DEF PageSectors
<1>2. /\ new \in [PageSectors -> Int]
      /\ \A a \in PageSectors : a \notin dst..dst+SectorsPerChunk-1 => new[a] = buf[a]
      /\ \A a \in PageSectors : a \in dst..dst+SectorsPerChunk-1 /\ src + a - dst \in E => new[a] = from[src + a - dst]
  BY <1>1, CopyLemma
<1>3. PutChunk(buf, i, from, src) = new
  BY DEF PutChunk
<1> HIDE DEF new
<1>4. ASSUME NEW x \in InChunks, src + x \in E PROVE new[dst + x] = from[src + x]
  <2>1. dst + x \in PageSectors
    BY InPageLemma
  <2> HIDE DEF dst
  <2>2. x \in Int /\ 0 <= x /\ x < SectorsPerChunk
    BY Sizes DEF InChunks
  <2>3. src + (dst + x) - dst = src + x /\ dst + x \in dst..dst+SectorsPerChunk-1
    BY <1>1, <2>2
  <2>4. QED
    BY <1>2, <1>4, <2>1, <2>3
<1>5. ASSUME NEW j \in Chunks, NEW x \in InChunks, j # i
      PROVE  new[j * SectorsPerChunk + x] = buf[j * SectorsPerChunk + x]
  BY <1>2, <1>5, InPageLemma, InPageApart
<1>6. QED
  BY <1>2, <1>3, <1>4, <1>5

\* The same of a chunk of a flash page: the other chunks stay.
LEMMA PutOthersLemma ==
    ASSUME NEW buf \in [PageSectors -> Int], NEW i \in Chunks, NEW from \in [PageSectors -> Int], NEW src \in Int,
           NEW j \in Chunks, NEW x \in InChunks, j # i
    PROVE  PutChunk(buf, i, from, src)[j * SectorsPerChunk + x] = buf[j * SectorsPerChunk + x]
BY PutChunkLemma

\* A step that puts the chunks of G into FTL_BUF as they are stored and leaves
\* the others alone keeps it right.
LEMMA PutGoodLemma ==
    ASSUME NEW lpn, NEW p \in Progress, NEW r \in Progress, NEW G \in SUBSET Chunks, Good(p, lpn),
           r.done = p.done \cup G, r.amiss = p.amiss,
           \A j \in G : Right(r.buf, lpn, j),
           \A j \in Chunks, x \in InChunks : j \notin G => r.buf[j * SectorsPerChunk + x] = p.buf[j * SectorsPerChunk + x]
    PROVE  Good(r, lpn)
<1>1. SUFFICES ASSUME NEW j \in r.done \ r.amiss PROVE Right(r.buf, lpn, j)
  BY DEF Good
<1>2. CASE j \in G
  BY <1>2
<1>3. CASE j \notin G
  <2>1. j \in p.done \ p.amiss /\ p.done \subseteq Chunks
    BY <1>3 DEF Progress
  <2>2. Right(p.buf, lpn, j)
    BY <1>1, <2>1 DEF Good
  <2>3. QED
    BY <2>1, <2>2, <1>3 DEF Right
<1>4. QED
  BY <1>2, <1>3

\* Whatever way is chosen for chunk i, it is done, and it and the chunks before it are
\* right but for those that readOneChunkEncoded left out or ran over.
LEMMA ReadChunkLemma ==
    ASSUME TypeOK, PlacesOK(map, ctrl), NEW lpn \in Lpns, NEW last \in Nat, last <= ChunksPerPage,
           NEW i \in Chunks, i < last, NEW p \in Progress, Good(p, lpn)
    PROVE  LET r == ReadChunk(p, i, lpn, last)
           IN  r \in Progress /\ i \in r.done /\ p.done \subseteq r.done /\ Good(r, lpn)
<1> DEFINE place == map[lpn][i]
           group == InPageOf(i, lpn, last, p.done)
           with(buf) == [p EXCEPT !.buf = buf, !.done = @ \cup {i}]
           all == [p EXCEPT !.buf = readCompletePage(p.buf, lpn, group), !.done = @ \cup group]
           r == ReadChunk(p, i, lpn, last)
           result(new) == new \in Progress /\ i \in new.done /\ p.done \subseteq new.done /\ Good(new, lpn)
<1>1. /\ map \in Maps /\ dram \in [DramAddrs -> Int] /\ flash \in [Banks -> [Pages -> [PageSectors -> Int]]]
  BY DEF TypeOK, Maps
<1>2. p.buf \in [PageSectors -> Int] /\ p.done \subseteq Chunks /\ p.amiss \subseteq Chunks
  BY DEF Progress
<1>3. \A j \in Chunks : /\ map[lpn][j] \in Places
                        /\ map[lpn][j].bank \in Banks /\ map[lpn][j].page \in Pages /\ map[lpn][j].slot \in Chunks
                        /\ map[lpn][j].loc \in {"flash", "encoded"} => ~InDram(map[lpn][j]) /\ map[lpn][j] # Invalid
                        /\ InDram(map[lpn][j]) => map[lpn][j].loc \in Temps /\ map[lpn][j] # Invalid
  BY <1>1, PlaceLemma DEF Maps
<1>4. /\ i \in group /\ group \subseteq Chunks
      /\ \A j \in group : map[lpn][j].loc = place.loc
  <2>1. \A j \in i+1..last-1 : j \in Chunks
    BY Sizes DEF Chunks
  <2>2. QED
    BY <2>1 DEF InPageOf, chunksInSameFlashPage
<1> HIDE DEF group
\* A step that puts chunk i alone.
<1>5. ASSUME NEW new \in [PageSectors -> Int], Right(new, lpn, i),
             \A j \in Chunks, x \in InChunks : j # i => new[j * SectorsPerChunk + x] = p.buf[j * SectorsPerChunk + x]
      PROVE  result(with(new)) /\ with(new).amiss = p.amiss
  <2>1. /\ with(new) \in Progress /\ with(new).buf = new /\ with(new).done = p.done \cup {i}
        /\ with(new).amiss = p.amiss
    BY <1>2 DEF Progress
  <2> HIDE DEF with
  <2>2. Good(with(new), lpn)
    <3> DEFINE G == {i}
               q == with(new)
    <3>1. /\ G \in SUBSET Chunks /\ q \in Progress /\ q.done = p.done \cup G /\ q.amiss = p.amiss
          /\ \A j \in G : Right(q.buf, lpn, j)
          /\ \A j \in Chunks, x \in InChunks : j \notin G =>
                q.buf[j * SectorsPerChunk + x] = p.buf[j * SectorsPerChunk + x]
      BY <2>1, <1>5
    <3> HIDE DEF G, q
    <3>2. Good(q, lpn)
      BY <3>1, PutGoodLemma
    <3>3. QED
      BY <3>2 DEF q
  <2>3. QED
    BY <2>1, <2>2
\* The chunks of one page at once.
<1>6. ASSUME place.loc \in {"flash", "encoded"} PROVE result(all)
  <2> DEFINE new == readCompletePage(p.buf, lpn, group)
  <2>1. \A j \in group : /\ j \in Chunks /\ map[lpn][j].loc \in {"flash", "encoded"}
                         /\ FlashPage(map[lpn][j]) \in [PageSectors -> Int]
    BY <1>1, <1>3, <1>4, <1>6 DEF FlashPage
  <2>2. \A j \in Chunks, x \in InChunks :
           /\ j * SectorsPerChunk + x \in PageSectors
           /\ new[j * SectorsPerChunk + x] =
                 IF j \in group THEN FlashPage(map[lpn][j])[map[lpn][j].slot * SectorsPerChunk + x]
                 ELSE p.buf[j * SectorsPerChunk + x]
    BY InPageLemma DEF readCompletePage
  <2>3. \A j \in group, x \in InChunks :
           FlashPage(map[lpn][j])[map[lpn][j].slot * SectorsPerChunk + x] \in Int
    BY <1>3, <1>4, <2>1, InPageLemma
  <2>4. new \in [PageSectors -> Int]
    <3>1. new = [s \in PageSectors |-> new[s]]
      BY DEF readCompletePage
    <3>2. ASSUME NEW s \in PageSectors PROVE new[s] \in Int
      <4>1. PICK j \in Chunks, x \in InChunks : s = j * SectorsPerChunk + x
        BY InPageParts
      <4> HIDE DEF new
      <4>2. QED
        BY <4>1, <2>2, <2>3, <1>2
    <3> HIDE DEF new
    <3>3. QED
      BY <3>1, <3>2
  <2> HIDE DEF new
  <2>5. \A j \in group : Right(new, lpn, j)
    <3>1. SUFFICES ASSUME NEW j \in group, NEW x \in InChunks
                   PROVE  new[j * SectorsPerChunk + x] = Content(map[lpn][j], dram, flash, x)
      BY DEF Right
    <3>2. Content(map[lpn][j], dram, flash, x) = FlashPage(map[lpn][j])[map[lpn][j].slot * SectorsPerChunk + x]
      BY <2>1, <1>3 DEF Content, FlashPage
    <3>3. QED
      BY <3>2, <2>1, <2>2
  <2>6. all = [p EXCEPT !.buf = new, !.done = @ \cup group]
    BY DEF new
  <2> HIDE DEF all
  <2>7. all \in Progress /\ all.buf = new /\ all.done = p.done \cup group /\ all.amiss = p.amiss
    BY <2>4, <2>6, <1>2, <1>4 DEF Progress
  <2>8. Good(all, lpn)
    BY <2>2, <2>5, <2>7, <1>4, PutGoodLemma
  <2>9. QED
    BY <2>7, <2>8, <1>4
\* One chunk of a page.
<1>7. ASSUME place.loc \in {"flash", "encoded"}
      PROVE  LET new == readOneChunk(p.buf, lpn, i) IN result(with(new)) /\ with(new).amiss = p.amiss
  <2> DEFINE src == place.slot * SectorsPerChunk
             new == PutChunk(p.buf, i, FlashPage(place), src)
  <2>1. /\ FlashPage(place) \in [PageSectors -> Int] /\ src \in Int
        /\ \A x \in InChunks : src + x \in PageSectors
    <3>1. place.bank \in Banks /\ place.page \in Pages /\ place.slot \in Chunks /\ place.slot \in Int
      BY <1>3, Sizes DEF Chunks
    <3>2. FlashPage(place) \in [PageSectors -> Int]
      BY <3>1, <1>1 DEF FlashPage
    <3>3. src \in Int
      BY <3>1, Sizes
    <3>4. QED
      BY <3>1, <3>2, <3>3, InPageLemma
  <2> HIDE DEF src
  <2> DEFINE from == FlashPage(place)
             buf == p.buf
  <2>2. /\ buf \in [PageSectors -> Int] /\ from \in [PageSectors -> Int]
        /\ new = PutChunk(buf, i, from, src) /\ from = FlashPage(place) /\ buf = p.buf
    BY <2>1, <1>2
  <2> HIDE DEF from, buf, new
  <2>3. /\ new \in [PageSectors -> Int]
        /\ \A x \in InChunks : new[i * SectorsPerChunk + x] = FlashPage(place)[src + x]
        /\ \A j \in Chunks, x \in InChunks : j # i => new[j * SectorsPerChunk + x] = p.buf[j * SectorsPerChunk + x]
    <3>1. PutChunk(buf, i, from, src) \in [PageSectors -> Int]
      BY <2>1, <2>2, PutChunkLemma
    <3>2. \A x \in InChunks : src + x \in PageSectors =>
             PutChunk(buf, i, from, src)[i * SectorsPerChunk + x] = from[src + x]
      BY <2>1, <2>2, PutChunkLemma
    <3>3. \A j \in Chunks, x \in InChunks : j # i =>
             PutChunk(buf, i, from, src)[j * SectorsPerChunk + x] = buf[j * SectorsPerChunk + x]
      BY <2>1, <2>2, PutOthersLemma
    <3>4. QED
      BY <3>1, <3>2, <3>3, <2>1, <2>2
  <2>4. new = readOneChunk(p.buf, lpn, i)
    BY DEF readOneChunk, src, new
  <2> HIDE DEF new
  <2>5. Right(new, lpn, i)
    <3>1. \A x \in InChunks : Content(place, dram, flash, x) = FlashPage(place)[src + x]
      BY <1>3, <1>7 DEF Content, FlashPage, src
    <3>2. QED
      BY <3>1, <2>3 DEF Right
  <2> HIDE DEF result, with
  <2>6. result(with(new)) /\ with(new).amiss = p.amiss
    BY <2>3, <2>5, <1>5
  <2>7. QED
    BY <2>4, <2>6
<1>8. CASE i \in p.done
  <2>1. r = p
    BY <1>8 DEF ReadChunk
  <2>2. QED
    BY <2>1, <1>8
<1>9. CASE i \notin p.done /\ place = Invalid
  <2> DEFINE new == mem_set(p.buf, i * SectorsPerChunk, SectorsPerChunk)
  <2>1. r = with(new)
    <3>1. ~InDram(place) /\ place.loc # "flash" /\ place.loc # "encoded"
      BY <1>9, PlaceLemma DEF Invalid, Place
    <3>2. QED
      BY <3>1, <1>9 DEF ReadChunk
  <2>2. PageSectors \in SUBSET Int /\ i * SectorsPerChunk \in Int /\ SectorsPerChunk \in Int
    <3>1. i \in Int
      BY Sizes DEF Chunks
    <3>2. QED
      BY <3>1, Sizes DEF PageSectors
  <2>3. /\ new \in [PageSectors -> Int]
        /\ \A a \in PageSectors : a \notin i * SectorsPerChunk..i * SectorsPerChunk+SectorsPerChunk-1 => new[a] = p.buf[a]
        /\ \A a \in PageSectors : a \in i * SectorsPerChunk..i * SectorsPerChunk+SectorsPerChunk-1 => new[a] = Ones
    BY <2>2, <1>2, SetLemma
  <2> HIDE DEF new
  <2>4. Right(new, lpn, i)
    <3>1. \A x \in InChunks : i * SectorsPerChunk + x \in i * SectorsPerChunk..i * SectorsPerChunk+SectorsPerChunk-1
      BY <2>2 DEF InChunks
    <3>2. \A x \in InChunks : new[i * SectorsPerChunk + x] = Ones
      BY <3>1, <2>3, InPageLemma
    <3>3. QED
      BY <3>2, <1>9 DEF Right, Content
  <2>5. \A j \in Chunks, x \in InChunks : j # i => new[j * SectorsPerChunk + x] = p.buf[j * SectorsPerChunk + x]
    BY <2>3, InPageLemma, InPageApart
  <2> HIDE DEF result, with, r
  <2>6. result(with(new))
    BY <2>3, <2>4, <2>5, <1>5
  <2>7. QED
    BY <2>1, <2>6 DEF result, r
<1>10. CASE i \notin p.done /\ InDram(place)
  <2> DEFINE src == DramAddr(place, 0)
             new == PutChunk(p.buf, i, dram, src)
  <2>1. r = with(new)
    BY <1>3, <1>10 DEF ReadChunk
  <2>2. /\ src \in Int
        /\ \A x \in InChunks : src + x = AddrOf(place.loc, place.bank, place.slot, x) /\ src + x \in DramAddrs
    <3>1. place.loc \in Temps /\ place.bank \in Banks /\ place.slot \in Chunks /\ 0 \in InChunks
      BY <1>3, <1>10, Sizes DEF InChunks
    <3>2. \A x \in InChunks : AddrOf(place.loc, place.bank, place.slot, x) \in DramAddrs
      BY <3>1, AddrLemma
    <3>3. src = AddrOf(place.loc, place.bank, place.slot, 0)
      BY Sizes DEF DramAddr, AddrOf
    <3>4. src \in Int
      BY <3>1, <3>2, <3>3 DEF DramAddrs
    <3>5. place.slot * SectorsPerChunk \in Int /\ LogBuf(place.loc, place.bank) \in Int
      <4>1. place.slot \in Int
        BY <3>1, Sizes DEF Chunks
      <4>2. QED
        BY <3>1, <4>1, AddrLemma, Sizes
    <3>6. \A x \in InChunks : src + x = AddrOf(place.loc, place.bank, place.slot, x)
      BY <3>3, <3>5 DEF AddrOf, InChunks
    <3>7. QED
      BY <3>2, <3>4, <3>6
  <2> HIDE DEF src
  <2>3. /\ new \in [PageSectors -> Int]
        /\ \A x \in InChunks : new[i * SectorsPerChunk + x] = dram[src + x]
        /\ \A j \in Chunks, x \in InChunks : j # i => new[j * SectorsPerChunk + x] = p.buf[j * SectorsPerChunk + x]
    <3> DEFINE buf == p.buf
    <3>1. buf \in [PageSectors -> Int]
      BY <1>2
    <3> HIDE DEF buf
    <3>2. PutChunk(buf, i, dram, src) \in [PageSectors -> Int]
      BY <3>1, <2>2, <1>1, PutChunkLemma
    <3>3. \A x \in InChunks : src + x \in DramAddrs =>
             PutChunk(buf, i, dram, src)[i * SectorsPerChunk + x] = dram[src + x]
      BY <3>1, <2>2, <1>1, PutChunkLemma
    <3>4. \A j \in Chunks, x \in InChunks : j # i =>
             PutChunk(buf, i, dram, src)[j * SectorsPerChunk + x] = buf[j * SectorsPerChunk + x]
      BY <3>1, <2>2, <1>1, PutChunkLemma
    <3>5. QED
      BY <3>2, <3>3, <3>4, <2>2 DEF buf
  <2> HIDE DEF new
  <2>4. Right(new, lpn, i)
    BY <2>2, <2>3, <1>3, <1>10 DEF Right, Content
  <2> HIDE DEF result, with, r
  <2>5. result(with(new))
    BY <2>3, <2>4, <1>5
  <2>6. QED
    BY <2>1, <2>5 DEF result, r
<1>11. CASE i \notin p.done /\ place.loc = "flash"
  <2>1. ~InDram(place) /\ place # Invalid /\ place.loc # "encoded"
    BY <1>3, <1>11
  <2>2. r = IF Cardinality(group) > 2 THEN all ELSE with(readOneChunk(p.buf, lpn, i))
    BY <2>1, <1>11 DEF ReadChunk, group
  <2> HIDE DEF result, with, all, r
  <2>3. result(r)
    BY <2>2, <1>6, <1>7, <1>11
  <2>4. QED
    BY <2>3 DEF result, r
<1>12. CASE i \notin p.done /\ place.loc = "encoded"
  <2> DEFINE new == readOneChunkEncoded(p.buf, lpn, i)
             one == [with(new) EXCEPT !.amiss = @ \cup Spoiled(i, place.slot)]
  <2>1. ~InDram(place) /\ place # Invalid /\ place.loc # "flash"
    BY <1>3, <1>12
  <2>2. r = IF Cardinality(group) > 1 THEN all ELSE one
    BY <2>1, <1>12 DEF ReadChunk, group
  <2>3. CASE place.slot = 0
    <3>1. new = readOneChunk(p.buf, lpn, i)
      BY <2>3 DEF readOneChunkEncoded
    <3> HIDE DEF new
    <3>2. result(with(new)) /\ with(new).amiss = p.amiss
      BY <3>1, <1>7, <1>12
    <3>3. with(new) \in Progress
      BY <3>2
    <3> HIDE DEF with
    <3>4. one = with(new)
      BY <2>3, <3>3 DEF Progress, Spoiled
    <3> HIDE DEF result, all, r, one
    <3>5. result(r)
      BY <2>2, <3>2, <3>4, <1>6, <1>12
    <3>6. QED
      BY <3>5 DEF result, r
  <2>4. CASE place.slot # 0
    <3> DEFINE to == i - place.slot
               dst == to * SectorsPerChunk
               buf == p.buf
               empty == [s \in {} |-> Junk]
    <3>1. to \in Int /\ dst \in Int /\ PageSectors \in SUBSET Int /\ SectorsPerChunk \in Int
      <4>1. to \in Int
        BY <1>3, Sizes DEF Chunks
      <4> HIDE DEF to
      <4>2. QED
        BY <4>1, Sizes DEF PageSectors
    <3>2. buf \in [PageSectors -> Int] /\ empty \in [{} -> Int] /\ 0 \in Int
      BY <1>2
    <3>3. new = mem_copy(buf, dst, empty, 0, SectorsPerChunk)
      BY <2>4 DEF readOneChunkEncoded
    <3>4. Spoiled(i, place.slot) = {i, to} \cap Chunks
      BY <2>4 DEF Spoiled
    <3>5. \A j \in Chunks, x \in InChunks : j # to => j * SectorsPerChunk + x \notin dst..dst+SectorsPerChunk-1
      <4> HIDE DEF to
      <4>1. QED
        BY <3>1, InPageAway
    <3> HIDE DEF empty, dst, buf, new, to
    <3>6. /\ new \in [PageSectors -> Int]
          /\ \A s \in PageSectors : s \notin dst..dst+SectorsPerChunk-1 => new[s] = buf[s]
      <4>1. mem_copy(buf, dst, empty, 0, SectorsPerChunk) \in [PageSectors -> Int]
        BY <3>1, <3>2, CopyLemma
      <4>2. \A s \in PageSectors : s \notin dst..dst+SectorsPerChunk-1 =>
               mem_copy(buf, dst, empty, 0, SectorsPerChunk)[s] = buf[s]
        BY <3>1, <3>2 DEF mem_copy
      <4>3. QED
        BY <4>1, <4>2, <3>3
    <3>7. \A j \in Chunks, x \in InChunks : j # to => new[j * SectorsPerChunk + x] = p.buf[j * SectorsPerChunk + x]
      BY <3>5, <3>6, InPageLemma DEF buf
    <3>8. /\ one \in Progress /\ one.buf = new /\ one.amiss = p.amiss \cup ({i, to} \cap Chunks)
          /\ one.done = p.done \cup {i}
      BY <3>4, <3>6, <1>2 DEF Progress
    <3> HIDE DEF one
    <3>9. Good(one, lpn)
      <4>1. SUFFICES ASSUME NEW j \in one.done \ one.amiss PROVE Right(one.buf, lpn, j)
        BY DEF Good
      <4>2. j \in p.done \ p.amiss /\ j \in Chunks /\ j # to
        BY <3>8, <1>2
      <4>3. Right(p.buf, lpn, j)
        BY <4>2 DEF Good
      <4>4. QED
        BY <4>2, <4>3, <3>7, <3>8 DEF Right
    <3>10. result(one)
      BY <3>8, <3>9
    <3> HIDE DEF result, all, r
    <3>11. result(r)
      BY <2>2, <3>10, <1>6, <1>12
    <3>12. QED
      BY <3>11 DEF result, r
  <2>5. QED
    BY <2>3, <2>4
<1>13. place = Invalid \/ InDram(place) \/ place.loc \in {"flash", "encoded"}
  BY DEF PlacesOK
<1>14. QED
  BY <1>8, <1>9, <1>10, <1>11, <1>12, <1>13

\* A read of n sectors from off on takes the chunks that the code counts, and
\* all of its sectors lie in them.
LEMMA SpanLemma ==
    ASSUME NEW off \in Nat, NEW n \in Nat, n > 0, off + n <= SectorsPerPage,
           NEW first, NEW last,
           first = off \div SectorsPerChunk, last = (off + n + SectorsPerChunk - 1) \div SectorsPerChunk
    PROVE  /\ first \in Nat /\ last \in Nat /\ first <= last /\ last <= ChunksPerPage
           /\ \A y \in off..off+n-1 : y \in PageSectors /\ y \div SectorsPerChunk \in first..last-1
<1> DEFINE end == off + n + SectorsPerChunk - 1
           S == SectorsPerChunk
<1>1. S \in Nat /\ S > 0 /\ end \in Nat /\ SectorsPerPage = ChunksPerPage * S /\ ChunksPerPage \in Nat
  BY Sizes
<1>2. /\ first \in Nat /\ first * S <= off
      /\ last \in Nat /\ last * S <= end /\ end < last * S + S
  <2>1. /\ off \div S \in Nat /\ off % S \in 0..S-1 /\ off = (off \div S) * S + (off % S)
    BY <1>1, DivLemma
  <2> HIDE DEF end
  <2>2. /\ end \div S \in Nat /\ end % S \in 0..S-1 /\ end = (end \div S) * S + (end % S)
    BY <1>1, DivLemma
  <2>3. first = off \div S /\ last = end \div S
    BY DEF end
  <2> HIDE DEF S
  <2>4. first \in Nat /\ off % S \in Nat /\ off = first * S + (off % S)
    BY <2>1, <2>3
  <2>5. last \in Nat /\ end % S \in 0..S-1 /\ end = last * S + (end % S)
    BY <2>2, <2>3
  <2>6. first * S \in Nat /\ last * S \in Nat
    BY <2>4, <2>5, <1>1
  <2> DEFINE a == first * S
             b == last * S
             r == off % S
             t == end % S
  <2>7. a \in Nat /\ b \in Nat /\ r \in Nat /\ t \in 0..S-1 /\ off = a + r /\ end = b + t
    BY <2>4, <2>5, <2>6
  <2> HIDE DEF a, b, r, t
  <2>8. a <= off /\ b <= end /\ end < b + S
    BY <2>7, <1>1
  <2>9. QED
    BY <2>4, <2>5, <2>8 DEF a, b
<1> HIDE DEF S
<1>3. last <= ChunksPerPage
  <2>1. SUFFICES ASSUME ChunksPerPage < last PROVE FALSE
    BY <1>1, <1>2
  <2>2. ChunksPerPage * S + S <= last * S /\ last * S \in Int /\ ChunksPerPage * S \in Int
    BY <2>1, <1>1, <1>2, TimesLemma
  <2> DEFINE b == last * S
             all == ChunksPerPage * S
  <2>3. b \in Int /\ all \in Int /\ all + S <= b /\ b <= end /\ off + n <= all
    BY <2>2, <1>1, <1>2
  <2> HIDE DEF b, all
  <2>4. QED
    BY <2>3, <1>1 DEF S
<1>4. ASSUME NEW y \in off..off+n-1
      PROVE  y \in PageSectors /\ y \div S \in first..last-1
  <2>1. y \in Nat /\ y < SectorsPerPage /\ off <= y /\ y < off + n
    BY Sizes
  <2>2. y \in PageSectors
    BY <2>1, Sizes DEF PageSectors
  <2> DEFINE c == y \div S
             x == y % S
  <2>3. c \in Nat /\ x \in 0..S-1 /\ y = c * S + x
    BY <2>1, <1>1, DivLemma
  <2> HIDE DEF c, x
  <2>4. first <= c
    <3>1. SUFFICES ASSUME c < first PROVE FALSE
      BY <2>3, <1>2
    <3> DEFINE a == first * S
               d == c * S
    <3>2. d + S <= a /\ d \in Int /\ a \in Int
      BY <3>1, <2>3, <1>1, <1>2, TimesLemma
    <3>3. a <= off /\ y = d + x
      BY <1>2, <2>3
    <3> HIDE DEF a, d
    <3>4. QED
      BY <3>2, <3>3, <2>1, <2>3, <1>1
  <2>5. c < last
    <3>1. SUFFICES ASSUME last <= c PROVE FALSE
      BY <2>3, <1>2
    <3> DEFINE b == last * S
               d == c * S
    <3>2. b \in Int /\ d \in Int /\ b <= d
      <4>1. CASE last = c
        BY <4>1, <1>1, <1>2, <2>3
      <4>2. CASE last < c
        <5>1. b + S <= d /\ b \in Int /\ d \in Int
          BY <4>2, <1>1, <1>2, <2>3, TimesLemma
        <5> HIDE DEF b, d
        <5>2. QED
          BY <5>1, <1>1
      <4>3. QED
        BY <3>1, <4>1, <4>2, <1>2, <2>3
    <3>3. end < b + S /\ y = d + x
      BY <1>2, <2>3
    <3> HIDE DEF b, d
    <3>4. QED
      BY <3>2, <3>3, <2>1, <2>3, <1>1 DEF S
  <2>6. c \in first..last-1
    BY <2>3, <2>4, <2>5, <1>2
  <2>7. QED
    BY <2>2, <2>6 DEF c
<1>5. first <= last
  <2>1. off \in off..off+n-1
    OBVIOUS
  <2>2. off \div S \in first..last-1
    BY <2>1, <1>4
  <2>3. QED
    BY <2>2, <1>2 DEF S
<1>6. QED
  BY <1>2, <1>3, <1>4, <1>5 DEF S

\* In the row every result is right, and has the chunks before it done: there
\* is no first one that is not.
LEMMA RowGood ==
    ASSUME TypeOK, PlacesOK(map, ctrl), NEW lpn \in Lpns,
           NEW first \in Nat, NEW last \in Nat, first <= last, last <= ChunksPerPage,
           NEW f, Builds(f, lpn, first, last, last)
    PROVE  f[last] \in Progress /\ Good(f[last], lpn) /\ first..last-1 \subseteq f[last].done
<1> DEFINE Fine(k) == f[k] \in Progress /\ Good(f[k], lpn) /\ first..k-1 \subseteq f[k].done
           T == {k \in 0..last : k >= first /\ ~Fine(k)}
<1>1. \A k \in first..last : f[k] = IF k = first THEN Start ELSE ReadChunk(f[k - 1], k - 1, lpn, last)
  BY DEF Builds
<1>2. Fine(first)
  <2>1. f[first] = Start
    BY <1>1
  <2>2. Start \in Progress /\ Start.done = {}
    BY DEF Start, Progress, Junk
  <2>3. Good(Start, lpn) /\ first..first-1 = {}
    BY <2>2 DEF Good
  <2>4. QED
    BY <2>1, <2>2, <2>3
<1>3. SUFFICES ASSUME T # {} PROVE FALSE
  <2>1. last \in 0..last
    OBVIOUS
  <2>2. QED
    BY <1>3, <2>1
<1>4. PICK m \in T : \A k \in T : m <= k
  BY <1>3, LeastElement
<1>5. m \in Nat /\ m > first /\ m <= last /\ ~Fine(m)
  BY <1>2, <1>4
<1>6. Fine(m - 1)
  <2>1. m - 1 \in 0..last /\ m - 1 >= first /\ ~ (m <= m - 1)
    BY <1>5
  <2> HIDE DEF Fine
  <2>2. QED
    BY <1>4, <2>1
<1> DEFINE i == m - 1
           p == f[i]
<1>7. /\ i \in Chunks /\ i < last /\ i \in Nat /\ m = i + 1
      /\ p \in Progress /\ Good(p, lpn) /\ first..i-1 \subseteq p.done /\ f[m] = ReadChunk(p, i, lpn, last)
  BY <1>1, <1>5, <1>6, Sizes DEF Chunks
<1> HIDE DEF i, p, T
<1>8. f[m] \in Progress /\ i \in f[m].done /\ p.done \subseteq f[m].done /\ Good(f[m], lpn)
  BY <1>7, ReadChunkLemma
<1>9. first..m-1 \subseteq f[m].done
  <2>1. \A k \in first..m-1 : k = i \/ k \in first..i-1
    BY <1>7
  <2>2. QED
    BY <2>1, <1>7, <1>8
<1>10. QED
  BY <1>5, <1>8, <1>9

\* What is put together for a read holds, for each of its sectors, what is
\* stored there, unless its chunk is amiss.
LEMMA RebuildLemma ==
    ASSUME TypeOK, PlacesOK(map, ctrl), NEW lpn \in Lpns,
           NEW off \in Nat, NEW n \in Nat, n > 0, off + n <= SectorsPerPage
    PROVE  /\ rebuildPageToFtlBuf(lpn, off, n).buf \in [PageSectors -> Int]
           /\ \A y \in off..off+n-1 :
                 LET s == lpn * SectorsPerPage + y
                 IN  /\ s \in Sectors
                     /\ \/ (s % SectorsPerPage) \div SectorsPerChunk \in rebuildPageToFtlBuf(lpn, off, n).amiss
                        \/ rebuildPageToFtlBuf(lpn, off, n).buf[y] = Stored(s)
<1> DEFINE first == off \div SectorsPerChunk
           last == (off + n + SectorsPerChunk - 1) \div SectorsPerChunk
           built == rebuildPageToFtlBuf(lpn, off, n)
<1>1. /\ first \in Nat /\ last \in Nat /\ first <= last /\ last <= ChunksPerPage
      /\ \A y \in off..off+n-1 : y \in PageSectors /\ y \div SectorsPerChunk \in first..last-1
  BY SpanLemma
<1>2. PICK f : Builds(f, lpn, first, last, last) /\ built = f[last]
  BY <1>1, RowLemma
<1> HIDE DEF first, last, built
<1>3. built \in Progress /\ Good(built, lpn) /\ first..last-1 \subseteq built.done
  BY <1>1, <1>2, RowGood
<1>4. built.buf \in [PageSectors -> Int]
  BY <1>3 DEF Progress
<1>5. ASSUME NEW y \in off..off+n-1
      PROVE  LET s == lpn * SectorsPerPage + y
             IN  /\ s \in Sectors
                 /\ (s % SectorsPerPage) \div SectorsPerChunk \in built.amiss \/ built.buf[y] = Stored(s)
  <2> DEFINE c == y \div SectorsPerChunk
             x == y % SectorsPerChunk
             s == lpn * SectorsPerPage + y
  <2>1. y \in PageSectors /\ c \in first..last-1
    BY <1>1
  <2>2. c \in Chunks /\ x \in InChunks /\ y = c * SectorsPerChunk + x
    BY <2>1, InPageParts
  <2> HIDE DEF c, x
  <2>3. s = SectorOf(lpn, c, x)
    BY <2>2, Sizes DEF SectorOf, Lpns, Chunks, InChunks
  <2>4. map \in Maps
    BY DEF TypeOK, Maps
  <2> HIDE DEF s
  <2>5. s \in Sectors /\ (s % SectorsPerPage) \div SectorsPerChunk = c /\ Stored(s) = Content(map[lpn][c], dram, flash, x)
    BY <2>2, <2>3, <2>4, StoredLemma, ChunkLemma
  <2>6. ASSUME c \notin built.amiss PROVE built.buf[y] = Content(map[lpn][c], dram, flash, x)
    <3>1. Right(built.buf, lpn, c)
      BY <2>1, <2>6, <1>3 DEF Good
    <3>2. QED
      BY <2>2, <3>1 DEF Right
  <2>7. QED
    BY <2>5, <2>6 DEF s
<1>6. QED
  BY <1>4, <1>5 DEF built

\* Copying a part of a page to where it is in another.
LEMMA PageCopyLemma ==
    ASSUME NEW buf \in [PageSectors -> Int], NEW from \in [PageSectors -> Int],
           NEW off \in Nat, NEW n \in Nat, off + n <= SectorsPerPage
    PROVE  /\ mem_copy(buf, off, from, off, n) \in [PageSectors -> Int]
           /\ \A y \in off..off+n-1 : mem_copy(buf, off, from, off, n)[y] = from[y]
<1>1. PageSectors \in SUBSET Int /\ \A y \in off..off+n-1 : y \in PageSectors /\ off + y - off = y
  BY Sizes DEF PageSectors
<1>2. QED
  BY <1>1 DEF mem_copy, Junk

LEMMA readFromLogBlkStep ==
    ASSUME Inv, readFromLogBlk
    PROVE  Inv'
<1> DEFINE n == IF req.off + req.rem < SectorsPerPage THEN req.rem ELSE SectorsPerPage - req.off
           built == rebuildPageToFtlBuf(req.lpn, req.off, n)
           filled == [rbuf EXCEPT ![g_ftl_read_buf_id] = mem_copy(@, req.off, built.buf, req.off, n)]
           Empty == [s \in PageSectors |-> Junk]
<1>1. /\ req.op = "read" /\ req.rem > 0
      /\ rbuf' = [filled EXCEPT ![hostRd] = Empty]
      /\ g_ftl_read_buf_id' = (g_ftl_read_buf_id + 1) % NumRdBuffers
      /\ hostRd' = (hostRd + 1) % NumRdBuffers
      /\ answer' = [s \in DOMAIN answer \cup Here..Here+n-1 |->
                        IF s >= Here THEN filled[hostRd][s - Here + req.off] ELSE answer[s]]
      /\ misread' = misread \cup {s \in Here..Here+n-1 : (s % SectorsPerPage) \div SectorsPerChunk \in built.amiss}
      /\ req' = [req EXCEPT !.off = 0, !.rem = @ - n, !.lpn = @ + 1]
      /\ UNCHANGED <<storage, ring, writes>>
  BY DEF readFromLogBlk, Here
<1>2. TypeOK /\ RingsOK /\ RequestOK /\ PlacesOK(map, ctrl) /\ NewestStored /\ ReadsNewest
  BY DEF Inv
<1>3. req \in RequestType /\ req.off \in Nat /\ req.off < SectorsPerPage /\ req.rem \in Nat /\ req.lpn \in Nat
  BY <1>2, Sizes DEF TypeOK, RequestType, PageSectors
<1>4. /\ n \in Nat /\ n > 0 /\ n <= req.rem /\ req.off + n <= SectorsPerPage
      /\ n = req.rem \/ req.off + n = SectorsPerPage
  BY <1>1, <1>3, Sizes
<1> DEFINE page == req.lpn * SectorsPerPage
<1>5. page \in Nat /\ Here = page + req.off /\ Here + req.rem <= NumSectors
  BY <1>1, <1>2, <1>3, Sizes DEF Here, RequestOK
<1>6. req.lpn \in Lpns
  <2>1. SUFFICES ASSUME NumLpns <= req.lpn PROVE FALSE
    BY <1>3, Sizes DEF Lpns
  <2>2. NumSectors <= page
    <3>1. CASE NumLpns = req.lpn
      BY <3>1, <1>5, Sizes
    <3>2. CASE NumLpns < req.lpn
      <4>1. NumLpns * SectorsPerPage + SectorsPerPage <= page
        BY <3>2, <1>3, Sizes, TimesLemma
      <4> HIDE DEF page
      <4>2. QED
        BY <4>1, <1>5, Sizes
    <3>3. QED
      BY <3>1, <3>2, <2>1, <1>3, Sizes
  <2> HIDE DEF page
  <2>3. QED
    BY <2>2, <1>1, <1>3, <1>5, Sizes
<1>7. (req.lpn + 1) * SectorsPerPage = page + SectorsPerPage
  BY <1>3, Sizes
<1> HIDE DEF n, page
<1>8. /\ built.buf \in [PageSectors -> Int]
      /\ \A y \in req.off..req.off+n-1 :
            /\ page + y \in Sectors
            /\ ((page + y) % SectorsPerPage) \div SectorsPerChunk \in built.amiss \/ built.buf[y] = Stored(page + y)
  BY <1>2, <1>3, <1>4, <1>6, RebuildLemma DEF page
<1> HIDE DEF built
<1>9. hostRd \in 0..NumRdBuffers-1 /\ hostRd = g_ftl_read_buf_id /\ rbuf \in [0..NumRdBuffers-1 -> [PageSectors -> Int]]
  BY <1>2 DEF TypeOK, RingsOK
\* What the host takes from the read buffer.
<1> DEFINE got == mem_copy(rbuf[hostRd], req.off, built.buf, req.off, n)
<1>10. /\ got \in [PageSectors -> Int]
       /\ \A y \in req.off..req.off+n-1 : got[y] = built.buf[y]
  <2>1. rbuf[hostRd] \in [PageSectors -> Int]
    BY <1>9
  <2>2. built.buf \in [PageSectors -> Int]
    BY <1>8
  <2>3. req.off \in Nat /\ n \in Nat /\ req.off + n <= SectorsPerPage
    BY <1>3, <1>4
  <2> HIDE DEF filled
  <2>4. QED
    BY <2>1, <2>2, <2>3, PageCopyLemma
<1>11. filled[hostRd] = got /\ filled = [rbuf EXCEPT ![hostRd] = got]
  BY <1>9
<1> HIDE DEF filled, got
<1>12. ASSUME NEW s \in Here..Here+n-1
       PROVE  /\ s \in Sectors /\ filled[hostRd][s - Here + req.off] \in Int
              /\ s \in misread' \/ filled[hostRd][s - Here + req.off] = Stored(s)
  <2> DEFINE y == s - Here + req.off
  <2>1. y \in req.off..req.off+n-1 /\ page + y = s
    BY <1>3, <1>4, <1>5
  <2> HIDE DEF y
  <2>2. (s % SectorsPerPage) \div SectorsPerChunk \in built.amiss => s \in misread'
    BY <1>1, <1>12
  <2>3. y \in PageSectors
    <3>1. y \in Int /\ 0 <= y /\ y < SectorsPerPage
      BY <2>1, <1>3, <1>4, Sizes
    <3>2. QED
      BY <3>1, Sizes DEF PageSectors
  <2>4. s \in Sectors /\ filled[hostRd][y] \in Int /\ (s \in misread' \/ filled[hostRd][y] = Stored(s))
    BY <2>1, <2>2, <2>3, <1>8, <1>10, <1>11
  <2>5. QED
    BY <2>4 DEF y
<1>13. DOMAIN answer \subseteq Sectors /\ DOMAIN answer \subseteq 0..Here-1
  BY <1>1, <1>2 DEF TypeOK, RequestOK
<1>14. /\ req'.op = "read" /\ req'.off = 0 /\ req'.rem = req.rem - n /\ req'.lpn = req.lpn + 1
       /\ req' \in RequestType
  <2>1. req.rem - n \in 0..NumSectors /\ req.lpn + 1 \in 0..NumLpns /\ 0 \in PageSectors
    BY <1>3, <1>4, <1>6, Sizes DEF RequestType, Lpns, PageSectors
  <2>2. QED
    BY <2>1, <1>1, <1>3 DEF RequestType
<1>15. Here' = page + SectorsPerPage /\ Here + n <= Here' /\ Here' + req'.rem <= NumSectors
  <2>1. Here' = page + SectorsPerPage
    <3>1. Here' = (req.lpn + 1) * SectorsPerPage + 0
      BY <1>14 DEF Here
    <3>2. QED
      BY <3>1, <1>5, <1>7, Sizes
  <2>2. page + SectorsPerPage <= NumSectors
    <3>1. CASE req.lpn + 1 = NumLpns
      BY <3>1, <1>7, Sizes
    <3>2. CASE req.lpn + 1 < NumLpns
      <4>1. (req.lpn + 1) * SectorsPerPage + SectorsPerPage <= NumLpns * SectorsPerPage
        BY <3>2, <1>3, Sizes, TimesLemma
      <4>2. QED
        BY <4>1, <1>5, <1>7, Sizes
    <3>3. QED
      BY <3>1, <3>2, <1>6, Sizes DEF Lpns
  <2>3. QED
    BY <2>1, <2>2, <1>3, <1>4, <1>5, <1>14, Sizes
<1>16. misread' \subseteq Sectors /\ misread \subseteq misread'
  <2>1. misread \subseteq Sectors
    BY <1>2 DEF TypeOK
  <2>2. QED
    BY <2>1, <1>1, <1>12
<1>17. /\ DOMAIN answer' \subseteq Sectors /\ DOMAIN answer' \subseteq 0..Here'-1
       /\ \A s \in DOMAIN answer' :
             answer'[s] \in Int /\ (s \in lost \/ s \in misread' \/ answer'[s] = disk[s])
  <2> DEFINE D == DOMAIN answer \cup Here..Here+n-1
  <2>1. answer' = [s \in D |-> IF s >= Here THEN filled[hostRd][s - Here + req.off] ELSE answer[s]]
    BY <1>1
  <2>2. DOMAIN answer' = D
    BY <2>1
  <2>3. D \subseteq Sectors /\ D \subseteq 0..Here'-1
    <3>1. Here..Here+n-1 \subseteq Sectors
      BY <1>12
    <3>2. Here..Here+n-1 \subseteq 0..Here'-1 /\ 0..Here-1 \subseteq 0..Here'-1
      BY <1>3, <1>4, <1>5, <1>15, Sizes
    <3>3. QED
      BY <3>1, <3>2, <1>13
  <2>4. ASSUME NEW s \in D
        PROVE  answer'[s] \in Int /\ (s \in lost \/ s \in misread' \/ answer'[s] = disk[s])
    <3>1. CASE s \in DOMAIN answer
      <4>1. ~(s >= Here)
        BY <3>1, <1>3, <1>5, <1>13
      <4>2. answer'[s] = answer[s]
        BY <2>1, <4>1
      <4>3. QED
        BY <4>2, <3>1, <1>2, <1>16 DEF TypeOK, ReadsNewest
    <3>2. CASE s \in Here..Here+n-1
      <4>1. answer'[s] = filled[hostRd][s - Here + req.off]
        BY <2>1, <3>2, <1>3, <1>4, <1>5
      <4>2. /\ s \in Sectors /\ filled[hostRd][s - Here + req.off] \in Int
            /\ s \in misread' \/ filled[hostRd][s - Here + req.off] = Stored(s)
        BY <3>2, <1>12
      <4>3. s \in lost \/ Stored(s) = disk[s]
        BY <4>2, <1>2 DEF NewestStored
      <4>4. QED
        BY <4>1, <4>2, <4>3
    <3>3. QED
      BY <3>1, <3>2
  <2> HIDE DEF D
  <2>5. QED
    BY <2>2, <2>3, <2>4
<1>18. TypeOK'
  <2>1. req' \in [op : {"none", "write", "read"}, temp : Temps, lpn : 0..NumLpns, off : PageSectors,
                  rem : 0..NumSectors, bank : Banks, piece : 0..SectorsPerChunk]
    BY <1>14 DEF RequestType
  <2>2. rbuf' \in [0..NumRdBuffers-1 -> [PageSectors -> Int]]
    <3>1. Empty \in [PageSectors -> Int]
      BY DEF Junk
    <3> HIDE DEF Empty
    <3>2. QED
      BY <3>1, <1>1, <1>9, <1>10, <1>11
  <2>3. g_ftl_read_buf_id' \in 0..NumRdBuffers-1 /\ hostRd' \in 0..NumRdBuffers-1
    BY <1>1, <1>9, NextBufferLemma, Sizes
  <2>4. QED
    BY <2>1, <2>2, <2>3, <1>1, <1>2, <1>16, <1>17 DEF TypeOK, storage, ring
<1>19. RequestOK' /\ RingsOK'
  <2>1. hostRd' = g_ftl_read_buf_id'
    BY <1>1, <1>9
  <2>2. hostWr' = g_ftl_write_buf_id'
    BY <1>1, <1>2 DEF RingsOK, ring
  <2>3. QED
    BY <2>1, <2>2, <1>14, <1>15, <1>17 DEF RequestOK, RingsOK
<1>20. ReadsNewest'
  BY <1>1, <1>17 DEF ReadsNewest, storage
<1>21. QED
  BY <1>1, <1>18, <1>19, <1>20, StorageKept DEF Inv

LEMMA NextInv == Inv /\ [Next]_vars => Inv'
<1>1. SUFFICES ASSUME Inv, [Next]_vars PROVE Inv'
  OBVIOUS
<1>2. ASSUME NEW r \in Requests
      PROVE  r[1] \in Sectors /\ r[2] \in 1..NumSectors /\ r[1] + r[2] <= NumSectors
  BY RequestAssumption
<1>3. ASSUME NEW r \in Requests, ftl_write(r[1], r[2]) PROVE Inv'
  BY <1>1, <1>2, <1>3, ftl_writeStep
<1>4. ASSUME NEW r \in Requests, ftl_read(r[1], r[2]) PROVE Inv'
  BY <1>1, <1>2, <1>4, ftl_readStep
<1>5. CASE writeToLogBlk
  BY <1>1, <1>5, writeToLogBlkStep
<1>6. CASE writeChunkOld
  BY <1>1, <1>6, writeChunkOldStep
<1>7. CASE EndWrite
  BY <1>1, <1>7, EndWriteStep
<1>8. CASE readFromLogBlk
  BY <1>1, <1>8, readFromLogBlkStep
<1>9. CASE EndRead
  BY <1>1, <1>9, EndReadStep
<1>10. CASE UNCHANGED vars
  BY <1>1, <1>10, StutterStep
<1>11. QED
  BY <1>1, <1>3, <1>4, <1>5, <1>6, <1>7, <1>8, <1>9, <1>10 DEF Next

LEMMA InvHolds == Spec => []Inv
BY InitInv, NextInv, PTL DEF Spec

----------------------------------------------------------------------------
(* Requests of whole chunks.                                               *)

WholeChunks(a) == \E q \in Nat : a = q * SectorsPerChunk
AlignedRequests == \A r \in Requests : r[1] % SectorsPerChunk = 0 /\ r[2] % SectorsPerChunk = 0

AlignedInv ==
    /\ lost = {}
    /\ req.op = "write" => WholeChunks(req.off) /\ WholeChunks(req.rem) /\ req.piece \in {0, SectorsPerChunk}

LEMMA WholeLemma == ASSUME NEW a \in Nat, a % SectorsPerChunk = 0 PROVE WholeChunks(a)
<1>1. a \div SectorsPerChunk \in Nat /\ a = (a \div SectorsPerChunk) * SectorsPerChunk + (a % SectorsPerChunk)
  BY Sizes, DivLemma
<1>2. (a \div SectorsPerChunk) * SectorsPerChunk \in Nat
  BY <1>1, Sizes
<1>3. a = (a \div SectorsPerChunk) * SectorsPerChunk
  BY <1>1, <1>2
<1>4. QED
  BY <1>1, <1>3 DEF WholeChunks

\* What is left of whole chunks within whole chunks is at least a chunk, or nothing.
LEMMA WholeStep ==
    ASSUME NEW a \in Nat, NEW b \in Nat, WholeChunks(a), WholeChunks(b), a < b
    PROVE  a + SectorsPerChunk <= b /\ WholeChunks(a + SectorsPerChunk) /\ WholeChunks(b - SectorsPerChunk)
<1>1. PICK q \in Nat : a = q * SectorsPerChunk
  BY DEF WholeChunks
<1>2. PICK p \in Nat : b = p * SectorsPerChunk
  BY DEF WholeChunks
<1>3. q < p
  <2>1. CASE p < q
    <3>1. p * SectorsPerChunk + SectorsPerChunk <= q * SectorsPerChunk
      BY <2>1, Sizes, TimesLemma
    <3>2. QED
      BY <3>1, <1>1, <1>2, Sizes
  <2>2. p # q
    BY <1>1, <1>2
  <2>3. QED
    BY <2>1, <2>2
<1>4. q * SectorsPerChunk + SectorsPerChunk <= p * SectorsPerChunk
  BY <1>3, Sizes, TimesLemma
<1>5. (q + 1) * SectorsPerChunk = q * SectorsPerChunk + SectorsPerChunk
  BY Sizes
<1>6. (p - 1) * SectorsPerChunk = p * SectorsPerChunk - SectorsPerChunk /\ p - 1 \in Nat /\ q + 1 \in Nat
  BY <1>3, Sizes
<1>7. QED
  BY <1>1, <1>2, <1>4, <1>5, <1>6 DEF WholeChunks

LEMMA WholePage == WholeChunks(SectorsPerPage) /\ WholeChunks(0)
<1>1. SectorsPerPage = ChunksPerPage * SectorsPerChunk /\ ChunksPerPage \in Nat /\ 0 = 0 * SectorsPerChunk
  BY Sizes DEF SectorsPerPage
<1>2. QED
  BY <1>1 DEF WholeChunks

\* The offset in a page of a sector at which a chunk begins.
LEMMA WholeOffset ==
    ASSUME NEW lba \in Sectors, lba % SectorsPerChunk = 0
    PROVE  WholeChunks(lba % SectorsPerPage)
<1>1. PICK l \in Lpns, i \in Chunks, x \in InChunks : lba = SectorOf(l, i, x)
  BY SectorIsOf
<1>2. x = 0
  BY <1>1, ChunkLemma
<1>3. lba % SectorsPerPage = i * SectorsPerChunk + x
  BY <1>1, ChunkLemma
<1>4. i \in Nat /\ i * SectorsPerChunk \in Nat
  <2>1. i \in Nat
    BY Sizes DEF Chunks
  <2>2. QED
    BY <2>1, Sizes
<1>5. i * SectorsPerChunk + x = i * SectorsPerChunk
  BY <1>2, <1>4
<1>6. QED
  BY <1>3, <1>4, <1>5 DEF WholeChunks

LEMMA AlignedWrite ==
    ASSUME TypeOK, RequestOK, AlignedInv, req.op = "write", req.piece > 0
    PROVE  InChunk = 0 /\ SectsToWrite = SectorsPerChunk /\ Dropped(SectsToWrite, Old) = {}
<1>1. req.off \in Nat /\ req.lpn \in Nat /\ req.piece = SectorsPerChunk
  BY Sizes DEF TypeOK, AlignedInv, PageSectors
<1>2. PICK q \in Nat : req.off = q * SectorsPerChunk
  BY DEF AlignedInv, WholeChunks
<1>3. InChunk = 0
  <2>1. req.off = q * SectorsPerChunk + 0 /\ 0 \in 0..SectorsPerChunk-1
    BY <1>1, <1>2, Sizes
  <2>2. QED
    BY <2>1, Sizes, DivUnique DEF InChunk
<1>4. SectsToWrite = SectorsPerChunk
  BY <1>1, <1>3, Sizes DEF SectsToWrite
<1> DEFINE c == req.lpn * ChunksPerPage + q
<1>5. Here = c * SectorsPerChunk /\ c \in Nat
  BY <1>1, <1>2, Sizes DEF Here, SectorsPerPage
<1> HIDE DEF c
<1>6. Here \div SectorsPerChunk = c /\ Here \in Nat
  <2>1. Here = c * SectorsPerChunk + 0 /\ 0 \in 0..SectorsPerChunk-1
    BY <1>5, Sizes
  <2>2. QED
    BY <2>1, <1>5, Sizes, DivUnique
<1>7. ASSUME NEW s \in Sectors, s \div SectorsPerChunk = Here \div SectorsPerChunk
      PROVE  s \in Here..Here+SectorsPerChunk-1
  <2>1. s \in Nat
    BY Sizes DEF Sectors
  <2>2. s = (s \div SectorsPerChunk) * SectorsPerChunk + (s % SectorsPerChunk) /\ s % SectorsPerChunk \in 0..SectorsPerChunk-1
    BY <2>1, Sizes, DivLemma
  <2>3. s = c * SectorsPerChunk + (s % SectorsPerChunk)
    BY <2>2, <1>6, <1>7
  <2>4. s = Here + (s % SectorsPerChunk)
    BY <2>3, <1>5
  <2>5. QED
    BY <2>1, <2>2, <2>4, <1>6, Sizes
<1>8. Dropped(SectsToWrite, Old) = {}
  <2>1. Dst \in Nat
    BY CtrlLemma
  <2>2. Dst + SectorsPerChunk..Dst + SectorsPerChunk + InChunk - 1 = {}
    BY <2>1, <1>3, Sizes
  <2>3. PieceSectors(SectsToWrite) = Here..Here+SectorsPerChunk-1
    BY <1>4 DEF PieceSectors, Here
  <2>4. \A s \in Sectors : s \div SectorsPerChunk = (req.lpn * SectorsPerPage + req.off) \div SectorsPerChunk
                           => s \in PieceSectors(SectsToWrite)
    BY <2>3, <1>7 DEF Here
  <2>5. QED
    BY <2>2, <2>4, Zenon DEF Dropped
<1>9. QED
  BY <1>3, <1>4, <1>8

LEMMA AlignedNext == AlignedRequests /\ Inv /\ AlignedInv /\ [Next]_vars => AlignedInv'
<1>1. SUFFICES ASSUME AlignedRequests, Inv, AlignedInv, [Next]_vars PROVE AlignedInv'
  OBVIOUS
<1>2. TypeOK /\ RequestOK
  BY <1>1 DEF Inv
<1>3. /\ req.off \in Nat /\ req.off < SectorsPerPage /\ req.rem \in Nat /\ req.piece \in Nat
      /\ req \in RequestType
  BY <1>2, Sizes DEF TypeOK, PageSectors, RequestType
<1>4. ASSUME NEW r \in Requests, ftl_write(r[1], r[2]) PROVE AlignedInv'
  <2>1. r[1] \in Sectors /\ r[2] \in Nat /\ r[1] % SectorsPerChunk = 0 /\ r[2] % SectorsPerChunk = 0
    BY <1>1, RequestAssumption, Sizes DEF AlignedRequests
  <2>2. WholeChunks(r[1] % SectorsPerPage) /\ WholeChunks(r[2])
    BY <2>1, WholeOffset, WholeLemma
  <2>3. /\ req'.off = r[1] % SectorsPerPage /\ req'.rem = r[2] /\ req'.piece = 0 /\ lost' = lost
    BY <1>4 DEF ftl_write, NoRequest, storage
  <2>4. QED
    BY <2>2, <2>3, <1>1 DEF AlignedInv, WholeChunks
<1>5. ASSUME NEW r \in Requests, ftl_read(r[1], r[2]) PROVE AlignedInv'
  BY <1>1, <1>5 DEF ftl_read, NoRequest, storage, AlignedInv
<1>6. CASE writeToLogBlk
  <2>1. /\ req.op = "write" /\ req.rem > 0 /\ WholeChunks(req.off) /\ WholeChunks(req.rem)
    BY <1>1, <1>6 DEF writeToLogBlk, AlignedInv
  <2>2. req.off + SectorsPerChunk <= SectorsPerPage
    BY <2>1, <1>3, WholePage, WholeStep, Sizes
  <2>3. 0 + SectorsPerChunk <= req.rem
    BY <2>1, <1>3, WholePage, WholeStep, Sizes
  <2>4. PieceSize(req.off, req.rem) = SectorsPerChunk
    BY <2>2, <2>3, <1>3, Sizes DEF PieceSize
  <2>5. /\ req'.off = req.off /\ req'.rem = req.rem /\ req'.piece = SectorsPerChunk /\ lost' = lost
    BY <2>4, <1>3, <1>6 DEF writeToLogBlk, storage, RequestType
  <2>6. QED
    BY <2>1, <2>5, <1>1 DEF AlignedInv, WholeChunks
<1>7. CASE writeChunkOld
  <2>1. /\ req.op = "write" /\ req.piece > 0 /\ lost' = NewLost(Old)
        /\ req' = [req EXCEPT !.off = (req.off + SectsToWrite) % SectorsPerPage, !.rem = @ - SectsToWrite,
                              !.piece = @ - SectsToWrite,
                              !.lpn = IF (req.off + SectsToWrite) % SectorsPerPage = 0 THEN @ + 1 ELSE @]
    BY <1>7, writeChunkOldParts
  <2>2. SectsToWrite = SectorsPerChunk /\ Dropped(SectsToWrite, Old) = {}
    BY <2>1, <1>1, <1>2, AlignedWrite
  <2>3. /\ WholeChunks(req.off) /\ WholeChunks(req.rem) /\ req.piece = SectorsPerChunk /\ lost = {}
        /\ req.piece <= req.rem
    BY <2>1, <1>1, <1>2 DEF AlignedInv, RequestOK
  <2>4. req.off + SectorsPerChunk <= SectorsPerPage /\ WholeChunks(req.off + SectorsPerChunk)
    BY <2>3, <1>3, WholePage, WholeStep, Sizes
  <2>5. WholeChunks(req.rem - SectorsPerChunk)
    BY <2>3, <1>3, WholePage, WholeStep, Sizes
  <2>6. WholeChunks((req.off + SectorsPerChunk) % SectorsPerPage)
    <3>1. CASE req.off + SectorsPerChunk = SectorsPerPage
      <4>1. (req.off + SectorsPerChunk) % SectorsPerPage = 0
        BY <3>1, Sizes
      <4>2. QED
        BY <4>1, WholePage
    <3>2. CASE req.off + SectorsPerChunk < SectorsPerPage
      <4>1. (req.off + SectorsPerChunk) % SectorsPerPage = req.off + SectorsPerChunk
        BY <3>2, <1>3, Sizes
      <4>2. QED
        BY <4>1, <2>4
    <3>3. QED
      BY <3>1, <3>2, <2>4, <1>3, Sizes
  <2>7. /\ req'.off = (req.off + SectorsPerChunk) % SectorsPerPage /\ req'.rem = req.rem - SectorsPerChunk
        /\ req'.piece = 0
    BY <2>1, <2>2, <2>3, <1>3, Sizes DEF RequestType
  <2>8. lost' = {}
    BY <2>1, <2>2, <2>3 DEF NewLost
  <2>9. QED
    BY <2>5, <2>6, <2>7, <2>8 DEF AlignedInv, WholeChunks
<1>8. CASE EndWrite \/ EndRead
  BY <1>1, <1>8 DEF EndWrite, EndRead, NoRequest, storage, AlignedInv
<1>9. CASE readFromLogBlk
  <2>1. req.op = "read" /\ req'.op = req.op /\ lost' = lost
    BY <1>9, <1>3 DEF readFromLogBlk, storage, RequestType
  <2>2. QED
    BY <2>1, <1>1 DEF AlignedInv
<1>10. CASE UNCHANGED vars
  BY <1>1, <1>10 DEF vars, storage, AlignedInv, WholeChunks
<1>11. QED
  BY <1>1, <1>4, <1>5, <1>6, <1>7, <1>8, <1>9, <1>10 DEF Next

----------------------------------------------------------------------------
(* The theorems.                                                           *)

\* Every variable of the model holds a value of its kind, in every geometry
\* and for every list of requests.
THEOREM TypeCorrect == Spec => []TypeOK
BY InvHolds, PTL DEF Inv

\* After every chunk that is written the map leads, for every sector of the drive but
\* those in lost, to what the host last wrote: over pieces that begin inside a chunk, old
\* chunks in any log buffer or page, flushes, and rings of any length.
THEOREM NewestCorrect == Spec => []NewestStored
BY InvHolds, PTL DEF Inv

\* What a read gets is what the host last wrote, whichever way rebuildPageToFtlBuf takes
\* for each chunk of each page, but for the sectors in lost and those in misread.
THEOREM ReadsCorrect == Spec => []ReadsNewest
BY InvHolds, PTL DEF Inv

\* A host whose requests are of whole chunks loses nothing: what is dropped is only ever
\* the rest of a chunk of which a part is written, and what the copy for it runs over
\* (write.c:763-822).
THEOREM AlignedLosesNothing == AlignedRequests /\ Spec => [](lost = {})
<1>1. SUFFICES ASSUME AlignedRequests PROVE Spec => [](lost = {})
  OBVIOUS
<1>2. Init => AlignedInv
  BY DEF Init, AlignedInv, NoRequest
<1>3. Inv /\ AlignedInv /\ [Next]_vars => AlignedInv'
  BY <1>1, AlignedNext
<1>4. AlignedInv => lost = {}
  BY DEF AlignedInv
<1>5. QED
  BY <1>2, <1>3, <1>4, InvHolds, PTL DEF Spec

=============================================================================
