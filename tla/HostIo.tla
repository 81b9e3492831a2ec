------------------------------- MODULE HostIo -------------------------------
(***************************************************************************)
(* Host requests, sector by sector: ftl_write cuts a request into pieces   *)
(* of at most a chunk that need not begin at one, each piece goes to the   *)
(* log buffer of a bank, merged with the old chunk where the code does so; *)
(* ftl_read puts every page together from the log buffers and the flash.   *)
(* The pages of a request travel through the rings of SATA buffers, in     *)
(* which the firmware counts for itself.                                   *)
(*                                                                         *)
(* The log blocks and the collector are LogBank's: here a flush finds a     *)
(* page of the bank that nothing refers to.  The commands of the flash take *)
(* effect at once, as FlashDriver shows for its calls.  The controller has  *)
(* put the sectors of a write into the buffers when ftl_write starts.       *)
(***************************************************************************)
EXTENDS Integers, Sequences, FiniteSets

CONSTANTS
    NumBanks, NumLpns,
    ChunksPerPage, ChunksPerRecycledPage, SectorsPerChunk,
    NumWrBuffers, NumRdBuffers,    \* pages in the rings of SATA buffers
    nSectsHotThreshold,            \* a write of this many sectors is cold
    OverwriteBit,                  \* 2 ^ overwriteBitPosition
    Requests,    \* bound: the <<lba, sectors>> that the host names
    MaxWrites    \* bound: writes of the host

SectorsPerPage == ChunksPerPage * SectorsPerChunk
NumSectors == NumLpns * SectorsPerPage

Banks == 0..NumBanks-1
Lpns == 0..NumLpns-1
Chunks == 0..ChunksPerPage-1
PageSectors == 0..SectorsPerPage-1
Sectors == 0..NumSectors-1

\* Pages of a bank: one more than the chunks there are, so that one is free.
Pages == 0..NumLpns*ChunksPerPage

ASSUME SizeAssumption ==
    /\ {NumBanks, NumLpns, SectorsPerChunk, NumWrBuffers, NumRdBuffers} \subseteq Nat \ {0}
    /\ {ChunksPerPage, ChunksPerRecycledPage} \subseteq Nat \ {0} /\ ChunksPerRecycledPage < ChunksPerPage
    /\ nSectsHotThreshold \in Int /\ MaxWrites \in Nat
    /\ OverwriteBit \in Nat /\ NumSectors <= OverwriteBit
ASSUME RequestAssumption ==
    \A r \in Requests : r \in Sectors \X (1..NumSectors) /\ r[1] + r[2] <= NumSectors

\* A sector holds 0xFF.., what a write of the host put there, or what was
\* never meant to be read.
Ones == 0
Junk == -1
Written(version, lba) == version * NumSectors + lba

VARIABLES
    map,      \* CHUNKS_MAP_TABLE: where each chunk is
    ctrl,     \* hotLogCtrl and coldLogCtrl of each bank
    dram,     \* the log buffers, hot before cold, by sector
    flash,    \* the pages of each bank, by sector
    wbuf, g_ftl_write_buf_id, hostWr,    \* write buffers, the firmware's and the host's place
    rbuf, g_ftl_read_buf_id, hostRd,     \* read buffers, likewise
    disk,     \* ghost: what the host last wrote to every sector
    lost,     \* ghost: the sectors whose last contents the code has dropped
    req,      \* the request in progress
    answer,   \* what the host got from the last read
    misread,  \* ghost: the sectors of it that readOneChunkEncoded spoiled
    writes    \* counts the writes

storage == <<map, ctrl, dram, flash, disk, lost>>
ring == <<wbuf, g_ftl_write_buf_id, hostWr>>
readRing == <<rbuf, g_ftl_read_buf_id, hostRd>>
received == <<answer, misread>>
vars == <<storage, ring, readRing, req, received, writes>>

----------------------------------------------------------------------------
(* Places and memory.                                                      *)

Temps == {"hot", "cold"}
InDram(place) == place.loc \in Temps
Place(loc, bank, page, slot) == [loc |-> loc, bank |-> bank, page |-> page, slot |-> slot]
Invalid == Place("invalid", 0, 0, 0)
Places == [loc : Temps \cup {"flash", "encoded", "invalid"}, bank : Banks, page : Pages, slot : Chunks]

NoOwner == <<NumLpns, 0>>
Owners == (Lpns \X Chunks) \cup {NoOwner}
FreshCtrl == [ptr |-> 0, owner |-> [s \in Chunks |-> NoOwner], recycled |-> FALSE]

LogBuf(temp, bank) == ((IF temp = "hot" THEN 0 ELSE NumBanks) + bank) * SectorsPerPage
DramAddrs == 0..2*NumBanks*SectorsPerPage-1
WrAddrs == 0..NumWrBuffers*SectorsPerPage-1

mem_set(mem, dst, n) == [a \in DOMAIN mem |-> IF a \in dst..dst+n-1 THEN Ones ELSE mem[a]]

\* What lies before and behind the memory of the model is junk, and lost.
mem_copy(mem, dst, from, src, n) ==
    [a \in DOMAIN mem |->
        IF a \notin dst..dst+n-1 THEN mem[a]
        ELSE IF src + a - dst \in DOMAIN from THEN from[src + a - dst] ELSE Junk]

\* Where sector s of its page is now, and what is there.
DramAddr(place, s) == LogBuf(place.loc, place.bank) + place.slot * SectorsPerChunk + (s % SectorsPerChunk)
PlaceOf(lba) == map[lba \div SectorsPerPage][(lba % SectorsPerPage) \div SectorsPerChunk]
Stored(lba) ==
    LET p == PlaceOf(lba)
    IN  IF p = Invalid THEN Ones
        ELSE IF InDram(p) THEN dram[DramAddr(p, lba)]
        ELSE flash[p.bank][p.page][p.slot * SectorsPerChunk + (lba % SectorsPerChunk)]

NoRequest == [op |-> "none", temp |-> "hot", lpn |-> 0, off |-> 0, rem |-> 0, bank |-> 0, piece |-> 0]

Init ==
    /\ map = [l \in Lpns |-> [c \in Chunks |-> Invalid]]
    /\ ctrl = [t \in Temps |-> [b \in Banks |-> FreshCtrl]]
    /\ dram = [a \in DramAddrs |-> Junk]
    /\ flash = [b \in Banks |-> [p \in Pages |-> [s \in PageSectors |-> Ones]]]
    /\ wbuf = [a \in WrAddrs |-> Junk] /\ g_ftl_write_buf_id = 0 /\ hostWr = 0
    /\ rbuf = [b \in 0..NumRdBuffers-1 |-> [s \in PageSectors |-> Junk]] /\ g_ftl_read_buf_id = 0 /\ hostRd = 0
    /\ disk = [s \in Sectors |-> Ones] /\ lost = {}
    /\ req = NoRequest /\ answer = [s \in {} |-> Ones] /\ misread = {} /\ writes = 0

----------------------------------------------------------------------------
(* ftl_write.                                                              *)

\* The host sends the sectors of a write through one buffer for each page.
PagesOf(lba, n) == (lba + n - 1) \div SectorsPerPage - lba \div SectorsPerPage + 1

Sent(lba, n) ==
    [a \in WrAddrs |->
        LET buf == a \div SectorsPerPage
            page == (buf - hostWr + NumWrBuffers) % NumWrBuffers
            s == (lba \div SectorsPerPage + page) * SectorsPerPage + (a % SectorsPerPage)
        IN  IF s \in lba..lba+n-1 THEN Written(writes + 1, s) ELSE wbuf[a]]

ftl_write(lba, n) ==
    /\ req.op = "none" /\ writes < MaxWrites
    /\ PagesOf(lba, n) <= NumWrBuffers
    /\ writes' = writes + 1
    /\ wbuf' = Sent(lba, n) /\ hostWr' = (hostWr + PagesOf(lba, n)) % NumWrBuffers
    /\ req' = [NoRequest EXCEPT !.op = "write", !.temp = IF n >= nSectsHotThreshold THEN "cold" ELSE "hot",
                                !.lpn = lba \div SectorsPerPage, !.off = lba % SectorsPerPage, !.rem = n]
    /\ answer' = [s \in {} |-> Ones] /\ misread' = {}
    /\ UNCHANGED <<storage, g_ftl_write_buf_id, readRing>>

\* At most a chunk, and not past the end of the page.
PieceSize(off, rem) ==
    LET inPage == IF off + rem < SectorsPerPage THEN rem ELSE SectorsPerPage - off
    IN  IF inPage < SectorsPerChunk THEN inPage ELSE SectorsPerChunk

chooseNewBank(chunkNumber) == chunkNumber % NumBanks

\* writeToLogBlk: the bank follows from the chunk the piece begins in.
writeToLogBlk ==
    /\ req.op = "write" /\ req.rem > 0 /\ req.piece = 0
    /\ req' = [req EXCEPT !.bank = chooseNewBank(req.lpn * ChunksPerPage + req.off \div SectorsPerChunk),
                          !.piece = PieceSize(req.off, req.rem)]
    /\ UNCHANGED <<storage, ring, readRing, received, writes>>

\* Faulty variant: the number of the buffer does not wrap.
NoWrap(id) == id + 1

NextWrBuffer(id) == (id + 1) % NumWrBuffers

\* The sectors of the piece that go to the chunk it is at.
InChunk == req.off % SectorsPerChunk
SectsToWrite == IF InChunk + req.piece < SectorsPerChunk THEN req.piece ELSE SectorsPerChunk - InChunk

Ctrl == ctrl[req.temp][req.bank]
Dst == LogBuf(req.temp, req.bank) + Ctrl.ptr * SectorsPerChunk
Src == g_ftl_write_buf_id * SectorsPerPage + req.off

\* The part of the chunk that is not written becomes 0xFF.
writeChunkNew(n) ==
    mem_copy(IF n # SectorsPerChunk THEN mem_set(dram, Dst, SectorsPerChunk) ELSE dram,
             Dst + InChunk, wbuf, Src, n)

\* Faulty variant: what the host sent is all there is of a chunk.
NeverMerged(n, old) == writeChunkNew(n)

\* The old chunk is read to where the new one goes, and the sectors put over it.
writePartialChunkWhenOldChunkIsInFlashLog(n, old) ==
    mem_copy(mem_copy(dram, Dst, flash[old.bank][old.page], old.slot * SectorsPerChunk, SectorsPerChunk),
             Dst + InChunk, wbuf, Src, n)

\* An encoded old chunk is not merged: a whole chunk is taken from the SATA
\* buffer, from the piece on, and runs over the end of its place.
NewContents(n, old) ==
    IF old.loc = "flash" /\ n # SectorsPerChunk THEN writePartialChunkWhenOldChunkIsInFlashLog(n, old)
    ELSE IF old.loc = "encoded" THEN writeChunkNew(SectorsPerChunk)
    ELSE writeChunkNew(n)

\* An old chunk in a log buffer is forgotten there, merged or not.
Forgotten(old) ==
    IF InDram(old) THEN [ctrl EXCEPT ![old.loc][old.bank].owner[old.slot] = NoOwner] ELSE ctrl

\* The sectors of the request that go to the chunk.
PieceSectors(n) ==
    LET first == req.lpn * SectorsPerPage + req.off IN first..first+n-1

\* What the write loses of others: the rest of a chunk that was in a log buffer, which
\* becomes 0xFF (the warnings say so, write.c:817, 860), or was encoded (write.c:767), and the
\* chunks in the log buffers that the copy of an encoded one runs over.
Dropped(n, old) ==
    LET chunk == {s \in Sectors : s \div SectorsPerChunk = (req.lpn * SectorsPerPage + req.off) \div SectorsPerChunk}
        ranOver == {a \in DramAddrs : old.loc = "encoded" /\ a \in Dst + SectorsPerChunk..Dst + SectorsPerChunk + InChunk - 1}
    IN  {s \in Sectors : \/ s \in chunk /\ (InDram(old) \/ old.loc = "encoded")
                         \/ InDram(PlaceOf(s)) /\ DramAddr(PlaceOf(s), s) \in ranOver}
        \ PieceSectors(n)

\* A page of the bank that no chunk of m is in.
FreePage(m, bank) ==
    CHOOSE p \in Pages : \A l \in Lpns, c \in Chunks :
        ~(m[l][c].loc \in {"flash", "encoded"} /\ m[l][c].bank = bank /\ m[l][c].page = p)

Slots(c) == 0..(IF c.recycled THEN ChunksPerRecycledPage ELSE ChunksPerPage)-1

\* flushLogBuffer and flushLogBufferRecycledPage: the buffer becomes a page,
\* and the chunks it holds are there now.
Flushed(m, c, temp, bank, page) ==
    [l \in Lpns |-> [i \in Chunks |->
        IF \E s \in Slots(c) : c.owner[s] = <<l, i>>
        THEN Place(IF c.recycled THEN "encoded" ELSE "flash", bank, page,
                   CHOOSE s \in Slots(c) : c.owner[s] = <<l, i>>)
        ELSE m[l][i]]]

\* What is not referred to any more will be erased.
Programmed(m, mem, temp, bank, page) ==
    [p \in Pages |->
        IF p = page THEN [s \in PageSectors |-> mem[LogBuf(temp, bank) + s]]
        ELSE IF \E l \in Lpns, c \in Chunks : m[l][c].loc \in {"flash", "encoded"} /\ m[l][c].bank = bank /\ m[l][c].page = p
        THEN flash[bank][p]
        ELSE [s \in PageSectors |-> Ones]]

\* writeChunkOld, with updateDramBufMetadata and updateChunkPtr; the next page
\* of a hot log may be one to be programmed again.
writeChunkOld ==
    /\ req.op = "write" /\ req.piece > 0
    /\ LET n == SectsToWrite
           idx == req.off \div SectorsPerChunk
           old == map[req.lpn][idx]
           mem == NewContents(n, old)
           c == [Forgotten(old)[req.temp][req.bank] EXCEPT !.owner[Ctrl.ptr] = <<req.lpn, idx>>]
           m == [map EXCEPT ![req.lpn][idx] = Place(req.temp, req.bank, 0, Ctrl.ptr)]
           page == FreePage(m, req.bank)
           after == Flushed(m, c, req.temp, req.bank, page)
       IN  /\ dram' = mem
           /\ disk' = [s \in Sectors |-> IF s \in PieceSectors(n) THEN Written(writes, s) ELSE disk[s]]
           /\ lost' = (lost \ PieceSectors(n)) \cup Dropped(n, old)
           /\ IF c.ptr + 1 \in Slots(c)
              THEN /\ ctrl' = [Forgotten(old) EXCEPT ![req.temp][req.bank] = [c EXCEPT !.ptr = @ + 1]]
                   /\ map' = m /\ UNCHANGED flash
              ELSE \E again \in BOOLEAN :
                   /\ again => req.temp = "hot"
                   /\ ctrl' = [Forgotten(old) EXCEPT ![req.temp][req.bank] = [FreshCtrl EXCEPT !.recycled = again]]
                   /\ map' = after
                   /\ flash' = [flash EXCEPT ![req.bank] = Programmed(after, mem, req.temp, req.bank, page)]
           /\ LET off == (req.off + n) % SectorsPerPage
              IN  /\ req' = [req EXCEPT !.off = off, !.rem = @ - n, !.piece = @ - n,
                                        !.lpn = IF off = 0 THEN @ + 1 ELSE @]
                  /\ g_ftl_write_buf_id' =
                        IF off = 0 THEN NextWrBuffer(g_ftl_write_buf_id) ELSE g_ftl_write_buf_id
    /\ UNCHANGED <<wbuf, hostWr, readRing, received, writes>>

\* The buffer of the last page is given back when the page was not filled.
EndWrite ==
    /\ req.op = "write" /\ req.rem = 0
    /\ req' = NoRequest
    /\ g_ftl_write_buf_id' = IF req.off # 0 THEN NextWrBuffer(g_ftl_write_buf_id) ELSE g_ftl_write_buf_id
    /\ UNCHANGED <<storage, wbuf, hostWr, readRing, received, writes>>

----------------------------------------------------------------------------
(* ftl_read.                                                               *)

ftl_read(lba, n) ==
    /\ req.op = "none"
    /\ LET masked == lba % OverwriteBit
       IN  req' = [NoRequest EXCEPT !.op = "read", !.lpn = masked \div SectorsPerPage,
                                    !.off = masked % SectorsPerPage, !.rem = n]
    /\ answer' = [s \in {} |-> Ones] /\ misread' = {}
    /\ UNCHANGED <<storage, ring, readRing, writes>>

chunksInSameFlashPage(a, b) == a.loc = b.loc /\ a.bank = b.bank /\ a.page = b.page

\* The chunks of the read that are still to be put into FTL_BUF and lie in
\* the flash page of chunk i, itself among them.
InPageOf(i, lpn, last, done) ==
    {i} \cup {j \in i+1..last-1 : j \notin done /\ chunksInSameFlashPage(map[lpn][i], map[lpn][j])}

\* buf with chunk i of a page copied to where it belongs.
PutChunk(buf, i, from, src) == mem_copy(buf, i * SectorsPerChunk, from, src, SectorsPerChunk)

FlashPage(place) == flash[place.bank][place.page]

\* readCompletePage: the page goes to TEMP_BUF, and every chunk from there.
readCompletePage(buf, lpn, group) ==
    [s \in PageSectors |->
        LET i == s \div SectorsPerChunk
        IN  IF i \in group THEN FlashPage(map[lpn][i])[map[lpn][i].slot * SectorsPerChunk + (s % SectorsPerChunk)]
            ELSE buf[s]]

\* Faulty variant: the chunk ends where it was in the flash page.
OneChunkUnmoved(buf, lpn, i) ==
    mem_copy(buf, map[lpn][i].slot * SectorsPerChunk, FlashPage(map[lpn][i]),
             map[lpn][i].slot * SectorsPerChunk, SectorsPerChunk)

\* readOneChunk: the address is moved back by where the chunk is in its page.
readOneChunk(buf, lpn, i) ==
    PutChunk(buf, i, FlashPage(map[lpn][i]), map[lpn][i].slot * SectorsPerChunk)

\* readOneChunkEncoded: the chunk arrives in TEMP_BUF behind the ones before
\* it, and is looked for at its beginning.
readOneChunkEncoded(buf, lpn, i) ==
    IF map[lpn][i].slot = 0 THEN readOneChunk(buf, lpn, i)
    ELSE mem_copy(buf, (i - map[lpn][i].slot) * SectorsPerChunk, [s \in {} |-> Junk], 0, SectorsPerChunk)

Spoiled(i, slot) == IF slot = 0 THEN {} ELSE {i, i - slot} \cap Chunks

\* What a read of the page has put into FTL_BUF, which chunks are done, and which
\* of them readOneChunkEncoded left out or ran over.
Progress == [buf : [PageSectors -> Int], done : SUBSET Chunks, amiss : SUBSET Chunks]

ReadChunk(p, i, lpn, last) ==
    LET place == map[lpn][i]
        group == InPageOf(i, lpn, last, p.done)
        with(buf) == [p EXCEPT !.buf = buf, !.done = @ \cup {i}]
        all == [p EXCEPT !.buf = readCompletePage(p.buf, lpn, group), !.done = @ \cup group]
    IN  IF i \in p.done THEN p
        ELSE CASE place = Invalid -> with(mem_set(p.buf, i * SectorsPerChunk, SectorsPerChunk))
               [] InDram(place) -> with(PutChunk(p.buf, i, dram, DramAddr(place, 0)))
               [] place.loc = "flash" -> IF Cardinality(group) > 2 THEN all ELSE with(readOneChunk(p.buf, lpn, i))
               [] place.loc = "encoded" ->
                     IF Cardinality(group) > 1 THEN all
                     ELSE [with(readOneChunkEncoded(p.buf, lpn, i)) EXCEPT !.amiss = @ \cup Spoiled(i, place.slot)]

\* More than three chunks of an encoded page at once: the firmware stops.
Hangs(lpn, first, last) ==
    \E i \in first..last-1 : map[lpn][i].loc = "encoded" /\ Cardinality(InPageOf(i, lpn, last, {})) > 3

\* rebuildPageToFtlBuf goes through the chunks in order.
rebuildPageToFtlBuf(lpn, off, n) ==
    LET first == off \div SectorsPerChunk
        last == (off + n + SectorsPerChunk - 1) \div SectorsPerChunk
        upTo[i \in first..last] ==
            IF i = first THEN [buf |-> [s \in PageSectors |-> Junk], done |-> {}, amiss |-> {}]
            ELSE ReadChunk(upTo[i - 1], i - 1, lpn, last)
    IN  upTo[last]

\* One page: from FTL_BUF to the read buffer, and on to the host, which takes
\* the buffers in turn.
readFromLogBlk ==
    /\ req.op = "read" /\ req.rem > 0
    /\ LET n == IF req.off + req.rem < SectorsPerPage THEN req.rem ELSE SectorsPerPage - req.off
           built == rebuildPageToFtlBuf(req.lpn, req.off, n)
           filled == [rbuf EXCEPT ![g_ftl_read_buf_id] = mem_copy(@, req.off, built.buf, req.off, n)]
           first == req.lpn * SectorsPerPage + req.off
       IN  /\ ~Hangs(req.lpn, req.off \div SectorsPerChunk, (req.off + n + SectorsPerChunk - 1) \div SectorsPerChunk)
           /\ rbuf' = [filled EXCEPT ![hostRd] = [s \in PageSectors |-> Junk]]
           /\ g_ftl_read_buf_id' = (g_ftl_read_buf_id + 1) % NumRdBuffers
           /\ hostRd' = (hostRd + 1) % NumRdBuffers
           /\ answer' = [s \in DOMAIN answer \cup first..first+n-1 |->
                            IF s >= first THEN filled[hostRd][s - first + req.off] ELSE answer[s]]
           /\ misread' = misread \cup {s \in first..first+n-1 : (s % SectorsPerPage) \div SectorsPerChunk \in built.amiss}
           /\ req' = [req EXCEPT !.off = 0, !.rem = @ - n, !.lpn = @ + 1]
    /\ UNCHANGED <<storage, ring, writes>>

EndRead ==
    /\ req.op = "read" /\ req.rem = 0
    /\ req' = NoRequest
    /\ UNCHANGED <<storage, ring, readRing, received, writes>>

Next ==
    \/ \E r \in Requests : ftl_write(r[1], r[2]) \/ ftl_read(r[1], r[2])
    \/ writeToLogBlk \/ writeChunkOld \/ EndWrite
    \/ readFromLogBlk \/ EndRead

Spec == Init /\ [][Next]_vars

----------------------------------------------------------------------------
(* Properties.                                                             *)

\* Every variable holds a value of its kind.
TypeOK ==
    /\ map \in [Lpns -> [Chunks -> Places]]
    /\ ctrl \in [Temps -> [Banks -> [ptr : Chunks, owner : [Chunks -> Owners], recycled : BOOLEAN]]]
    /\ dram \in [DramAddrs -> Int] /\ wbuf \in [WrAddrs -> Int]
    /\ flash \in [Banks -> [Pages -> [PageSectors -> Int]]]
    /\ rbuf \in [0..NumRdBuffers-1 -> [PageSectors -> Int]]
    /\ {g_ftl_write_buf_id, hostWr} \subseteq 0..NumWrBuffers-1
    /\ {g_ftl_read_buf_id, hostRd} \subseteq 0..NumRdBuffers-1
    /\ disk \in [Sectors -> Int] /\ lost \subseteq Sectors /\ misread \subseteq Sectors
    /\ req \in [op : {"none", "write", "read"}, temp : Temps, lpn : 0..NumLpns, off : PageSectors,
                rem : 0..NumSectors, bank : Banks, piece : 0..SectorsPerChunk]
    /\ DOMAIN answer \subseteq Sectors /\ \A s \in DOMAIN answer : answer[s] \in Int
    /\ writes \in 0..MaxWrites

\* After every chunk that is written the map leads to what the host last wrote to each
\* sector, of the chunk and of all others: over pieces that begin inside a chunk, old
\* chunks of other banks, and the ring of buffers (write.c:697, ftl.c:1292).  Except for
\* the sectors in lost: a write of a part of a chunk drops the rest of it if it was in a
\* log buffer or encoded, and what the copy over an encoded one runs over.  A request
\* that begins inside a chunk and is longer than a piece so loses sectors of its own.
NewestStored == \A s \in Sectors \ lost : Stored(s) = disk[s]

\* What a read gets is what the host last wrote, however its chunks are spread over
\* the log buffers and pages of the flash (read.c:76, ftl.c:1144).  Except for the
\* sectors in lost, and for a chunk that is alone in an encoded page behind its first
\* slot, with the chunk of the page as many places before it (read.c:349).
ReadsNewest == \A s \in DOMAIN answer \ (lost \cup misread) : answer[s] = disk[s]
=============================================================================
