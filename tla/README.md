# A TLA+ verification project for the page-mapped flash translation layer

The repository is the firmware of the OpenSSD Jasmine board with a page-mapped
flash translation layer (FTL) that programs a flash page twice: after all data
of a half-written block's low pages is dead, the firmware encodes new data (a
write-once-memory code) over the old page without erasing the block.  These
modules model the parts of the firmware that decide where data is, check them
with TLC on small instances, and prove what can be proved for every size.

## The system

| Component | Source | State it keeps | Operations |
|---|---|---|---|
| Clean-block list | `cleanList.c` | per bank: linked list of clean blocks, pool of unused nodes, size | init, push, pop |
| Valid-chunks heaps | `heap.c` | per bank and heap: array, position table, number of elements | insert, remove, increment, decrement, get victim |
| Write path | `write.c` | two DRAM buffers (hot, cold) per bank, chunk map | write a chunk, flush a buffer |
| Logs | `log.c` | per log: current page, list of chunks, usage, read-ahead | next page, next block, reuse of a half-written block |
| Garbage collector | `garbage_collection.c` | per bank: state, victim, page, valid chunks of the page | choose a victim, read a page, copy a page, reclaim |
| Trim | `ftl.c` | none of its own | forget a range of chunks |
| Read path | `read.c` | none of its own | read chunks from DRAM, flash, encoded pages |
| Host I/O | `ftl.c` | the firmware's place in the rings of SATA buffers | cut a request into pieces, merge parts of chunks |
| Start-up | `ftl.c` | bad-block lists, block tables | scan, format, initialise |
| Installer | `installer-linux.c` | scan lists, list files, page 0 and the stamp of each bank | scan, save, load, erase, install |
| Host commands | `sata_main.c`, `sata_isr.c` | event queue, slow-command slot, deferred action flags | interrupt handler, main loop |
| Flash driver | `flash.c`, `flash_wrapper.c` | controller registers, bank state | issue, wait, reset |

The host's commands arrive by interrupt, go through a hardware event queue, and
are run one at a time by the main loop, which calls the FTL.  A write is cut into
pieces of at most a chunk (4 KB); a piece goes to bank `n % NUM_BANKS` of the chunk `n` it
begins in (write.c:589), into the hot or the cold DRAM buffer of the bank, and with a piece that
straddles two chunks the second goes there too.  A full buffer is programmed to the current page of its
log; the log then moves to its next page or block, and may call the garbage
collector, which copies chunks to the cold log.  Copies may fill the cold log,
which calls the collector again.  Nothing is saved at power-off (`ftl_flush` is
empty) and the firmware formats the flash when it starts, so there is no recovery.

What is hard in this code:

* the reuse of a low page is decided one page ahead and must still be right when
  the page is programmed, with host writes in between;
* the number of valid chunks of every block is kept incrementally, in three heaps
  at once, by five functions, and the collector stops the firmware if it finds
  another number;
* the collector is re-entered through the log it fills, over the same globals;
* clean blocks are popped with no test, so the reserve must be right;
* an interrupt and the main loop share a slot and flags without a lock;
* a flash command goes through the Waiting Room to its bank while the firmware goes
  on, several commands rely on registers of the ones before, and a bank that stays
  busy is reset from inside the call that waits for it;
* requests need not begin at a chunk: their pieces are merged with old chunks in flash, not with
  those in DRAM or encoded, and a chunk may change its bank;
* what the factory knows of bad blocks is erased with the first erasure: only the scan
  lists keep it, and an installation may be cut off at any write.

## Modules

| Module | What it is |
|---|---|
| `CleanListFifo` | abstract clean list: a queue of blocks |
| `CleanList` | `cleanList.c` for one bank, node by node |
| `CleanListProofs` | theorems about `CleanList` |
| `VictimQueue` | abstract heap: a count for each block, a least candidate on demand |
| `ValidChunksHeap` | `heap.c` for one heap of one bank, one action per loop iteration |
| `ValidChunksHeapProofs` | theorems about `ValidChunksHeap` |
| `LogBank` | `write.c`, `log.c`, `garbage_collection.c` for one bank, over the heaps and the list as `VictimQueue` and `CleanListFifo` describe them |
| `LogBankProofs` | theorems about `LogBank` and `LogBankTrim`: types, roles of blocks, reserve, programs of pages |
| `LogBankDataProofs` | theorems about `LogBank` and `LogBankTrim`: the data, its places, the counts of the heaps, where the firmware can stop, and how deep the collector calls itself |
| `LogBankTrim` | `LogBank` with the host's trims |
| `SataHost` | `sata_isr.c` and `sata_main.c`: the interrupt handler against the main loop |
| `SataHostProofs` | theorems about `SataHost` |
| `SataReset` | `SataHost` with soft and link resets |
| `FlashCommands` | what the flash commands do to memory and flash |
| `SyncFlash` | abstract flash: every command takes effect when it is issued |
| `FlashDriver` | `flash.c` and `flash_wrapper.c` against the controller and its banks |
| `FlashDriverProofs` | theorems about `FlashDriver` |
| `FactoryFlash` | the factory's marks, and page 0, stamp and image of each bank |
| `Installer` | `installer-linux.c`: the menu and what it does to the flash |
| `StartUp` | `ftl_open`, `format` and `initLog` |
| `BringUp` | the installer and the firmware in turn on one drive, the power going at any step |
| `BringUpProofs` | theorems about `BringUp` |
| `HostIo` | `ftl_write`, `writeToLogBlk`, `writeChunkOld`, `ftl_read` and `read.c`, sector by sector |
| `HostIoProofs` | theorems about `HostIo` |
| `MC*` | constants, symmetry and view of the runs |

### CleanList

`next`, `lbn`, `head`, `tail`, `unused` and `size` are the list's node fields and
`cleanListHead`, `cleanListTail`, `cleanListUnusedNodes` and `size` of the bank.
`Push` and `Pop` are the two functions as a whole; a `while(1)` of the source is
a step to `hung`.  A caller pushes a block that is not on the list (`Listed`), as
`initLog` and the collector do.  The abstract list `CleanListFifo` is a sequence;
`ImplementsFifo` follows the links to compute it.

### ValidChunksHeap

`arr` and `pos` are the array and `HeapPositions`.  Operations that bubble are
their first step and then one step per iteration (`BubbleUp`, `BubbleDown`).
`Calls` says how the firmware calls them: counts in the heap do not wrap, and
between the choice of a victim and its removal at most one block is inserted, and the only counts that
change are of blocks outside the heap (the cold log's own, at a flush with holes, write.c:304).  The
second fact is what makes `resetValidChunksAndRemove` right although it never
bubbles up; `VictimNearRoot` is that argument as an invariant.

### LogBank

One bank.  Banks share the chunk map and the collector's tables but no block: the collector touches
another bank only when that bank's clean list is empty, which `CleanReserve`
excludes between writes, and a chunk that a straddling piece takes to another bank leaves
this one (`MoveAway`) with the bookkeeping of any overwritten chunk; it comes back, or comes for
the first time, by `WriteHot` or `WriteCold`.  `Chunks` are those that come to the bank on either way, and
the contents of a chunk that is written in part are `HostIo`'s.  `map` is the chunk map, `Invalid` for a
chunk of another bank; `hot` and `cold` are the
`LogCtrlBlock`s with page and block apart; `heap[h]` is a count for every block
and the set of blocks in the heap; `clean` is the clean list; `gc` has the
collector's globals; `lists[b]` are the lists of chunks a block has on flash.
`pc` names the function that runs next and `frames` holds the suspended
activations of the collector.  `programs` and `latest` are ghosts: how often each
page was programmed, and the places that hold the newest data of each chunk.

An action is a whole function up to a call that the model makes a step of its own
(a flush calls the function that finds the next page; that calls the function that
finds the next block; that calls the collector).  Nothing can happen between two
such steps but the firmware's own next step: the host's writes need `pc = "idle"`.

Geometry is scaled: `P` pages of `S` chunks, of which an encoded page holds `R`.
Where the source has literals (123, 125, 63) the model has `P - 5`, `P - 3`,
`P \div 2 - 1`.  `reuseCondition` compares the number of half-written blocks with
an adaptive threshold; the model takes any value in `HotFirst` at each test.

The code that the build options remove is not modelled: `WOMCanFail`,
`CanReuseBlksForColdData`, `Overwrite`, DRAM absorption, and the branch of
`canReuseLowPage` that needs `nValidChunksInPageToReuseThreshold > 0`.

### LogBankTrim

`trimRange` for a chunk in flash or in the hot DRAM buffer.  In the two other
cases (an encoded chunk, one in the cold buffer) the address has bit 31 set, the
source does not mask it, and the bank it derives is outside the tables.  Once a trim
in the hot buffer has left a hole that nobody counts, a heap may hold more than a block has
chunks; `VictimHeap` is written for such counts too: an empty heap answers `INVALID`
(heap.c:612), which no count reaches.

A flush that is not told of a hole (`FlushUnaware`) also stores an address for the chunk `INVALID`
(write.c:78, 169).  `ChunksMapTable(INVALID, idx)` wraps around to the 32 bytes before the chunk map,
which are the end of `LOG_BMT` (dram_layout.h:38-40, 85): the physical blocks of log blocks 496..511 of
bank 15.  `TableBlks` are the blocks of the modelled bank that have their entry there, none in 15 of the
16 banks; `astray` collects those that were stored over, by a flush of this bank or of another
(`OtherBankFlush`).  `get_log_vbn` then names other blocks of the flash, which the firmware reads, programs
and erases, so that what the model says of the blocks says nothing of the flash any more: from then on
every state may follow (`Astray`), and the theorems claim nothing (`Intact`).

### MCLogBankFill

The host of the runs `almost_full` and `full_bank`: it stores every chunk it has and then
overwrites them in any order.  `steps` counts the firmware's steps since the host's last
write, and `WritesReturn` bounds them.

### SataHost

`slow`, `eqFull`, `actionFlags` are `g_sata_context.slow_cmd`, `.eq_full` and
`g_sata_action_flags`; `eq` is the hardware's event queue and `transfer` what was last
written to `SATA_CTRL_2`.  The handler is one action, because the FIQ is not
interrupted.  The main loop takes one step for each access to what the two share
(`main` says where it is), except that `eventq_get` disables the FIQ and is one step.
So a command may arrive between any two of those accesses.

The host and the SATA controller are external.  The host has one command outstanding
(native queueing is left out) and never more trims than the queue holds.
`LinkIsSlow` is an assumption about the hardware that the code relies on and does not
state: in two windows of a few instructions (from the look at the queue to the look at
the slot, and from sending a status to releasing the slot) the link does not bring the
host's next command.  Without it the slot's release could erase a command, as it does
erase a reset (below), and a slow command could overtake a write.
A command's address is left out: a command is accepted or
rejected (`Reject`) by choice.

### SataReset

A reset does not wait for an answer, so `LinkIsSlow` says nothing about it: `HandleSrst`
and the handler of PHY_ONLINE may find the main loop anywhere.

### FlashDriver

`fcp` is the register file of the controller, `wr` the Waiting Room, `bsp[b]` the
status of a bank (`BSP_FSM`) with the command it took, `stuck` the banks that stay in
`BANK_TAKE`.  `state` is memory, flash and page registers; `Apply` (`FlashCommands`) says
what a command does to it, from `flash.h` and the wrappers' use.  A wrapper is a list of
steps, each a set of registers and a sync mode; registers it does not set keep their old
values, which is what `CopiesAgree` is about.  `stack` holds the loops that wait:
`flash_issue_cmd`, `FLASH_POLL_WR`, `waitBusyBank`, `flash_finish` and, above them,
`flash_reset_one_bank`.  `Timeout` is the branch that resets; it is possible in every
iteration, because the model has no clock, but costs one of `MaxResets` when no bank is
stuck.  `lent` is what the FTL may conclude: which bank may still use a buffer.

The controller is external: a bank takes a command when it is idle, and ends it at any
time.  What a command that a reset cuts off had already done is not modelled: from the
first reset on nothing is promised (`resets = 0`, and `kept` in `SyncFlash`).  As in the
code, after a reset the call goes on with the registers that the reset left: it issues
the wait of the reset bank, not its own command.  `waitBusyBank`, `flash_finish`,
`FLASH_POLL_WR` and the end of a reset have no timeout (`WaitsForever`).
`isBankBusy` looks at the bank only, and never at the Waiting Room.

### FactoryFlash, Installer, StartUp, BringUp

`marks[b]` are the factory's marks still on the flash: an erasure takes them away.
`page0[b]` is the scan list page, `stamp` and `image` the banks whose block 0 has them.
The installer works alone in its memory, so a menu item that only changes the lists is one
step; what it does to the flash is a `job` that goes bank by bank, with a step for each
write.  `ToFactory` and `ToNormal` are the power going off at any step and the drive
coming up in one of its two modes; the boot ROM starts the firmware when it finds a stamp
with its image.  `phase` says where the firmware is: reading lists, erasing the first block
of a bank, the next one, or looking at the fate of an erasure.

`excused` is the history variable of `BadBlocksKept`: it becomes true when the operator, or an
installation that was stopped, leaves the firmware without a list of this installer
(`GivesUp`, `InNormal`).  The code does that, and only warns, when

* everything is erased without lists (`MENU_ERASE_ALL`),
* a list file is missing: the loop ends with `scan_list_loaded` set by the banks before,
* page 0 held something that can be read as a list before the installation,
* the firmware finds no list on a bank: after a reinstallation that was cut off, the stamp of
  another bank still starts it.

A list that is not accepted is searched as its first word, the count, alone (`SearchedWords`).
`OldZeroAssumption` is what `StampAfterLists` needs of the flash before the installation: an
old list that names block 0 on both chips would make the installer erase neither, and
leave the stamp.  The model bounds repeated scans by the room of a list, which the code
overruns, and leaves out the last turn of `erase_flash`'s loop, one block past the end.
The blocks that a scan finds include `FirstVblk`; `format` erases it without a look at the
bitmap, and `BadBlocksKept` excepts it.  A log block that finds no good block stays
`INVALID` and goes to the clean list all the same.  `ftl_isr` runs before `format` looks at
the flag, as on the board, where the interrupt comes with the end of the erasure.

### HostIo

Data is a number for each sector, new with every write.  `dram` are the log buffers of
all banks, hot before cold, in one address space, so that a copy that is too long runs
into the next buffer as it does in the code; `wbuf` and `rbuf` are the rings of SATA
buffers.  One action is one turn of a loop: a piece of `ftl_write` is placed on a bank by
`writeToLogBlk`, and `writeChunkOld` writes as much of it as fits the chunk, flushes a full
buffer and moves on; `readFromLogBlk` rebuilds one page.  A flush takes any page that
nothing refers to, and the next page of a hot log may be one to be encoded: what `LogBank`
decides is a choice here.  Commands of the flash take effect at once, which
`SeemsSynchronous` justifies.

`disk` is what the host last wrote to each sector, whatever became of it, and `lost` the sectors
whose last contents the code has dropped.  These are, when a part of a chunk is written, the rest of the
chunk if it was in a log buffer, which becomes 0xFF (write.c:796-822, with a warning that the old chunk is not
copied), or encoded (write.c:767), and the sectors in the log buffer that the copy over an encoded
chunk runs over (`Dropped`).  They can be sectors of the same request: with one that begins inside a chunk
and is longer than a piece, `<<1, 4>>` in the run, the second piece finds the chunk the first has just
put into the log buffer.  `NewestStored` is about all other sectors; a sector leaves `lost` when the host writes it
again.  Code that merged in these cases too would satisfy it as well.  A chunk that
is alone in an encoded page, and not its first, is read from the wrong place
(read.c:349): it and the chunk that the copy runs over are `misread`, and `ReadsNewest` excepts
the sectors in `lost` and in `misread`, no others.  More than three chunks of one encoded
page would stop the firmware (`Hangs`, read.c:216).  The wait of
`syncWithWriteLimit` on `BM_WRITE_LIMIT` (write.c:575) is the controller's and left out.

## Runs

| Run | Instance | Shows |
|---|---|---|
| `clean_list` | 4 blocks, 4 nodes | `ListShape`, `OnlyEmptyHangs`, `ImplementsFifo` |
| `valid_chunks_heap` | 5 blocks, counts 0..2 | `PositionsMatch`, `HeapOrder`, `VictimNearRoot`, `ImplementsQueue` |
| `log_bank` | 2 chunks, 6 blocks of 8 pages of 2 chunks, 1 per encoded page | all safety properties of the bank |
| `almost_full` | 2 hot and 17 cold chunks, 5 blocks of 6 pages of 2 chunks | `WritesReturn`, and data, places, counts and stops through nested collections |
| `full_bank` | 60 chunks, the same bank | violation of `WritesReturn` |
| `precache` | 2 chunks, 5 blocks of 6 pages | violation of `PrecachesAPage` |
| `trim` | 2 chunks, 5 blocks of 6 pages | violation of `NeverHangs` |
| `sata_host` | queue of 4, full from 3 on, fairness | `StartsOutstanding`, `SlowAfterQueue`, `CommandsAnswered` |
| `sata_reset` | queue of 2, full from 2 on | violation of `PostedIsTaken` |
| `flash_driver` | 2 banks of 2 pages of 3 sectors, 1 buffer, 2 calls, 1 stuck bank, 1 reset, fairness | `DmaOnlyOnLent`, `CopiesAgree`, `DoneMeansDone`, `SeemsSynchronous`, `CallsEnd` |
| `bring_up` | 2 banks of 5 blocks, 2 log blocks, 1 failed write, 1 failed erasure, 3 starts | `BadBlocksKept`, `LogBlocksGood`, `StampAfterLists` |
| `host_io` | 2 banks, 2 pages of 3 chunks of 2 sectors, 5 kinds of request, 5 writes | `NewestStored`, `ReadsNewest` |

Bounds.  Four list nodes give lists with a first, two middle and a last node and
runs through every order of pool reuse.  Five heap positions give fathers with
two, one and no child on three levels; counts 0..2 give ties and strict orders in
every arrangement.  In the bank, eight pages are the least number for which an
ordinary low page (3) is tested ahead of its turn and is neither page 1 nor the page
that holds the list; two chunks are enough to make a page's two slots differ; six
blocks give two logs, two clean blocks, a half-written one and a victim.  Two
chunks cannot nest collections, because a victim's valid chunks do not fill a
block's remainder often enough.  `almost_full` is the other end: two blocks of ten places are full when two are in the
logs and one is clean, and 19 chunks are one less than their places, so that a victim may have
a single free place, a collection gains no more than that, and collections nest several deep.  With more chunks than
places the bank is full: `full_bank` gives the host 60, of which it stores about 22 before a write does not
return.  The two hot chunks and the 17 cold ones keep their temperature, which is what makes
the state space of `almost_full` fit; `log_bank` has chunks that change theirs.  The runs of the bank use a view
that leaves out the names of blocks and whatever no later step reads, and `log_bank` symmetry of
the chunks; the views of `almost_full` and `full_bank` leave out the names of the chunks and keep `steps`.

In `sata_host` a queue of four that is full from three on has states where the full bit
is set with and without room for a trim, and commands deferred behind others.

In `flash_driver` two banks and two calls give every order of two commands in the Waiting
Room and the banks; a call may itself be four commands.  Pages of three sectors let the
three parts of a modified copy differ, and all sectors of flash, buffers and new pages hold
different values, so a wrong column, count or address shows.  In `bring_up` three starts
are an installation, a second one or a start after a cut, and one more; five blocks with
two log blocks leave one spare besides the first, so that a bad block and a failed erasure
together run out of good ones on one bank and not on the other.  The bad blocks are
on both chips, and one is in `FirstVblk`.  In `host_io` the requests begin and end at every place in a
chunk and cover whole chunks, parts of one, of two and of two pages, and one has a second piece
that begins inside the chunk of its first; five writes fill
hot and cold buffers, program pages of both kinds and overwrite chunks in each place.

Deadlock is checked everywhere except where the system may stop: in `clean_list` the firmware
stops in a `while(1)` when an empty list is popped; in `flash_driver` the calls are bounded and
a loop may wait for ever on a stuck bank; in `bring_up` the failures and starts are
bounded.

Steps, not fairness.  `WritesReturn` is an invariant: a host write takes at most `MaxSteps` steps of the
firmware, so many collections as a block has places, each with its pages, chunks and flushes.  That is stronger than that
it ends, needs no fairness, and its violation is a finite trace.

Fairness.  In `SataHost`, `FairSpec` is weak fairness of the
main loop, of the interrupt handler (nothing masks the FIQ for ever), and of the controller's
end of a transfer whose data is in the buffers.  In `FlashDriver` it is weak fairness of the
loops of the driver (the processor runs), of the timeout (a loop counts its iterations), of the
controller's hand-over and of the end of each bank's command: `Finish` is disabled while the
bank is stuck, so no fairness helps a stuck bank.

## Findings

* `precache`: `findNewLpnForHotLog` (log.c:533, 544) calls `precacheLowPage` before
  it stores `nextLowPageOffset`.  The page read is that of the previous value, at
  first `INVALID`, which `nand_page_ptread` forbids (`ASSERT(page_num < PAGES_PER_BLK)`,
  compiled out).  The buffer it fills is not used yet (the encoder is a TODO), so
  the damage is one read of a wrong page.
* `trim`: `trimRange` clears the slot of a chunk in the hot buffer without clearing
  `allChunksInLogAreValid`.  The flush keeps the hole in the block's count and the
  collector later stops the firmware (garbage_collection.c:628-635).  The same flush stores over the
  last 32 bytes of `LOG_BMT` (write.c:78, 169; above), and log blocks 496..511 of bank 15
  may then be other blocks of the flash: what they held can be lost, and a block that holds data
  can be erased.  In the other banks (`TableKept`), and in bank 15 until that store, the proofs below say that no
  data is lost, no block gets lost or is used twice, and that stop is the only one.  A trim of a
  chunk in flash does no harm anywhere.
* `full_bank`: `LOG_BLK_PER_BANK` is `DATA_BLK_PER_BANK` (ftl_parameters.h:74), and the definition with spare blocks is
  commented out, although the comment above it asks for spare blocks, "because one page per block is used to
  store the lpns" (ftl_parameters.h:60-61).  The host can store 524288 chunks in a bank, whose blocks have places for
  512 * 127 * 8 = 520192.  Once every full block is full of valid chunks, a collection frees
  what it copies, and the loop of log.c:229 does not end.
* `sata_reset`: `Main` sets the slot to NONE after the ATA function has returned
  (sata_main.c:143).  A reset posted by the interrupt since the slot was claimed is
  erased, though "SRST request is regarded as if it were an ATA command" (sata.h:187),
  and the host gets no signature.

## Proofs

`CleanListProofs`: `InvariantHolds` proves the inductive invariant `IInv`, whose
parts are the type invariant, `ListShape` (there is an order of the used nodes that
`head`, `next` and `tail` follow and whose length is `size`), `DistinctBlocks` (used nodes
name different blocks) and `OnlyEmptyHangs`.  `DistinctBlocks` is the strengthening:
with at least as many nodes as blocks (`PoolAssumption`, which `cleanListInit(...,
LOG_BLK_PER_BANK)` establishes), a pigeonhole argument gives a free node for every
push.  `TypeCorrect`, `ShapeCorrect`, `NeverFull` follow, and `Refinement` shows every
step of the linked list is a step of the queue.

`ValidChunksHeapProofs`: `HInv` is the inductive invariant.  Its first half, `PInv`, is
the type invariant, `PositionsMatch`, `LoopInHeap` and `VictimInHeap`; it alone gives
`TypeCorrect` and `PositionsCorrect`, because a swap of two entries of the array with
two of the table keeps them inverse (`SwapKeepsMatch`).  The second half adds
`HeapOrder`, `VictimNearRoot` and `LoopAndVictim` (which loop can be running while a
victim is chosen).  `HeapOrder` exempts the one pair a loop is about to
compare and asks for the order across it, so that the swap repairs it: this
is `OrderBubbleUpSwap` and `OrderBubbleDownSwap`.  `VictimNearRoot` is needed in
`OrderRemove`: the last element replaces a block that the root alone can be above.
That the root has the least count (`RootLeast`) needs an induction on positions, which
is done as a least counterexample (`LeastPosition`, from the well-foundedness of the
strict subsets of a finite set).  `OrderCorrect`, `VictimCorrect` and `Refinement`
(each loop iteration is a stutter of `VictimQueue`, each call one of its steps) follow.
The assumptions are those of the module: at least one block, and counts in `Values`.

`SataHostProofs`: `SInv` is the type invariant with five relations: the interrupt,
the slot and the transfer are for the command the host waits for (`FisIsOutstanding`,
`SlotIsOutstanding`, `TransferIsOutstanding`), what the main loop saw of the queue is
still so when it acts (`QueueAsSeen`), and a deferred transfer is that of the last entry of
the queue (`Deferred`).  The properties alone are not inductive: that no second command
overtakes a deferred one follows only from who owns the host's one outstanding command.
`TypeCorrect`, `StartsCorrect` and `SlowCorrect` hold for every `QueueSize` and `FullAt`.

`FlashDriverProofs`: `DInv` is the inductive invariant.  Beside the types and `DmaOnlyOnLent` it says
that the commands of a wrapper that are left, and the registers they leave unset, name buffers
lent to their bank (`TodoGood`, `RegsLent`, `CopyBufsLent`), that calls and resets take turns on the
stack and a call that waits for more than the Waiting Room is the last of its wrapper
(`StackShape`), that who looks at a bank has found the Waiting Room empty and it still is
(`RoomFirst`), and that a bank has commands of its own only, none when it is idle (`BanksOwn`).
The wrappers differ only in the registers they set, so one lemma for a step of any wrapper
covers them.  `TypeCorrect`, `BuffersCorrect` and `DoneCorrect` hold for every number of banks, rows,
buffers, calls, stuck banks and resets.

`Refinement`, in the same module, is `SeemsSynchronous`.  `ApplyEffect` says what a command may change
and what it may read: the buffers of `BuffersOf`, the flash and the page register of its bank.  So two commands of two
banks that share no buffer commute (`Commute`), and so do a command and what the FTL writes to a buffer the command does not
use (`WriteCommutes`); `DInv` says that the commands in progress are such commands, for a buffer is lent to one bank
only.  `Settled` is followed bank by bank (`Chain`): a command that a bank takes could as well come last, one
that a bank ends could as well have come first, and `Settled` stays what it is; only handing over a
command changes it, by that command.  `OneEach`, one command at most in the Waiting Room and in a bank, is
needed beside `DInv`.  The steps of a chain are counted with `UpTo`, induction over a set of numbers by a
least counterexample.  `CopiesCorrect` is `CopiesAgree`: from any registers, the three commands that fill
the page register in parts put together what `MODIFY_COPYBACK` does (`FilledInParts`).

`BringUpProofs`: four theorems over three invariants.  `FormatInv` describes each bank by what
`format` has done with it, not started, in progress or finished: log blocks are assigned
in the order of the map, every candidate that was looked at is bad or assigned, and
the flag is for the block that is looked at next.  `LogBlocksGood` alone is not inductive: it does
not say that the next block was not assigned before.  `StampInv` adds to `StampAfterLists` which
stamps there can be in each job (none from the first list written to the last one read back) and
that no list keeps block 0 from being erased.  `KeptInv` follows a list through every place
it can be in: while nobody gave up, the marks are on the flash, and the installer's lists once
they are loaded, the files, the page and the bitmap each name all of them.  `BadBlocksKept` says only
the first of these; every other place is where a later erasure gets its knowledge from.
The assumptions are those on sizes, `FactoryAssumption`, `OldPagesAssumption` and `OldZeroAssumption`.

`LogBankProofs`: five theorems about a bank, for every geometry, every finite set of chunks and every
outcome of `reuseCondition`.  `TypeInv` is `TypeOK` with what typing the next step needs, such as
that the hot log of a first usage is on a low page below the saved list.  `RoleInv` says that the clean
list, the heaps and the blocks of the logs partition the blocks, and that a victim is in a
heap it can be taken from; `OneRole` follows, and the steps are few kinds: most change no
role (`KeepsRoles`), the others move one block.  `Reserve` adds to `CleanReserve` that the
firmware works for the host alone until a log fills, and that a copy has its activation on top.
`ProgInv` counts the programs of a page by where its block is: none while it is clean, at most
one of a low page while it waits half-written, and one more for each page a log has passed.
`ProgramDiscipline` alone does not say what a block brings to its second usage.
`StructureUnderTrims` is the four for `TrimSpec`: a trim changes a count or clears a slot of
the hot buffer, and neither is a role, a page or a program (`TrimKeeps`).  Like all theorems about trims it says
what holds while `LOG_BMT` is whole for the bank's blocks (`Intact`); `TableKept` is that this is always so in a bank
none of whose blocks has its entry at the table's end (`TableBlks = {}`).

`LogBankDataProofs`: `NewestCorrect`, `SharedCorrect` and `CountsCorrect`, under the same assumptions and over `TypeInv`, `RoleInv` and `Reserve`.  They need one another and come from one
invariant, `DataInv("none")`: a victim is erased when its count is 0 or every page of it was read, and
only the count, the lists and the map together say that nothing of value is in it.  `HotBuf` and
`ColdBuf` say that the map and the DRAM buffers name each other's chunks; `Stored` that every chunk in
flash is on a page already programmed in this usage, or left from the first one, and named by the list
that goes with its block, which the collector reads; `HotPos` where the page to encode is,
`Uniform` that a list never mixes encoded and plain entries in a page; `TopMatches`, `PageRead`
and `Ahead` that the collector, even after collections inside its copies, has passed over no
chunk of its victim.  `LogCounts` extends `CountsExact` to every label and to the clean blocks.  The
steps are proved twice: first that the places stay right (`PlacesStep`), then, over the
new places, the counts (`CountsStep`).  For those `Off(h, b)`, what heap `h` counts for block `b` beyond the
chunks the map has there, replaces the counts: a step that moves a chunk changes neither it nor any
other block's, and only programming, choosing and restarting move it.  A stop of the firmware may
leave the lists half-way, so only the first four parts are claimed then (`HangStops`: nothing follows).

`HangsNever`, in the same module, is `NeverHangs` for every size: none of the `while(1)` of `write.c`,
`cleanList.c` and `garbage_collection.c` is ever reached.  `StopInv` has four parts over the
invariants above.  `Encoding`: the page that is encoded is the one that was tested.  `Found`: what the collector
found in a victim and what the map still has there are together what the heap promised, so the count it
ends with is right (this needs `CountsExact`).  `Fits`: when no block is clean, what is left in the victim fits in the
block of the cold log, and after a copy that filled a page it fits in one more; a victim is never full,
because a list page holds no data.  `FirstUse`: at most `NumBlks - 4` blocks are half-written, so
that with two logs and less than two clean blocks a collection has a candidate; this is where
`TuningAssumption` is used, which the bounds of the adaptive threshold justify.

Trims, in the same module, all under `Intact`.  `DataInv(trims)` is one invariant in two strengths.  With `"none"` a
heap counts exactly the chunks of the map and the slots to come, and a buffer that claims no hole
has none; with `"some"` a heap counts at least these (`Counted`) and the claim is dropped.  The lemmas about
the bank's steps are proved once for both.  A trim keeps the first if its chunk is in flash and the second
always (`TrimData`).  Hence `DataUnderTrims`, `NewestData` and `NoSharedPlace` whatever is trimmed, and
`CountsUnderTrims`, that `initGC` erases at once only blocks without data.
`FlashTrimsHarmless`: with trims of chunks in flash only, `NeverHangs` and `CountsExact` hold as without.  It needs
one more invariant, `ShortOfBlks`: the collector has a victim only while fewer than two blocks are clean, so
it is idle whenever a trim runs and `nValidChunksFromHeap`, which `trimRange` does not correct, is not in
use.  `TrimsStopAtCount`: with all trims, the firmware can stop only in the comparison the finding is about;
`StopInv("some")` is `StopInv` without `Found`, the one part that believes a count.

The depth of the collector's recursion, in the same module.  Nothing in the code sets a limit: `LOG_BLK_PER_BANK` is
`DATA_BLK_PER_BANK` (ftl_parameters.h:74), so the log has no more blocks than the sectors of the host can fill, and
on a bank whose full blocks are nearly full of valid chunks `NestingBounded` is false.  What bounds the depth is how empty the victims are.  `DepthCorrect`: if every victim leaves
`g` of the places of a block free (`VictimsLeave`), then `g` times the suspended activations, one of them not counted, stays
below those places (`Shallow`).  The invariant `Nested` is an account (`Covered`): a level is
entered with a full block of the cold log and the last clean one, and every victim pays `g` places towards the
next level.  `VictimLeast` says that `initGC` takes a full block with the fewest chunks *in the map*, so how empty
a victim is follows from a count of all chunks (`Crowd`): `DepthByFill` gives the depth from the number of
chunks the host uses and of half-written blocks, which are never collected and may hold no chunk at all.
`NestingCorrect` and `NestingOfFewChunks` are the cases where two activations are enough: victims at least
half empty, or a host whose chunks fill at most half a block.  `NestingBounded` is a statement of these theorems
only: no run checks it, and in `almost_full` it is false.

`HostIoProofs`: `TypeCorrect`, `NewestCorrect`, `ReadsCorrect` and `AlignedLosesNothing` hold for every geometry, number of banks, length of
the rings and set of requests that lie on the drive.  `Inv` adds to the properties that the log
buffers and the map name each other's chunks (`PlacesOK`, `OwnersOK`), that a request lies on the drive with all
it has still to do (`RequestOK`), and `RingsOK`: the host is ahead of the firmware by the pages that are
left, and every sector of the request is in the buffer in which the firmware will look for it.  A new place
is apart from every other chunk because its slot has no owner, and a page for a flush exists because a bank has
one page more than there are chunks.  `NewestStored` is carried from step to step chunk by chunk
(`Newest`), for the sectors that stay out of `lost`.  What the copy over an encoded chunk runs over is in `lost`
too (`NewLost`), and in a read the chunks that come out right are those not in `amiss` (`RowGood`).
`AlignedLosesNothing`: if every request begins and ends at a chunk then every piece is a whole chunk, and `lost`
stays empty.  `rebuildPageToFtlBuf` is a recursive function; that its
values exist and that each has its chunks right (`RowExists`, `RowGood`) is shown by a least
counterexample, as in the heap, because an induction theorem cannot be instantiated.

Only model-checked: liveness (`CommandsAnswered`, `CallsEnd`; out of the prover's reach), the bounded return of
a write (`WritesReturn`) and what `SataReset` adds.

## Not modelled

* `mem_util.c`, `misc.c`, `uart.c`, `initialize.c`, `syscalls.c`: data movement and I/O, modelled by
  their effect where they are used.
* `sata_cmd.c` and `sata_table.c` but for the dispatch: `ATA_IDENTIFY` and the like
  answer with constants.  Addresses of commands and the range check, whose sum of address and
  count wraps at 32 bits (sata_isr.c:169), are not parsed.
* The adaptive threshold of `reuseCondition`: every test may have either outcome in `LogBank`.
* `findNewLpnForColdLog`'s and `increaseLpnColdBlkReused`'s branches under
  `CanReuseBlksForColdData`, `WOMCanFail`, `Overwrite`, DRAM absorption: the build leaves them out.
  `ftl_write_cold`, `ftl_write_hot`, `writeCompletePage`, `readPageSingleStep` and `finishGC` have no caller
  that reaches them.
* The wrappers `*_to_host` and `*_from_host`, which the FTL does not call, and the options of
  the controller for other flash types.
* In the installer, how it finds the drive and its memory; `installer.c` is the same program
  for Windows.
* `tc_synth.c`, the test driver.

## What could follow

1. Resets: what still holds in `SataReset`, where neither the queue nor the deferred flags are cleared.
2. The adaptive threshold and its bounds.
3. The composition of `HostIo` with `LogBank` in place of its free choice of pages.
