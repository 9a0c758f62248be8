# BlueCache in TLA+

BlueCache is a key-value cache on an FPGA with flash storage. Client threads
on the host hand requests to a daemon, which exchanges large DMA buffers with
the FPGA; the FPGA parses the requests, looks keys up in a hash table in DRAM,
keeps values in flash behind a double write buffer, and writes answers back.
This directory models its control, checks the models with TLC and proves the
central invariants with TLAPS.

Paths below are relative to `src/`.

## Inventory

| part | state | operations | what is hard | what makes it correct |
|---|---|---|---|---|
| host daemon, `bsv/Test_Bluecache_JNI/bluecachedaemon.cpp` | request ring (`dmaRdEnqPtr`, `dmaRdDeqPtr`, current buffer and offset), answer ring (`dmaWrEnqPtr`, ...), `batched_requests`, `outstanding_requests`, `flushing`, one semaphore and result pointers per client | `sendSet/Get/Delete` of a client; `flush_request`; `decode_response`; `rdDone` and `wrDone` from the device | four kinds of threads, one mutex that protects only some of the state; answers in batches; a flush protocol with end-of-message (EOM) commands | no buffer is reused too early, no request or answer is lost or repeated, headers are read where they were written, results reach their call, every call returns |
| daemon programs, `bsv/Test_Bluecache_JNI` (Java, JNI), `bsv/Test_Bluecache_MULTICLIENT`, `bsv/chamdoo` | threads to join, clients registered, counts of the flush policy | `initBluecacheProxy`, `initMainThread`, SET and GET phases | threads of the daemon run before it is set up; chamdoo flushes by the numbers of one experiment | nothing is sent before the device is ready; SETs are over when GETs begin; hangs have known causes |
| benchmark programs, `bsv/Test_Bluecache*/testbluecache.h` | rings as queues of buffers, counters, condition variables | `sendSet/Get/Eom`, `decode_response`, callbacks | lost signals; a program without a response thread; batches that overlap | every buffer has one owner, a batch is over when it is answered, the program ends |
| flash start-up, in the benchmark programs | status of every block, block map, tags of erases, a file | format, read and store the file, map, dump | bad blocks, tags reused, crash before the file is stored | an unwritten virtual block lies on one erased block |
| slab layout, `initMemcached` | addresses and slots | one call | `log2` of doubles, conversions | slabs lie in memory and apart |
| FIFO that overflows to the host, `lib/HostFIFO.bsv` and `testbluecache.h` | a FIFO and an array that doubles | `enq`, `deq`, `sendData`, `elementReq` | wrap-around while growing | first in, first out |
| tests of the flash value store, `bsv/flashstr/Test_*/testsimple.cpp` | buffer, tag table, mutex | `writeReq`, `readReq`, `wrAck`, `getVal` | answers before the wait for them; tags reused | values read are those written; the test ends |
| request parser, `bsv/RequestParser.bsv` | position in a request | header, key, value streams | unaligned pieces | the streams are the requests |
| command pipeline, `bsv/Proc_128.bsv` | tags, `inFlightCmds`, `stall`, FIFOs between rules | `doHash`, `doTable`, `doVal`, `deqKV`, `reqkeyCmp`, `doCheckKeys`, `doResp`, `doDMAWrite` | GETs from flash are answered out of order; EOM drains | each answer has its own header, key and value; tags are unique; EOM is last |
| hash table, `bsv/hashtable_simple` | table in DRAM, scoreboard `sFifo`, FIFOs | `doDRAMCmd`, `procHeader`, `HeaderWriter.request.put`, `writeHeader`, `doArbResp`, `doWrAck` | several requests between read and write of their rows; acknowledgement before the write is done | as if executed one at a time; one header per key; eviction only from full rows |
| flash value store, `bsv/flashstr` | two write buffers of a super page, locks, `superPageCnt`, page tags | `doWriteBuf`, `doReadCmd`, flush by `FlashWriter`, `FlashReader` | reads of data in DRAM, in flight or in flash; buffer reuse during a flush; tags shared by reader and writer | a read returns the bytes written at its address |
| flash server, `bsv/flashstr/FlashServer.bsv` | block map, write and erase pointers per chip, tags | `doEraseIdle`, `doEraseCmd`, `doEraseAck`, `doReserveReq`, `doReq` | blocks erased one ahead with tags that others need; bad blocks | a page is written to an erased block, its tag returned |
| completion buffer, key comparison, response formatter, `bsv/KVStoreCompletionBuffer.bsv`, `bsv/KeyValueSplitter.bsv`, `bsv/ResponseFormatter.bsv` | key and opaque per tag; alignment | store and read back by tag; compare; pack | matched by position in several FIFOs | a GET answers only with the value of its full key |
| DRAM arbiters, `bsv/arbiter` | one queue of response owners | merge of several clients | fairness, response order | each port sees its own responses in order |
| clock, `bsv/time/Time.bsv` | time of day | `update_time` | wraps | times order the use of headers |
| network router, `bsv/router`, `bsv/Proc_128_remote.bsv` | routing queues | requests to other nodes | multi-node only | - |
| NAND controller, `controller/src` | bus state machines | page commands | timing | - |

A request travels: client thread -> request ring -> parser -> hash -> hash
table -> (flash store) -> answer pipeline -> answer ring -> response thread ->
semaphore of the client. `PROJECT.json` lists the hazards at their lines.

## Modules

**`HeaderLogic`** holds the combinational logic of the table as operators:
which ways of a row match (`cmpMask`), which way is used (`ind`, `findLRU`),
the header written back (`newhdr`), the answer and the command for the value
store (`retval`, `value_cmd`). Bit masks are sets of ways. The address of a
value is the number of the SET that stored it.

**`AtomicTable`** is the abstract specification: accepted requests `reqs`, the
table, and the answers `resps`; `Do` runs the logic on one request and the
table its predecessors left.

**`Hashtable`** is the pipeline. Each action is one rule (or a pair of
connected methods); the FIFOs between them are windows of histories, because
requests never overtake each other inside the table: the content of a FIFO is
what was enqueued and not yet dequeued, and its depth is a guard. The scoreboard is
`nAck + 1 .. nCmd`. The DRAM executes one queue of commands in order; the
processor and the value store are external and take any time. The refinement
`AT == INSTANCE AtomicTable WITH table <- Table` maps the pipeline's DRAM, with
the header updates still on their way applied, to the abstract table: a request
is executed where `HeaderWriter` answers it (`putHdrWr`).

**`HostDaemon`** has the client threads, the flush thread, the response thread
and the device. An action is the code of one thread between two accesses that
another thread can tell apart: `BeginWrite`, `WriteRest`, `WriteFull` and
`WriteGetBuffer` are the pieces of `dmaBufMemwrite`; `FlushLock` to
`FlushEnd` those of a pass of `flush_request`; `ReadRest`, `ReadFull` and
`waitIdleWriteBuffer` those of `dmaBufMemreadBuf`; `HandleValueFollows`,
`HandleAnswer`, `HandleEom` and `CountAnswer` those of `decode_response`.
Sizes are in units of one protocol header; an answer is a run of units of which
the first is the header, so reading out of step is visible. `dma_requests` and
`dma_responses` are only compared with their last values, and are kept as the
outcome of that comparison. The device reads buffers in order, answers SETs and
DELETEs in order and GETs when their value is there, an EOM when all before it
are answered (`inFlightCmds == 1`) and nothing behind an EOM before it (`stall`
of `doHash`), fills the buffer after an EOM, and writes full buffers only
(`doDMAWrite`). A DMA buffer is taken in the model when it is full and not at its
first word; the host sees it only when it is full either way.

**`Proc`** is the command pipeline: an action is a rule of `Proc_128.bsv`,
`TagAlloc.bsv` or `KVStoreCompletionBuffer.bsv`. Most FIFOs keep the order of
the commands, so a FIFO is the commands between two counters. The hash table
and the value store are seen from outside. `Proc_128.bsv:312` takes the request
of `flashClient` when the table answers; `HeaderWriter.bsv:219` gives `?` there,
and its lines 145, 152 and 186 give it in comments; the model has the command
come with the answer. In `OwnAnswer` the set `late` holds GETs whose value was
asked for while their entry of the completion buffer was still to be written,
which is excused: a value takes longer to read.

**`FlashServer`** and **`FlashStore`** are the flash value store, in pages: a
value begins at a page (`doWriteBuf` advances by whole pages), and a page is more
than any FIFO on its way holds, so it moves in one step when its taker is there.
`FlashServer` erases ahead, maps blocks and keeps tags, of which only the number
matters; `FlashStore` adds the two write buffers (`WriteBuffer.bsv`), the flush
(`FlashWriter.bsv`), reads from flash (`FlashReader.bsv`, the reservation of
`ReorderBuffer.bsv`) and the merge of answers. A chip executes its commands in
order (`chipQs` of the controller's `Scoreboard.bsv`); DRAM answers both of its
ports in order (`dataQ`). `cmdQ` and `rawCmdQ` are passed at once. The code
indexes `nextWritePtrs` by `{bus,chip}` and `nextErasePtrs` by `{chip,bus}`; the
model has one number per chip, as the comparison of the two never blocks: a flush
reserves its blocks first. Three things the model shows and no document denies:
- a circular wait (`CircularWait`). The answer arbiter is granted to a value of
  several pages in flash when its first page is there (`WriteBuffer.bsv:429`);
  its next page waits in a chip behind a page to be programmed, whose data is
  read from DRAM behind the data of another answer, which waits for the arbiter.
  It needs values larger than a page and a read from a buffer during a flush;
- the last virtual block is never erased (`FlashFull`; the comparison in
  `FlashServer.bsv:117` wraps), so writing stops before the flash is full;
- `doEraseAck` takes the next physical block of a chip whether that one is in use
  or not, after any number of failures (`FlashServer.bsv:158`). With two bad blocks
  on a chip the pointer comes back to blocks in use before the flash is full: what
  was written there is erased and the block is given away a second time. The run
  `device` reaches this. `ErasedAgain` is such a block, `ErasedAgainOnlyIf` says that
  it needs a chip of which every block is in use or bad, and `ReadsOwnValue` excuses
  reads of it. A chip of which no block can be erased tries its blocks for ever
  (`NoGoodBlock`).

A flush is asked for when the buffers are switched (`WriteBuffer.bsv:129`), while
words of the last value may still be on their way to DRAM; `early` holds the
values of which a page was read too soon. Without timing the model cannot exclude
it; in the device the request that causes the switch comes behind those words, of
which at most the contents of a few FIFOs are left.

**`DaemonProgram`** adds to `HostDaemon` the start of the daemon and a main thread
that registers clients and joins their SET and GET threads; **`JNIProgram`**,
**`MulticlientProgram`** and **`ChamdooProgram`** are the three programs.
`ChamdooProgram` replaces the flush policy: the flush thread counts batched
requests, and the client with the last SET flushes itself.

**`BatchHost`** has what the benchmark programs share: two rings of buffers as
queues, the script of the main thread, the response thread, the callbacks and the
device. **`TestBluecache`** (no response thread), **`BetterDRAM`**,
**`BetterDRAMSticky`**, **`TestBluecacheFlash`**, **`TestBluecacheFinal`** (batches
overlap, EOMs are polled) and **`Multi5678`** are the programs. **`FlashBlocks`**
is their flash start-up, with a crash of the process and a second process on the
same flash and file. **`SlabLayout`** computes what `initMemcached` tells the
device; `log2` of zero or less is undefined in C and taken as on x86.
**`HostFifo`** has both sides of the FIFO that overflows to the host.
**`HostState`** has the state of all of these and **`HostPrograms`** puts them together:
one program in a behaviour, on a blank flash or on one that was formatted before, with
`RunAgain` for the next process on the same flash.
In these models a condition variable signalled when nobody waits forgets it.

**`StoreTest`** has what the tests of the flash value store share, **`ReadOneByOne`**
those that read one value after another; **`TestAllRand`**, **`TestAllRandMax`**,
**`TestAllSeq`**, **`TestAllSeqMax`** and **`TestWriteBuffer`** are the tests. Their
`Simple.bsv` calls methods of the store that the store in the repository no longer
has, so it is external there. `ReadOneByOne` makes `rdArray` and sets `burstLimit`
in two steps, as a word may arrive in between. `Test_All_Seq` and `Test_WriteBuffer`
never lock `mu`: unlocking a free mutex is taken to have no effect and a wait to
return with it held, so that only the first acknowledgement can be lost.

The proofs are in modules of their own: **`HeaderLogicProofs`** (lemmas about the
operators), **`AtomicTableProofs`**, **`HashtableProofs`** (with the refinement),
**`ProcProofs`**, **`HostDaemonProofs`**, **`HostProofs`** (the benchmark programs and
the FIFO that overflows), **`FlashStoreProofs`**
(what is written) and **`FlashReadProofs`** (what is read and answered). The `MC*`
modules give the small instances.

## Runs

| run | instance | shows |
|---|---|---|
| `atomic_table` | 2 ways, 1 row, 3 keys of which two share their leading bits, 2 times, 4 requests | `OneHeaderPerKey`, `GetReadsLastSet`, `LossNeedsFullRow` of the header logic: rows fill up, are overwritten, deleted from and evicted from |
| `evict_oldest` | 3 ways, 4 keys | violation: `EvictsSmallestTime`. `findLRU` compares with way 0 only (`HashtableTypes.bsv:145`) |
| `stored_length` | 1 key, two sizes | violation: `GetReadsStoredLength`. An overwrite keeps the old length (`HeaderWriter.bsv:140`) |
| `pipeline` | 2 rows of 1 way, 4 requests, scoreboard of 2, FIFOs of 1, DRAM queue of 4 | the inductive invariant `IInv` and its parts, the refinement `ImplementsAtomicTable`, and `AllAnswered` |
| `daemon` | 2 clients, 1 request each, rings of 2 buffers of 3 units, SET of 2 and GET of 3 units, values of 1 and 2 units | buffers are not reused early, headers stay in step, the count of outstanding requests is exact, no request or answer is lost or repeated |
| `daemon_programs` | the same rings; JNI and MULTICLIENT with one SET and one GET for each of 2 clients, chamdoo with 2 SETs, requests of two sizes | `NothingBeforeInit`, `PhasesApart`; the layout of the slabs; the ways in which chamdoo hangs (`HangsOnlyIf`) (890,000 states) |
| `host_programs` | one program in a behaviour: rings of 2 buffers of 3 units, more requests than both hold; 1 chip of 4 blocks, 2 erase tags, 1 bad block, 2 processes; a FIFO of 2 with 6 elements; buffers of 2 pages of 3 | ownership of buffers, order of headers, tags of erases, the block map over a crash, FIFO order, values read back, and that every program ends unless a listed race has happened (331,000 states) |
| `device` | the pipeline with 2 tags, FIFOs of 1, scripts of 3 and 4 commands; the flash store with super pages of 2 pages, 2 chips of 3 blocks of 2 pages, with no, one, two or only bad blocks on the first chip, a reorder buffer of 2 pages, 5 and 6 requests | `TagsExact`, `EomLast`, `OwnAnswer`, `AllAnswered` of the pipeline; `ReadsOwnValue`, `ErasedAgainOnlyIf`, `StoreAnswers` of the store (515,000 states) |
| `daemon_served` | 1 client, 2 requests, the same rings | `ServedOtherwise`: every call returns, unless one of the next two things happens |
| `daemon_overtaken` | the same | violation: `flushing` set after the EOM was answered (`bluecachedaemon.cpp:763`) stops all flushing |
| `daemon_at_end` | the same, values of 1 unit | violation: an EOM answered at the end of a buffer is not handled (`bluecachedaemon.cpp:559`) |
| `daemon_result` | 2 clients, 1 GET each | violation: an answer is stored through pointers that are not set yet (`bluecachedaemon.cpp:843`) |

**Bounds.** In `pipeline` four requests over a scoreboard of two and FIFOs of
depth one make every FIFO fill and every rule wait; two keys of a one-way row
give hits, misses, overwrites and evictions; two rows let a read pass while
another row is held. In `daemon` a GET fills a buffer exactly, or crosses into
the next one after a SET; a hit leaves room for one header or fills a buffer; an
EOM ends inside a buffer or at its end; a ring of two is gone round several
times because every EOM uses a buffer of each ring, and EOMs are not bounded.
SET stands for DELETE too in these runs: to the daemon both are requests that
are answered in order with a header. `MaxReqs` is the only bound on histories.
Deadlock is not checked for the tables, which stop when `MaxReqs` requests are
answered, nor for the programs, the pipeline and the flash store, which end or
hang as the liveness properties and `HangsOnlyIf` say; it is checked for the
daemon, whose flush thread never stops.

`daemon_programs` runs chamdoo with `FlushAt` 2 of `Total` 4, so that a phase has
one regular flush and then the final ones; with requests of two sizes because
those that cross buffers count differently. `MaxEoms` bounds the EOMs its flush
thread may have under way. `host_programs` runs each program with more requests
than both rings hold, which is what fills them against each other; `Real` blocks
are one fewer than the `Blocks` of a chip, so that a bad one still leaves a block
for each virtual block; two erase tags for three blocks reuse a tag. In `device`
the scripts of the store are those in which it can go wrong: values that fill a buffer, that share
it, that leave its last page unused, that fill a block and that fill the flash,
read from the buffer in use, from the other one and from flash while a flush and
an erasure are going on. With three blocks two are erased before the flash is full,
the second while values of the first are flushed and read. `BadBlocks` is any set of
sets of blocks: with one bad block of three a chip has just enough blocks, with two
it erases its block again, with three it never gets one. `Requests` and `Scripts`
bound all histories.

**Fairness.** Weak fairness of every rule: the scheduler of the compiled rules
fires a rule that can fire, and the arbiter in front of the DRAM queue is round
robin (`bsv/arbiter/MyArbiter.bsv`). In `HostDaemon`: each thread is scheduled,
and the device goes on. Taking the mutex by a client (`Send`) is not fair, a
client need not call; the flush thread gets the mutex because clients are
finitely often in the way in the bounded model. A client that calls is past the
mutex in the model, so `Served` speaks of requests that were written.
The programs, the pipeline and the flash store have finite scripts and every step
uses something up (but for a chip without a good block, which is excused), so that
their state graphs have no cycles and weak fairness of
the next-state relation (of the parts that may run, in `host_programs`) is enough:
the threads and rules together do not stop while one of them can go on. The code
gives that and more, the arbiters being round robin. Spurious wake-ups are left
out.

**Mutants.** Every property of a passing run is violated when one definition is
replaced by a plausible bug, kept next to the original in the module (marked
`Mutant:`): a scoreboard search that misses an entry, an acknowledgement too
early or left out, a pointer wrapped after one round, padding not skipped, a pointer that wraps before the last block, the
buffer freed in `resetDMADstBuf` as the commented-out line 569 would; a tag of an
erase or of a written page not returned or returned twice, a buffer switched to
while it is flushed, a thread not joined, a FIFO that grows one element late, a
wait for several batches that the first EOM ends.

## Proofs

TLAPS checks the following for every value of the constants that satisfies the
assumptions in the modules (at least one way, one place in a FIFO, one buffer, and
so on; requests of the right type). The bounds of the model (`MaxReqs`, `Scripts`,
`MaxElems`) are constants too: the theorems hold whatever they are. Each inductive
invariant was checked with TLC first. In each module there is a lemma per action
and in it a step per conjunct that the action can disturb; `HeaderLogicProofs`
gives the facts about the operators of the table (`mask2ind` returns a member of a
non-empty mask, `ind` finds the way of a key or a free one, and so on).

| module | theorems |
|---|---|
| `AtomicTableProofs` | `TypeCorrect`, `OneHeaderPerKeyHolds`, `GetReadsLastSetHolds`, `LossNeedsFullRowHolds` |
| `HashtableProofs` | `IInvHolds`, `TypeCorrect`, `NoStaleRowHolds`, `OwnAddressHolds`, `PipelineImplementsAtomicTable` |
| `ProcProofs` | `TypeCorrect`, `TagsExactHolds`, `EomLastHolds`, `OwnAnswerHolds` |
| `HostDaemonProofs` | `RingInvHolds`, `SourceBufferFreeHolds`, `AnswersNotOverwrittenHolds`, `StreamInvHolds`, `HeadersInStepHolds`, `AccountInvHolds`, `OutstandingExactHolds`, `NoRequestLostHolds`, `TypeCorrect` |
| `HostProofs` | `HostTypeCorrect`, `EveryBufferOnceHolds`, `TagsExactHolds`, `UnwrittenIsErasedHolds`, `OneBlockEachHolds`, `FifoInvHolds`, `FifoOrderHolds`, `ProgramFifoOrder` |
| `FlashReadProofs` | `StoreInvHolds`, `ReadsOwnValueHolds`, `ErasedAgainOnlyIfHolds`, `OneBadBlock`, `BlocksInSequence` |

**The table.** What `AtomicTable` says of answers is not inductive, as an answer is
computed from the rows: `IInv` adds that a live header has the address of the last
SET of its key (`HeadersAreLastSets`), and that a key which was stored and not
deleted has a header unless more keys than the row has ways were stored in it
(`StoredOrFull`). An eviction takes a way only if no header is free, so that the
keys of the row are more than its ways: that is a fact about cardinalities, from
the one header that each key has.

**The pipeline.** `NoStaleRow` (a row that was read and not answered from is still
what the table holds) is not inductive. A DRAM write could change the row of a read
that is already done: excluded because the scoreboard has no two requests of one row
(`ScoreboardExclusive`) and a request leaves it only when its write is queued.
A read queued behind could be executed before that write: excluded because in
`dramQ` no read of a row is in front of a write to it (`WriteBeforeRead`), which
needs that commands are not duplicated and reads are in order (`DramQOrder`,
`DramQRange`, `DramQComplete`), and that no two headers of a row are on their
way (`OnePendingPerRow`). `OwnAddress` needs that `addrQ` holds exactly the
addresses of the stored values whose header is not written, in order
(`AddrQRange`, `AddrQComplete`, `AddrQOrder`, `StoredBeforeWritten`).

**The refinement.** Under the mapping `table <- Table`, `putHdrWr` is the step `Do`
of the atomic table: the row it answers from is the row of `Table` (`NoStaleRow`,
`OnePendingPerRow`) and the address it will write is that of its own request
(`OwnAddress`). Accepting a request is `Put`; every other rule leaves `Table` as it
is, `writeHeader` and the DRAM because what they do was already counted in. So
`GetReadsLastSet` and the other theorems about `AtomicTable` are true of the answers
of the pipeline; that last step is on paper, since tlapm 1.4.5 does not let a
theorem of an instantiated module be cited.

**The command pipeline.** `TagsExact` counts: the tags that are new, free, on their
way and held add up to all of them (`TagsCounted`), and as many places as tags that
cover all tags hold each once. `OwnAnswer` follows a GET by its tag: its entry in the
completion buffer is its own until it is answered (`EntryOwn`), for which a tag must
not be given to a later command before (`TagReuse`), and what was read for it is its
own (`ReadOwn`, `Bursts`). `EomLast` needs that `inFlightCmds` is the number of
commands not answered (`InFlightExact`) and that an unanswered EOM stalls the next
command (`EomBlocks`). The theorems are about `Proc!Spec`; the run `device` checks
the same module together with the flash store.

**The daemon.** `RingInv` says of each ring that the buffers which the thread that
takes them does not have are consecutive from the place where they are reported:
first those reported next, then those the device still has (`SourceRing`,
`AnswerRing`), and that only the thread with the mutex is inside `dmaBufMemwrite`
(`LockHeld`). With pointers that run over two rounds an empty ring and a full one
differ, so that waiting on `enq # deq` is enough for any number of buffers.

`HeadersInStep` is about what is in those buffers. The model does not keep what the
device has ever sent, so `StreamInv` says that there is such a stream `S`, and a
number `N` of buffers taken from it: the answers lie in `S` one behind the other, and
behind an EOM is the start of a buffer (`Framed`); every buffer not given back, and
`outQ`, is the window of `S` that its place in the ring says (`Windows`); and the
response thread has read `S` from the beginning of an answer on (`ReaderAt`). A step
of the device that answers extends `S` (and has to be shown to fill the buffer after
an EOM exactly), a step that takes a buffer adds one to `N`, and resetting the buffer
after an EOM moves the reader to the end of its window, where the next answer is.
The case that needs care is an EOM that ends where its buffer does: `dstOff` is then
0 in a buffer that was already exchanged, and nothing may be skipped.

`OutstandingExact` and `NoRequestLost` count: `Unanswered(T)` is the number of the
requests and EOMs of the threads `T` in all places between `sendSet` and the response
thread, from the one being written to the header in `decode_response`. The invariant is
`AccountInv`, inductive with `RingInv` and `StreamInv`. `Balance` says that every client
that is not idle has either one of those or one post of its semaphore, and that
`outstanding` is the number of all. Each step moves elements from one place to the
next, adds one at the first place or takes one from the last. The device may answer any
request that `devQ` holds, so what the steps keep are numbers and not sequences. A step
that takes an answer from the buffers needs `StreamInv`: the units in front of the reader
are one header and its value, so that one header leaves the buffers and appears in
`decode_response`. `WriterInv` says where the thread with the mutex is in its request:
nothing is being written when it has left `dmaBufMemwrite`, and no more requests are
batched than the buffer has units, which is what keeps `batched` in its type. The number of elements in the buffers that the
device has to read is over `FlattenSeq`, which is recursive; what it returns follows from
an induction on the set of places for which the statement is true (`Climb`), which needs
no induction theorem with an operator as a parameter: it takes the smallest `1 .. i` that
fails, by the well-foundedness of the finite subsets of `Nat`.

**The FIFO that overflows.** `FifoInv` says that there are running counts, over the
indications on their way to the host, of elements sent and of elements asked for.
From them the three counters of `HostFIFO.bsv` are exact, no more is asked for than
was sent before, and each queue continues the numbers of the one in front of it; the
array is a window modulo its size. Doubling it keeps the order only if the contents
do not wrap around its end, which is the condition in `FifoOrder`.

**The benchmark programs.** The theorems are about `HostPrograms!Spec`, the
specification that the run `host_programs` checks, with any set of numbers of requests.
The six programs have the same actions, those of `BatchHost` and `FlashBlocks`, under
names and in scripts of their own. So the proof has two parts. The first defines
`HostStep`, any of these actions with the few guards that all programs have, and shows
that `HostInv` is inductive for it, once for all programs. The second, at the end of
the module, shows that every step of every program is a `HostStep` (the definitions of
the six modules are expanded and compared) and that the script of every program has the
shape that `HostInv` asks for, for every number of requests.

`HostInv` has four parts. `Shape` says what the script looks like: steps that bring the
flash up, one step that takes the rings into use, the rest; and where the main thread is
in its step. `BatchTypes` has the types, among them that a buffer that comes back is
full and that the reader stays inside it. `Rings` says that the rings are empty before
that one step, and that afterwards the queues of each ring hold as many places as there
are buffers and name every buffer: as the numbers are equal no buffer is there twice, and
an action only has to move an element from one queue to another (`EveryBufferOnce`).
`FlashKept` is about the flash. `TagsExact` needs that the free tags and those under way
are distinct and add up to all. `UnwrittenIsErased` needs that a block recorded as fresh
is erased, or that it has been written and the dump of the map has not reported it yet
(`FreshKnown`); that this is so when the map is filled needs that no erase is under way
then (`Phase`: the wait for `eraseAcks` in `formatBlueming` ends after the last one), and
that a file with statuses, read by the next process, tells the truth (`FileKnown`),
which needs that a process asks for the dump, waits for it and stores the statuses in
this order and at the end. `OneBlockEach` follows from what
`searchNextFreshBlock` returns: without a gap the positions it starts from give blocks
that grow.

**The flash value store.** The theorems are about `StoreSpec`, the store by itself.
`StoreInv` has two halves. `CoreInv` (in `FlashStoreProofs`) follows the pages that are
written. The values lie one behind the other, each in one super page, and at most the
super page before the one being filled is flushed (`ValuesInv`, `FlushInv`). A buffer
holds the pages of its values, or the request that is to write them is still queued,
the last ones last (`DramInv`). Nothing is assumed of the bad blocks. Either every
block of a chip is in use or bad (`Tried`), or the blocks from the pointer on are free
and those behind it are in use or bad, each virtual block with one of its own
(`MapInv`): when the pointer comes back to its first block it has tried them all, so
that a block in use is erased only then. A block once erased again stays so, and
therefore what is excused stays excused; the parts about the contents of flash speak of
the other pages. That one bad block on a chip does no harm (`OneBadBlock`) is by
counting: the last virtual block is never erased, so that when a block is erased while
in use two others at least are not in use, and both of them must be bad. The pages issued so far are the first ones of the
virtual flash, evenly over the chips, so each goes to a block that is mapped
(`PagesIssued`, `IssuedMapped`, and `BlocksInSequence` from them); each of them is in
flash, or on its way there with the data it is to have, or waits for it in the order of
`writeTagQ` (`WritesInv`, `TagsInv`, `DataToFlash`, `Stored`); and no read of a page
stands in front of the command that writes it (`ReadsBehindWrites`). `ReadInv` (in
`FlashReadProofs`) follows the reads. A read from flash is of pages that were issued
before (`ReadersInv`); it asks for its first page, flash has it, or it is in `deqQ`, and
a read from DRAM is in none of these places (`PlacesInv`); so each page of an answer
comes from the head of the queue that the arbiter was granted to (`BurstsInv`,
`FlashAnswers`, `DramAnswers`), and it is the next one of its value.

**Only model-checked.** `SlabsInMemory`: it is about powers of two and their
logarithms, and the provers know nothing of `^`. `HeadersInStep` of `BatchHost`: it needs
the stream of answers of `HostDaemonProofs` once more, for queues instead of ring
pointers. `BatchesAnswered`, and the properties of the programs around the daemon
(`NothingBeforeInit`, `PhasesApart`, `HangsOnlyIf`) and of the tests of the flash value
store (`ReadsPass`, `SleepsOnlyIf`, `ValuesInPlace`): not attempted. Liveness
(`AllAnswered`, `ServedOtherwise`, `Finishes`, `StoreAnswers`) and `ENABLED` (in
`HangsOnlyIf`) are out of reach of the prover.

## Not modelled

`doinit` of the table (the models start when it is done); the random misses of the
simulation build (`HeaderWriter.bsv:124`); values of length 0; the wrap of
`dma_requests` and `dma_responses` at 2^32 between two passes; the wrap of the
clock; a client that is registered while others wait (no program does it); the
contents of values; the words of the serialisers between DRAM, flash and the
pipeline, and with them the request parser and the response formatter, which are
data paths; values larger than a super page; the simulation variants of the flash
server (BSIM, `mkFlashServer_dummy`); the multi-node pipeline `Proc_128_remote` and
the network; the hash function; the older tables `hashtable` and
`hashtable_optimized`; the DRAM value store of `Proc.bsv`; the test programs of
those parts (`valuestr`, `hash`, `hashtable`, `Test_ReqPar`, `Test_Flash`), which
feed them one fixed sequence; the NAND controller, but for the order of the commands
of a chip and erasures that fail; the vendored cores.

## Plan

1. Done: `HeaderLogic`, `AtomicTable`, `Hashtable` with the inductive invariant
   proved; `HostDaemon` and the programs around it; the benchmark programs; the
   tests of the flash value store; `Proc`; `FlashServer` and `FlashStore`.
2. Done: the theorems about `AtomicTable`, `Hashtable` and its refinement, `Proc`,
   the rings, the stream of answers and the counts of `HostDaemon`, `HostFifo`, the
   flash value store, and the rings, the erases and the block map of the benchmark
   programs.
3. `HeadersInStep` of `BatchHost`; `DaemonProgram`: `NothingBeforeInit` and
   `PhasesApart`; the tests of the flash value store.
4. Pure algorithms: `RequestParser` and `ResponseFormatter` word packing against
   a byte-stream definition; a composition of `Proc` with the device that
   `HostDaemon` assumes (`MayAnswer`).
