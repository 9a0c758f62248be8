------------------------- MODULE TestBluecacheFlash -------------------------
(***************************************************************************)
(* bsv/Test_Bluecache_Flash: as BetterDRAM, with other slabs; its response *)
(* thread also accepts answers to DELETEs, which it does not send.         *)
(***************************************************************************)
EXTENDS FlashBlocks, SlabLayout

-----------------------------------------------------------------------------
(* The flash is brought up before the rings are used. *)

eraseDone(e, good) == EraseAcked(e, good)

dumpMapResp(block, st) == DumpAnswered(block, st)

waitIdleEraseTag == EraseBlock

formatBlueming == EraseAll

indexRealConvert(chip, block) == RealIndex(chip, block)

firstFreshBlock(chip) == First(chip, "FRESH")

firstUninitBlock(chip) == First(chip, "UNINIT")

searchNextFreshBlock(chip, k) == NextFresh(chip, k)

populateMappingTable == Populate

storeFlashStatus == StoreSteps

StartUp == ReadStatusFile \/ waitIdleEraseTag \/ FirstBlocks \/ populateMappingTable

FlashDevice ==
  DeviceErase(eraseDone) \/ DeviceProgram \/ DeviceDump(dumpMapResp)

layout == Layout(128, 256, 1024, 2^25, 2^26, 2^27, 2^29)

initMemcached == AskInit /\ slabs' = { layout }

-----------------------------------------------------------------------------
(* Called by the device. *)

initDone == InitDone

rdDone == ReadBufferDone

wrDone == WriteBufferDone

Device ==
  initDone \/ rdDone \/ wrDone \/ DeviceRead \/ doDMAWrite
  \/ \E i \in 1 .. Len(devQ), body \in BodySizes \cup {0} : Answer(i, body)

-----------------------------------------------------------------------------
waitIdleReadBuffer == TakeReadBuffer

dmaBufMemwrite == WriteRest \/ WriteFull \/ WriteGetBuffer(waitIdleReadBuffer)

sendSet == BeginWrite("send", "SET")

sendGet == BeginWrite("send", "GET")

sendEom == BeginWrite("flush", "EOM")

flushDmaBuf == FlushSend \/ FlushGetBuffer(waitIdleReadBuffer)

-----------------------------------------------------------------------------
waitIdleWriteBuffer == DropWriteBuffer \/ FrontWriteBuffer

dmaBufMemreadBuf == ReadRest(TRUE) \/ ReadFull(TRUE) \/ waitIdleWriteBuffer

resetDMADstBuf == SkipPadding

(* The response thread tells the end of a batch by cond_write. *)
decode_response ==
  \/ dmaBufMemreadBuf
  \/ HandleValueFollows
  \/ HandleAnswer(UNCHANGED << script, pc, unheard >>)
  \/ HandleEom(resetDMADstBuf, Signal("cond_write") /\ UNCHANGED eomCnt)

(* What the main thread does, for n SETs and g GETs. *)
runtest(n, g) ==
  StartFlash
  \o << Step("give", "", 0), Step("init", "", 0), Wait("cond") >>
  \o [ i \in 1 .. n |-> Step("send", "SET", 0) ]
  \o << Step("flush", "EOM", 0), Wait("cond_write") >>
  \o [ i \in 1 .. g |-> Step("send", "GET", 0) ]
  \o << Step("flush", "EOM", 0), Wait("cond_write") >>
  \o storeFlashStatus

-----------------------------------------------------------------------------
MainThread ==
  \/ (StartUp \/ AskDump \/ WriteStatusFile) /\ UNCHANGED slabs
  \/ initMemcached /\ UNCHANGED flash
  \/ (GiveBuffers \/ Sleep \/ sendSet \/ sendGet \/ sendEom \/ dmaBufMemwrite
       \/ flushDmaBuf) /\ UNCHANGED << flash, slabs >>

Next ==
  \/ MainThread
  \/ FlashDevice /\ UNCHANGED slabs
  \/ (Device \/ decode_response) /\ UNCHANGED << flash, slabs >>
=============================================================================
