--------------------------- MODULE TestBluecache ----------------------------
(***************************************************************************)
(* bsv/Test_Bluecache: the main thread writes a whole batch before it reads *)
(* the first answer to it; there is no response thread.                    *)
(***************************************************************************)
EXTENDS FlashBlocks, SlabLayout

-----------------------------------------------------------------------------
(* The flash is brought up before the rings are used. *)

eraseDone(e, good) == EraseAcked(e, good)

dumpMapResp(block, st) == DumpAnswered(block, st)

waitIdleEraseTag == EraseBlock

formatBlueming == EraseAll

indexRealConvert(chip, block) == RealIndex(chip, block)

firstFreshBlock(chip) == First(chip, "FRESH")

firstUninitBlock(chip) == First(chip, "UNINIT")

searchNextFreshBlock(chip, k) == NextFresh(chip, k)

populateMappingTable == Populate

storeFlashStatus == StoreSteps

StartUp == ReadStatusFile \/ waitIdleEraseTag \/ FirstBlocks \/ populateMappingTable

FlashDevice ==
  DeviceErase(eraseDone) \/ DeviceProgram \/ DeviceDump(dumpMapResp)

layout == Layout(8193, 8194, 8195, 2^25, 2^25 + 2^14 + 8193, 2^27, 2^29)

initMemcached == AskInit /\ slabs' = { layout }

-----------------------------------------------------------------------------
(* Called by the device. *)

initDone == InitDone

rdDone == ReadBufferDone

wrDone == WriteBufferDone

Device ==
  initDone \/ rdDone \/ wrDone \/ DeviceRead \/ doDMAWrite
  \/ \E i \in 1 .. Len(devQ), body \in BodySizes \cup {0} : Answer(i, body)

-----------------------------------------------------------------------------
waitIdleReadBuffer == TakeReadBuffer

dmaBufMemwrite == WriteRest \/ WriteFull \/ WriteGetBuffer(waitIdleReadBuffer)

sendSet == BeginWrite("send", "SET")

sendGet == BeginWrite("send", "GET")

sendEom == BeginWrite("flush", "EOM")

flushDmaBuf == FlushSend \/ FlushGetBuffer(waitIdleReadBuffer)

-----------------------------------------------------------------------------
waitIdleWriteBuffer == DropWriteBuffer \/ FrontWriteBuffer

dmaBufMemreadBuf == ReadRest(At("check")) \/ ReadFull(At("check")) \/ waitIdleWriteBuffer

resetDMADstBuf == SkipPadding

(* Answers are read by the main thread, where it checks them. *)
Checked == script' = Tail(script) /\ UNCHANGED << pc, unheard >>

checkGetResp ==
  \/ dmaBufMemreadBuf
  \/ HandleValueFollows
  \/ HandleAnswer(Checked)
  \/ HandleEom(resetDMADstBuf, Checked /\ UNCHANGED eomCnt)

(* One check step for each answer to a batch of n requests and its EOM. *)
Check(op, n) == [ i \in 1 .. n |-> Step("check", op, 0) ] \o << Step("check", "EOM", 0) >>

checkSetResp(n) == Check("SET", n)

(* What the main thread does for n SETs and as many GETs. *)
runtest(n) ==
  StartFlash
  \o << Step("give", "", 0), Step("init", "", 0), Wait("cond") >>
  \o [ i \in 1 .. n |-> Step("send", "SET", 0) ]
  \o << Step("flush", "EOM", 0) >> \o checkSetResp(n)
  \o [ i \in 1 .. n |-> Step("send", "GET", 0) ]
  \o << Step("flush", "EOM", 0) >> \o Check("GET", n)
  \o storeFlashStatus

-----------------------------------------------------------------------------
MainThread ==
  \/ (StartUp \/ AskDump \/ WriteStatusFile) /\ UNCHANGED slabs
  \/ initMemcached /\ UNCHANGED flash
  \/ (GiveBuffers \/ Sleep \/ sendSet \/ sendGet \/ sendEom \/ dmaBufMemwrite
       \/ flushDmaBuf \/ checkGetResp) /\ UNCHANGED << flash, slabs >>

Next ==
  \/ MainThread
  \/ FlashDevice /\ UNCHANGED slabs
  \/ Device /\ UNCHANGED << flash, slabs >>
=============================================================================
