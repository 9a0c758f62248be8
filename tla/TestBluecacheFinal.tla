------------------------- MODULE TestBluecacheFinal -------------------------
(***************************************************************************)
(* bsv/Test_Bluecache_Final: several batches of SETs, then as many of GETs, *)
(* are sent without waiting in between; the main thread polls the number of *)
(* EOMs answered.  The addresses of freed values overflow from the FPGA into *)
(* FIFOs of the host (HostFifo, one for each slab).  No flash is brought up; *)
(* no DELETE is sent.                                                      *)
(***************************************************************************)
EXTENDS BatchHost, SlabLayout

layout == Layout(8192 * 6, 8192 * 64, 8192 * 128, 2^25, 2^25 + 2^14 + 8192 * 6, 2^27, 2^29)

initMemcached == AskInit /\ slabs' = { layout }

-----------------------------------------------------------------------------
(* Called by the device. *)

initDone == InitDone

rdDone == ReadBufferDone

wrDone == WriteBufferDone

Device ==
  initDone \/ rdDone \/ wrDone \/ DeviceRead \/ doDMAWrite
  \/ \E i \in 1 .. Len(devQ), body \in BodySizes \cup {0} : Answer(i, body)

-----------------------------------------------------------------------------
waitIdleReadBuffer == TakeReadBuffer

dmaBufMemwrite == WriteRest \/ WriteFull \/ WriteGetBuffer(waitIdleReadBuffer)

sendSet == BeginWrite("send", "SET")

sendGet == BeginWrite("send", "GET")

sendEom == BeginWrite("flush", "EOM")

flushDmaBuf == FlushSend \/ FlushGetBuffer(waitIdleReadBuffer)

-----------------------------------------------------------------------------
waitIdleWriteBuffer == DropWriteBuffer \/ FrontWriteBuffer

dmaBufMemreadBuf == ReadRest(TRUE) \/ ReadFull(TRUE) \/ waitIdleWriteBuffer

resetDMADstBuf == SkipPadding

(* The response thread counts the EOMs. *)
decode_response ==
  \/ dmaBufMemreadBuf
  \/ HandleValueFollows
  \/ HandleAnswer(UNCHANGED << script, pc, unheard >>)
  \/ HandleEom(resetDMADstBuf,
               UNCHANGED << script, pc, unheard >> /\ eomCnt' = eomCnt + 1)

(* Mutant: the first EOM ends the wait. *)
PollEomsFirst ==
  /\ At("poll") /\ eomCnt > 0
  /\ eomCnt' = 0
  /\ script' = Tail(script)
  /\ UNCHANGED << pc, writer, freeRead, unheard, reader, returnWrite, asked,
                  readQ, rdDoneQ, devOut >>

(* The main thread goes on when all batches have been answered. *)
PollEoms ==
  /\ At("poll") /\ eomCnt = Head(script).n
  /\ eomCnt' = 0
  /\ script' = Tail(script)
  /\ UNCHANGED << pc, writer, freeRead, unheard, reader, returnWrite, asked,
                  readQ, rdDoneQ, devOut >>

(* threadcount batches of n requests, each with an EOM behind it. *)
Batches(op, n, threadcount) ==
  [ i \in 1 .. threadcount * (n + 1) |->
      IF i % (n + 1) = 0 THEN Step("flush", "EOM", 0) ELSE Step("send", op, 0) ]
  \o << Step("poll", "", threadcount) >>

runtest(n, threadcount) ==
  << Step("give", "", 0), Step("init", "", 0), Wait("cond") >>
  \o Batches("SET", n, threadcount) \o Batches("GET", n, threadcount)

-----------------------------------------------------------------------------
MainThread ==
  \/ initMemcached
  \/ (GiveBuffers \/ Sleep \/ sendSet \/ sendGet \/ sendEom \/ dmaBufMemwrite
       \/ flushDmaBuf \/ PollEoms) /\ UNCHANGED slabs

Next == MainThread \/ ((Device \/ decode_response) /\ UNCHANGED slabs)
=============================================================================
