----------------------------- MODULE Multi5678 ------------------------------
(***************************************************************************)
(* bsv/Test_Bluecache_Multi_5678: one node of a network of FPGAs.  A batch *)
(* of SETs and a batch of GETs; the device divides its memory itself, and  *)
(* the main thread sleeps for ever at the end.  What goes to other nodes is *)
(* not visible to the host.  No DELETE is sent.                            *)
(***************************************************************************)
EXTENDS BatchHost

(* reset, then the rings, then initTable and the wait for initDone. *)
initBluecache == << Step("give", "", 0), Step("init", "", 0), Wait("cond") >>

-----------------------------------------------------------------------------
(* Called by the device. *)

initDone == InitDone

rdDone == ReadBufferDone

wrDone == WriteBufferDone

Device ==
  initDone \/ rdDone \/ wrDone \/ DeviceRead \/ doDMAWrite
  \/ \E i \in 1 .. Len(devQ), body \in BodySizes \cup {0} : Answer(i, body)

-----------------------------------------------------------------------------
waitIdleReadBuffer == TakeReadBuffer

dmaBufMemwrite == WriteRest \/ WriteFull \/ WriteGetBuffer(waitIdleReadBuffer)

sendSet == BeginWrite("send", "SET")

sendGet == BeginWrite("send", "GET")

sendEom == BeginWrite("flush", "EOM")

flushDmaBuf == FlushSend \/ FlushGetBuffer(waitIdleReadBuffer)

-----------------------------------------------------------------------------
waitIdleWriteBuffer == DropWriteBuffer \/ FrontWriteBuffer

dmaBufMemreadBuf == ReadRest(TRUE) \/ ReadFull(TRUE) \/ waitIdleWriteBuffer

resetDMADstBuf == SkipPadding

(* The response thread tells the end of a batch by cond_write; it also     *)
(* counts the EOMs, which nobody reads.                                    *)
decode_response ==
  \/ dmaBufMemreadBuf
  \/ HandleValueFollows
  \/ HandleAnswer(UNCHANGED << script, pc, unheard >>)
  \/ HandleEom(resetDMADstBuf, Signal("cond_write") /\ eomCnt' = eomCnt + 1)

runtest(n, g) ==
  initBluecache
  \o [ i \in 1 .. n |-> Step("send", "SET", 0) ]
  \o << Step("flush", "EOM", 0), Wait("cond_write") >>
  \o [ i \in 1 .. g |-> Step("send", "GET", 0) ]
  \o << Step("flush", "EOM", 0), Wait("cond_write") >>

-----------------------------------------------------------------------------
MainThread ==
  AskInit \/ GiveBuffers \/ Sleep \/ sendSet \/ sendGet \/ sendEom
  \/ dmaBufMemwrite \/ flushDmaBuf

Next == MainThread \/ Device \/ decode_response
=============================================================================
