------------------------- MODULE MulticlientProgram -------------------------
(***************************************************************************)
(* bsv/Test_Bluecache_MULTICLIENT: the daemon in one program with its      *)
(* clients, which are C++ threads.                                         *)
(***************************************************************************)
EXTENDS DaemonProgram

pageSz == 8192

initMemcached == Layout(pageSz * 6, pageSz * 64, pageSz * 128, 2^25,
                        2^25 + 2^14 + pageSz * 6, 2^27, 2^29)

startProxy == initBluecacheProxy(initMemcached)

(* What the device calls. *)
BluecacheIndication == rdDone \/ wrDone

-----------------------------------------------------------------------------
(* The next buffer of a ring, for the two places in which it is awaited. *)
takeReadBuffer(t) == WriteGetBuffer(t) \/ FlushGetBuffer(t)

takeWriteBuffer == waitIdleWriteBuffer

dmaBufMemwrite(t) == WriteRest(t) \/ WriteFull(t)

(* The overloads that build a request and begin to write it. *)
buildSet(c) == Send(c, "SET")

buildGet(c) == Send(c, "GET")

sendEom == FlushBegin

flushDmaBuf == FlushSend(Flusher)

dmaBufMemreadBuf == ReadRest \/ ReadFull

resetDMADstBuf == HandleEom

-----------------------------------------------------------------------------
registerClient == initMainThread

(* BluecacheClient::set and get, called by set_request and get_request. *)
set(c) == InPhase(c, "SET") /\ buildSet(c)

get(c) == InPhase(c, "GET") /\ buildGet(c)

(* Under the mutex the request is registered, then its answer awaited. *)
sendSet(c) == main = "SET" /\ (Register(c) \/ Return(c))

sendGet(c) == main = "GET" /\ (Register(c) \/ Return(c))

flush_request == FlushLock \/ FlushNothing \/ sendEom \/ flushDmaBuf \/ FlushEnd

decode_response ==
  dmaBufMemreadBuf \/ takeWriteBuffer \/ HandleValueFollows \/ HandleAnswer
  \/ resetDMADstBuf \/ CountAnswer

mainProgram ==
  startProxy \/ initDone \/ ProxyReturns \/ registerClient \/ JoinSets \/ JoinGets

MulticlientNext ==
  \/ mainProgram
  \/ /\ \/ \E c \in Clients : set(c) \/ get(c) \/ sendSet(c) \/ sendGet(c)
        \/ \E t \in Threads : dmaBufMemwrite(t) \/ takeReadBuffer(t)
        \/ BluecacheIndication \/ FPGA \/ flush_request \/ decode_response
     /\ UNCHANGED program_vars
=============================================================================
