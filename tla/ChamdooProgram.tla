--------------------------- MODULE ChamdooProgram ---------------------------
(***************************************************************************)
(* bsv/chamdoo: as MulticlientProgram, but flushing follows the numbers of *)
(* an experiment with Total requests: the flush thread flushes when FlushAt *)
(* requests are batched, and always when all but FlushAt of a phase have been *)
(* flushed so; the client that sends the last SET flushes itself.  Only that *)
(* flush sets flushing.  What flush_request remembers of its last pass is  *)
(* compared with nothing any more.                                         *)
(***************************************************************************)
EXTENDS DaemonProgram

CONSTANTS
  FlushAt, (* 64                                                            *)
  Total,   (* 6400                                                          *)
  MaxEoms  (* bound of the model: EOMs of the flush thread unanswered       *)

ASSUME ChamdooAssumption ==
  FlushAt \in Nat \ {0} /\ Total \in Nat /\ FlushAt <= Total /\ MaxEoms \in Nat \ {0}

VARIABLES
  numReqs,         (* requests sent                                         *)
  flush_type_req_0 (* requests flushed because FlushAt were batched         *)

counts == << numReqs, flush_type_req_0 >>

ChamdooInit == ProgramInit /\ numReqs = 0 /\ flush_type_req_0 = 0

pageSz == 8192

initMemcached == Layout(pageSz * 6, pageSz * 64, pageSz * 128, 2^25,
                        2^25 + 2^14 + pageSz * 6, 2^27, 2^29)

startProxy == initBluecacheProxy(initMemcached)

(* What the device calls. *)
BluecacheIndication == rdDone \/ wrDone

-----------------------------------------------------------------------------
(* The next buffer of a ring, for the two places in which it is awaited. *)
takeReadBuffer(t) == WriteGetBuffer(t) \/ FlushGetBuffer(t)

takeWriteBuffer == waitIdleWriteBuffer

dmaBufMemwrite(t) == WriteRest(t) \/ WriteFull(t)

(* The overloads that build a request and begin to write it. *)
buildSet(c) == Send(c, "SET")

buildGet(c) == Send(c, "GET")

sendEom(t) ==
  /\ BeginWrite(t, EOM)
  /\ UNCHANGED << lock, src, currSrc, srcOff, rdDeq, old, client, flushing,
                  respMoved, rdEnq, wrEnq, sem, got, decode, device >>

flushDmaBuf(t) == FlushSend(t)

dmaBufMemreadBuf == ReadRest \/ ReadFull

resetDMADstBuf == HandleEom

-----------------------------------------------------------------------------
registerClient == initMainThread

(* BluecacheClient::set and get, called by set_request and get_request. *)
set(c) == InPhase(c, "SET") /\ buildSet(c) /\ UNCHANGED counts

get(c) == InPhase(c, "GET") /\ buildGet(c) /\ UNCHANGED counts

(* The last SET is followed by an EOM and flushed. *)
IsLast == main = "SET" /\ numReqs = Total - 1

Registered(c) ==
  /\ ptr' = [ ptr EXCEPT ![c] = reqNo[c] ]
  /\ numReqs' = numReqs + 1
  /\ lock' = None
  /\ pc' = [ pc EXCEPT ![c] = "wait" ]
  /\ UNCHANGED << msg, todo, src, currSrc, srcOff, batched, rdDeq, old, reqNo,
                  outstanding, respMoved, rdEnq, wrEnq, sem, got, decode,
                  device, flush_type_req_0 >>

register(c) == pc[c] = "register" /\ ~ IsLast /\ Registered(c) /\ UNCHANGED flushing

flushLast(c) ==
  /\ pc[c] = "register" /\ IsLast
  /\ sendEom(c)
  /\ UNCHANGED counts

registerLast(c) == pc[c] = "set" /\ Registered(c) /\ flushing' = TRUE

wait(c) == Return(c) /\ UNCHANGED counts

sendSet(c) ==
  main = "SET" /\ (register(c) \/ flushLast(c) \/ registerLast(c) \/ wait(c))

sendGet(c) == main = "GET" /\ (register(c) \/ wait(c))

-----------------------------------------------------------------------------
flushLock ==
  /\ pc[Flusher] = "idle" /\ lock = None
  /\ lock' = Flusher
  /\ pc' = [ pc EXCEPT ![Flusher] = "decide" ]
  /\ UNCHANGED << msg, todo, src, currSrc, srcOff, batched, rdDeq, old, client,
                  shared, decode, device, counts >>

TailDue == flush_type_req_0 >= Total - FlushAt

(* Mutant: one request more is waited for. *)
FlushDueLate == batched > FlushAt \/ TailDue

(* A batch is due, or whatever there is at the end of a phase. *)
FlushDue == batched >= FlushAt \/ TailDue

flushBegin ==
  /\ pc[Flusher] = "decide" /\ ~ flushing
  /\ FlushDue
  /\ Unanswered({Flusher}) < MaxEoms
  /\ flush_type_req_0' = flush_type_req_0 + (IF batched >= FlushAt THEN batched ELSE 0)
  /\ sendEom(Flusher)
  /\ UNCHANGED numReqs

flushEnd ==
  /\ \/ pc[Flusher] = "set"
     \/ pc[Flusher] = "decide" /\ (flushing \/ ~ FlushDue)
  /\ lock' = None
  /\ pc' = [ pc EXCEPT ![Flusher] = "idle" ]
  /\ UNCHANGED << msg, todo, src, currSrc, srcOff, batched, rdDeq, old, client,
                  shared, decode, device, counts >>

flush_request ==
  \/ flushLock \/ flushBegin \/ flushEnd
  \/ /\ dmaBufMemwrite(Flusher) \/ flushDmaBuf(Flusher) \/ takeReadBuffer(Flusher)
     /\ UNCHANGED counts

decode_response ==
  dmaBufMemreadBuf \/ takeWriteBuffer \/ HandleValueFollows \/ HandleAnswer
  \/ resetDMADstBuf \/ CountAnswer

(* Between the phases the main thread clears the counts of the flushes. *)
mainProgram ==
  \/ /\ startProxy \/ initDone \/ ProxyReturns \/ registerClient \/ JoinGets
     /\ UNCHANGED counts
  \/ JoinSets /\ flush_type_req_0' = 0 /\ UNCHANGED numReqs

(* The threads of the clients and of the answers, and the device. *)
Others ==
  \/ mainProgram
  \/ /\ \/ \E c \in Clients : set(c) \/ get(c) \/ sendSet(c) \/ sendGet(c)
        \/ /\ \/ \E c \in Clients :
                    dmaBufMemwrite(c) \/ flushDmaBuf(c) \/ takeReadBuffer(c)
              \/ BluecacheIndication \/ FPGA \/ decode_response
           /\ UNCHANGED counts
     /\ UNCHANGED program_vars

ChamdooNext ==
  \/ Others
  \/ flush_request /\ UNCHANGED program_vars

-----------------------------------------------------------------------------
(* The experiment does not have the numbers that the flushes count on:     *)
(* every client waits, too few requests are batched for a flush, and the   *)
(* device has answered what it was sent or has not enough answers to fill  *)
(* a buffer.                                                               *)
Starved ==
  /\ \A c \in Clients : pc[c] \in { "idle", "wait" }
  /\ batched < FlushAt /\ ~ TailDue
  /\ Unanswered({Flusher}) = 0
  /\ \A i \in 1 .. Len(readQ) : readQ[i].msgs = << >>
  /\ devQ = << >> /\ Len(outQ) < BufSize
=============================================================================
