----------------------------- MODULE HostDaemon -----------------------------
(***************************************************************************)
(* The host daemon of bsv/Test_Bluecache_JNI/bluecachedaemon.cpp: clients  *)
(* write requests into a ring of DMA buffers under one mutex, a flush      *)
(* thread sends a buffer that does not fill up, and a response thread      *)
(* reads a second ring, hands each answer to its client and counts it.     *)
(* The FPGA (Proc_128.bsv) reads request buffers, answers and writes       *)
(* response buffers.                                                       *)
(*                                                                         *)
(* Sizes are counted in units of one protocol header.  The counters that   *)
(* the flush thread only compares with their last value (dma_requests,     *)
(* dma_responses) are kept as the outcome of that comparison.  One action  *)
(* is the code of one thread between two accesses that another thread can  *)
(* tell apart.                                                             *)
(***************************************************************************)
EXTENDS Integers, SequencesExt

CONSTANTS
  Clients,   (* the threads that call sendSet, sendGet and sendDelete       *)
  Flusher,   (* the thread of flush_request                                 *)
  None,      (* no thread: the mutex is free                                *)
  Ops,       (* the operations clients ask for                              *)
  NumBufs,   (* NUM_BUFS: buffers in each ring                              *)
  BufSize,   (* DMABUF_SZ in units                                          *)
  ReqSize,   (* the size of a request of each operation                     *)
  BodySizes, (* the sizes of the values that a GET's answer may carry       *)
  MaxReqs    (* bound of the model: requests of a client                    *)

Threads == Clients \cup {Flusher}

ASSUME DaemonAssumption ==
  /\ Flusher \notin Clients /\ None \notin Threads
  /\ Ops \subseteq {"SET", "GET", "DELETE"}
  /\ NumBufs \in Nat \ {0} /\ BufSize \in Nat \ {0} /\ BodySizes \subseteq Nat \ {0}
  /\ ReqSize \in [ Ops -> Nat \ {0} ]
  /\ MaxReqs \in Nat

VARIABLES
  (* what mutexlock protects *)
  lock,      (* mutexlock: the thread that holds it                         *)
  pc,        (* where each thread is                                        *)
  msg,       (* the request being written, and what is left of it           *)
  todo,
  src,       (* requests that end in the buffer being filled                *)
  currSrc,   (* currSrcBase: that buffer, -1 at the start                   *)
  srcOff,    (* srcBuf_offset                                               *)
  batched,   (* batched_requests                                            *)
  rdDeq,     (* dmaRdDeqPtr                                                 *)
  old,       (* the flush thread's old values and its local snapshot        *)
  reqNo,     (* number of the last request of each client                   *)
  ptr,       (* successList / valBufList: the request whose variables they  *)
             (* point to, 0 before the first                                *)
  (* shared without it *)
  flushing, outstanding,
  respMoved, (* dma_responses # old_dma_responses                           *)
  rdEnq, wrEnq,  (* dmaRdEnqPtr, dmaWrEnqPtr                                *)
  sem,       (* lockList                                                    *)
  got,       (* what decode_response did last for each client               *)
  (* decode_response *)
  dpc, part, need, units, currDst, dstOff, wrDeq,
  (* the device and the DMA memory *)
  readQ,     (* buffers handed to startRead                                 *)
  rdDoneQ,   (* buffers read, rdDone not delivered yet                      *)
  devQ,      (* requests read and not answered                              *)
  outQ,      (* units of the answers, not in host memory yet                *)
  writeBaseQ, (* free response buffers                                      *)
  dst,       (* dstBuffer                                                   *)
  wrDoneQ    (* buffers written, wrDone not delivered yet                   *)

host   == << lock, pc, msg, todo, src, currSrc, srcOff, batched, rdDeq, old >>
client == << reqNo, ptr >>
shared == << flushing, outstanding, respMoved, rdEnq, wrEnq, sem, got >>
decode == << dpc, part, need, units, currDst, dstOff, wrDeq >>
device == << readQ, rdDoneQ, devQ, outQ, writeBaseQ, dst, wrDoneQ >>
vars   == << host, client, shared, decode, device >>

-----------------------------------------------------------------------------
EOM == [ from |-> Flusher, op |-> "EOM" ]

Size(m) == IF m.op = "EOM" THEN 1 ELSE ReqSize[m.op]

(* A unit of the response stream: unit k of the answer to m, which carries *)
(* a value of body units, 0 for a GET that misses and all other requests.  *)
Unit(m, body, k) == [ m |-> m, body |-> body, k |-> k ]

Pad == Unit(EOM, 0, 0)

(* dmaRdEnqPtr is rd and the device has these free response buffers. *)
StartState(rd, free) ==
  /\ lock = None
  /\ pc = [ t \in Threads |-> "idle" ]
  /\ msg = EOM /\ todo = 0 /\ src = << >> /\ currSrc = -1 /\ srcOff = BufSize
  /\ batched = 0 /\ rdDeq = 0
  /\ old = [ batched |-> 0, out |-> 0, reqMoved |-> FALSE,
             outNow |-> 0, respMovedNow |-> FALSE ]
  /\ reqNo = [ c \in Clients |-> 0 ] /\ ptr = [ c \in Clients |-> 0 ]
  /\ flushing = FALSE /\ outstanding = 0 /\ respMoved = FALSE
  /\ rdEnq = rd /\ wrEnq = 0
  /\ sem = [ c \in Clients |-> 0 ]
  /\ got = [ c \in Clients |-> [ what |-> "nothing", by |-> 0 ] ]
  /\ dpc = "read" /\ part = "header" /\ need = 1 /\ units = << >>
  /\ currDst = -1 /\ dstOff = BufSize /\ wrDeq = 0
  /\ readQ = << >> /\ rdDoneQ = << >> /\ devQ = << >> /\ outQ = << >>
  /\ writeBaseQ = free
  /\ dst = [ b \in 0 .. NumBufs - 1 |-> << >> ]
  /\ wrDoneQ = << >>

AllBuffers == [ i \in 1 .. NumBufs |-> i - 1 ]

(* initBluecacheProxy has given every buffer of both rings to its user. *)
Init == StartState(NumBufs, AllBuffers)

(* Mutants: a pointer that is not wrapped, or wrapped after one round, so  *)
(* that a full ring looks like an empty one.                               *)
IncrNoWrap(p) == p + 1
IncrOneRound(p) == (p + 1) % NumBufs

(* The pointers run over two rounds of the ring. *)
Incr(p) == (p + 1) % (2 * NumBufs)

-----------------------------------------------------------------------------
(* dmaBufMemwrite, run by the thread that holds the mutex. *)

(* Mutant: an EOM is not counted. *)
BeginWriteNoEom(t, m) ==
  /\ msg' = m
  /\ todo' = Size(m)
  /\ outstanding' = IF t = Flusher THEN outstanding ELSE outstanding + 1
  /\ batched' = IF srcOff + Size(m) < BufSize THEN batched + 1
                ELSE IF srcOff + Size(m) = BufSize THEN 0
                ELSE 1
  /\ pc' = [ pc EXCEPT ![t] = "write" ]

(* Its first lines: count the request and say how many are batched in the  *)
(* buffer that is not full after it.                                       *)
BeginWrite(t, m) ==
  /\ msg' = m
  /\ todo' = Size(m)
  /\ outstanding' = outstanding + 1
  /\ batched' = IF srcOff + Size(m) < BufSize THEN batched + 1
                ELSE IF srcOff + Size(m) = BufSize THEN 0
                ELSE 1
  /\ pc' = [ pc EXCEPT ![t] = "write" ]

AfterWrite == IF msg.op = "EOM" THEN "flush" ELSE "register"

startRead(b, ms) ==
  /\ readQ' = Append(readQ, [ buf |-> b, msgs |-> ms ])
  /\ old' = [ old EXCEPT !.reqMoved = TRUE ]

(* The rest of the request fits and leaves room. *)
WriteRest(t) ==
  /\ pc[t] = "write"
  /\ srcOff + todo < BufSize
  /\ src' = Append(src, msg)
  /\ srcOff' = srcOff + todo
  /\ todo' = 0
  /\ pc' = [ pc EXCEPT ![t] = AfterWrite ]
  /\ UNCHANGED << lock, msg, currSrc, batched, rdDeq, old, client, shared,
                  decode, device >>

(* It fills the buffer: the buffer is sent and the next one is needed. *)
WriteFull(t) ==
  /\ pc[t] = "write"
  /\ srcOff + todo >= BufSize
  /\ IF currSrc # -1
     THEN /\ todo' = todo - (BufSize - srcOff)
          /\ startRead(currSrc, IF todo' = 0 THEN Append(src, msg) ELSE src)
     ELSE UNCHANGED << todo, readQ, old >>
  /\ src' = << >>
  /\ srcOff' = 0
  /\ pc' = [ pc EXCEPT ![t] = "getBuffer" ]
  /\ UNCHANGED << lock, msg, currSrc, batched, rdDeq, client, shared, decode,
                  rdDoneQ, devQ, outQ, writeBaseQ, dst, wrDoneQ >>

waitIdleReadBuffer(t, next) ==
  /\ rdEnq # rdDeq
  /\ currSrc' = rdDeq % NumBufs
  /\ rdDeq' = Incr(rdDeq)
  /\ pc' = [ pc EXCEPT ![t] = next ]
  /\ UNCHANGED << lock, msg, todo, src, srcOff, batched, old, client, shared,
                  decode, device >>

WriteGetBuffer(t) ==
  /\ pc[t] = "getBuffer"
  /\ waitIdleReadBuffer(t, IF todo > 0 THEN "write" ELSE AfterWrite)

-----------------------------------------------------------------------------
(* sendSet, sendGet and sendDelete of a client. *)

Send(c, op) ==
  /\ pc[c] = "idle" /\ reqNo[c] < MaxReqs
  /\ lock = None
  /\ lock' = c
  /\ BeginWrite(c, [ from |-> c, op |-> op ])
  /\ reqNo' = [ reqNo EXCEPT ![c] = @ + 1 ]
  /\ UNCHANGED << src, currSrc, srcOff, rdDeq, old, ptr, flushing, respMoved,
                  rdEnq, wrEnq, sem, got, decode, device >>

(* Only now does the response thread learn where the answer goes. *)
Register(c) ==
  /\ pc[c] = "register"
  /\ ptr' = [ ptr EXCEPT ![c] = reqNo[c] ]
  /\ lock' = None
  /\ pc' = [ pc EXCEPT ![c] = "wait" ]
  /\ UNCHANGED << msg, todo, src, currSrc, srcOff, batched, rdDeq, old, reqNo,
                  shared, decode, device >>

(* sem_wait *)
Return(c) ==
  /\ pc[c] = "wait" /\ sem[c] > 0
  /\ sem' = [ sem EXCEPT ![c] = @ - 1 ]
  /\ pc' = [ pc EXCEPT ![c] = "idle" ]
  /\ UNCHANGED << lock, msg, todo, src, currSrc, srcOff, batched, rdDeq, old,
                  client, flushing, outstanding, respMoved, rdEnq, wrEnq, got,
                  decode, device >>

-----------------------------------------------------------------------------
(* flush_request *)

FlushLock ==
  /\ pc[Flusher] = "idle" /\ lock = None
  /\ lock' = Flusher
  /\ old' = [ old EXCEPT !.outNow = outstanding, !.respMovedNow = respMoved ]
  /\ respMoved' = FALSE
  /\ pc' = [ pc EXCEPT ![Flusher] = "decide" ]
  /\ UNCHANGED << msg, todo, src, currSrc, srcOff, batched, rdDeq, client,
                  flushing, outstanding, rdEnq, wrEnq, sem, got, decode,
                  device >>

(* Nothing was batched, sent or answered since the last pass. *)
BatchIdle == batched > 0 /\ old.batched = batched /\ ~ old.reqMoved

(* Mutant: answers that wait for a full buffer do not cause a flush. *)
AnswersIdleNever == FALSE

AnswersIdle == old.outNow > 0 /\ old.outNow = old.out /\ ~ old.respMovedNow

(* The last lines of a pass. *)
EndPass ==
  /\ old' = [ old EXCEPT !.batched = batched, !.reqMoved = FALSE,
                         !.out = old.outNow, !.outNow = 0,
                         !.respMovedNow = FALSE ]
  /\ lock' = None
  /\ pc' = [ pc EXCEPT ![Flusher] = "idle" ]

FlushNothing ==
  /\ pc[Flusher] = "decide"
  /\ flushing \/ ~ (BatchIdle \/ AnswersIdle)
  /\ EndPass
  /\ UNCHANGED << msg, todo, src, currSrc, srcOff, batched, rdDeq, client,
                  shared, decode, device >>

(* flushDmaBuf: sendEom ... *)
FlushBegin ==
  /\ pc[Flusher] = "decide"
  /\ ~ flushing /\ (BatchIdle \/ AnswersIdle)
  /\ BeginWrite(Flusher, EOM)
  /\ UNCHANGED << lock, src, currSrc, srcOff, rdDeq, old, client, flushing,
                  respMoved, rdEnq, wrEnq, sem, got, decode, device >>

(* ... then send what the buffer holds. *)
FlushSend(t) ==
  /\ pc[t] = "flush"
  /\ batched' = 0
  /\ IF srcOff > 0 /\ currSrc # -1
     THEN /\ startRead(currSrc, src)
          /\ src' = << >>
          /\ srcOff' = 0
          /\ pc' = [ pc EXCEPT ![t] = "getNext" ]
     ELSE /\ pc' = [ pc EXCEPT ![t] = "set" ]
          /\ UNCHANGED << readQ, old, src, srcOff >>
  /\ UNCHANGED << lock, msg, todo, currSrc, rdDeq, client, shared, decode,
                  rdDoneQ, devQ, outQ, writeBaseQ, dst, wrDoneQ >>

FlushGetBuffer(t) ==
  /\ pc[t] = "getNext"
  /\ waitIdleReadBuffer(t, "set")

(* flushing = true, after the EOM may already have been answered. *)
FlushEnd ==
  /\ pc[Flusher] = "set"
  /\ flushing' = TRUE
  /\ EndPass
  /\ UNCHANGED << msg, todo, src, currSrc, srcOff, batched, rdDeq, client,
                  outstanding, respMoved, rdEnq, wrEnq, sem, got, decode,
                  device >>

-----------------------------------------------------------------------------
(* The device: it reads buffers in the order of startRead ... *)
DeviceRead ==
  /\ readQ # << >>
  /\ devQ' = devQ \o Head(readQ).msgs
  /\ rdDoneQ' = Append(rdDoneQ, Head(readQ).buf)
  /\ readQ' = Tail(readQ)
  /\ UNCHANGED << host, client, shared, decode, outQ, writeBaseQ, dst,
                  wrDoneQ >>

rdDone ==
  /\ rdDoneQ # << >>
  /\ rdEnq' = Incr(rdEnq)
  /\ rdDoneQ' = Tail(rdDoneQ)
  /\ UNCHANGED << host, client, flushing, outstanding, respMoved, wrEnq, sem,
                  got, decode, readQ, devQ, outQ, writeBaseQ, dst, wrDoneQ >>

(* ... answers a GET whenever its value is there, the others in order, an  *)
(* EOM when it is the oldest and nothing past an EOM before it, and pads   *)
(* the buffer after an EOM ...                                             *)
MayAnswer(i) ==
  /\ devQ[i].op = "EOM" => i = 1
  /\ \A j \in 1 .. i - 1 : devQ[j].op # "EOM"
  /\ devQ[i].op \in {"SET", "DELETE"} =>
       \A j \in 1 .. i - 1 : devQ[j].op = "GET"

Answer(i, body) ==
  LET m == devQ[i]
      r == (Len(outQ) + 1 + body) % BufSize
      padding == IF m.op = "EOM" /\ r # 0 THEN BufSize - r ELSE 0
  IN  /\ MayAnswer(i)
      /\ body > 0 => m.op = "GET"
      /\ devQ' = RemoveAt(devQ, i)
      /\ outQ' = outQ \o [ k \in 1 .. 1 + body |-> Unit(m, body, k) ]
                      \o [ k \in 1 .. padding |-> Pad ]
      /\ UNCHANGED << host, client, shared, decode, readQ, rdDoneQ,
                      writeBaseQ, dst, wrDoneQ >>

(* ... and writes full buffers only, into the buffers freed for it. *)
doDMAWrite ==
  /\ Len(outQ) >= BufSize
  /\ writeBaseQ # << >>
  /\ dst' = [ dst EXCEPT ![Head(writeBaseQ)] = SubSeq(outQ, 1, BufSize) ]
  /\ outQ' = SubSeq(outQ, BufSize + 1, Len(outQ))
  /\ wrDoneQ' = Append(wrDoneQ, Head(writeBaseQ))
  /\ writeBaseQ' = Tail(writeBaseQ)
  /\ UNCHANGED << host, client, shared, decode, readQ, rdDoneQ, devQ >>

wrDone ==
  /\ wrDoneQ # << >>
  /\ wrEnq' = Incr(wrEnq)
  /\ wrDoneQ' = Tail(wrDoneQ)
  /\ UNCHANGED << host, client, flushing, outstanding, respMoved, rdEnq, sem,
                  got, decode, readQ, rdDoneQ, devQ, outQ, writeBaseQ, dst >>

-----------------------------------------------------------------------------
(* dmaBufMemreadBuf, run by decode_response *)

ReadRest ==
  /\ dpc = "read"
  /\ dstOff + need < BufSize
  /\ units' = units \o SubSeq(dst[currDst], dstOff + 1, dstOff + need)
  /\ dstOff' = dstOff + need
  /\ need' = 0
  /\ dpc' = "handle"
  /\ UNCHANGED << host, client, shared, part, currDst, wrDeq, device >>

(* What is read reaches the end of the buffer: the buffer is freed, so     *)
(* that what it held is gone, and the next one is waited for, even if      *)
(* nothing more is to be read.                                             *)
ReadFull ==
  /\ dpc = "read"
  /\ dstOff + need >= BufSize
  /\ IF currDst # -1
     THEN /\ units' = units \o SubSeq(dst[currDst], dstOff + 1, BufSize)
          /\ need' = need - (BufSize - dstOff)
          /\ writeBaseQ' = Append(writeBaseQ, currDst)
          /\ dst' = [ dst EXCEPT ![currDst] = << >> ]
     ELSE UNCHANGED << units, need, writeBaseQ, dst >>
  /\ dstOff' = 0
  /\ dpc' = "getBuffer"
  /\ UNCHANGED << host, client, shared, part, currDst, wrDeq, readQ, rdDoneQ,
                  devQ, outQ, wrDoneQ >>

waitIdleWriteBuffer ==
  /\ dpc = "getBuffer"
  /\ wrEnq # wrDeq
  /\ currDst' = wrDeq % NumBufs
  /\ wrDeq' = Incr(wrDeq)
  /\ respMoved' = TRUE
  /\ dpc' = IF need > 0 THEN "read" ELSE "handle"
  /\ UNCHANGED << host, client, flushing, outstanding, rdEnq, wrEnq, sem, got,
                  part, need, units, dstOff, device >>

(* decode_response, after a header or the value of a GET has been read *)

Header == units[1]

Post(c, what) ==
  /\ got' = [ got EXCEPT ![c] = [ what |-> what, by |-> ptr[c] ] ]
  /\ sem' = [ sem EXCEPT ![c] = @ + 1 ]

HandleValueFollows ==
  /\ dpc = "handle" /\ part = "header" /\ Header.body > 0
  /\ part' = "body"
  /\ need' = Header.body
  /\ dpc' = "read"
  /\ UNCHANGED << host, client, shared, units, currDst, dstOff, wrDeq, device >>

(* A GET that misses is told so by the pointers that nobody wrote. *)
HandleAnswer ==
  /\ dpc = "handle" /\ Header.m.op # "EOM"
  /\ Header.body > 0 => part = "body"
  /\ Post(Header.m.from,
          IF Header.m.op # "GET" THEN "status"
          ELSE IF Header.body > 0 THEN "value" ELSE "nothing")
  /\ dpc' = "count"
  /\ UNCHANGED << host, client, flushing, outstanding, respMoved, rdEnq, wrEnq,
                  part, need, units, currDst, dstOff, wrDeq, device >>

(* Mutants: the padding is not skipped; a whole buffer is skipped after an *)
(* EOM at the end of the one before; the buffer is freed here as well as   *)
(* when its end is reached.                                                *)
HandleEomNoSkip ==
  /\ dpc = "handle" /\ Header.m.op = "EOM"
  /\ dstOff' = dstOff
  /\ flushing' = FALSE
  /\ dpc' = "count"
  /\ UNCHANGED << host, client, outstanding, respMoved, rdEnq, wrEnq, sem, got,
                  part, need, units, currDst, wrDeq, device >>
HandleEomSkipsFresh ==
  /\ dpc = "handle" /\ Header.m.op = "EOM"
  /\ dstOff' = IF currDst # -1 THEN BufSize ELSE dstOff
  /\ flushing' = FALSE
  /\ dpc' = "count"
  /\ UNCHANGED << host, client, outstanding, respMoved, rdEnq, wrEnq, sem, got,
                  part, need, units, currDst, wrDeq, device >>
HandleEomFrees ==
  /\ dpc = "handle" /\ Header.m.op = "EOM"
  /\ dstOff' = IF dstOff > 0 /\ currDst # -1 THEN BufSize ELSE dstOff
  /\ writeBaseQ' = IF dstOff > 0 /\ currDst # -1 THEN Append(writeBaseQ, currDst)
                   ELSE writeBaseQ
  /\ flushing' = FALSE
  /\ dpc' = "count"
  /\ UNCHANGED << host, client, outstanding, respMoved, rdEnq, wrEnq, sem, got,
                  part, need, units, currDst, wrDeq, readQ, rdDoneQ, devQ,
                  outQ, dst, wrDoneQ >>

(* resetDMADstBuf skips the padding. *)
HandleEom ==
  /\ dpc = "handle" /\ Header.m.op = "EOM"
  /\ dstOff' = IF dstOff > 0 /\ currDst # -1 THEN BufSize ELSE dstOff
  /\ flushing' = FALSE
  /\ dpc' = "count"
  /\ UNCHANGED << host, client, outstanding, respMoved, rdEnq, wrEnq, sem, got,
                  part, need, units, currDst, wrDeq, device >>

CountAnswer ==
  /\ dpc = "count"
  /\ outstanding' = outstanding - 1
  /\ part' = "header" /\ need' = 1 /\ units' = << >>
  /\ dpc' = "read"
  /\ UNCHANGED << host, client, flushing, respMoved, rdEnq, wrEnq, sem, got,
                  currDst, dstOff, wrDeq, device >>

-----------------------------------------------------------------------------
Write(t) == WriteRest(t) \/ WriteFull(t) \/ WriteGetBuffer(t)

FlushPass ==
  FlushLock \/ FlushNothing \/ FlushBegin \/ FlushSend(Flusher)
  \/ FlushGetBuffer(Flusher) \/ FlushEnd

FPGA ==
  \/ DeviceRead \/ doDMAWrite
  \/ \E i \in 1 .. Len(devQ), body \in BodySizes \cup {0} : Answer(i, body)

Device == FPGA \/ rdDone \/ wrDone

DecodeResponse ==
  ReadRest \/ ReadFull \/ waitIdleWriteBuffer \/ HandleValueFollows
  \/ HandleAnswer \/ HandleEom \/ CountAnswer

Next ==
  \/ \E c \in Clients : (\E op \in Ops : Send(c, op)) \/ Register(c) \/ Return(c)
  \/ \E t \in Threads : Write(t)
  \/ FlushPass
  \/ Device
  \/ DecodeResponse

Spec == Init /\ [][Next]_vars

(* Every thread is scheduled and the device does not stop.  A client need  *)
(* not ask for anything.                                                   *)
Fairness ==
  /\ \A c \in Clients : WF_vars(Register(c)) /\ WF_vars(Return(c))
  /\ \A t \in Threads : WF_vars(Write(t))
  /\ WF_vars(FlushPass)
  /\ WF_vars(DeviceRead) /\ WF_vars(rdDone)
  /\ WF_vars(doDMAWrite) /\ WF_vars(wrDone)
  /\ WF_vars(\E i \in 1 .. Len(devQ), body \in BodySizes \cup {0} : Answer(i, body))
  /\ WF_vars(DecodeResponse)

FairSpec == Spec /\ Fairness
-----------------------------------------------------------------------------
Message == [ from : Clients, op : Ops ] \cup {EOM}

TypeOK ==
  /\ lock \in Threads \cup {None}
  /\ pc \in [ Threads -> {"idle", "write", "getBuffer", "register", "wait",
                          "decide", "flush", "getNext", "set"} ]
  /\ msg \in Message /\ todo \in Nat /\ src \in Seq(Message)
  /\ currSrc \in -1 .. NumBufs - 1 /\ srcOff \in 0 .. BufSize
  /\ batched \in 0 .. BufSize
  /\ {rdDeq, rdEnq, wrDeq, wrEnq} \subseteq 0 .. 2 * NumBufs - 1
  /\ outstanding \in Nat
  /\ sem \in [ Clients -> 0 .. 1 ]
  /\ currDst \in -1 .. NumBufs - 1 /\ dstOff \in 0 .. BufSize
  /\ dst \in [ 0 .. NumBufs - 1 -> Seq([ m : Message, body : Nat, k : Nat ]) ]

(* A request is never written into a buffer that the device has been told  *)
(* to read and has not reported as read, however often the ring is gone    *)
(* round: the pointers run ahead of each other by at most one round.       *)
SourceBufferFree ==
  (\A t \in Threads : pc[t] \notin {"getBuffer", "getNext"}) =>
    /\ currSrc \notin { readQ[i].buf : i \in 1 .. Len(readQ) }
    /\ currSrc \notin ToSet(rdDoneQ)

(* The device never writes an answer into a buffer that the response       *)
(* thread has not read to the end.                                         *)
AnswersNotOverwritten ==
  LET unread == { p \in 0 .. 2 * NumBufs - 1 :
                    (p - wrDeq) % (2 * NumBufs) < (wrEnq - wrDeq) % (2 * NumBufs) }
  IN  /\ \A p \in unread : p % NumBufs \notin ToSet(writeBaseQ)
      /\ dpc # "getBuffer" => currDst \notin ToSet(writeBaseQ)

(* The response thread reads a header where the device wrote one, also     *)
(* when values cross buffers and an EOM left a part of a buffer unused,    *)
(* and the value that follows it is that of the same answer.  Otherwise    *)
(* decode_response exits: the magic is not right.                          *)
HeadersInStep ==
  dpc = "handle" =>
    /\ Header.k = 1
    /\ Len(units) = IF part = "body" THEN 1 + Header.body ELSE 1
    /\ \A k \in 1 .. Len(units) : units[k].m = Header.m /\ units[k].k = k

-----------------------------------------------------------------------------
(* Where a request is until its answer has been handled. *)

(* The elements of the sequence s that are in E. *)
Count(s, E) == Cardinality({ i \in 1 .. Len(s) : s[i] \in E })

(* The requests and EOMs of the threads T, and the headers that answer them. *)
MessagesOf(T) == { m \in Message : m.from \in T }
HeadersOf(T) == [ m : MessagesOf(T), body : Nat, k : {1} ]

(* The part of the response stream that is in host memory and not read. *)
InMemory ==
  LET n == (wrEnq - wrDeq) % (2 * NumBufs)
      bufs == [ i \in 1 .. n |-> (wrDeq + i - 1) % NumBufs ] \o wrDoneQ
  IN  (IF currDst = -1 \/ dpc = "getBuffer" THEN << >>
       ELSE SubSeq(dst[currDst], dstOff + 1, BufSize))
      \o FlattenSeq([ i \in 1 .. Len(bufs) |-> dst[bufs[i]] ])

(* How many requests and EOMs of the threads T have no answer handled:     *)
(* being written, in the buffer being filled, sent, read, and answered in  *)
(* outQ, in host memory or in decode_response.                             *)
Unanswered(T) ==
  (IF todo > 0 /\ msg.from \in T THEN 1 ELSE 0)
  + Count(src, MessagesOf(T))
  + Count(FlattenSeq([ i \in 1 .. Len(readQ) |-> readQ[i].msgs ]), MessagesOf(T))
  + Count(devQ, MessagesOf(T))
  + Count(outQ, HeadersOf(T))
  + Count(InMemory, HeadersOf(T))
  + (IF units # << >> /\ dpc # "count" /\ Header.m.from \in T THEN 1 ELSE 0)

(* outstanding_requests, which the flush thread trusts, is the number of   *)
(* requests and EOMs whose answer has not been handled.                    *)
OutstandingExact ==
  outstanding = Unanswered(Threads) + (IF dpc = "count" THEN 1 ELSE 0)

(* A client that waits has one request somewhere between the buffer being  *)
(* filled and decode_response, or its answer has been posted: no buffer    *)
(* switch, flush or padding loses or repeats a request or an answer.       *)
NoRequestLost ==
  \A c \in Clients : pc[c] = "wait" => Unanswered({c}) + sem[c] = 1

(* What a client finds when sendSet, sendGet or sendDelete returns is the  *)
(* answer to that request, not that its variables were never written.      *)
ResultDelivered ==
  \A c \in Clients :
    pc[c] = "wait" /\ sem[c] > 0 =>
      got[c].what = "nothing" \/ got[c].by = reqNo[c]

(* Every call of sendSet, sendGet and sendDelete returns. *)
Served == \A c \in Clients : pc[c] = "wait" ~> pc[c] = "idle"

(* flushing is set while the EOM it stands for is still to be answered:    *)
(* the assignment after flushDmaBuf does not come after decode_response    *)
(* has already cleared it.                                                 *)
EomAhead == flushing => Unanswered({Flusher}) > 0

(* No answer to an EOM ends where a buffer does. *)
EomInside ==
  \A b \in 0 .. NumBufs - 1 :
    dst[b] # << >> => dst[b][BufSize].m # EOM \/ dst[b][BufSize].k = 0

(* Every call returns if no EOM is overtaken by its answer. *)
ServedUnlessOvertaken == []EomAhead => Served

(* Every call returns if no EOM ends at the end of a buffer. *)
ServedUnlessAtEnd == []EomInside => Served

(* Every call returns if neither happens: the two conditions under which   *)
(* the flush thread stops flushing for ever are the only ones.             *)
ServedOtherwise == []EomAhead /\ []EomInside => Served

-----------------------------------------------------------------------------
(* The parts of the inductive invariant behind the two properties of the   *)
(* rings.                                                                  *)

Buffers == 0 .. NumBufs - 1

RingTypes ==
  /\ lock \in Threads \cup {None}
  /\ pc \in [ Threads -> {"idle", "write", "getBuffer", "register", "wait",
                          "decide", "flush", "getNext", "set"} ]
  /\ currSrc \in Buffers \cup {-1} /\ currDst \in Buffers \cup {-1}
  /\ rdEnq \in 0 .. 2 * NumBufs - 1 /\ rdDeq \in 0 .. 2 * NumBufs - 1
  /\ wrEnq \in 0 .. 2 * NumBufs - 1 /\ wrDeq \in 0 .. 2 * NumBufs - 1
  /\ msg \in Message /\ src \in Seq(Message)
  /\ readQ \in Seq([ buf : Buffers, msgs : Seq(Message) ])
  /\ rdDoneQ \in Seq(Buffers)
  /\ writeBaseQ \in Seq(Buffers) /\ wrDoneQ \in Seq(Buffers)

(* Only the thread that has the mutex is inside dmaBufMemwrite or flushes. *)
LockHeld == \A t \in Threads : pc[t] \notin {"idle", "wait"} => lock = t

(* The buffer n places after the one that the pointer e stands at. *)
Slot(e, n) ==
  LET s == IF e < NumBufs THEN e ELSE e - NumBufs
  IN  IF s + n < NumBufs THEN s + n ELSE s + n - NumBufs

(* n buffers of a ring are away from the thread that takes them at deq:    *)
(* they are reported at enq, and the two pointers wrap after two rounds.   *)
RingAt(enq, deq, n) ==
  /\ n \in 0 .. NumBufs
  /\ deq = enq + n - NumBufs \/ deq = enq + n + NumBufs

(* The buffers of a ring are in order, first those of done, then those of  *)
(* ahead.                                                                  *)
Queued(enq, done, ahead) ==
  /\ \A k \in 1 .. Len(done) : done[k] = Slot(enq, k - 1)
  /\ \A k \in 1 .. Len(ahead) : ahead[k] = Slot(enq, Len(done) + k - 1)

Bufs(q) == [ k \in 1 .. Len(q) |-> q[k].buf ]

(* A buffer is being filled, or read. *)
Filling ==
  currSrc # -1 /\ \A t \in Threads : pc[t] \notin {"getBuffer", "getNext"}

Reading == currDst # -1 /\ dpc # "getBuffer"

SourceRing ==
  LET n == Len(rdDoneQ) + Len(readQ)
  IN  /\ RingAt(rdEnq, rdDeq, IF Filling THEN n + 1 ELSE n)
      /\ Queued(rdEnq, rdDoneQ, Bufs(readQ))
      /\ Filling => currSrc = Slot(rdEnq, n)

AnswerRing ==
  LET n == Len(wrDoneQ) + Len(writeBaseQ)
  IN  /\ RingAt(wrEnq, wrDeq, IF Reading THEN n + 1 ELSE n)
      /\ Queued(wrEnq, wrDoneQ, writeBaseQ)
      /\ Reading => currDst = Slot(wrEnq, n)

RingInv == RingTypes /\ LockHeld /\ SourceRing /\ AnswerRing
=============================================================================
