----------------------------- MODULE BatchHost ------------------------------
(***************************************************************************)
(* What the benchmark programs bsv/Test_Bluecache*/testbluecache.h share:  *)
(* one main thread writes batches of SETs and GETs into a ring of DMA      *)
(* buffers, ends each batch with an EOM and waits until it is answered;    *)
(* the answers are read from a second ring, by a response thread or by the *)
(* main thread itself.  What the main thread still has to do is a sequence *)
(* of steps, the script; each program gives its own.  The lines are those  *)
(* of Test_Bluecache_Flash; the modules of the programs name the lines of  *)
(* their own copies.                                                       *)
(*                                                                         *)
(* Sizes are counted in units of one protocol header.  The rings are       *)
(* queues of buffer numbers, as in the code.  A condition variable that is *)
(* signalled when nobody waits forgets the signal; spurious wake-ups are   *)
(* left out.  The device has room for DevRoom requests.                    *)
(***************************************************************************)
EXTENDS Integers, SequencesExt

CONSTANTS
  NumBufs,   (* ALLOC_SZ/DMABUF_SZ: buffers in each ring                    *)
  BufSize,   (* DMABUF_SZ in units                                          *)
  ReqSize,   (* the size of a request of each operation                     *)
  BodySizes, (* the sizes of the values that a GET's answer may carry       *)
  DevRoom    (* requests in the device before it stops reading buffers      *)

ASSUME BatchAssumption ==
  /\ NumBufs \in Nat \ {0} /\ BufSize \in Nat \ {0} /\ DevRoom \in Nat \ {0}
  /\ BodySizes \subseteq Nat \ {0}
  /\ ReqSize \in [ {"SET", "GET", "EOM"} -> Nat \ {0} ]

VARIABLES
  (* the main thread *)
  script,      (* its steps, the one it is at first                         *)
  pc,          (* where it is in that step                                  *)
  todo,        (* what is left of the request being written                 *)
  src,         (* requests that end in the buffer being filled              *)
  currSrc,     (* currSrcBase: that buffer, -1 at the start                 *)
  srcOff,      (* srcBuf_offset                                             *)
  freeRead,    (* freeReadBufId                                             *)
  unheard,     (* a signal came while the wait for it was still to come     *)
  (* the reader of the answers *)
  dpc, part, need, units, currDst, dstOff,
  returnWrite, (* returnWriteBufId                                          *)
  eomCnt,      (* EOMs answered and not yet noticed by the main thread      *)
  (* the device and the DMA memory *)
  asked,       (* initTable was called and initDone is to come              *)
  readQ,       (* buffers handed to startRead                               *)
  rdDoneQ,     (* buffers read, rdDone not delivered yet                    *)
  devQ,        (* requests read and not answered                            *)
  outQ,        (* units of the answers, not in host memory yet              *)
  writeBaseQ,  (* free response buffers                                     *)
  dst,         (* dstBuffer                                                 *)
  wrDoneQ      (* buffers written, wrDone not delivered yet                 *)

writer == << todo, src, currSrc, srcOff >>
reader == << dpc, part, need, units, currDst, dstOff >>
devOut == << devQ, outQ, writeBaseQ, dst, wrDoneQ >>
batch  == << script, pc, writer, freeRead, unheard, reader, returnWrite,
             eomCnt, asked, readQ, rdDoneQ, devOut >>

Bufs == 0 .. NumBufs - 1

(* A step of the main thread: what it does, on which operation or          *)
(* condition variable, and a number.                                       *)
Step(do, on, n) == [ do |-> do, on |-> on, n |-> n ]

Wait(c) == Step("wait", c, 0)

(* The device, its indication object and the two rings at the start of a   *)
(* process: nobody owns a buffer yet.                                      *)
BatchInit(s) ==
  /\ script = s /\ pc = "step"
  /\ todo = 0 /\ src = << >> /\ currSrc = -1 /\ srcOff = BufSize
  /\ freeRead = << >> /\ unheard = FALSE
  /\ dpc = "read" /\ part = "header" /\ need = 1 /\ units = << >>
  /\ currDst = -1 /\ dstOff = BufSize /\ returnWrite = << >> /\ eomCnt = 0
  /\ asked = FALSE /\ readQ = << >> /\ rdDoneQ = << >>
  /\ devQ = << >> /\ outQ = << >> /\ writeBaseQ = << >>
  /\ dst = [ b \in Bufs |-> << >> ] /\ wrDoneQ = << >>

(* The same after a process has ended. *)
BatchRestart(s) ==
  /\ script' = s /\ pc' = "step"
  /\ todo' = 0 /\ src' = << >> /\ currSrc' = -1 /\ srcOff' = BufSize
  /\ freeRead' = << >> /\ unheard' = FALSE
  /\ dpc' = "read" /\ part' = "header" /\ need' = 1 /\ units' = << >>
  /\ currDst' = -1 /\ dstOff' = BufSize /\ returnWrite' = << >> /\ eomCnt' = 0
  /\ asked' = FALSE /\ readQ' = << >> /\ rdDoneQ' = << >>
  /\ devQ' = << >> /\ outQ' = << >> /\ writeBaseQ' = << >>
  /\ dst' = [ b \in Bufs |-> << >> ] /\ wrDoneQ' = << >>

-----------------------------------------------------------------------------
(* Steps of the main thread that end at once. *)

At(do) == pc = "step" /\ script # << >> /\ Head(script).do = do

(* The main thread takes both rings into use: it owns every request        *)
(* buffer and the device every response buffer.                            *)
GiveBuffers ==
  /\ At("give")
  /\ freeRead' = [ i \in 1 .. NumBufs |-> i - 1 ]
  /\ writeBaseQ' = [ i \in 1 .. NumBufs |-> i - 1 ]
  /\ script' = Tail(script)
  /\ UNCHANGED << pc, writer, unheard, reader, returnWrite, eomCnt, asked,
                  readQ, rdDoneQ, devQ, outQ, dst, wrDoneQ >>

(* pthread_cond_wait without a condition to test. *)
Sleep ==
  /\ At("wait")
  /\ pc' = "asleep"
  /\ UNCHANGED << script, writer, freeRead, unheard, reader, returnWrite,
                  eomCnt, asked, readQ, rdDoneQ, devOut >>

(* pthread_cond_signal(c) *)
Signal(c) ==
  IF pc = "asleep" /\ Head(script).on = c
  THEN pc' = "step" /\ script' = Tail(script) /\ UNCHANGED unheard
  ELSE /\ unheard' = (unheard \/ Wait(c) \in ToSet(script))
       /\ UNCHANGED << pc, script >>

(* initMemcached or initTable: the device zeroes its table and will say so. *)
AskInit ==
  /\ At("init")
  /\ asked' = TRUE
  /\ script' = Tail(script)
  /\ UNCHANGED << pc, writer, freeRead, unheard, reader, returnWrite, eomCnt,
                  readQ, rdDoneQ, devOut >>

InitDone ==
  /\ asked
  /\ asked' = FALSE
  /\ Signal("cond")
  /\ UNCHANGED << writer, freeRead, reader, returnWrite, eomCnt, readQ,
                  rdDoneQ, devOut >>

-----------------------------------------------------------------------------
(* dmaBufMemwrite *)

(* sendSet, sendGet and sendEom build a request and pass it on. *)
BeginWrite(do, op) ==
  /\ At(do) /\ Head(script).on = op
  /\ todo' = ReqSize[op]
  /\ pc' = "write"
  /\ UNCHANGED << script, src, currSrc, srcOff, freeRead, unheard, reader,
                  returnWrite, eomCnt, asked, readQ, rdDoneQ, devOut >>

(* What follows the last byte of a request. *)
Written ==
  IF Head(script).do = "flush"
  THEN pc' = "flush" /\ UNCHANGED script
  ELSE pc' = "step" /\ script' = Tail(script)

(* Mutant: the room is not looked at. *)
WriteRestAnyway ==
  /\ pc = "write"
  /\ src' = Append(src, Head(script).on)
  /\ srcOff' = srcOff + todo
  /\ todo' = 0
  /\ Written
  /\ UNCHANGED << currSrc, freeRead, unheard, reader, returnWrite, eomCnt,
                  asked, readQ, rdDoneQ, devOut >>

(* The rest of the request fits and leaves room. *)
WriteRest ==
  /\ pc = "write"
  /\ srcOff + todo < BufSize
  /\ src' = Append(src, Head(script).on)
  /\ srcOff' = srcOff + todo
  /\ todo' = 0
  /\ Written
  /\ UNCHANGED << currSrc, freeRead, unheard, reader, returnWrite, eomCnt,
                  asked, readQ, rdDoneQ, devOut >>

StartRead(b, ms) == readQ' = Append(readQ, [ buf |-> b, msgs |-> ms ])

(* It reaches the end of the buffer: the buffer is sent and the next one   *)
(* is needed, also when nothing is left to be written.                     *)
WriteFull ==
  /\ pc = "write"
  /\ srcOff + todo >= BufSize
  /\ IF currSrc # -1
     THEN /\ todo' = todo - (BufSize - srcOff)
          /\ StartRead(currSrc, IF todo' = 0
                                THEN Append(src, Head(script).on) ELSE src)
     ELSE UNCHANGED << todo, readQ >>
  /\ src' = << >>
  /\ srcOff' = 0
  /\ pc' = "getBuffer"
  /\ UNCHANGED << script, currSrc, freeRead, unheard, reader, returnWrite,
                  eomCnt, asked, rdDoneQ, devOut >>

(* The first idle request buffer, waited for by polling. *)
TakeReadBuffer ==
  /\ freeRead # << >>
  /\ currSrc' = Head(freeRead)
  /\ freeRead' = Tail(freeRead)

WriteGetBuffer(take) ==
  /\ pc = "getBuffer"
  /\ take
  /\ IF todo > 0 THEN pc' = "write" /\ UNCHANGED script ELSE Written
  /\ UNCHANGED << todo, src, srcOff, unheard, reader, returnWrite, eomCnt,
                  asked, readQ, rdDoneQ, devOut >>

(* flushDmaBuf: after the EOM, what the buffer holds is sent. *)
FlushSend ==
  /\ pc = "flush"
  /\ IF srcOff > 0 /\ currSrc # -1
     THEN /\ StartRead(currSrc, src)
          /\ src' = << >> /\ srcOff' = 0
          /\ pc' = "getNext"
          /\ UNCHANGED script
     ELSE /\ pc' = "step" /\ script' = Tail(script)
          /\ UNCHANGED << readQ, src, srcOff >>
  /\ UNCHANGED << todo, currSrc, freeRead, unheard, reader, returnWrite,
                  eomCnt, asked, rdDoneQ, devOut >>

FlushGetBuffer(take) ==
  /\ pc = "getNext"
  /\ take
  /\ pc' = "step" /\ script' = Tail(script)
  /\ UNCHANGED << todo, src, srcOff, unheard, reader, returnWrite, eomCnt,
                  asked, readQ, rdDoneQ, devOut >>

-----------------------------------------------------------------------------
(* The device: it reads buffers in the order of startRead, as long as it   *)
(* has room for requests ...                                               *)
DeviceRead ==
  /\ readQ # << >> /\ Len(devQ) < DevRoom
  /\ devQ' = devQ \o Head(readQ).msgs
  /\ rdDoneQ' = Append(rdDoneQ, Head(readQ).buf)
  /\ readQ' = Tail(readQ)
  /\ UNCHANGED << script, pc, writer, freeRead, unheard, reader, returnWrite,
                  eomCnt, asked, outQ, writeBaseQ, dst, wrDoneQ >>

ReadBufferDone ==
  /\ rdDoneQ # << >>
  /\ freeRead' = Append(freeRead, Head(rdDoneQ))
  /\ rdDoneQ' = Tail(rdDoneQ)
  /\ UNCHANGED << script, pc, writer, unheard, reader, returnWrite, eomCnt,
                  asked, readQ, devOut >>

(* ... answers a GET whenever its value is there, the others in order, an  *)
(* EOM when it is the oldest and nothing behind it before it, and pads the *)
(* buffer after an EOM, as long as it has room for the answer ...          *)
MayAnswer(i) ==
  /\ devQ[i] = "EOM" => i = 1
  /\ \A j \in 1 .. i - 1 : devQ[j] # "EOM"
  /\ devQ[i] = "SET" => \A j \in 1 .. i - 1 : devQ[j] = "GET"

(* A unit of the response stream: unit k of the answer to a request of op, *)
(* which carries a value of body units, 0 unless a GET hits.               *)
Unit(op, body, k) == [ op |-> op, body |-> body, k |-> k ]

Answer(i, body) ==
  LET op == devQ[i]
      r == (Len(outQ) + 1 + body) % BufSize
      padding == IF op = "EOM" /\ r # 0 THEN BufSize - r ELSE 0
  IN  /\ MayAnswer(i) /\ Len(outQ) < BufSize
      /\ body > 0 => op = "GET"
      /\ devQ' = RemoveAt(devQ, i)
      /\ outQ' = outQ \o [ k \in 1 .. 1 + body |-> Unit(op, body, k) ]
                      \o [ k \in 1 .. padding |-> Unit("EOM", 0, 0) ]
      /\ UNCHANGED << script, pc, writer, freeRead, unheard, reader,
                      returnWrite, eomCnt, asked, readQ, rdDoneQ, writeBaseQ,
                      dst, wrDoneQ >>

(* ... and writes full buffers only, into the buffers freed for it. *)
doDMAWrite ==
  /\ Len(outQ) >= BufSize /\ writeBaseQ # << >>
  /\ dst' = [ dst EXCEPT ![Head(writeBaseQ)] = SubSeq(outQ, 1, BufSize) ]
  /\ outQ' = SubSeq(outQ, BufSize + 1, Len(outQ))
  /\ wrDoneQ' = Append(wrDoneQ, Head(writeBaseQ))
  /\ writeBaseQ' = Tail(writeBaseQ)
  /\ UNCHANGED << script, pc, writer, freeRead, unheard, reader, returnWrite,
                  eomCnt, asked, readQ, rdDoneQ, devQ >>

WriteBufferDone ==
  /\ wrDoneQ # << >>
  /\ returnWrite' = Append(returnWrite, Head(wrDoneQ))
  /\ wrDoneQ' = Tail(wrDoneQ)
  /\ UNCHANGED << script, pc, writer, freeRead, unheard, reader, eomCnt, asked,
                  readQ, rdDoneQ, devQ, outQ, writeBaseQ, dst >>

-----------------------------------------------------------------------------
(* dmaBufMemreadBuf.  "reading" says that the reader is in it: always for  *)
(* a response thread, at a "check" step if the main thread reads.          *)

ReadRest(reading) ==
  /\ reading /\ dpc = "read"
  /\ dstOff + need < BufSize
  /\ units' = units \o SubSeq(dst[currDst], dstOff + 1, dstOff + need)
  /\ dstOff' = dstOff + need
  /\ need' = 0
  /\ dpc' = "handle"
  /\ UNCHANGED << script, pc, writer, freeRead, unheard, part, currDst,
                  returnWrite, eomCnt, asked, readQ, rdDoneQ, devOut >>

(* Mutant: the buffer is not freed. *)
ReadFullKeeps(reading) ==
  /\ reading /\ dpc = "read"
  /\ dstOff + need >= BufSize
  /\ IF currDst # -1
     THEN /\ units' = units \o SubSeq(dst[currDst], dstOff + 1, BufSize)
          /\ need' = need - (BufSize - dstOff)
          /\ dpc' = "pop"
     ELSE dpc' = "getBuffer" /\ UNCHANGED << units, need >>
  /\ dstOff' = 0
  /\ UNCHANGED << script, pc, writer, freeRead, unheard, part, currDst,
                  returnWrite, eomCnt, asked, readQ, rdDoneQ, devOut >>

(* What is read reaches the end of the buffer: the buffer is freed and the *)
(* next one is waited for, even if nothing more is to be read.             *)
ReadFull(reading) ==
  /\ reading /\ dpc = "read"
  /\ dstOff + need >= BufSize
  /\ IF currDst # -1
     THEN /\ units' = units \o SubSeq(dst[currDst], dstOff + 1, BufSize)
          /\ need' = need - (BufSize - dstOff)
          /\ writeBaseQ' = Append(writeBaseQ, currDst)
          /\ dpc' = "pop"
     ELSE dpc' = "getBuffer" /\ UNCHANGED << units, need, writeBaseQ >>
  /\ dstOff' = 0
  /\ UNCHANGED << script, pc, writer, freeRead, unheard, part, currDst,
                  returnWrite, eomCnt, asked, readQ, rdDoneQ, devQ, outQ, dst,
                  wrDoneQ >>

(* waitIdleWriteBuffer drops the buffer that was read from the front of    *)
(* returnWriteBufId ...                                                    *)
DropWriteBuffer ==
  /\ dpc = "pop"
  /\ returnWrite' = IF returnWrite = << >> THEN << >> ELSE Tail(returnWrite)
  /\ dpc' = "getBuffer"
  /\ UNCHANGED << script, pc, writer, freeRead, unheard, part, need, units,
                  currDst, dstOff, eomCnt, asked, readQ, rdDoneQ, devOut >>

(* ... and polls for the next, which stays at the front while it is read.  *)
FrontWriteBuffer ==
  /\ dpc = "getBuffer" /\ returnWrite # << >>
  /\ currDst' = Head(returnWrite)
  /\ dpc' = IF need > 0 THEN "read" ELSE "handle"
  /\ UNCHANGED << script, pc, writer, freeRead, unheard, part, need, units,
                  dstOff, returnWrite, eomCnt, asked, readQ, rdDoneQ, devOut >>

-----------------------------------------------------------------------------
(* decode_response or checkSetResp and checkGetResp, after a header or the *)
(* value of a GET has been read                                            *)

Header == units[1]

NextHeader == part' = "header" /\ need' = 1 /\ units' = << >> /\ dpc' = "read"

HandleValueFollows ==
  /\ dpc = "handle" /\ part = "header" /\ Header.body > 0
  /\ part' = "body"
  /\ need' = Header.body
  /\ dpc' = "read"
  /\ UNCHANGED << script, pc, writer, freeRead, unheard, units, currDst,
                  dstOff, returnWrite, eomCnt, asked, readQ, rdDoneQ, devOut >>

(* The result of a SET or GET is only counted; "after" is what the program *)
(* does with script and pc.                                                *)
HandleAnswer(after) ==
  /\ dpc = "handle" /\ Header.op # "EOM"
  /\ Header.body > 0 => part = "body"
  /\ NextHeader
  /\ after
  /\ UNCHANGED << writer, freeRead, currDst, dstOff, returnWrite, eomCnt,
                  asked, readQ, rdDoneQ, devOut >>

(* Mutant: the padding is read as an answer. *)
SkipNothing == UNCHANGED dstOff

(* resetDMADstBuf skips the padding. *)
SkipPadding == dstOff' = IF dstOff > 0 /\ currDst # -1 THEN BufSize ELSE dstOff

(* The answer to an EOM: "reset" is resetDMADstBuf, and "after" what the   *)
(* program does to tell the main thread.                                   *)
HandleEom(reset, after) ==
  /\ dpc = "handle" /\ Header.op = "EOM"
  /\ reset
  /\ NextHeader
  /\ after
  /\ UNCHANGED << writer, freeRead, currDst, returnWrite, asked, readQ,
                  rdDoneQ, devOut >>

-----------------------------------------------------------------------------
(* No offset leaves its buffer, no size is negative, and each variable of  *)
(* dmaBufMemwrite, dmaBufMemread and the device has its type.              *)
BatchTypeOK ==
  /\ pc \in { "step", "write", "getBuffer", "flush", "getNext", "asleep" }
  /\ todo \in Nat /\ src \in Seq({"SET", "GET", "EOM"})
  /\ currSrc \in -1 .. NumBufs - 1 /\ srcOff \in 0 .. BufSize
  /\ dpc \in { "read", "pop", "getBuffer", "handle" }
  /\ part \in { "header", "body" } /\ need \in Nat
  /\ currDst \in -1 .. NumBufs - 1 /\ dstOff \in 0 .. BufSize
  /\ { unheard, asked } \subseteq BOOLEAN /\ eomCnt \in Nat

(* Where each buffer of the request ring, and of the response ring, is. *)
RequestPlaces ==
  freeRead \o rdDoneQ \o [ i \in 1 .. Len(readQ) |-> readQ[i].buf ]
  \o (IF currSrc = -1 \/ pc \in { "getBuffer", "getNext" } THEN << >>
      ELSE << currSrc >>)

ResponsePlaces ==
  writeBaseQ \o wrDoneQ
  \o (IF dpc = "pop" THEN Tail(returnWrite) ELSE returnWrite)

IsPermutation(s) == Len(s) = NumBufs /\ ToSet(s) = Bufs

(* Each DMA buffer has exactly one owner as soon as the rings are in use:  *)
(* no buffer is lost, given twice or written while it is read, in either   *)
(* direction.  The reader owns the front of returnWriteBufId and drops it  *)
(* by position only, after it gave the buffer back.                        *)
EveryBufferOnce ==
  Step("give", "", 0) \notin ToSet(script) =>
    /\ IsPermutation(RequestPlaces)
    /\ IsPermutation(ResponsePlaces)
    /\ dpc # "getBuffer" /\ currDst # -1 => Head(returnWrite) = currDst

(* A header is read where the device wrote one and a value is that of the  *)
(* same answer; a main thread that reads the answers itself finds the kind *)
(* it asserts.                                                             *)
HeadersInStep ==
  dpc = "handle" =>
    /\ Header.k = 1
    /\ Len(units) = IF part = "body" THEN 1 + Header.body ELSE 1
    /\ \A k \in 1 .. Len(units) : units[k].op = Header.op /\ units[k].k = k
    /\ At("check") => Header.op = Head(script).on

InMemory ==
  LET bufs == (IF dpc = "read" /\ currDst # -1 THEN Tail(returnWrite)
               ELSE IF dpc = "handle" THEN Tail(returnWrite)
               ELSE IF dpc = "pop" THEN Tail(returnWrite) ELSE returnWrite)
              \o wrDoneQ
  IN  (IF currDst = -1 \/ dpc \in { "pop", "getBuffer" } THEN << >>
       ELSE SubSeq(dst[currDst], dstOff + 1, BufSize))
      \o FlattenSeq([ i \in 1 .. Len(bufs) |-> dst[bufs[i]] ])

(* No request or answer is anywhere between the two rings' ends. *)
NothingUnanswered ==
  /\ todo = 0 /\ src = << >> /\ devQ = << >>
  /\ \A i \in 1 .. Len(readQ) : readQ[i].msgs = << >>
  /\ \A i \in 1 .. Len(outQ) : outQ[i].k = 0
  /\ \A i \in 1 .. Len(InMemory) : InMemory[i].k = 0

(* The main thread goes on after a batch, woken by cond_write, by the      *)
(* count of EOMs or by having checked the EOM itself, only when every      *)
(* request of that batch has been answered and every answer read.          *)
EndsBatch(step) == \/ step.do = "wait" /\ step.on = "cond_write"
                   \/ step.do = "poll"
                   \/ step.do = "check" /\ step.on = "EOM"

BatchAnswered ==
  (script # << >> /\ EndsBatch(Head(script)) /\ script' # script)
    => NothingUnanswered'

(* No answer to an EOM ends where a buffer does. *)
EomInside ==
  \A b \in Bufs :
    dst[b] # << >> => dst[b][BufSize].op # "EOM" \/ dst[b][BufSize].k = 0

(* A main thread that reads the answers itself waits for a request buffer  *)
(* while the device waits for a response buffer.                           *)
Choked ==
  /\ pc \in { "getBuffer", "getNext" } /\ freeRead = << >>
  /\ writeBaseQ = << >> /\ Len(outQ) >= BufSize
=============================================================================
