----------------------------- MODULE HostProofs -----------------------------
(***************************************************************************)
(* Proofs about the benchmark programs, module HostPrograms: in every      *)
(* behaviour of the six of them each DMA buffer has one owner, the tags of *)
(* the erases are exact, what is mapped and not written is erased, and a   *)
(* table that is filled maps two blocks to one only over a gap; and about  *)
(* the FIFO that overflows to the host, module HostFifo: the order of its  *)
(* elements.  All for every number of buffers, blocks, requests and runs.  *)
(*                                                                         *)
(* The programs take the same steps, those of BatchHost and FlashBlocks,   *)
(* in scripts of their own.  HostStep is any of these steps with a guard   *)
(* that all programs have, and HostInv is kept by it; only the last part   *)
(* looks at the programs, each of whose steps is a HostStep and each of    *)
(* whose scripts has the shape that HostInv asks for.                      *)
(***************************************************************************)
EXTENDS HostState, SequenceTheorems, FiniteSetTheorems, WellFoundedInduction, TLAPS

-----------------------------------------------------------------------------
(* What the programs do, in the actions that they share. *)

FlashMain ==
  ReadStatusFile \/ EraseBlock \/ FirstBlocks \/ Populate \/ AskDump \/ WriteStatusFile

FlashDevice == DeviceErase(EraseAcked) \/ DeviceProgram \/ DeviceDump(DumpAnswered)

Writing ==
  \/ BeginWrite("send", "SET") \/ BeginWrite("send", "GET") \/ BeginWrite("flush", "EOM")
  \/ WriteRest \/ WriteFull \/ WriteGetBuffer(TakeReadBuffer)
  \/ FlushSend \/ FlushGetBuffer(TakeReadBuffer)

Polled ==
  /\ At("poll") /\ eomCnt' = 0 /\ script' = Tail(script)
  /\ UNCHANGED << pc, writer, freeRead, unheard, reader, returnWrite, asked,
                  readQ, rdDoneQ, devOut >>

Device ==
  \/ InitDone \/ ReadBufferDone \/ WriteBufferDone \/ DeviceRead \/ doDMAWrite
  \/ \E i \in 1 .. Len(devQ), body \in BodySizes \cup {0} : Answer(i, body)

(* Test_Bluecache reads where it checks, the others in a thread. *)
Reads == program = "TestBluecache" => At("check")

Noticed ==
  /\ UNCHANGED << pc, unheard >>
  /\ script' = IF program = "TestBluecache" THEN Tail(script) ELSE script

EomNoticed ==
  /\ Noticed \/ (program # "TestBluecache" /\ Signal("cond_write"))
  /\ eomCnt' \in { eomCnt, eomCnt + 1 }

Reading ==
  \/ ReadRest(Reads) \/ ReadFull(Reads) \/ DropWriteBuffer \/ FrontWriteBuffer
  \/ HandleValueFollows \/ HandleAnswer(Noticed) \/ HandleEom(SkipPadding, EomNoticed)

BatchStep == AskInit \/ GiveBuffers \/ Sleep \/ Writing \/ Polled \/ Device \/ Reading

HostStep ==
  /\ UNCHANGED << program, fifo, test >>
  /\ \/ program \in OnFlash /\ (FlashMain \/ FlashDevice)
     \/ program \in Programs /\ BatchStep /\ UNCHANGED flash

-----------------------------------------------------------------------------
Ops3 == { "SET", "GET", "EOM" }

Give == Step("give", "", 0)

(* Where the main thread is in its step. *)
InStep ==
  /\ pc \in { "step", "write", "getBuffer", "flush", "getNext", "asleep" }
  /\ pc # "step" => script # << >>
  /\ pc \in { "write", "getBuffer" } => Head(script).do \in { "send", "flush" }
  /\ pc \in { "flush", "getNext" } => Head(script).do = "flush"
  /\ pc = "asleep" => Head(script).do = "wait"

(* The main thread of Test_Bluecache reads the answers: it stays where it  *)
(* checks them until one has been read.                                    *)
Checking == program = "TestBluecache" /\ dpc # "read" => At("check")

RequestsOwned == IsPermutation(RequestPlaces)

AnswersOwned ==
  /\ IsPermutation(ResponsePlaces)
  /\ currDst # -1 /\ dpc # "getBuffer" => returnWrite # << >> /\ Head(returnWrite) = currDst

-----------------------------------------------------------------------------
(* The FIFO that overflows to the host.  The inductive invariant:         *)
(* sends[p] and requested[p] count the elements that *)
(* the first p indications on their way carry and ask for.                 *)
Sent(p) == toHost[p].call = "sendData"

Indication == [ call : { "sendData", "elementReq" }, v : Nat ]

(* The elements after the first n, in order. *)
Follow(s, n) == \A i \in 1 .. Len(s) : s[i] = n + i

FifoTypes ==
  /\ enqd \in Nat /\ inputQ \in Seq(Nat) /\ fpgaFIFO \in Seq(Nat)
  /\ fromHostQ \in Seq(Nat) /\ deqd \in Seq(Nat) /\ hostElemCnt0 \in Nat
  /\ hostElemCnt1 \in Nat /\ fpgaElemCnt \in Nat /\ lowCnt \in Nat /\ upCnt \in Nat
  /\ toHost \in Seq(Indication)
  /\ max \in Nat \ {0} /\ fifoArray \in [ 0 .. max - 1 -> Nat ]
  /\ lowCnt <= upCnt /\ upCnt - lowCnt <= max /\ grownWrapped \in BOOLEAN

CountsOf(sends, requested) ==
  /\ sends[0] = 0 /\ requested[0] = 0
  /\ \A p \in 1 .. Len(toHost) :
       /\ sends[p] = sends[p - 1] + (IF Sent(p) THEN 1 ELSE 0)
       /\ requested[p] = requested[p - 1] + (IF Sent(p) THEN 0 ELSE toHost[p].v)
  /\ \A p, q \in 0 .. Len(toHost) :
       p <= q => sends[p] <= sends[q] /\ requested[p] <= requested[q]

(* The counters of the FPGA are exact, and what is requested for has been sent *)
(* before.                                                                 *)
CountersExact(sends, requested) ==
  LET n == Len(toHost)
      atHost == upCnt - lowCnt
  IN  /\ hostElemCnt0 = Len(fromHostQ) + atHost + sends[n]
      /\ hostElemCnt1 = atHost + sends[n] - requested[n]
      /\ fpgaElemCnt = Len(fpgaFIFO) + Len(fromHostQ) + requested[n]
      /\ fpgaElemCnt <= FifoSize
      /\ \A p \in 1 .. n : ~ Sent(p) => requested[p] <= atHost + sends[p]

(* What has not reached the array of the host is in order.                 *)
InputOrder(sends) ==
  LET before == Len(deqd) + Len(fpgaFIFO) + Len(fromHostQ) + (upCnt - lowCnt)
      n == Len(toHost)
  IN  /\ \A p \in 1 .. n : Sent(p) => toHost[p].v = before + sends[p]
      /\ Follow(inputQ, before + sends[n])
      /\ enqd = before + sends[n] + Len(inputQ)

(* So is what has, as long as no growth has moved it.                      *)
OutputOrder ==
  ~ grownWrapped =>
    LET out == Len(deqd) + Len(fpgaFIFO)
    IN  /\ Follow(deqd, 0) /\ Follow(fpgaFIFO, Len(deqd)) /\ Follow(fromHostQ, out)
        /\ \A k \in lowCnt .. upCnt - 1 :
             fifoArray[k % max] = out + Len(fromHostQ) + (k - lowCnt) + 1

FifoInvFor(sends, requested) ==
  /\ FifoTypes /\ CountsOf(sends, requested) /\ CountersExact(sends, requested)
  /\ InputOrder(sends) /\ OutputOrder

Counts == [ 0 .. Len(toHost) -> Nat ]

FifoInv == \E sends \in Counts, requested \in Counts : FifoInvFor(sends, requested)

-----------------------------------------------------------------------------
(* Arithmetic of the array. *)

LEMMA ModIn ==
  ASSUME NEW m \in Nat \ {0}, NEW a \in Nat
  PROVE  a % m \in 0 .. m - 1
OBVIOUS

LEMMA Product ==
  ASSUME NEW m \in Nat \ {0}, NEW q \in Int, q >= 1
  PROVE  m * q >= m
OBVIOUS

(* Elements that are less than a whole array apart have places of their    *)
(* own.                                                                    *)
LEMMA ModApart ==
  ASSUME NEW m \in Nat \ {0}, NEW a \in Nat, NEW b \in Nat, a < b, b - a < m
  PROVE  a % m # b % m
<1> SUFFICES ASSUME a % m = b % m PROVE FALSE
  OBVIOUS
<1>1. /\ a \div m \in Int /\ a = m * (a \div m) + (a % m)
      /\ b \div m \in Int /\ b = m * (b \div m) + (b % m)
  OBVIOUS
<1>2. PICK q \in Int : q = (b \div m) - (a \div m)
  <2>1. (b \div m) - (a \div m) \in Int
    BY <1>1
  <2> QED BY <2>1
<1>3. b - a = m * q
  <2>1. b - a = m * (b \div m) - m * (a \div m)
    BY <1>1
  <2> QED BY <1>1, <1>2, <2>1
<1>4. CASE q >= 1
  BY <1>3, <1>4, Product
<1>5. CASE q < 1
  <2>1. m * q <= 0
    BY <1>5
  <2> QED BY <2>1, <1>3
<1> QED BY <1>4, <1>5

(* What moves on is counted elsewhere. *)
LEMMA Shift ==
  ASSUME NEW x \in Nat, NEW y \in Nat, NEW k \in Nat, NEW v \in Nat
  PROVE  x + y + k = x + (y + v) + (k - v)
OBVIOUS

-----------------------------------------------------------------------------
(* The queues. *)

LEMMA FifoJoined ==
  ASSUME NEW a \in Seq(Nat), NEW b \in Seq(Nat)
  PROVE  /\ a \o b \in Seq(Nat) /\ Len(a \o b) = Len(a) + Len(b)
         /\ \A i \in 1 .. Len(a) : (a \o b)[i] = a[i]
         /\ \A i \in 1 .. Len(b) : (a \o b)[Len(a) + i] = b[i]
OBVIOUS

(* The first element of one queue goes to the end of another. *)
LEMMA Sizes == FifoSize \in Nat \ {0}
BY FifoAssumption

LEMMA Move ==
  ASSUME NEW a \in Seq(Nat), NEW b \in Seq(Nat), a # << >>
  PROVE  /\ Len(a) \in Nat \ {0} /\ Len(b) \in Nat /\ Head(a) \in Nat
         /\ Tail(a) \in Seq(Nat) /\ Len(Tail(a)) = Len(a) - 1
         /\ Append(b, Head(a)) \in Seq(Nat) /\ Len(Append(b, Head(a))) = Len(b) + 1
OBVIOUS

LEMMA MoveFirst ==
  ASSUME NEW a \in Seq(Nat), a # << >>, NEW x \in Nat, Follow(a, x)
  PROVE  Head(a) = x + 1 /\ Follow(Tail(a), x + 1)
<1>1. /\ Len(a) \in Nat \ {0} /\ Head(a) = a[1] /\ Len(Tail(a)) = Len(a) - 1
      /\ \A i \in 1 .. Len(a) - 1 : Tail(a)[i] = a[i + 1]
  OBVIOUS
<1>2. ASSUME NEW i \in 1 .. Len(a) - 1
      PROVE  a[i + 1] = x + 1 + i
  BY <1>1 DEF Follow
<1> QED BY <1>1, <1>2 DEF Follow

LEMMA MoveLast ==
  ASSUME NEW b \in Seq(Nat), NEW x \in Nat, Follow(b, x), NEW v \in Nat,
         v = x + Len(b) + 1
  PROVE  Follow(Append(b, v), x)
<1>1. /\ Len(b) \in Nat /\ Len(Append(b, v)) = Len(b) + 1
      /\ Append(b, v)[Len(b) + 1] = v
      /\ \A i \in 1 .. Len(b) : Append(b, v)[i] = b[i]
  OBVIOUS
<1> QED BY <1>1 DEF Follow

-----------------------------------------------------------------------------
(* Each step keeps the invariant. *)

(* Lengths, and the counts at the end of the queue of indications. *)
Lengths(sends, requested) ==
  /\ Len(toHost) \in Nat /\ sends[Len(toHost)] \in Nat /\ requested[Len(toHost)] \in Nat
  /\ upCnt - lowCnt \in Nat /\ Len(inputQ) \in Nat /\ Len(fpgaFIFO) \in Nat
  /\ Len(fromHostQ) \in Nat /\ Len(deqd) \in Nat

LEMMA AtEnd ==
  ASSUME NEW sends \in Counts, NEW requested \in Counts, FifoInvFor(sends, requested)
  PROVE  Lengths(sends, requested)
<1>1. FifoTypes /\ Len(toHost) \in Nat
  BY DEF FifoInvFor, FifoTypes
<1>2. Len(toHost) \in 0 .. Len(toHost)
  BY <1>1
<1>3. sends[Len(toHost)] \in Nat /\ requested[Len(toHost)] \in Nat
  BY <1>2 DEF Counts
<1>4. upCnt - lowCnt \in Nat
  BY <1>1 DEF FifoTypes
<1>5. /\ Len(inputQ) \in Nat /\ Len(fpgaFIFO) \in Nat
      /\ Len(fromHostQ) \in Nat /\ Len(deqd) \in Nat
  BY <1>1 DEF FifoTypes
<1> QED BY <1>1, <1>3, <1>4, <1>5 DEF Lengths

(* An indication is sent: the counts go on. *)
LEMMA CountsAppend ==
  ASSUME NEW sends \in Counts, NEW requested \in Counts, CountsOf(sends, requested),
         toHost \in Seq(Indication), NEW m \in Indication,
         toHost' = Append(toHost, m)
  PROVE  \E s \in Counts', a \in Counts' :
           /\ CountsOf(s, a)'
           /\ \A p \in 0 .. Len(toHost) : s[p] = sends[p] /\ a[p] = requested[p]
           /\ s[Len(toHost) + 1] =
                sends[Len(toHost)] + (IF m.call = "sendData" THEN 1 ELSE 0)
           /\ a[Len(toHost) + 1] =
                requested[Len(toHost)] + (IF m.call = "sendData" THEN 0 ELSE m.v)
<1> DEFINE n == Len(toHost)
<1>a. PICK s : s = [ p \in 0 .. n + 1 |->
                       IF p = n + 1
                       THEN sends[n] + (IF m.call = "sendData" THEN 1 ELSE 0)
                       ELSE sends[p] ]
  OBVIOUS
<1>b. PICK a : a = [ p \in 0 .. n + 1 |->
                       IF p = n + 1
                       THEN requested[n] + (IF m.call = "sendData" THEN 0 ELSE m.v)
                       ELSE requested[p] ]
  OBVIOUS
<1>1. /\ n \in Nat /\ Len(toHost') = n + 1 /\ toHost'[n + 1] = m
      /\ \A p \in 1 .. n : toHost'[p] = toHost[p]
  OBVIOUS
<1>2. m.v \in Nat
  BY DEF Indication
<1>3. \A p \in 0 .. n : sends[p] \in Nat /\ requested[p] \in Nat
  BY DEF Counts
<1>4. s \in Counts' /\ a \in Counts'
  <2>1. n \in 0 .. n
    BY <1>1
  <2>2. ASSUME NEW p \in 0 .. n + 1
        PROVE  s[p] \in Nat /\ a[p] \in Nat
    <3>1. CASE p = n + 1
      BY <1>2, <1>3, <1>a, <1>b, <2>1, <3>1, SMTT(30)
    <3>2. CASE p # n + 1
      <4>1. p \in 0 .. n
        BY <1>1, <3>2
      <4> QED BY <1>3, <1>a, <1>b, <3>2, <4>1
    <3> QED BY <3>1, <3>2
  <2> QED BY <1>1, <1>a, <1>b, <2>2 DEF Counts
<1>5. /\ \A p \in 0 .. n : s[p] = sends[p] /\ a[p] = requested[p]
      /\ s[n + 1] = sends[n] + (IF m.call = "sendData" THEN 1 ELSE 0)
      /\ a[n + 1] = requested[n] + (IF m.call = "sendData" THEN 0 ELSE m.v)
  BY <1>1, <1>a, <1>b
<1>6. CountsOf(s, a)'
  <2>1. s[0] = 0 /\ a[0] = 0
    BY <1>1, <1>5 DEF CountsOf
  <2>2. ASSUME NEW p \in 1 .. n + 1
        PROVE  /\ s[p] = s[p - 1] + (IF Sent(p)' THEN 1 ELSE 0)
               /\ a[p] = a[p - 1] + (IF Sent(p)' THEN 0 ELSE toHost'[p].v)
    <3>1. CASE p = n + 1
      <4>1. p - 1 = n /\ n \in 0 .. n
        BY <1>1, <3>1
      <4> QED BY <1>1, <1>5, <3>1, <4>1 DEF Sent
    <3>2. CASE p # n + 1
      <4>1. p \in 1 .. n /\ p \in 0 .. n /\ p - 1 \in 0 .. n
        BY <1>1, <3>2
      <4> QED BY <1>1, <1>5, <4>1 DEF CountsOf, Sent
    <3> QED BY <3>1, <3>2
  <2>3. ASSUME NEW p \in 0 .. n + 1, NEW q \in 0 .. n + 1, p <= q
        PROVE  s[p] <= s[q] /\ a[p] <= a[q]
    <3>1. CASE q # n + 1
      <4>1. p \in 0 .. n /\ q \in 0 .. n
        BY <1>1, <2>3, <3>1
      <4> QED BY <1>5, <2>3, <4>1 DEF CountsOf
    <3>2. CASE q = n + 1 /\ p = n + 1
      <4>1. n + 1 \in 0 .. Len(toHost')
        BY <1>1
      <4>2. \A i \in 0 .. Len(toHost') : s[i] \in Nat /\ a[i] \in Nat
        BY <1>4 DEF Counts
      <4>3. s[n + 1] \in Nat /\ a[n + 1] \in Nat
        BY <4>1, <4>2
      <4> QED BY <3>2, <4>3
    <3>3. CASE q = n + 1 /\ p # n + 1
      <4>1. p \in 0 .. n /\ n \in 0 .. n /\ p <= n
        BY <1>1, <3>3
      <4>2. sends[p] <= sends[n] /\ requested[p] <= requested[n]
        BY <4>1 DEF CountsOf
      <4>3. sends[n] <= s[n + 1] /\ requested[n] <= a[n + 1]
        BY <1>2, <1>3, <1>5, <4>1
      <4>4. s[p] = sends[p] /\ a[p] = requested[p] /\ s[p] \in Nat /\ a[p] \in Nat
        BY <1>3, <1>5, <4>1
      <4>5. /\ sends[n] \in Nat /\ requested[n] \in Nat
            /\ s[n + 1] \in Nat /\ a[n + 1] \in Nat
        <5>1. \A i \in 0 .. Len(toHost') : s[i] \in Nat /\ a[i] \in Nat
          BY <1>4 DEF Counts
        <5>2. n + 1 \in 0 .. Len(toHost')
          BY <1>1
        <5> QED BY <1>3, <4>1, <5>1, <5>2
      <4> QED BY <3>3, <4>2, <4>3, <4>4, <4>5
    <3> QED BY <3>1, <3>2, <3>3
  <2> QED BY <1>1, <2>1, <2>2, <2>3 DEF CountsOf
<1> QED BY <1>4, <1>5, <1>6

(* An indication is taken: what it counted for is gone. *)
LEMMA CountsTail ==
  ASSUME NEW sends \in Counts, NEW requested \in Counts, CountsOf(sends, requested),
         toHost \in Seq(Indication), toHost # << >>, toHost' = Tail(toHost)
  PROVE  /\ Len(toHost) \in Nat \ {0} /\ Len(toHost') = Len(toHost) - 1
         /\ toHost' \in Seq(Indication)
         /\ \A p \in 1 .. Len(toHost) - 1 : toHost'[p] = toHost[p + 1]
         /\ sends[1] = (IF Sent(1) THEN 1 ELSE 0)
         /\ requested[1] = (IF Sent(1) THEN 0 ELSE toHost[1].v)
         /\ \E s \in Counts', a \in Counts' :
              /\ CountsOf(s, a)'
              /\ \A p \in 0 .. Len(toHost) - 1 :
                   s[p] = sends[p + 1] - sends[1] /\ a[p] = requested[p + 1] - requested[1]
<1> DEFINE n == Len(toHost)
<1>a. PICK s : s = [ p \in 0 .. n - 1 |-> sends[p + 1] - sends[1] ]
  OBVIOUS
<1>b. PICK a : a = [ p \in 0 .. n - 1 |-> requested[p + 1] - requested[1] ]
  OBVIOUS
<1>1. /\ n \in Nat \ {0} /\ Len(toHost') = n - 1 /\ toHost' \in Seq(Indication)
      /\ \A p \in 1 .. n - 1 : toHost'[p] = toHost[p + 1]
  <2> HIDE DEF n
  <2> QED BY DEF n
<1>0. ASSUME NEW p \in 1 .. n
      PROVE  toHost[p].v \in Nat
  <2>1. toHost[p] \in Indication
    OBVIOUS
  <2> QED BY <2>1 DEF Indication
<1>2. \A p \in 0 .. n : sends[p] \in Nat /\ requested[p] \in Nat
  BY DEF Counts
<1>3. /\ sends[1] = (IF Sent(1) THEN 1 ELSE 0)
      /\ requested[1] = (IF Sent(1) THEN 0 ELSE toHost[1].v)
  <2>1. 1 \in 1 .. n /\ 1 - 1 = 0
    BY <1>1
  <2> QED BY <1>0, <2>1 DEF CountsOf
<1>4. ASSUME NEW p \in 0 .. n - 1
      PROVE  s[p] \in Nat /\ a[p] \in Nat
  <2>1. p + 1 \in 0 .. n /\ 1 \in 0 .. n /\ 1 <= p + 1
    BY <1>1
  <2>2. sends[1] <= sends[p + 1] /\ requested[1] <= requested[p + 1]
    BY <2>1 DEF CountsOf
  <2> QED BY <1>2, <1>a, <1>b, <2>1, <2>2
<1>5. s \in Counts' /\ a \in Counts'
  BY <1>1, <1>4, <1>a, <1>b DEF Counts
<1>6. \A p \in 0 .. n - 1 :
        s[p] = sends[p + 1] - sends[1] /\ a[p] = requested[p + 1] - requested[1]
  BY <1>a, <1>b
<1>7. 1 \in 0 .. n /\ sends[1] \in Nat /\ requested[1] \in Nat
  BY <1>1, <1>2
<1>8. CountsOf(s, a)'
  <2>1. s[0] = 0 /\ a[0] = 0
    BY <1>1, <1>6, <1>7
  <2>2. ASSUME NEW p \in 1 .. n - 1
        PROVE  /\ s[p] = s[p - 1] + (IF Sent(p)' THEN 1 ELSE 0)
               /\ a[p] = a[p - 1] + (IF Sent(p)' THEN 0 ELSE toHost'[p].v)
    <3>1. /\ p + 1 \in 1 .. n /\ (p + 1) - 1 = p /\ (p - 1) + 1 = p
          /\ p \in 0 .. n - 1 /\ p - 1 \in 0 .. n - 1 /\ p \in 0 .. n /\ p + 1 \in 0 .. n
      BY <1>1
    <3>2. /\ sends[p + 1] = sends[p] + (IF Sent(p)' THEN 1 ELSE 0)
          /\ requested[p + 1] = requested[p] + (IF Sent(p)' THEN 0 ELSE toHost'[p].v)
      BY <1>1, <3>1 DEF CountsOf, Sent
    <3>3. s[p] = sends[p + 1] - sends[1] /\ a[p] = requested[p + 1] - requested[1]
      BY <1>6, <3>1
    <3>4. s[p - 1] = sends[p] - sends[1] /\ a[p - 1] = requested[p] - requested[1]
      BY <1>6, <3>1
    <3>5. toHost'[p].v \in Nat
      BY <1>0, <1>1, <3>1
    <3>6. sends[p] \in Nat /\ requested[p] \in Nat
      BY <1>2, <3>1
    <3>7. CASE Sent(p)'
      <4>1. (sends[p] + 1) - sends[1] = (sends[p] - sends[1]) + 1
        BY <1>7, <3>6
      <4>2. (requested[p] + 0) - requested[1] = (requested[p] - requested[1]) + 0
        BY <1>7, <3>6
      <4> QED BY <3>2, <3>3, <3>4, <3>7, <4>1, <4>2
    <3>8. CASE ~ Sent(p)'
      BY <1>7, <3>2, <3>3, <3>4, <3>5, <3>6, <3>8, SMTT(30)
    <3> QED BY <3>7, <3>8
  <2>3. ASSUME NEW p \in 0 .. n - 1, NEW q \in 0 .. n - 1, p <= q
        PROVE  s[p] <= s[q] /\ a[p] <= a[q]
    <3>1. p + 1 \in 0 .. n /\ q + 1 \in 0 .. n /\ p + 1 <= q + 1
      BY <1>1, <2>3
    <3>2. sends[p + 1] <= sends[q + 1] /\ requested[p + 1] <= requested[q + 1]
      BY <3>1 DEF CountsOf
    <3>3. /\ s[p] = sends[p + 1] - sends[1] /\ a[p] = requested[p + 1] - requested[1]
          /\ s[q] = sends[q + 1] - sends[1] /\ a[q] = requested[q + 1] - requested[1]
      BY <1>6
    <3>4. /\ sends[p + 1] \in Nat /\ requested[p + 1] \in Nat
          /\ sends[q + 1] \in Nat /\ requested[q + 1] \in Nat
      BY <1>2, <3>1
    <3>5. /\ sends[p + 1] - sends[1] <= sends[q + 1] - sends[1]
          /\ requested[p + 1] - requested[1] <= requested[q + 1] - requested[1]
      BY <1>7, <3>2, <3>4
    <3> QED BY <3>3, <3>5
  <2> QED BY <1>1, <2>1, <2>2, <2>3 DEF CountsOf
<1> QED BY <1>1, <1>3, <1>5, <1>6, <1>8

LEMMA EnqStep ==
  ASSUME NEW sends \in Counts, NEW requested \in Counts, FifoInvFor(sends, requested), enq
  PROVE  FifoInvFor(sends, requested)'
<1>0. Lengths(sends, requested)
  BY AtEnd
<1>1. inputQ \in Seq(Nat) /\ enqd \in Nat
  BY DEF FifoTypes, FifoInvFor, enq
<1>2. FifoTypes'
  BY <1>1 DEF FifoTypes, FifoInvFor, enq
<1>3. CountsOf(sends, requested)'
  BY DEF CountsOf, Sent, FifoInvFor, enq
<1>4. CountersExact(sends, requested)'
  BY DEF CountersExact, Sent, FifoInvFor, enq
<1>5. InputOrder(sends)'
  <2>1. PICK x \in Nat : x = Len(deqd) + Len(fpgaFIFO) + Len(fromHostQ)
                               + (upCnt - lowCnt) + sends[Len(toHost)]
    BY <1>0 DEF Lengths, FifoInvFor, enq
  <2>2. Follow(inputQ, x) /\ enqd = x + Len(inputQ)
    BY <2>1 DEF InputOrder, FifoInvFor, enq
  <2>3. Follow(inputQ', x)
    BY <1>1, <2>2, MoveLast DEF FifoInvFor, enq
  <2>4. Len(inputQ') = Len(inputQ) + 1 /\ Len(inputQ) \in Nat
    BY <1>1 DEF FifoInvFor, enq
  <2>5. enqd' = x + Len(inputQ')
    BY <2>2, <2>4 DEF FifoInvFor, enq
  <2> QED BY <2>1, <2>3, <2>5 DEF InputOrder, Sent, FifoInvFor, enq
<1>6. OutputOrder'
  BY DEF OutputOrder, FifoInvFor, enq
<1> QED BY <1>2, <1>3, <1>4, <1>5, <1>6 DEF FifoInvFor

LEMMA DeqStep ==
  ASSUME NEW sends \in Counts, NEW requested \in Counts, FifoInvFor(sends, requested), deq
  PROVE  FifoInvFor(sends, requested)'
<1>0. Lengths(sends, requested)
  BY AtEnd
<1>1. /\ fpgaFIFO \in Seq(Nat) /\ deqd \in Seq(Nat)
      /\ Len(fpgaFIFO) \in Nat \ {0} /\ Len(deqd) \in Nat
      /\ fpgaFIFO' \in Seq(Nat) /\ Len(fpgaFIFO') = Len(fpgaFIFO) - 1
      /\ deqd' \in Seq(Nat) /\ Len(deqd') = Len(deqd) + 1
  BY Move DEF FifoTypes, FifoInvFor, deq
<1>2. CountersExact(sends, requested)' /\ fpgaElemCnt' \in Nat
  <2>1. /\ fpgaElemCnt = Len(fpgaFIFO) + Len(fromHostQ) + requested[Len(toHost)]
        /\ fpgaElemCnt <= FifoSize
    BY DEF CountersExact, FifoInvFor, deq
  <2>2. fpgaElemCnt' = fpgaElemCnt - 1
    BY DEF deq
  <2>3. /\ fpgaElemCnt' = Len(fpgaFIFO') + Len(fromHostQ) + requested[Len(toHost)]
        /\ fpgaElemCnt' <= FifoSize /\ fpgaElemCnt' \in Nat
    <3>1. Len(fpgaFIFO') = Len(fpgaFIFO) - 1 /\ Len(fpgaFIFO) \in Nat \ {0}
      BY <1>1
    <3>2. Len(fromHostQ) \in Nat /\ requested[Len(toHost)] \in Nat
      BY <1>0 DEF Lengths
    <3> QED BY <3>1, <3>2, <2>1, <2>2, Sizes, SMTT(30)
  <2> QED BY <2>3 DEF CountersExact, Sent, FifoInvFor, deq
<1>3. FifoTypes'
  BY <1>1, <1>2 DEF FifoTypes, FifoInvFor, deq
<1>4. CountsOf(sends, requested)'
  BY DEF CountsOf, Sent, FifoInvFor, deq
<1>5. Len(deqd') + Len(fpgaFIFO') = Len(deqd) + Len(fpgaFIFO)
  BY <1>1 DEF FifoInvFor, deq
<1>6. InputOrder(sends)'
  BY <1>5 DEF InputOrder, Sent, FifoInvFor, deq
<1>7. OutputOrder'
  <2> SUFFICES ASSUME ~ grownWrapped PROVE OutputOrder'
    BY DEF OutputOrder, FifoInvFor, deq
  <2>1. Follow(deqd, 0) /\ Follow(fpgaFIFO, Len(deqd))
    BY DEF OutputOrder, FifoInvFor, deq
  <2>2. Head(fpgaFIFO) = Len(deqd) + 1 /\ Follow(fpgaFIFO', Len(deqd'))
    BY <1>1, <2>1, MoveFirst DEF FifoInvFor, deq
  <2>3. Follow(deqd', 0)
    BY <1>1, <2>1, <2>2, MoveLast DEF FifoInvFor, deq
  <2> QED BY <1>5, <2>2, <2>3 DEF OutputOrder, FifoInvFor, deq
<1> QED BY <1>2, <1>3, <1>4, <1>6, <1>7 DEF FifoInvFor

LEMMA DeqFromHostStep ==
  ASSUME NEW sends \in Counts, NEW requested \in Counts, FifoInvFor(sends, requested),
         doDeqFromHost
  PROVE  FifoInvFor(sends, requested)'
<1>0. Lengths(sends, requested)
  BY AtEnd
<1>1. /\ fpgaFIFO \in Seq(Nat) /\ fromHostQ \in Seq(Nat)
      /\ Len(fromHostQ) \in Nat \ {0} /\ Len(fpgaFIFO) \in Nat
      /\ fromHostQ' \in Seq(Nat) /\ Len(fromHostQ') = Len(fromHostQ) - 1
      /\ fpgaFIFO' \in Seq(Nat) /\ Len(fpgaFIFO') = Len(fpgaFIFO) + 1
  BY Move DEF FifoTypes, FifoInvFor, doDeqFromHost
<1>2. CountersExact(sends, requested)' /\ hostElemCnt0' \in Nat
  <2>1. /\ hostElemCnt0 = Len(fromHostQ) + (upCnt - lowCnt) + sends[Len(toHost)]
        /\ fpgaElemCnt = Len(fpgaFIFO) + Len(fromHostQ) + requested[Len(toHost)]
    BY DEF CountersExact, FifoInvFor, doDeqFromHost
  <2>2. hostElemCnt0' = hostElemCnt0 - 1
    BY DEF doDeqFromHost
  <2>3. /\ hostElemCnt0' = Len(fromHostQ') + (upCnt - lowCnt) + sends[Len(toHost)]
        /\ fpgaElemCnt = Len(fpgaFIFO') + Len(fromHostQ') + requested[Len(toHost)]
        /\ hostElemCnt0' \in Nat
    <3>1. /\ Len(fromHostQ) \in Nat \ {0} /\ Len(fromHostQ') = Len(fromHostQ) - 1
          /\ Len(fpgaFIFO) \in Nat /\ Len(fpgaFIFO') = Len(fpgaFIFO) + 1
      BY <1>1
    <3>2. /\ sends[Len(toHost)] \in Nat /\ requested[Len(toHost)] \in Nat
          /\ upCnt \in Nat /\ lowCnt \in Nat /\ upCnt - lowCnt \in Nat
      BY <1>0 DEF Lengths, FifoTypes, FifoInvFor
    <3> QED BY <3>1, <3>2, <2>1, <2>2, SMTT(30)
  <2> QED BY <2>3 DEF CountersExact, Sent, FifoInvFor, doDeqFromHost
<1>3. FifoTypes'
  BY <1>1, <1>2 DEF FifoTypes, FifoInvFor, doDeqFromHost
<1>4. CountsOf(sends, requested)'
  BY DEF CountsOf, Sent, FifoInvFor, doDeqFromHost
<1>5. /\ Len(deqd) \in Nat
      /\ Len(deqd') + Len(fpgaFIFO') + Len(fromHostQ')
           = Len(deqd) + Len(fpgaFIFO) + Len(fromHostQ)
      /\ Len(deqd') + Len(fpgaFIFO') = Len(deqd) + Len(fpgaFIFO) + 1
  BY <1>0, <1>1 DEF Lengths, FifoInvFor, doDeqFromHost
<1>6. InputOrder(sends)'
  BY <1>5 DEF InputOrder, Sent, FifoInvFor, doDeqFromHost
<1>7. OutputOrder'
  <2> SUFFICES ASSUME ~ grownWrapped PROVE OutputOrder'
    BY DEF OutputOrder, FifoInvFor, doDeqFromHost
  <2>1. Follow(fpgaFIFO, Len(deqd)) /\ Follow(fromHostQ, Len(deqd) + Len(fpgaFIFO))
    BY DEF OutputOrder, FifoInvFor, doDeqFromHost
  <2>2. /\ Head(fromHostQ) = Len(deqd) + Len(fpgaFIFO) + 1
        /\ Follow(fromHostQ', Len(deqd') + Len(fpgaFIFO'))
    BY <1>1, <1>5, <2>1, MoveFirst DEF FifoInvFor, doDeqFromHost
  <2>3. Follow(fpgaFIFO', Len(deqd))
    BY <1>1, <1>5, <2>1, <2>2, MoveLast DEF FifoInvFor, doDeqFromHost
  <2> QED BY <1>5, <2>2, <2>3 DEF OutputOrder, FifoInvFor, doDeqFromHost
<1> QED BY <1>2, <1>3, <1>4, <1>6, <1>7 DEF FifoInvFor

LEMMA EnqToFPGAStep ==
  ASSUME NEW sends \in Counts, NEW requested \in Counts, FifoInvFor(sends, requested),
         doEnqToFPGA
  PROVE  FifoInvFor(sends, requested)'
<1> DEFINE n == Len(toHost)
<1>0. Lengths(sends, requested)
  BY AtEnd
<1>1. /\ inputQ \in Seq(Nat) /\ fpgaFIFO \in Seq(Nat)
      /\ Len(inputQ) \in Nat \ {0} /\ Len(fpgaFIFO) \in Nat
      /\ inputQ' \in Seq(Nat) /\ Len(inputQ') = Len(inputQ) - 1
      /\ fpgaFIFO' \in Seq(Nat) /\ Len(fpgaFIFO') = Len(fpgaFIFO) + 1
  BY Move DEF FifoTypes, FifoInvFor, doEnqToFPGA
<1>2. /\ n \in Nat /\ Len(deqd) \in Nat /\ Len(fromHostQ) = 0
      /\ upCnt \in Nat /\ lowCnt \in Nat /\ upCnt - lowCnt = 0
      /\ sends[n] = 0 /\ requested[n] = 0
  <2>1. /\ sends[n] \in Nat /\ requested[n] \in Nat /\ Len(fromHostQ) \in Nat
        /\ upCnt - lowCnt \in Nat /\ n \in Nat /\ Len(deqd) \in Nat
    BY <1>0 DEF Lengths
  <2>2. upCnt \in Nat /\ lowCnt \in Nat /\ hostElemCnt1 \in Nat
    BY DEF FifoTypes, FifoInvFor
  <2>3. 0 = Len(fromHostQ) + (upCnt - lowCnt) + sends[n]
    BY DEF CountersExact, FifoInvFor, doEnqToFPGA
  <2>4. hostElemCnt1 = (upCnt - lowCnt) + sends[n] - requested[n]
    BY DEF CountersExact, FifoInvFor
  <2>5. Len(fromHostQ) = 0 /\ upCnt - lowCnt = 0 /\ sends[n] = 0
    BY <2>1, <2>2, <2>3
  <2> QED BY <2>1, <2>2, <2>4, <2>5
<1>3. CountersExact(sends, requested)' /\ fpgaElemCnt' \in Nat
  <2>1. fpgaElemCnt = Len(fpgaFIFO) + Len(fromHostQ) + requested[n]
    BY DEF CountersExact, FifoInvFor
  <2>2. fpgaElemCnt' = fpgaElemCnt + 1 /\ Len(fpgaFIFO) < FifoSize
    BY DEF doEnqToFPGA
  <2>3. /\ fpgaElemCnt' = Len(fpgaFIFO') + Len(fromHostQ) + requested[n]
        /\ fpgaElemCnt' <= FifoSize /\ fpgaElemCnt' \in Nat
    <3>1. Len(fpgaFIFO') = Len(fpgaFIFO) + 1 /\ Len(fpgaFIFO) \in Nat
      BY <1>1
    <3> QED BY <1>2, <2>1, <2>2, <3>1, Sizes
  <2> QED BY <2>3 DEF CountersExact, Sent, FifoInvFor, doEnqToFPGA
<1>4. FifoTypes'
  BY <1>1, <1>3 DEF FifoTypes, FifoInvFor, doEnqToFPGA
<1>5. CountsOf(sends, requested)'
  BY DEF CountsOf, Sent, FifoInvFor, doEnqToFPGA
<1>6. PICK x \in Nat : x = Len(deqd) + Len(fpgaFIFO)
  BY <1>1, <1>2
<1>7. Follow(inputQ, x) /\ enqd = x + Len(inputQ)
  <2>1. /\ Follow(inputQ, Len(deqd) + Len(fpgaFIFO) + Len(fromHostQ)
                            + (upCnt - lowCnt) + sends[n])
        /\ enqd = Len(deqd) + Len(fpgaFIFO) + Len(fromHostQ)
                    + (upCnt - lowCnt) + sends[n] + Len(inputQ)
    BY DEF InputOrder, FifoInvFor
  <2>2. Len(deqd) + Len(fpgaFIFO) + Len(fromHostQ) + (upCnt - lowCnt) + sends[n] = x
    BY <1>1, <1>2, <1>6
  <2> QED BY <2>1, <2>2
<1>8. Head(inputQ) = x + 1 /\ Follow(inputQ', x + 1)
  BY <1>1, <1>7, MoveFirst DEF doEnqToFPGA
<1>9. InputOrder(sends)'
  <2>1. ASSUME NEW p \in 1 .. n PROVE ~ Sent(p)
    <3>1. p - 1 \in 0 .. n /\ p \in 0 .. n /\ n \in 0 .. n /\ p <= n
      BY <1>2
    <3>2. sends[p] <= 0 /\ sends[p - 1] \in Nat
      BY <1>2, <3>1 DEF CountsOf, Counts, FifoInvFor
    <3>3. sends[p] = sends[p - 1] + (IF Sent(p) THEN 1 ELSE 0)
      BY DEF CountsOf, FifoInvFor
    <3> QED BY <3>2, <3>3
  <2>2. Len(deqd) + Len(fpgaFIFO') + Len(fromHostQ) + (upCnt - lowCnt) + sends[n] = x + 1
    BY <1>1, <1>2, <1>6
  <2>3. enqd = x + 1 + Len(inputQ')
    BY <1>1, <1>6, <1>7
  <2> QED BY <1>8, <2>1, <2>2, <2>3 DEF InputOrder, Sent, doEnqToFPGA
<1>10. OutputOrder'
  <2> SUFFICES ASSUME ~ grownWrapped PROVE OutputOrder'
    BY DEF OutputOrder, doEnqToFPGA
  <2>1. Follow(fpgaFIFO, Len(deqd)) /\ Follow(deqd, 0)
    BY DEF OutputOrder, FifoInvFor
  <2>2. Follow(fpgaFIFO', Len(deqd))
    BY <1>1, <1>2, <1>6, <1>8, <2>1, MoveLast DEF doEnqToFPGA
  <2>3. Follow(fromHostQ, Len(deqd) + Len(fpgaFIFO'))
    BY <1>2 DEF Follow
  <2>4. \A k \in lowCnt .. upCnt - 1 : FALSE
    BY <1>2
  <2> QED BY <2>1, <2>2, <2>3, <2>4 DEF OutputOrder, doEnqToFPGA
<1> QED BY <1>3, <1>4, <1>5, <1>9, <1>10 DEF FifoInvFor

(* A step that sends an indication and moves no element into or out of the *)
(* queues behind the host.                                                 *)
LEMMA SendStep ==
  ASSUME NEW sends \in Counts, NEW requested \in Counts, FifoInvFor(sends, requested),
         NEW m \in Indication, toHost' = Append(toHost, m)
  PROVE  \E s \in Counts', a \in Counts' :
           /\ CountsOf(s, a)'
           /\ s[Len(toHost')] =
                sends[Len(toHost)] + (IF m.call = "sendData" THEN 1 ELSE 0)
           /\ a[Len(toHost')] =
                requested[Len(toHost)] + (IF m.call = "sendData" THEN 0 ELSE m.v)
           /\ toHost' \in Seq(Indication) /\ Len(toHost') = Len(toHost) + 1
           /\ \A p \in 1 .. Len(toHost') :
                \/ p \in 1 .. Len(toHost) /\ toHost'[p] = toHost[p]
                   /\ s[p] = sends[p] /\ a[p] = requested[p]
                \/ p = Len(toHost') /\ toHost'[p] = m
<1>1. toHost \in Seq(Indication) /\ CountsOf(sends, requested)
  BY DEF FifoInvFor, FifoTypes, Indication
<1>2. PICK s \in Counts', a \in Counts' :
        /\ CountsOf(s, a)'
        /\ \A p \in 0 .. Len(toHost) : s[p] = sends[p] /\ a[p] = requested[p]
        /\ s[Len(toHost) + 1] =
             sends[Len(toHost)] + (IF m.call = "sendData" THEN 1 ELSE 0)
        /\ a[Len(toHost) + 1] =
             requested[Len(toHost)] + (IF m.call = "sendData" THEN 0 ELSE m.v)
  BY <1>1, CountsAppend
<1>3. /\ toHost' \in Seq(Indication) /\ Len(toHost) \in Nat
      /\ Len(toHost') = Len(toHost) + 1 /\ toHost'[Len(toHost) + 1] = m
      /\ \A p \in 1 .. Len(toHost) : toHost'[p] = toHost[p]
  BY <1>1
<1>4. ASSUME NEW p \in 1 .. Len(toHost')
      PROVE  \/ p \in 1 .. Len(toHost) /\ toHost'[p] = toHost[p]
                /\ s[p] = sends[p] /\ a[p] = requested[p]
             \/ p = Len(toHost') /\ toHost'[p] = m
  <2>1. p \in 1 .. Len(toHost) \/ p = Len(toHost) + 1
    BY <1>3
  <2>2. p \in 1 .. Len(toHost) => p \in 0 .. Len(toHost)
    BY <1>3
  <2> QED BY <1>2, <1>3, <2>1, <2>2
<1> QED BY <1>2, <1>3, <1>4

LEMMA EnqToHostStep ==
  ASSUME NEW sends \in Counts, NEW requested \in Counts, FifoInvFor(sends, requested),
         doEnqToHost
  PROVE  FifoInv'
<1> DEFINE n == Len(toHost)
<1>0. Lengths(sends, requested)
  BY AtEnd
<1>1. /\ inputQ \in Seq(Nat) /\ Len(inputQ) \in Nat \ {0} /\ Head(inputQ) \in Nat
      /\ inputQ' \in Seq(Nat) /\ Len(inputQ') = Len(inputQ) - 1
  BY Move DEF FifoTypes, FifoInvFor, doEnqToHost
<1>2. PICK m \in Indication : m = [ call |-> "sendData", v |-> Head(inputQ) ]
  BY <1>1 DEF Indication
<1>3. toHost' = Append(toHost, m) /\ m.call = "sendData" /\ m.v = Head(inputQ)
  BY <1>2 DEF doEnqToHost
<1>4. PICK s \in Counts', a \in Counts' :
        /\ CountsOf(s, a)'
        /\ s[Len(toHost')] = sends[n] + 1 /\ a[Len(toHost')] = requested[n] + 0
        /\ toHost' \in Seq(Indication) /\ Len(toHost') = n + 1
        /\ \A p \in 1 .. Len(toHost') :
             \/ p \in 1 .. n /\ toHost'[p] = toHost[p]
                /\ s[p] = sends[p] /\ a[p] = requested[p]
             \/ p = Len(toHost') /\ toHost'[p] = m
  <2> HIDE DEF n
  <2> QED BY <1>3, SendStep DEF n
<1>5. sends[n] \in Nat /\ requested[n] \in Nat /\ n \in Nat
  BY <1>0 DEF Lengths
<1>6. FifoTypes'
  BY <1>1, <1>4, SMTT(30) DEF FifoTypes, FifoInvFor, doEnqToHost, Indication
<1>7. CountersExact(s, a)'
  <2>1. /\ hostElemCnt0 = Len(fromHostQ) + (upCnt - lowCnt) + sends[n]
        /\ hostElemCnt1 = (upCnt - lowCnt) + sends[n] - requested[n]
        /\ fpgaElemCnt = Len(fpgaFIFO) + Len(fromHostQ) + requested[n]
        /\ fpgaElemCnt <= FifoSize
    BY DEF CountersExact, FifoInvFor
  <2>2. /\ upCnt \in Nat /\ lowCnt \in Nat /\ Len(fromHostQ) \in Nat
        /\ Len(fpgaFIFO) \in Nat
    BY <1>0 DEF FifoTypes, FifoInvFor, Lengths
  <2>3. /\ hostElemCnt0 + 1 = Len(fromHostQ) + (upCnt - lowCnt) + s[Len(toHost')]
        /\ hostElemCnt1 + 1 = (upCnt - lowCnt) + s[Len(toHost')] - a[Len(toHost')]
        /\ fpgaElemCnt = Len(fpgaFIFO) + Len(fromHostQ) + a[Len(toHost')]
    <3>1. s[Len(toHost')] = sends[n] + 1 /\ a[Len(toHost')] = requested[n]
      BY <1>4, <1>5
    <3>2. PICK w \in Nat : w = upCnt - lowCnt
      BY <1>0 DEF Lengths
    <3>3. hostElemCnt0 + 1 = Len(fromHostQ) + w + (sends[n] + 1)
      BY <1>5, <2>1, <2>2, <3>2
    <3>4. hostElemCnt1 + 1 = w + (sends[n] + 1) - requested[n]
      <4>1. hostElemCnt1 = w + sends[n] - requested[n]
        BY <2>1, <3>2
      <4> QED BY <1>5, <3>2, <4>1
    <3> QED BY <2>1, <3>1, <3>2, <3>3, <3>4
  <2>4. ASSUME NEW p \in 1 .. Len(toHost'), ~ Sent(p)'
        PROVE  a[p] <= (upCnt - lowCnt) + s[p]
    <3>1. /\ p \in 1 .. n /\ toHost'[p] = toHost[p]
          /\ s[p] = sends[p] /\ a[p] = requested[p]
      BY <1>3, <1>4, <2>4 DEF Sent
    <3> QED BY <2>4, <3>1 DEF CountersExact, FifoInvFor, Sent
  <2> QED BY <2>1, <2>3, <2>4 DEF CountersExact, doEnqToHost
<1>8. PICK x \in Nat :
        x = Len(deqd) + Len(fpgaFIFO) + Len(fromHostQ) + (upCnt - lowCnt)
  BY <1>0 DEF Lengths
<1>9. InputOrder(s)'
  <2>1. /\ \A p \in 1 .. n : Sent(p) => toHost[p].v = x + sends[p]
        /\ Follow(inputQ, x + sends[n]) /\ enqd = x + sends[n] + Len(inputQ)
    BY <1>8 DEF InputOrder, FifoInvFor
  <2>2. x + sends[n] \in Nat /\ x + s[Len(toHost')] = x + sends[n] + 1
    BY <1>4, <1>5
  <2>3. Head(inputQ) = x + s[Len(toHost')] /\ Follow(inputQ', x + s[Len(toHost')])
    BY <1>1, <2>1, <2>2, MoveFirst DEF doEnqToHost
  <2>4. ASSUME NEW p \in 1 .. Len(toHost'), Sent(p)'
        PROVE  toHost'[p].v = x + s[p]
    <3>1. CASE /\ p \in 1 .. n /\ toHost'[p] = toHost[p]
               /\ s[p] = sends[p] /\ a[p] = requested[p]
      BY <2>1, <2>4, <3>1 DEF Sent
    <3>2. CASE p = Len(toHost') /\ toHost'[p] = m
      BY <1>3, <2>3, <3>2
    <3> QED BY <1>4, <3>1, <3>2
  <2>5. enqd = x + s[Len(toHost')] + Len(inputQ')
    BY <1>1, <1>5, <2>1, <2>2, SMTT(30)
  <2> QED BY <1>8, <2>3, <2>4, <2>5 DEF InputOrder, doEnqToHost
<1>10. OutputOrder'
  BY DEF OutputOrder, FifoInvFor, doEnqToHost
<1> QED BY <1>4, <1>6, <1>7, <1>9, <1>10 DEF FifoInv, FifoInvFor

LEMMA ReqFromHostStep ==
  ASSUME NEW sends \in Counts, NEW requested \in Counts, FifoInvFor(sends, requested),
         doReqFromHost
  PROVE  FifoInv'
<1> DEFINE n == Len(toHost)
<1>0. Lengths(sends, requested)
  BY AtEnd
<1>1. /\ hostElemCnt0 = Len(fromHostQ) + (upCnt - lowCnt) + sends[n]
      /\ hostElemCnt1 = (upCnt - lowCnt) + sends[n] - requested[n]
      /\ fpgaElemCnt = Len(fpgaFIFO) + Len(fromHostQ) + requested[n]
      /\ fpgaElemCnt <= FifoSize
  BY DEF CountersExact, FifoInvFor
<1>2. /\ upCnt \in Nat /\ lowCnt \in Nat /\ Len(fromHostQ) \in Nat
      /\ Len(fpgaFIFO) \in Nat /\ sends[n] \in Nat /\ requested[n] \in Nat /\ n \in Nat
      /\ hostElemCnt1 \in Nat /\ fpgaElemCnt \in Nat
  BY <1>0 DEF FifoTypes, FifoInvFor, Lengths
<1>3. PICK r \in Nat :
        /\ r = IF FifoSize - fpgaElemCnt > hostElemCnt1
               THEN hostElemCnt1 ELSE FifoSize - fpgaElemCnt
        /\ r <= hostElemCnt1 /\ r <= FifoSize - fpgaElemCnt
  <2>1. FifoSize - fpgaElemCnt \in Nat
    BY <1>1, <1>2, Sizes, SMTT(30)
  <2>2. CASE FifoSize - fpgaElemCnt > hostElemCnt1
    BY <1>2, <2>1, <2>2
  <2>3. CASE ~ (FifoSize - fpgaElemCnt > hostElemCnt1)
    BY <1>2, <2>1, <2>3
  <2> QED BY <2>2, <2>3
<1>4. /\ toHost' = Append(toHost, [ call |-> "elementReq", v |-> r ])
      /\ hostElemCnt1' = hostElemCnt1 - r /\ fpgaElemCnt' = fpgaElemCnt + r
  BY <1>3 DEF doReqFromHost
<1>5. PICK m \in Indication : m = [ call |-> "elementReq", v |-> r ]
  BY DEF Indication
<1>6. toHost' = Append(toHost, m) /\ m.call = "elementReq" /\ m.v = r
  BY <1>4, <1>5
<1>7. PICK s \in Counts', a \in Counts' :
        /\ CountsOf(s, a)'
        /\ s[Len(toHost')] = sends[n] + 0 /\ a[Len(toHost')] = requested[n] + r
        /\ toHost' \in Seq(Indication) /\ Len(toHost') = n + 1
        /\ \A p \in 1 .. Len(toHost') :
             \/ p \in 1 .. n /\ toHost'[p] = toHost[p]
                /\ s[p] = sends[p] /\ a[p] = requested[p]
             \/ p = Len(toHost') /\ toHost'[p] = m
  <2> HIDE DEF n
  <2> QED BY <1>6, SendStep, SMTT(30) DEF n
<1>8. /\ hostElemCnt1' \in Nat /\ fpgaElemCnt' \in Nat
      /\ hostElemCnt0 = Len(fromHostQ) + (upCnt - lowCnt) + s[Len(toHost')]
      /\ hostElemCnt1' = (upCnt - lowCnt) + s[Len(toHost')] - a[Len(toHost')]
      /\ fpgaElemCnt' = Len(fpgaFIFO) + Len(fromHostQ) + a[Len(toHost')]
      /\ fpgaElemCnt' <= FifoSize
      /\ a[Len(toHost')] <= (upCnt - lowCnt) + s[Len(toHost')]
  <2>1. s[Len(toHost')] = sends[n] /\ a[Len(toHost')] = requested[n] + r
    BY <1>2, <1>7
  <2>2. hostElemCnt1' \in Nat /\ fpgaElemCnt' \in Nat /\ fpgaElemCnt' <= FifoSize
    BY <1>2, <1>3, <1>4, Sizes
  <2>3. PICK w \in Nat : w = upCnt - lowCnt
    BY <1>0 DEF Lengths
  <2>4. hostElemCnt1 = w + sends[n] - requested[n] /\ r <= hostElemCnt1
    BY <1>1, <1>3, <2>3
  <2>5. hostElemCnt1 - r = w + sends[n] - (requested[n] + r) /\ requested[n] + r <= w + sends[n]
    BY <1>2, <2>3, <2>4
  <2>6. fpgaElemCnt + r = Len(fpgaFIFO) + Len(fromHostQ) + (requested[n] + r)
    BY <1>1, <1>2
  <2> QED BY <1>1, <1>4, <2>1, <2>2, <2>3, <2>5, <2>6
<1>9. FifoTypes'
  BY <1>7, <1>8 DEF FifoTypes, FifoInvFor, doReqFromHost, Indication
<1>10. CountersExact(s, a)'
  <2>1. ASSUME NEW p \in 1 .. Len(toHost'), ~ Sent(p)'
        PROVE  a[p] <= (upCnt - lowCnt) + s[p]
    <3>1. CASE /\ p \in 1 .. n /\ toHost'[p] = toHost[p]
               /\ s[p] = sends[p] /\ a[p] = requested[p]
      BY <2>1, <3>1 DEF CountersExact, FifoInvFor, Sent
    <3>2. CASE p = Len(toHost')
      BY <1>8, <3>2
    <3> QED BY <1>7, <3>1, <3>2
  <2> QED BY <1>8, <2>1 DEF CountersExact, doReqFromHost
<1>11. InputOrder(s)'
  <2>1. ASSUME NEW p \in 1 .. Len(toHost'), Sent(p)'
        PROVE  p \in 1 .. n /\ toHost'[p] = toHost[p] /\ s[p] = sends[p] /\ Sent(p)
    BY <1>6, <1>7, <2>1 DEF Sent
  <2>2. s[Len(toHost')] = sends[n]
    BY <1>2, <1>7
  <2> QED BY <2>1, <2>2 DEF InputOrder, FifoInvFor, doReqFromHost
<1>12. OutputOrder'
  BY DEF OutputOrder, FifoInvFor, doReqFromHost
<1> QED BY <1>7, <1>9, <1>10, <1>11, <1>12 DEF FifoInv, FifoInvFor

(* The host takes an element.  Its array grows if it is full. *)
LEMMA SendDataStep ==
  ASSUME NEW sends \in Counts, NEW requested \in Counts, FifoInvFor(sends, requested),
         sendData
  PROVE  FifoInv'
<1> DEFINE n == Len(toHost)
           newMax == IF isFull THEN max * 2 ELSE max
           grown == [ i \in 0 .. newMax - 1 |-> IF i < max THEN fifoArray[i] ELSE 0 ]
           v == toHost[1].v
<1>0. Lengths(sends, requested)
  BY AtEnd
<1>1. /\ toHost \in Seq(Indication) /\ CountsOf(sends, requested) /\ toHost # << >>
      /\ toHost' = Tail(toHost) /\ Head(toHost) = toHost[1] /\ Sent(1)
  BY DEF FifoInvFor, FifoTypes, Indication, sendData, Indicated, Sent
<1>2. PICK s \in Counts', a \in Counts' :
        /\ CountsOf(s, a)'
        /\ \A p \in 0 .. n - 1 :
             s[p] = sends[p + 1] - sends[1] /\ a[p] = requested[p + 1] - requested[1]
  BY <1>1, CountsTail
<1>3. /\ n \in Nat \ {0} /\ Len(toHost') = n - 1 /\ toHost' \in Seq(Indication)
      /\ \A p \in 1 .. n - 1 : toHost'[p] = toHost[p + 1]
      /\ sends[1] = 1 /\ requested[1] = 0
  BY <1>1, CountsTail
<1>4. ASSUME NEW p \in 0 .. n - 1
      PROVE  /\ s[p] = sends[p + 1] - 1 /\ a[p] = requested[p + 1]
             /\ sends[p + 1] \in Nat /\ requested[p + 1] \in Nat
  <2>1. p + 1 \in 0 .. n
    BY <1>3
  <2>2. sends[p + 1] \in Nat /\ requested[p + 1] \in Nat
    BY <2>1 DEF Counts
  <2>3. s[p] = sends[p + 1] - 1 /\ a[p] = requested[p + 1] - 0
    BY <1>2, <1>3
  <2> QED BY <2>2, <2>3
<1>5. /\ s[Len(toHost')] = sends[n] - 1 /\ a[Len(toHost')] = requested[n]
      /\ sends[n] \in Nat /\ requested[n] \in Nat
  <2>1. n - 1 \in 0 .. n - 1 /\ (n - 1) + 1 = n
    BY <1>3
  <2> QED BY <1>3, <1>4, <2>1
<1>6. /\ upCnt \in Nat /\ lowCnt \in Nat /\ lowCnt <= upCnt /\ upCnt - lowCnt <= max
      /\ max \in Nat \ {0} /\ fifoArray \in [ 0 .. max - 1 -> Nat ]
      /\ Len(deqd) \in Nat /\ Len(fpgaFIFO) \in Nat /\ Len(fromHostQ) \in Nat
  BY <1>0 DEF FifoTypes, FifoInvFor, Lengths
<1>7. /\ newMax \in Nat \ {0} /\ max <= newMax /\ upCnt - lowCnt < newMax
  BY <1>6 DEF isFull
<1>8. /\ upCnt % newMax \in 0 .. newMax - 1 /\ v \in Nat
      /\ grown \in [ 0 .. newMax - 1 -> Nat ]
  <2>1. upCnt % newMax \in 0 .. newMax - 1
    BY <1>6, <1>7, ModIn
  <2>2. v \in Nat
    <3>1. toHost[1] \in Indication
      BY <1>1
    <3> QED BY <3>1 DEF Indication
  <2>3. ASSUME NEW i \in 0 .. newMax - 1
        PROVE  (IF i < max THEN fifoArray[i] ELSE 0) \in Nat
    <3>1. CASE i < max
      BY <1>6, <3>1
    <3>2. CASE ~ (i < max)
      BY <3>2
    <3> QED BY <3>1, <3>2
  <2> QED BY <2>1, <2>2, <2>3
<1>9. /\ max' = newMax /\ fifoArray' = [ grown EXCEPT ![upCnt % newMax] = v ]
      /\ upCnt' = upCnt + 1 /\ lowCnt' = lowCnt
  BY <1>1 DEF sendData
<1>10. grownWrapped' = (grownWrapped \/ \E k \in lowCnt .. upCnt - 1 :
                          newMax # max /\ k % newMax # k % max)
  BY DEF sendData
<1>11. /\ UNCHANGED << enqd, inputQ, fpgaFIFO, hostElemCnt0, hostElemCnt1,
                       fpgaElemCnt, fromHostQ, deqd >>
  BY DEF sendData
<1>12. upCnt' - lowCnt' = (upCnt - lowCnt) + 1
  BY <1>6, <1>9
<1> HIDE DEF newMax, v
<1>13. /\ fifoArray' \in [ 0 .. newMax - 1 -> Nat ]
       /\ fifoArray'[upCnt % newMax] = v
       /\ \A i \in 0 .. max - 1 : i # upCnt % newMax => fifoArray'[i] = fifoArray[i]
  <2>1. \A i \in 0 .. max - 1 : i \in 0 .. newMax - 1 /\ grown[i] = fifoArray[i]
    BY <1>6, <1>7
  <2> HIDE DEF grown
  <2>2. /\ fifoArray' \in [ 0 .. newMax - 1 -> Nat ]
        /\ \A i \in 0 .. newMax - 1 :
             fifoArray'[i] = IF i = upCnt % newMax THEN v ELSE grown[i]
    BY <1>8, <1>9
  <2> QED BY <1>8, <2>1, <2>2
<1>14. FifoTypes'
  <2>1. grownWrapped' \in BOOLEAN
    BY <1>10 DEF FifoTypes, FifoInvFor
  <2>2. /\ lowCnt' \in Nat /\ upCnt' \in Nat /\ lowCnt' <= upCnt'
        /\ upCnt' - lowCnt' <= max'
    BY <1>6, <1>7, <1>9
  <2> QED BY <1>3, <1>7, <1>9, <1>11, <1>13, <2>1, <2>2
          DEF FifoTypes, FifoInvFor, Indication
<1>15. PICK w \in Nat : w = upCnt - lowCnt
  BY <1>6
<1>16. CountersExact(s, a)'
  <2>1. /\ hostElemCnt0 = Len(fromHostQ) + w + sends[n]
        /\ hostElemCnt1 = w + sends[n] - requested[n]
        /\ fpgaElemCnt = Len(fpgaFIFO) + Len(fromHostQ) + requested[n]
        /\ fpgaElemCnt <= FifoSize
        /\ \A p \in 1 .. n : ~ Sent(p) => requested[p] <= w + sends[p]
    BY <1>15 DEF CountersExact, FifoInvFor
  <2>2. /\ hostElemCnt0 = Len(fromHostQ) + (w + 1) + s[Len(toHost')]
        /\ hostElemCnt1 = (w + 1) + s[Len(toHost')] - a[Len(toHost')]
        /\ fpgaElemCnt = Len(fpgaFIFO) + Len(fromHostQ) + a[Len(toHost')]
    <3>1. w + sends[n] = (w + 1) + (sends[n] - 1)
      BY <1>5, <1>15
    <3>2. Len(fromHostQ) + w + sends[n] = Len(fromHostQ) + (w + 1) + (sends[n] - 1)
      BY <1>5, <1>6, <1>15
    <3>3. s[Len(toHost')] = sends[n] - 1 /\ a[Len(toHost')] = requested[n]
      BY <1>5
    <3>4. hostElemCnt0 = Len(fromHostQ) + (w + 1) + s[Len(toHost')]
      BY <2>1, <3>2, <3>3
    <3>5. hostElemCnt1 = (w + 1) + s[Len(toHost')] - a[Len(toHost')]
      <4>1. sends[n] \in Nat /\ requested[n] \in Nat
        BY <1>5
      <4>2. hostElemCnt1 = w + sends[n] - requested[n]
        BY <2>1
      <4>3. w + sends[n] - requested[n] = (w + 1) + (sends[n] - 1) - requested[n]
        BY <1>15, <4>1
      <4> QED BY <3>3, <4>2, <4>3
    <3>6. fpgaElemCnt = Len(fpgaFIFO) + Len(fromHostQ) + a[Len(toHost')]
      BY <2>1, <3>3
    <3> QED BY <3>4, <3>5, <3>6
  <2>3. ASSUME NEW p \in 1 .. Len(toHost'), ~ Sent(p)'
        PROVE  a[p] <= (w + 1) + s[p]
    <3>1. p + 1 \in 1 .. n /\ p \in 0 .. n - 1 /\ toHost'[p] = toHost[p + 1]
      BY <1>3
    <3>2. requested[p + 1] <= w + sends[p + 1]
      BY <2>1, <2>3, <3>1 DEF Sent
    <3>3. /\ s[p] = sends[p + 1] - 1 /\ a[p] = requested[p + 1]
          /\ sends[p + 1] \in Nat /\ requested[p + 1] \in Nat
      BY <1>4, <3>1
    <3> QED BY <1>15, <3>2, <3>3
  <2>4. upCnt' - lowCnt' = w + 1
    BY <1>12, <1>15
  <2> QED BY <1>11, <2>1, <2>2, <2>3, <2>4 DEF CountersExact
<1>17. PICK x \in Nat : x = Len(deqd) + Len(fpgaFIFO) + Len(fromHostQ)
  BY <1>6
<1>18. /\ \A p \in 1 .. n : Sent(p) => toHost[p].v = x + w + sends[p]
       /\ Follow(inputQ, x + w + sends[n]) /\ enqd = x + w + sends[n] + Len(inputQ)
  BY <1>15, <1>17 DEF InputOrder, FifoInvFor
<1>19. InputOrder(s)'
  <2>1. x + (w + 1) + s[Len(toHost')] = x + w + sends[n]
    BY <1>5, <1>15, <1>17, SMTT(30)
  <2>2. ASSUME NEW p \in 1 .. Len(toHost'), Sent(p)'
        PROVE  toHost'[p].v = x + (w + 1) + s[p]
    <3>1. p + 1 \in 1 .. n /\ p \in 0 .. n - 1 /\ toHost'[p] = toHost[p + 1]
      BY <1>3
    <3>2. toHost[p + 1].v = x + w + sends[p + 1]
      BY <1>18, <2>2, <3>1 DEF Sent
    <3>3. s[p] = sends[p + 1] - 1 /\ sends[p + 1] \in Nat
      BY <1>4, <3>1
    <3>4. x + w + sends[p + 1] = x + (w + 1) + (sends[p + 1] - 1)
      BY <1>15, <1>17, <3>3
    <3> QED BY <3>1, <3>2, <3>3, <3>4
  <2>3. Len(deqd) + Len(fpgaFIFO) + Len(fromHostQ) + (upCnt' - lowCnt') = x + (w + 1)
    BY <1>12, <1>15, <1>17
  <2> QED BY <1>11, <1>18, <2>1, <2>2, <2>3 DEF InputOrder
<1>20. v = x + w + 1
  <2>1. 1 \in 1 .. n
    BY <1>3
  <2> QED BY <1>1, <1>3, <1>18, <2>1 DEF v
<1>21. OutputOrder'
  <2> SUFFICES ASSUME ~ grownWrapped' PROVE OutputOrder'
    BY DEF OutputOrder
  <2>1. ~ grownWrapped /\ \A k \in lowCnt .. upCnt - 1 : newMax = max \/ k % newMax = k % max
    BY <1>10
  <2>2. \A k \in lowCnt .. upCnt - 1 : fifoArray[k % max] = x + (k - lowCnt) + 1
    BY <1>17, <2>1 DEF OutputOrder, FifoInvFor
  <2>3. ASSUME NEW k \in lowCnt' .. upCnt' - 1
        PROVE  fifoArray'[k % max'] = x + (k - lowCnt') + 1
    <3>1. CASE k = upCnt
      BY <1>6, <1>9, <1>13, <1>15, <1>20, <3>1
    <3>2. CASE k # upCnt
      <4>1. k \in lowCnt .. upCnt - 1 /\ k \in Nat
        BY <1>6, <1>9, <3>2
      <4>2. k % newMax = k % max
        BY <2>1, <4>1
      <4>3. k % max \in 0 .. max - 1
        BY <1>6, <4>1, ModIn
      <4>4. k % newMax # upCnt % newMax
        <5>1. k < upCnt /\ upCnt - k < newMax
          BY <1>6, <1>7, <4>1
        <5> QED BY <1>6, <1>7, <4>1, <5>1, ModApart
      <4>5. fifoArray'[k % newMax] = fifoArray[k % max]
        BY <1>13, <4>2, <4>3, <4>4
      <4> QED BY <1>9, <2>2, <4>1, <4>5
    <3> QED BY <3>1, <3>2
  <2>4. /\ Follow(deqd, 0) /\ Follow(fpgaFIFO, Len(deqd))
        /\ Follow(fromHostQ, Len(deqd) + Len(fpgaFIFO))
    BY <2>1 DEF OutputOrder, FifoInvFor
  <2> QED BY <1>11, <1>17, <2>3, <2>4 DEF OutputOrder
<1> QED BY <1>2, <1>14, <1>16, <1>19, <1>21 DEF FifoInv, FifoInvFor

(* The host returns what it is requested for. *)
LEMMA ElementReqStep ==
  ASSUME NEW sends \in Counts, NEW requested \in Counts, FifoInvFor(sends, requested),
         elementReq
  PROVE  FifoInv'
<1> DEFINE n == Len(toHost)
           back == [ i \in 1 .. toHost[1].v |-> fifoArray[(lowCnt + i - 1) % max] ]
<1>0. Lengths(sends, requested)
  BY AtEnd
<1>1. /\ toHost \in Seq(Indication) /\ CountsOf(sends, requested) /\ toHost # << >>
      /\ toHost' = Tail(toHost) /\ Head(toHost) = toHost[1] /\ ~ Sent(1)
  BY DEF FifoInvFor, FifoTypes, Indication, elementReq, Indicated, Sent
<1>2. PICK s \in Counts', a \in Counts' :
        /\ CountsOf(s, a)'
        /\ \A p \in 0 .. n - 1 :
             s[p] = sends[p + 1] - sends[1] /\ a[p] = requested[p + 1] - requested[1]
  BY <1>1, CountsTail
<1>3. /\ n \in Nat \ {0} /\ Len(toHost') = n - 1 /\ toHost' \in Seq(Indication)
      /\ \A p \in 1 .. n - 1 : toHost'[p] = toHost[p + 1]
      /\ sends[1] = 0 /\ requested[1] = toHost[1].v
  BY <1>1, CountsTail
<1>4. PICK v \in Nat : v = toHost[1].v
  <2>1. toHost[1] \in Indication
    BY <1>1
  <2> QED BY <2>1 DEF Indication
<1>5. ASSUME NEW p \in 0 .. n - 1
      PROVE  /\ s[p] = sends[p + 1] /\ a[p] = requested[p + 1] - v
             /\ sends[p + 1] \in Nat /\ requested[p + 1] \in Nat
  <2>1. p + 1 \in 0 .. n
    BY <1>3
  <2>2. sends[p + 1] \in Nat /\ requested[p + 1] \in Nat
    BY <2>1 DEF Counts
  <2>3. s[p] = sends[p + 1] - 0 /\ a[p] = requested[p + 1] - v
    BY <1>2, <1>3, <1>4
  <2> QED BY <2>2, <2>3
<1>6. /\ s[Len(toHost')] = sends[n] /\ a[Len(toHost')] = requested[n] - v
      /\ sends[n] \in Nat /\ requested[n] \in Nat
  <2>1. n - 1 \in 0 .. n - 1 /\ (n - 1) + 1 = n
    BY <1>3
  <2> QED BY <1>3, <1>5, <2>1
<1>7. /\ upCnt \in Nat /\ lowCnt \in Nat /\ lowCnt <= upCnt /\ upCnt - lowCnt <= max
      /\ max \in Nat \ {0} /\ fifoArray \in [ 0 .. max - 1 -> Nat ]
      /\ Len(deqd) \in Nat /\ Len(fpgaFIFO) \in Nat /\ Len(fromHostQ) \in Nat
      /\ fromHostQ \in Seq(Nat)
  BY <1>0 DEF FifoTypes, FifoInvFor, Lengths
<1>8. PICK w \in Nat : w = upCnt - lowCnt
  BY <1>7
<1>9. v <= w
  <2>1. 1 \in 1 .. n
    BY <1>3
  <2>2. requested[1] <= w + sends[1]
    BY <1>1, <1>8, <2>1 DEF CountersExact, FifoInvFor
  <2> QED BY <1>3, <1>4, <1>8, <2>2
<1>10. /\ fromHostQ' = fromHostQ \o back /\ lowCnt' = lowCnt + v
       /\ UNCHANGED << enqd, inputQ, fpgaFIFO, hostElemCnt0, hostElemCnt1,
                       fpgaElemCnt, deqd, upCnt, max, fifoArray, grownWrapped >>
  BY <1>1, <1>4 DEF elementReq
<1>11. ASSUME NEW i \in 1 .. v
       PROVE  /\ lowCnt + i - 1 \in lowCnt .. upCnt - 1
              /\ (lowCnt + i - 1) - lowCnt = i - 1
              /\ fifoArray[(lowCnt + i - 1) % max] \in Nat
  <2>1. /\ lowCnt + i - 1 \in lowCnt .. upCnt - 1 /\ lowCnt + i - 1 \in Nat
        /\ (lowCnt + i - 1) - lowCnt = i - 1
    BY <1>7, <1>8, <1>9
  <2>2. (lowCnt + i - 1) % max \in 0 .. max - 1
    BY <1>7, <2>1, ModIn
  <2> QED BY <1>7, <2>1, <2>2
<1>12. /\ back \in Seq(Nat) /\ Len(back) = v
       /\ \A i \in 1 .. v : back[i] = fifoArray[(lowCnt + i - 1) % max]
  BY <1>4, <1>11
<1> HIDE DEF back
<1>13. /\ fromHostQ' \in Seq(Nat) /\ Len(fromHostQ') = Len(fromHostQ) + v
       /\ \A i \in 1 .. Len(fromHostQ) : fromHostQ'[i] = fromHostQ[i]
       /\ \A i \in 1 .. v : fromHostQ'[Len(fromHostQ) + i] = back[i]
  <2>1. fromHostQ \in Seq(Nat) /\ back \in Seq(Nat) /\ Len(back) = v
    BY <1>7, <1>12
  <2> QED BY <1>10, <2>1, FifoJoined
<1>14. lowCnt' \in Nat /\ lowCnt' <= upCnt /\ upCnt - lowCnt' = w - v /\ w - v \in Nat
  BY <1>7, <1>8, <1>9, <1>10
<1>15. FifoTypes'
  <2>1. upCnt - lowCnt' <= max
    <3>1. w <= max /\ max \in Nat
      BY <1>7, <1>8
    <3> QED BY <1>4, <1>8, <1>14, <3>1
  <2> QED BY <1>3, <1>10, <1>13, <1>14, <2>1 DEF FifoTypes, FifoInvFor, Indication
<1>16. CountersExact(s, a)'
  <2>1. /\ hostElemCnt0 = Len(fromHostQ) + w + sends[n]
        /\ hostElemCnt1 = w + sends[n] - requested[n]
        /\ fpgaElemCnt = Len(fpgaFIFO) + Len(fromHostQ) + requested[n]
        /\ fpgaElemCnt <= FifoSize
        /\ \A p \in 1 .. n : ~ Sent(p) => requested[p] <= w + sends[p]
    BY <1>8 DEF CountersExact, FifoInvFor
  <2>2. /\ hostElemCnt0 = Len(fromHostQ') + (w - v) + s[Len(toHost')]
        /\ hostElemCnt1 = (w - v) + s[Len(toHost')] - a[Len(toHost')]
        /\ fpgaElemCnt = Len(fpgaFIFO) + Len(fromHostQ') + a[Len(toHost')]
    <3>1. Len(fromHostQ) + w + sends[n] = (Len(fromHostQ) + v) + (w - v) + sends[n]
      BY <1>4, <1>6, <1>7, <1>8, SMTT(30)
    <3>2. w + sends[n] - requested[n] = (w - v) + sends[n] - (requested[n] - v)
      BY <1>4, <1>6, <1>8
    <3>3. Len(fpgaFIFO) + Len(fromHostQ) + requested[n]
            = Len(fpgaFIFO) + (Len(fromHostQ) + v) + (requested[n] - v)
      <4>1. /\ Len(fpgaFIFO) \in Nat /\ Len(fromHostQ) \in Nat /\ requested[n] \in Nat
            /\ v \in Nat
        BY <1>4, <1>6, <1>7
      <4> HIDE DEF n
      <4> QED BY <4>1, Shift
    <3> QED BY <1>6, <1>13, <2>1, <3>1, <3>2, <3>3
  <2>3. ASSUME NEW p \in 1 .. Len(toHost'), ~ Sent(p)'
        PROVE  a[p] <= (w - v) + s[p]
    <3>1. p + 1 \in 1 .. n /\ p \in 0 .. n - 1 /\ toHost'[p] = toHost[p + 1]
      BY <1>3
    <3>2. requested[p + 1] <= w + sends[p + 1]
      BY <2>1, <2>3, <3>1 DEF Sent
    <3>3. /\ s[p] = sends[p + 1] /\ a[p] = requested[p + 1] - v
          /\ sends[p + 1] \in Nat /\ requested[p + 1] \in Nat
      BY <1>5, <3>1
    <3> QED BY <1>4, <1>8, <3>2, <3>3
  <2> QED BY <1>10, <1>14, <2>1, <2>2, <2>3 DEF CountersExact
<1>17. PICK x \in Nat : x = Len(deqd) + Len(fpgaFIFO) + Len(fromHostQ)
  BY <1>7
<1>18. Len(deqd) + Len(fpgaFIFO) + Len(fromHostQ') + (upCnt - lowCnt') = x + w
  <2>1. Len(deqd) + Len(fpgaFIFO) + Len(fromHostQ') = x + v
    <3>1. /\ Len(deqd) \in Nat /\ Len(fpgaFIFO) \in Nat /\ Len(fromHostQ) \in Nat
          /\ Len(fromHostQ') = Len(fromHostQ) + v
      BY <1>7, <1>13
    <3> QED BY <1>4, <1>17, <3>1
  <2>2. (x + v) + (w - v) = x + w
    BY <1>4, <1>8, <1>17
  <2> QED BY <1>14, <2>1, <2>2
<1>19. InputOrder(s)'
  <2>1. /\ \A p \in 1 .. n : Sent(p) => toHost[p].v = x + w + sends[p]
        /\ Follow(inputQ, x + w + sends[n]) /\ enqd = x + w + sends[n] + Len(inputQ)
    BY <1>8, <1>17 DEF InputOrder, FifoInvFor
  <2>2. ASSUME NEW p \in 1 .. Len(toHost'), Sent(p)'
        PROVE  toHost'[p].v = x + w + s[p]
    <3>1. p + 1 \in 1 .. n /\ p \in 0 .. n - 1 /\ toHost'[p] = toHost[p + 1]
      BY <1>3
    <3> QED BY <1>5, <2>1, <2>2, <3>1 DEF Sent
  <2> QED BY <1>6, <1>10, <1>18, <2>1, <2>2 DEF InputOrder
<1>20. OutputOrder'
  <2> SUFFICES ASSUME ~ grownWrapped PROVE OutputOrder'
    BY <1>10 DEF OutputOrder
  <2>1. /\ Follow(deqd, 0) /\ Follow(fpgaFIFO, Len(deqd))
        /\ Follow(fromHostQ, Len(deqd) + Len(fpgaFIFO))
        /\ \A k \in lowCnt .. upCnt - 1 : fifoArray[k % max] = x + (k - lowCnt) + 1
    BY <1>17 DEF OutputOrder, FifoInvFor
  <2>2. ASSUME NEW i \in 1 .. Len(fromHostQ')
        PROVE  fromHostQ'[i] = Len(deqd) + Len(fpgaFIFO) + i
    <3>1. CASE i \in 1 .. Len(fromHostQ)
      BY <1>13, <2>1, <3>1 DEF Follow
    <3>2. CASE i \notin 1 .. Len(fromHostQ)
      <4>1. PICK j \in 1 .. v : i = Len(fromHostQ) + j
        <5>1. i - Len(fromHostQ) \in 1 .. v /\ i = Len(fromHostQ) + (i - Len(fromHostQ))
          BY <1>4, <1>7, <1>13, <3>2
        <5> QED BY <5>1
      <4>2. fromHostQ'[i] = x + (j - 1) + 1
        BY <1>11, <1>12, <1>13, <2>1, <4>1
      <4> QED BY <1>7, <1>17, <4>1, <4>2
    <3> QED BY <3>1, <3>2
  <2>3. ASSUME NEW k \in lowCnt' .. upCnt' - 1
        PROVE  fifoArray'[k % max'] = Len(deqd) + Len(fpgaFIFO) + Len(fromHostQ')
                                        + (k - lowCnt') + 1
    <3>1. k \in lowCnt .. upCnt - 1 /\ x + (k - lowCnt) = (x + v) + (k - (lowCnt + v))
      <4>1. k \in lowCnt + v .. upCnt - 1 /\ lowCnt \in Nat /\ upCnt \in Nat
        BY <1>7, <1>10
      <4> QED BY <1>4, <1>17, <4>1
    <3>2. Len(deqd) + Len(fpgaFIFO) + Len(fromHostQ') = x + v
      <4>1. /\ Len(deqd) \in Nat /\ Len(fpgaFIFO) \in Nat /\ Len(fromHostQ) \in Nat
            /\ Len(fromHostQ') = Len(fromHostQ) + v
        BY <1>7, <1>13
      <4> QED BY <1>4, <1>17, <4>1
    <3> QED BY <1>10, <2>1, <3>1, <3>2
  <2> QED BY <1>10, <2>1, <2>2, <2>3 DEF OutputOrder, Follow
<1> QED BY <1>2, <1>15, <1>16, <1>19, <1>20 DEF FifoInv, FifoInvFor

-----------------------------------------------------------------------------
LEMMA InitHolds ==
  ASSUME FifoInit
  PROVE  FifoInv
<1> DEFINE zero == [ p \in 0 .. 0 |-> 0 ]
<1>1. Len(toHost) = 0 /\ zero \in Counts /\ zero[0] = 0
  BY DEF FifoInit, Counts
<1>2. FifoTypes
  BY DEF FifoInit, FifoTypes
<1> HIDE DEF zero
<1>3. CountsOf(zero, zero)
  BY <1>1 DEF CountsOf
<1>4. CountersExact(zero, zero)
  BY <1>1, Sizes DEF FifoInit, CountersExact
<1>5. InputOrder(zero) /\ OutputOrder
  BY <1>1 DEF FifoInit, InputOrder, OutputOrder, Follow
<1> QED BY <1>1, <1>2, <1>3, <1>4, <1>5 DEF FifoInv, FifoInvFor

LEMMA StepKeeps ==
  ASSUME FifoInv, [FifoNext]_fifo
  PROVE  FifoInv'
<1>1. PICK sends \in Counts, requested \in Counts : FifoInvFor(sends, requested)
  BY DEF FifoInv
<1>2. ASSUME FifoInvFor(sends, requested)', toHost' = toHost
      PROVE  FifoInv'
  BY <1>2 DEF FifoInv, Counts
<1>3. CASE enq
  BY <1>1, <1>2, <1>3, EnqStep DEF enq
<1>4. CASE doEnqToFPGA
  BY <1>1, <1>2, <1>4, EnqToFPGAStep DEF doEnqToFPGA
<1>5. CASE doReqFromHost
  BY <1>1, <1>5, ReqFromHostStep
<1>6. CASE doEnqToHost
  BY <1>1, <1>6, EnqToHostStep
<1>7. CASE doDeqFromHost
  BY <1>1, <1>2, <1>7, DeqFromHostStep DEF doDeqFromHost
<1>8. CASE deq
  BY <1>1, <1>2, <1>8, DeqStep DEF deq
<1>9. CASE sendData
  BY <1>1, <1>9, SendDataStep
<1>10. CASE elementReq
  BY <1>1, <1>10, ElementReqStep
<1>11. CASE UNCHANGED fifo
  <2>1. FifoInvFor(sends, requested)'
    BY <1>1, <1>11 DEF fifo, FifoInvFor, FifoTypes, CountsOf, CountersExact, InputOrder,
                       OutputOrder, Sent
  <2> QED BY <1>2, <1>11, <2>1 DEF fifo
<1> QED BY <1>3, <1>4, <1>5, <1>6, <1>7, <1>8, <1>9, <1>10, <1>11
        DEF FifoNext, FifoRules

(* The counters of both sides are exact and every queue between enq and    *)
(* deq holds the elements that come next, in order.                        *)
THEOREM FifoInvHolds == FifoSpec => []FifoInv
<1>1. FifoInit => FifoInv
  BY InitHolds
<1>2. FifoInv /\ [FifoNext]_fifo => FifoInv'
  BY StepKeeps
<1> QED BY <1>1, <1>2, PTL DEF FifoSpec

(* A FIFO that overflows to the host gives its elements back in the order  *)
(* of enq, for every size and however often the array grows, unless it has *)
(* grown while its contents were wrapped.                                  *)
THEOREM FifoOrderHolds == FifoSpec => []FifoOrder
<1>1. FifoInv => FifoOrder
  BY DEF FifoInv, FifoInvFor, OutputOrder, FifoOrder, Follow
<1> QED BY <1>1, FifoInvHolds, PTL

-----------------------------------------------------------------------------
(* Sequences. *)

LEMMA Cons1 ==
  ASSUME NEW S, NEW x \in S, NEW t \in Seq(S)
  PROVE  /\ << x >> \o t \in Seq(S) /\ << x >> \o t # << >>
         /\ Len(<< x >> \o t) = Len(t) + 1 /\ Len(t) \in Nat
         /\ Head(<< x >> \o t) = x /\ (<< x >> \o t)[1] = x
         /\ \A i \in 1 .. Len(t) : (<< x >> \o t)[i + 1] = t[i]
         /\ Tail(<< x >> \o t) = t
<1> DEFINE u == << x >> \o t
<1>1. /\ u \in Seq(S) /\ Len(u) = Len(t) + 1 /\ Len(t) \in Nat /\ u[1] = x
      /\ \A i \in 1 .. Len(t) : u[i + 1] = t[i]
  <2>1. << x >> \in Seq(S) /\ Len(<< x >>) = 1 /\ << x >>[1] = x
    OBVIOUS
  <2>2. Len(t) \in Nat
    OBVIOUS
  <2>3. /\ u \in Seq(S) /\ Len(u) = 1 + Len(t)
        /\ \A i \in 1 .. 1 + Len(t) : u[i] = IF i <= 1 THEN << x >>[i] ELSE t[i - 1]
    BY <2>1, ConcatProperties
  <2> HIDE DEF u
  <2>4. u[1] = x
    <3>1. 1 \in 1 .. 1 + Len(t) /\ 1 <= 1
      BY <2>2
    <3>2. u[1] = << x >>[1]
      BY <2>3, <3>1
    <3> QED BY <2>1, <3>2
  <2>5. ASSUME NEW i \in 1 .. Len(t) PROVE u[i + 1] = t[i]
    <3>1. i + 1 \in 1 .. 1 + Len(t) /\ ~ (i + 1 <= 1) /\ i + 1 - 1 = i
      BY <2>2
    <3>2. u[i + 1] = t[i + 1 - 1]
      BY <2>3, <3>1
    <3> QED BY <3>1, <3>2
  <2>6. u \in Seq(S) /\ Len(u) = Len(t) + 1
    BY <2>2, <2>3
  <2> QED BY <2>2, <2>4, <2>5, <2>6
<1> HIDE DEF u
<1>2. u # << >> /\ Head(u) = u[1] /\ Tail(u) \in Seq(S) /\ Len(Tail(u)) = Len(u) - 1
      /\ \A i \in 1 .. Len(u) - 1 : Tail(u)[i] = u[i + 1]
  BY <1>1
<1>3. Tail(u) = t
  <2>1. Len(Tail(u)) = Len(t) /\ \A i \in 1 .. Len(Tail(u)) : Tail(u)[i] = t[i]
    BY <1>1, <1>2
  <2> QED BY <1>2, <2>1, SeqEqual
<1> QED BY <1>1, <1>2, <1>3 DEF u

LEMMA TailIs ==
  ASSUME NEW S, NEW s \in Seq(S), s # << >>
  PROVE  /\ Len(s) \in Nat \ {0} /\ Head(s) = s[1] /\ Head(s) \in S
         /\ Tail(s) \in Seq(S) /\ Len(Tail(s)) = Len(s) - 1
         /\ \A i \in 1 .. Len(s) - 1 : Tail(s)[i] = s[i + 1]
OBVIOUS

LEMMA AppendIs ==
  ASSUME NEW S, NEW s \in Seq(S), NEW x \in S
  PROVE  /\ Len(s) \in Nat /\ Append(s, x) \in Seq(S) /\ Append(s, x) # << >>
         /\ Len(Append(s, x)) = Len(s) + 1 /\ Append(s, x)[Len(s) + 1] = x
         /\ \A i \in 1 .. Len(s) : Append(s, x)[i] = s[i]
OBVIOUS

LEMMA SetIs ==
  ASSUME NEW S, NEW s \in Seq(S)
  PROVE  ToSet(s) = { s[i] : i \in 1 .. Len(s) } /\ ToSet(s) \subseteq S
BY DEF ToSet

LEMMA SetAppend ==
  ASSUME NEW S, NEW s \in Seq(S), NEW x \in S
  PROVE  ToSet(Append(s, x)) = ToSet(s) \cup {x}
<1>1. /\ Append(s, x) \in Seq(S) /\ Len(s) \in Nat /\ Len(Append(s, x)) = Len(s) + 1
      /\ Append(s, x)[Len(s) + 1] = x /\ \A i \in 1 .. Len(s) : Append(s, x)[i] = s[i]
  BY AppendIs
<1>2. ToSet(Append(s, x)) = { Append(s, x)[i] : i \in 1 .. Len(s) + 1 }
  BY <1>1, SetIs
<1>3. 1 .. Len(s) + 1 = (1 .. Len(s)) \cup { Len(s) + 1 }
  BY <1>1
<1>4. { Append(s, x)[i] : i \in 1 .. Len(s) + 1 } = { s[i] : i \in 1 .. Len(s) } \cup {x}
  BY <1>1, <1>3
<1> QED BY <1>2, <1>4, SetIs

LEMMA SetTail ==
  ASSUME NEW S, NEW s \in Seq(S), s # << >>
  PROVE  ToSet(s) = {Head(s)} \cup ToSet(Tail(s))
<1>1. /\ Len(s) \in Nat \ {0} /\ Head(s) = s[1] /\ Tail(s) \in Seq(S)
      /\ Len(Tail(s)) = Len(s) - 1 /\ \A i \in 1 .. Len(s) - 1 : Tail(s)[i] = s[i + 1]
  BY TailIs
<1>2. ToSet(Tail(s)) = { s[i + 1] : i \in 1 .. Len(s) - 1 }
  <2>1. ToSet(Tail(s)) = { Tail(s)[i] : i \in 1 .. Len(s) - 1 }
    BY <1>1, SetIs
  <2> QED BY <1>1, <2>1
<1>3. ASSUME NEW i \in 1 .. Len(s), i # 1 PROVE i - 1 \in 1 .. Len(s) - 1 /\ s[i] = s[(i - 1) + 1]
  BY <1>1, <1>3
<1>4. ASSUME NEW i \in 1 .. Len(s) - 1 PROVE i + 1 \in 1 .. Len(s)
  BY <1>1
<1>5. 1 \in 1 .. Len(s)
  BY <1>1
<1>6. { s[i] : i \in 1 .. Len(s) } = {s[1]} \cup { s[i + 1] : i \in 1 .. Len(s) - 1 }
  BY <1>3, <1>4, <1>5
<1> QED BY <1>1, <1>2, <1>6, SetIs

LEMMA SetConcat ==
  ASSUME NEW S, NEW s \in Seq(S), NEW t \in Seq(S)
  PROVE  ToSet(s \o t) = ToSet(s) \cup ToSet(t)
<1> DEFINE u == s \o t
<1>1. /\ Len(s) \in Nat /\ Len(t) \in Nat /\ u \in Seq(S)
      /\ Len(u) = Len(s) + Len(t)
      /\ \A i \in 1 .. Len(s) + Len(t) : u[i] = IF i <= Len(s) THEN s[i] ELSE t[i - Len(s)]
  BY ConcatProperties
<1> HIDE DEF u
<1>2. /\ ToSet(s) = { s[i] : i \in 1 .. Len(s) } /\ ToSet(t) = { t[i] : i \in 1 .. Len(t) }
      /\ ToSet(u) = { u[i] : i \in 1 .. Len(s) + Len(t) }
  BY <1>1, SetIs
<1>3. ASSUME NEW i \in 1 .. Len(s) + Len(t) PROVE u[i] \in ToSet(s) \cup ToSet(t)
  <2>1. CASE i <= Len(s)
    <3>1. i \in 1 .. Len(s) /\ u[i] = s[i]
      BY <1>1, <2>1
    <3> QED BY <1>2, <3>1
  <2>2. CASE ~ (i <= Len(s))
    <3>1. i - Len(s) \in 1 .. Len(t) /\ u[i] = t[i - Len(s)]
      BY <1>1, <2>2
    <3> QED BY <1>2, <3>1
  <2> QED BY <2>1, <2>2
<1>4. ASSUME NEW i \in 1 .. Len(s) PROVE s[i] \in ToSet(u)
  <2>1. i \in 1 .. Len(s) + Len(t) /\ u[i] = s[i]
    BY <1>1
  <2> QED BY <1>2, <2>1
<1>5. ASSUME NEW i \in 1 .. Len(t) PROVE t[i] \in ToSet(u)
  <2>1. Len(s) + i \in 1 .. Len(s) + Len(t) /\ ~ (Len(s) + i <= Len(s)) /\ (Len(s) + i) - Len(s) = i
    BY <1>1
  <2>2. u[Len(s) + i] = t[i]
    BY <1>1, <2>1
  <2> QED BY <1>2, <2>1, <2>2
<1>6. ToSet(u) \subseteq ToSet(s) \cup ToSet(t)
  BY <1>2, <1>3
<1>7. ToSet(s) \subseteq ToSet(u) /\ ToSet(t) \subseteq ToSet(u)
  BY <1>2, <1>4, <1>5
<1> QED BY <1>6, <1>7 DEF u

LEMMA SetOne == \A x : ToSet(<< x >>) = {x} /\ ToSet(<< >>) = {}
BY DEF ToSet

-----------------------------------------------------------------------------
(* The rings: a buffer that goes from the head of one queue to the end of  *)
(* another leaves the set of all places and their number as they are.      *)

LEMMA PlacesIs ==
  ASSUME NEW a \in Seq(Bufs), NEW b \in Seq(Bufs), NEW c \in Seq(Bufs)
  PROVE  IsPermutation(a \o b \o c) <=>
           /\ Len(a) + Len(b) + Len(c) = NumBufs
           /\ ToSet(a) \cup ToSet(b) \cup ToSet(c) = Bufs
<1>1. a \o b \in Seq(Bufs) /\ Len(a \o b) = Len(a) + Len(b) /\ ToSet(a \o b) = ToSet(a) \cup ToSet(b)
  BY ConcatProperties, SetConcat
<1>2. /\ Len(a \o b \o c) = Len(a) + Len(b) + Len(c)
      /\ ToSet(a \o b \o c) = ToSet(a) \cup ToSet(b) \cup ToSet(c)
  <2> DEFINE u == a \o b
  <2>1. u \in Seq(Bufs)
    BY <1>1
  <2> HIDE DEF u
  <2>2. Len(u \o c) = Len(u) + Len(c) /\ ToSet(u \o c) = ToSet(u) \cup ToSet(c)
    BY <2>1, ConcatProperties, SetConcat
  <2>3. Len(u \o c) = Len(a) + Len(b) + Len(c)
    BY <1>1, <2>2 DEF u
  <2>4. ToSet(u \o c) = ToSet(a) \cup ToSet(b) \cup ToSet(c)
    BY <1>1, <2>2, Zenon DEF u
  <2> QED BY <2>3, <2>4 DEF u
<1> QED BY <1>2 DEF IsPermutation

ReadT == [ buf : Bufs, msgs : Seq(Ops3) ]

LEMMA BufsReadIs ==
  ASSUME NEW q \in Seq(ReadT)
  PROVE  LET s == [ i \in 1 .. Len(q) |-> q[i].buf ] IN
         s \in Seq(Bufs) /\ Len(s) = Len(q) /\ ToSet(s) = { q[i].buf : i \in 1 .. Len(q) }
<1>1. Len(q) \in Nat /\ \A i \in 1 .. Len(q) : q[i] \in ReadT
  OBVIOUS
<1>2. \A i \in 1 .. Len(q) : q[i].buf \in Bufs
  BY <1>1 DEF ReadT
<1> DEFINE s == [ i \in 1 .. Len(q) |-> q[i].buf ]
<1>3. s \in [ 1 .. Len(q) -> Bufs ]
  BY <1>2
<1>4. s \in Seq(Bufs) /\ Len(s) = Len(q)
  <2>1. DOMAIN s = 1 .. Len(q)
    OBVIOUS
  <2> HIDE DEF s
  <2> QED BY <1>1, <1>3, <2>1
<1>5. \A i \in 1 .. Len(q) : s[i] = q[i].buf
  OBVIOUS
<1> HIDE DEF s
<1>6. ToSet(s) = { s[i] : i \in 1 .. Len(q) }
  BY <1>4, SetIs
<1>7. { s[i] : i \in 1 .. Len(q) } = { q[i].buf : i \in 1 .. Len(q) }
  BY <1>5
<1> QED BY <1>4, <1>6, <1>7 DEF s

ReadBufs(q) == { q[i].buf : i \in 1 .. Len(q) }

LEMMA ReadBufsAppend ==
  ASSUME NEW q \in Seq(ReadT), NEW r \in ReadT
  PROVE  ReadBufs(Append(q, r)) = ReadBufs(q) \cup { r.buf }
<1>1. /\ Len(q) \in Nat /\ Len(Append(q, r)) = Len(q) + 1 /\ Append(q, r)[Len(q) + 1] = r
      /\ \A i \in 1 .. Len(q) : Append(q, r)[i] = q[i]
  BY AppendIs
<1>2. 1 .. Len(q) + 1 = (1 .. Len(q)) \cup { Len(q) + 1 }
  BY <1>1
<1> QED BY <1>1, <1>2 DEF ReadBufs

LEMMA ReadBufsTail ==
  ASSUME NEW q \in Seq(ReadT), q # << >>
  PROVE  ReadBufs(q) = { Head(q).buf } \cup ReadBufs(Tail(q))
<1>1. /\ Len(q) \in Nat \ {0} /\ Head(q) = q[1] /\ Len(Tail(q)) = Len(q) - 1
      /\ \A i \in 1 .. Len(q) - 1 : Tail(q)[i] = q[i + 1]
  BY TailIs
<1>2. ReadBufs(Tail(q)) = { q[i + 1].buf : i \in 1 .. Len(q) - 1 }
  BY <1>1 DEF ReadBufs
<1>3. ASSUME NEW i \in 1 .. Len(q), i # 1 PROVE i - 1 \in 1 .. Len(q) - 1 /\ q[i] = q[(i - 1) + 1]
  BY <1>1, <1>3
<1>4. ASSUME NEW i \in 1 .. Len(q) - 1 PROVE i + 1 \in 1 .. Len(q)
  BY <1>1
<1>5. 1 \in 1 .. Len(q)
  BY <1>1
<1>6. ASSUME NEW i \in 1 .. Len(q)
      PROVE  q[i].buf \in { q[1].buf } \cup { q[j + 1].buf : j \in 1 .. Len(q) - 1 }
  <2>1. CASE i = 1
    BY <2>1
  <2>2. CASE i # 1
    <3> DEFINE j == i - 1
    <3>1. j \in 1 .. Len(q) - 1 /\ q[i] = q[j + 1]
      BY <1>3, <2>2
    <3> HIDE DEF j
    <3> QED BY <3>1
  <2> QED BY <2>1, <2>2
<1>7. ASSUME NEW j \in 1 .. Len(q) - 1
      PROVE  q[j + 1].buf \in { q[i].buf : i \in 1 .. Len(q) }
  <2> DEFINE i == j + 1
  <2>1. i \in 1 .. Len(q)
    BY <1>4
  <2> HIDE DEF i
  <2>2. q[i].buf \in { q[k].buf : k \in 1 .. Len(q) }
    BY <2>1
  <2> QED BY <2>2 DEF i
<1>8. { q[i].buf : i \in 1 .. Len(q) } = { q[1].buf } \cup { q[i + 1].buf : i \in 1 .. Len(q) - 1 }
  BY <1>5, <1>6, <1>7
<1> QED BY <1>1, <1>2, <1>8 DEF ReadBufs

(* The request buffer that the main thread fills. *)
Own == IF currSrc = -1 \/ pc \in { "getBuffer", "getNext" } THEN << >> ELSE << currSrc >>

NumOwn == IF currSrc = -1 \/ pc \in { "getBuffer", "getNext" } THEN 0 ELSE 1

OwnSet == IF currSrc = -1 \/ pc \in { "getBuffer", "getNext" } THEN {} ELSE { currSrc }

RequestQueues ==
  /\ freeRead \in Seq(Bufs) /\ rdDoneQ \in Seq(Bufs) /\ readQ \in Seq(ReadT)
  /\ currSrc \in Bufs \cup {-1}

AllRequestBufs ==
  /\ Len(freeRead) + Len(rdDoneQ) + Len(readQ) + NumOwn = NumBufs
  /\ ToSet(freeRead) \cup ToSet(rdDoneQ) \cup ReadBufs(readQ) \cup OwnSet = Bufs

LEMMA RequestPlacesIs ==
  ASSUME RequestQueues
  PROVE  RequestsOwned <=> AllRequestBufs
<1> DEFINE s == [ i \in 1 .. Len(readQ) |-> readQ[i].buf ]
<1>1. s \in Seq(Bufs) /\ Len(s) = Len(readQ) /\ ToSet(s) = ReadBufs(readQ)
  BY BufsReadIs DEF RequestQueues, ReadBufs
<1>2. Own \in Seq(Bufs) /\ Len(Own) = NumOwn /\ ToSet(Own) = OwnSet
  <2>1. CASE currSrc = -1 \/ pc \in { "getBuffer", "getNext" }
    <3>1. Own = << >> /\ NumOwn = 0 /\ OwnSet = {}
      BY <2>1 DEF Own, NumOwn, OwnSet
    <3>2. << >> \in Seq(Bufs) /\ Len(<< >>) = 0
      OBVIOUS
    <3> QED BY <3>1, <3>2, SetOne
  <2>2. CASE ~ (currSrc = -1 \/ pc \in { "getBuffer", "getNext" })
    <3>1. Own = << currSrc >> /\ NumOwn = 1 /\ OwnSet = { currSrc } /\ currSrc \in Bufs
      BY <2>2 DEF Own, NumOwn, OwnSet, RequestQueues
    <3>2. << currSrc >> \in Seq(Bufs) /\ Len(<< currSrc >>) = 1
      BY <3>1
    <3> QED BY <3>1, <3>2, SetOne
  <2> QED BY <2>1, <2>2
<1>3. freeRead \in Seq(Bufs) /\ rdDoneQ \in Seq(Bufs)
  BY DEF RequestQueues
<1> HIDE DEF s
<1>4. /\ freeRead \o rdDoneQ \in Seq(Bufs) /\ Len(freeRead \o rdDoneQ) = Len(freeRead) + Len(rdDoneQ)
      /\ ToSet(freeRead \o rdDoneQ) = ToSet(freeRead) \cup ToSet(rdDoneQ)
  BY <1>3, ConcatProperties, SetConcat
<1> DEFINE u == freeRead \o rdDoneQ
<1>5. u \in Seq(Bufs)
  BY <1>4
<1>6. IsPermutation(u \o s \o Own) <=>
        /\ Len(u) + Len(s) + Len(Own) = NumBufs
        /\ ToSet(u) \cup ToSet(s) \cup ToSet(Own) = Bufs
  <2> HIDE DEF u
  <2> QED BY <1>1, <1>2, <1>5, PlacesIs
<1>7. RequestPlaces = u \o s \o Own
  BY DEF RequestPlaces, s, Own
<1> QED BY <1>1, <1>2, <1>4, <1>6, <1>7 DEF RequestsOwned, AllRequestBufs

AnswerQueues ==
  /\ writeBaseQ \in Seq(Bufs) /\ wrDoneQ \in Seq(Bufs) /\ returnWrite \in Seq(Bufs)
  /\ currDst \in Bufs \cup {-1}

(* The answer buffers that are written: the reader drops its own last. *)
Filled == IF dpc = "pop" THEN Tail(returnWrite) ELSE returnWrite

AllAnswerBufs ==
  /\ Len(writeBaseQ) + Len(wrDoneQ) + Len(Filled) = NumBufs
  /\ ToSet(writeBaseQ) \cup ToSet(wrDoneQ) \cup ToSet(Filled) = Bufs

AtFront == currDst # -1 /\ dpc # "getBuffer" => returnWrite # << >> /\ Head(returnWrite) = currDst

LEMMA ResponsePlacesIs ==
  ASSUME AnswerQueues, dpc = "pop" => returnWrite # << >>
  PROVE  AnswersOwned <=> AllAnswerBufs /\ AtFront
<1>1. Filled \in Seq(Bufs)
  <2>1. returnWrite # << >> => Tail(returnWrite) \in Seq(Bufs)
    BY TailIs DEF AnswerQueues
  <2> QED BY <2>1 DEF Filled, AnswerQueues
<1>2. IsPermutation(writeBaseQ \o wrDoneQ \o Filled) <=> AllAnswerBufs
  BY <1>1, PlacesIs DEF AllAnswerBufs, AnswerQueues
<1>3. ResponsePlaces = writeBaseQ \o wrDoneQ \o Filled
  BY DEF ResponsePlaces, Filled
<1> QED BY <1>2, <1>3 DEF AnswersOwned, AtFront

-----------------------------------------------------------------------------
(* The script: some steps that bring the flash up, the step that takes the *)
(* rings into use, and the rest.                                           *)
StartSteps ==
  [ do : { "readStatus", "erase", "firsts", "populate" }, on : { "", "again" }, n : 0 .. NumVirtual - 1 ]
  \cup { Wait("cond") }

RestSteps ==
  [ do : { "init", "dump", "store", "poll" }, on : { "" }, n : Nat ]
  \cup [ do : { "wait" }, on : { "cond", "cond_write" }, n : Nat ]
  \cup [ do : { "send", "flush", "check" }, on : Ops3, n : Nat ]

AllSteps == StartSteps \cup { Give } \cup RestSteps

Idle(s) == \E pre \in Seq(StartSteps), rest \in Seq(RestSteps) : s = pre \o (<< Give >> \o rest)

Used(s) == s \in Seq(RestSteps)

Shaped(s) == Idle(s) \/ Used(s)

StartDos == { "readStatus", "erase", "firsts", "populate", "wait" }

RestDos == { "init", "dump", "store", "poll", "wait", "send", "flush", "check" }

LEMMA Positive ==
  /\ NumBufs \in Nat \ {0} /\ BufSize \in Nat \ {0} /\ NumVirtual \in Nat \ {0}
  /\ BodySizes \subseteq Nat \ {0} /\ ReqSize \in [ Ops3 -> Nat \ {0} ]
<1>1. Chips \in Nat \ {0} /\ Real \in Nat \ {0}
  BY FlashAssumption
<1>2. Chips * Real \in Nat \ {0}
  BY <1>1
<1> QED BY <1>2, BatchAssumption DEF NumVirtual, Ops3

LEMMA StepsAre ==
  /\ Give.do = "give"
  /\ \A x \in StartSteps : x.do \in StartDos /\ (x.do = "wait" => x.on = "cond")
  /\ \A x \in RestSteps :
       /\ x.do \in RestDos
       /\ x.do = "wait" => x.on \in { "cond", "cond_write" }
       /\ x.do \in { "send", "flush", "check" } => x.on \in Ops3
  /\ \A x \in AllSteps :
       /\ x.do = "give" <=> x = Give
       /\ x.do = "wait" => x.on \in { "cond", "cond_write" }
       /\ x.do \in { "send", "flush" } => x.on \in Ops3
       /\ x.do \in { "readStatus", "erase", "firsts", "populate" } =>
            x \in StartSteps \ RestSteps
<1>1. Give.do = "give"
  BY DEF Give, Step
<1>2. ASSUME NEW x \in StartSteps PROVE x.do \in StartDos /\ (x.do = "wait" => x.on = "cond")
  <2>1. CASE x = Wait("cond")
    <3>1. x.do = "wait" /\ x.on = "cond"
      BY <2>1 DEF Wait, Step
    <3> QED BY <3>1 DEF StartDos
  <2>2. CASE x # Wait("cond")
    <3>1. x \in [ do : { "readStatus", "erase", "firsts", "populate" }, on : { "", "again" }, n : 0 .. NumVirtual - 1 ]
      BY <2>2 DEF StartSteps
    <3>2. x.do \in { "readStatus", "erase", "firsts", "populate" }
      BY <3>1
    <3> QED BY <3>2 DEF StartDos
  <2> QED BY <2>1, <2>2
<1>3. ASSUME NEW x \in RestSteps
      PROVE  /\ x.do \in RestDos
             /\ x.do = "wait" => x.on \in { "cond", "cond_write" }
             /\ x.do \in { "send", "flush", "check" } => x.on \in Ops3
  <2>1. CASE x \in [ do : { "init", "dump", "store", "poll" }, on : { "" }, n : Nat ]
    BY <2>1 DEF RestDos
  <2>2. CASE x \in [ do : { "wait" }, on : { "cond", "cond_write" }, n : Nat ]
    BY <2>2 DEF RestDos
  <2>3. CASE x \in [ do : { "send", "flush", "check" }, on : Ops3, n : Nat ]
    BY <2>3 DEF RestDos
  <2> QED BY <2>1, <2>2, <2>3 DEF RestSteps
<1>4. ASSUME NEW x \in AllSteps
      PROVE  /\ x.do = "give" <=> x = Give
             /\ x.do = "wait" => x.on \in { "cond", "cond_write" }
             /\ x.do \in { "send", "flush" } => x.on \in Ops3
             /\ x.do \in { "readStatus", "erase", "firsts", "populate" } =>
                  x \in StartSteps \ RestSteps
  <2>1. CASE x = Give
    BY <1>1, <2>1
  <2>2. CASE x # Give /\ x \in StartSteps
    <3>1. x \in RestSteps => x.do \in RestDos
      BY <1>3
    <3> QED BY <1>2, <2>2, <3>1 DEF StartDos, RestDos
  <2>3. CASE x # Give /\ x \in RestSteps
    BY <1>3, <2>3 DEF RestDos
  <2> QED BY <2>1, <2>2, <2>3 DEF AllSteps
<1> QED BY <1>1, <1>2, <1>3, <1>4

LEMMA Longer ==
  ASSUME NEW S, NEW T, S \subseteq T, NEW s \in Seq(S)
  PROVE  s \in Seq(T)
OBVIOUS

LEMMA ConcatTail ==
  ASSUME NEW S, NEW s \in Seq(S), NEW t \in Seq(S), s # << >>
  PROVE  s \o t # << >> /\ Head(s \o t) = Head(s) /\ Tail(s \o t) = Tail(s) \o t
<1> DEFINE u == s \o t
<1> DEFINE w == Tail(s) \o t
<1>1. /\ Len(s) \in Nat \ {0} /\ Head(s) = s[1] /\ Tail(s) \in Seq(S) /\ Len(t) \in Nat
      /\ Len(Tail(s)) = Len(s) - 1 /\ \A i \in 1 .. Len(s) - 1 : Tail(s)[i] = s[i + 1]
  BY TailIs
<1>2. /\ u \in Seq(S) /\ Len(u) = Len(s) + Len(t)
      /\ \A i \in 1 .. Len(s) + Len(t) : u[i] = IF i <= Len(s) THEN s[i] ELSE t[i - Len(s)]
  BY ConcatProperties
<1>3. /\ w \in Seq(S) /\ Len(w) = Len(Tail(s)) + Len(t)
      /\ \A i \in 1 .. Len(Tail(s)) + Len(t) :
           w[i] = IF i <= Len(Tail(s)) THEN Tail(s)[i] ELSE t[i - Len(Tail(s))]
  BY <1>1, ConcatProperties
<1> HIDE DEF u, w
<1>4. u # << >> /\ Len(u) \in Nat \ {0}
  BY <1>1, <1>2
<1>5. /\ Head(u) = u[1] /\ Tail(u) \in Seq(S) /\ Len(Tail(u)) = Len(u) - 1
      /\ \A i \in 1 .. Len(u) - 1 : Tail(u)[i] = u[i + 1]
  BY <1>2, <1>4, TailIs
<1>6. Head(u) = Head(s)
  BY <1>1, <1>2, <1>5
<1>7. Len(Tail(u)) = Len(w)
  BY <1>1, <1>2, <1>3, <1>5
<1>8. ASSUME NEW i \in 1 .. Len(w) PROVE Tail(u)[i] = w[i]
  <2>1. i \in 1 .. Len(s) - 1 + Len(t) /\ Tail(u)[i] = u[i + 1]
    BY <1>1, <1>2, <1>3, <1>5
  <2>2. CASE i <= Len(s) - 1
    <3>1. u[i + 1] = s[i + 1]
      BY <1>1, <1>2, <2>1, <2>2
    <3>2. w[i] = s[i + 1]
      BY <1>1, <1>3, <2>1, <2>2
    <3> QED BY <2>1, <3>1, <3>2
  <2>3. CASE ~ (i <= Len(s) - 1)
    <3>1. u[i + 1] = t[i - (Len(s) - 1)]
      BY <1>1, <1>2, <2>1, <2>3
    <3>2. w[i] = t[i - (Len(s) - 1)]
      BY <1>1, <1>3, <2>1, <2>3
    <3> QED BY <2>1, <3>1, <3>2
  <2> QED BY <2>2, <2>3
<1>9. Tail(u) = w
  BY <1>3, <1>5, <1>7, <1>8, SeqEqual
<1> QED BY <1>4, <1>6, <1>9 DEF u, w

LEMMA GiveFollows ==
  ASSUME NEW pre \in Seq(StartSteps), NEW rest \in Seq(RestSteps)
  PROVE  /\ << Give >> \o rest \in Seq(AllSteps) /\ pre \o (<< Give >> \o rest) \in Seq(AllSteps)
         /\ pre # << >> =>
              /\ Head(pre \o (<< Give >> \o rest)) = Head(pre)
              /\ Tail(pre \o (<< Give >> \o rest)) = Tail(pre) \o (<< Give >> \o rest)
         /\ pre = << >> => pre \o (<< Give >> \o rest) = << Give >> \o rest
         /\ Give \in ToSet(pre \o (<< Give >> \o rest))
<1>1. pre \in Seq(AllSteps) /\ rest \in Seq(AllSteps) /\ << Give >> \in Seq(AllSteps)
  BY Longer DEF AllSteps
<1>2. << Give >> \o rest \in Seq(AllSteps)
  BY <1>1, ConcatProperties
<1> DEFINE t == << Give >> \o rest
<1>3. t \in Seq(AllSteps)
  BY <1>2
<1>4. Give \in ToSet(t)
  <2> DEFINE g == << Give >>
  <2>1. g \in Seq(AllSteps) /\ ToSet(g) = { Give }
    BY <1>1, SetOne
  <2> HIDE DEF g
  <2>2. ToSet(g \o rest) = ToSet(g) \cup ToSet(rest)
    BY <1>1, <2>1, SetConcat
  <2> QED BY <2>1, <2>2 DEF g
<1> HIDE DEF t
<1>5. pre \o t \in Seq(AllSteps) /\ ToSet(pre \o t) = ToSet(pre) \cup ToSet(t)
  BY <1>1, <1>3, ConcatProperties, SetConcat
<1>6. pre # << >> => Head(pre \o t) = Head(pre) /\ Tail(pre \o t) = Tail(pre) \o t
  BY <1>1, <1>3, ConcatTail
<1>7. pre = << >> => pre \o t = t
  BY <1>3
<1> QED BY <1>1, <1>3, <1>4, <1>5, <1>6, <1>7 DEF t

LEMMA IdleIs ==
  ASSUME NEW s, Idle(s)
  PROVE  /\ s \in Seq(AllSteps) /\ s # << >> /\ Give \in ToSet(s)
         /\ Head(s) = Give => Used(Tail(s))
         /\ Head(s) # Give => Head(s) \in StartSteps /\ Idle(Tail(s))
<1>1. PICK pre \in Seq(StartSteps), rest \in Seq(RestSteps) : s = pre \o (<< Give >> \o rest)
  BY DEF Idle
<1>2. /\ << Give >> \o rest \in Seq(AllSteps) /\ s \in Seq(AllSteps)
      /\ pre # << >> => Head(s) = Head(pre) /\ Tail(s) = Tail(pre) \o (<< Give >> \o rest)
      /\ pre = << >> => s = << Give >> \o rest
      /\ Give \in ToSet(s)
  BY <1>1, GiveFollows
<1>3. s # << >>
  BY <1>2, SetOne
<1>4. CASE pre = << >>
  <2>1. rest \in Seq(AllSteps) /\ Give \in AllSteps
    BY Longer DEF AllSteps
  <2>2. Head(<< Give >> \o rest) = Give /\ Tail(<< Give >> \o rest) = rest
    BY <2>1, Cons1
  <2> QED BY <1>2, <1>3, <1>4, <2>2 DEF Used
<1>5. CASE pre # << >>
  <2>1. Tail(pre) \in Seq(StartSteps) /\ Head(pre) \in StartSteps
    BY <1>5, TailIs
  <2>2. Head(s) # Give
    BY <1>2, <1>5, <2>1, StepsAre DEF StartDos
  <2>3. Idle(Tail(s))
    BY <1>2, <1>5, <2>1 DEF Idle
  <2> QED BY <1>2, <1>3, <1>5, <2>1, <2>2, <2>3
<1> QED BY <1>4, <1>5

LEMMA UsedIs ==
  ASSUME NEW s, Used(s)
  PROVE  /\ s \in Seq(AllSteps) /\ Give \notin ToSet(s)
         /\ s # << >> => Head(s) \in RestSteps /\ Used(Tail(s))
<1>1. s \in Seq(AllSteps)
  BY Longer DEF Used, AllSteps
<1>2. ToSet(s) \subseteq RestSteps
  BY SetIs DEF Used
<1>3. Give \notin RestSteps
  BY StepsAre DEF RestDos
<1> QED BY <1>1, <1>2, <1>3, TailIs DEF Used

LEMMA IdleAfter ==
  ASSUME NEW x \in Seq(StartSteps), NEW s, Idle(s)
  PROVE  Idle(x \o s)
<1>1. PICK pre \in Seq(StartSteps), rest \in Seq(RestSteps) : s = pre \o (<< Give >> \o rest)
  BY DEF Idle
<1> DEFINE t == << Give >> \o rest
<1>2. x \in Seq(AllSteps) /\ pre \in Seq(AllSteps) /\ t \in Seq(AllSteps)
  BY GiveFollows, Longer DEF AllSteps
<1>3. x \o pre \in Seq(StartSteps)
  BY ConcatProperties
<1> HIDE DEF t
<1>4. (x \o pre) \o t = x \o (pre \o t)
  BY <1>2, ConcatAssociative
<1> QED BY <1>1, <1>3, <1>4 DEF Idle, t

LEMMA ShapedIs ==
  ASSUME NEW s, Shaped(s)
  PROVE  /\ s \in Seq(AllSteps)
         /\ s # << >> => Head(s) \in AllSteps /\ Shaped(Tail(s))
         /\ s # << >> /\ Head(s) \in StartSteps \ RestSteps => Idle(s) /\ Idle(Tail(s))
<1>1. CASE Idle(s)
  <2>1. Head(s) \in AllSteps
    BY <1>1, IdleIs DEF AllSteps
  <2>2. Give \notin StartSteps
    BY StepsAre DEF StartDos
  <2> QED BY <1>1, <2>1, <2>2, IdleIs DEF Shaped
<1>2. CASE Used(s)
  <2>1. s # << >> => Head(s) \in AllSteps
    BY <1>2, UsedIs DEF AllSteps
  <2> QED BY <1>2, <2>1, UsedIs DEF Shaped
<1> QED BY <1>1, <1>2 DEF Shaped

-----------------------------------------------------------------------------
(* What a step does to the script. *)

Shape == Shaped(script) /\ InStep /\ Checking

StaysAt(x) ==
  /\ script' = script /\ script # << >> /\ pc' = x
  /\ x \in { "write", "getBuffer" } => Head(script).do \in { "send", "flush" }
  /\ x \in { "flush", "getNext" } => Head(script).do = "flush"
  /\ x = "asleep" => Head(script).do = "wait"

ScriptMoves ==
  \/ UNCHANGED << script, pc >>
  \/ script # << >> /\ script' = Tail(script) /\ pc' = "step"
  \/ At("readStatus") /\ pc' = pc /\ script' = EraseAll \o Tail(script)
  \/ At("populate") /\ pc' = pc
     /\ script' = EraseAll \o << Step("firsts", "again", 0) >> \o script
  \/ \E x \in { "write", "getBuffer", "flush", "getNext", "asleep" } : StaysAt(x)

LEMMA MapSeq ==
  ASSUME NEW S, NEW n \in Nat, NEW f \in [ 1 .. n -> S ]
  PROVE  f \in Seq(S) /\ Len(f) = n
OBVIOUS

LEMMA EraseAllIs ==
  /\ EraseAll \in Seq(StartSteps)
  /\ EraseAll \o << Step("firsts", "again", 0) >> \in Seq(StartSteps)
<1> DEFINE e == [ i \in 1 .. NumVirtual |-> Step("erase", "", i - 1) ]
<1>1. NumVirtual \in Nat \ {0}
  BY Positive
<1>2. ASSUME NEW k \in 0 .. NumVirtual - 1 PROVE Step("erase", "", k) \in StartSteps
  BY DEF StartSteps, Step
<1>3. e \in [ 1 .. NumVirtual -> StartSteps ]
  <2>1. \A i \in 1 .. NumVirtual : i - 1 \in 0 .. NumVirtual - 1
    BY <1>1
  <2> QED BY <1>2, <2>1
<1>4. e \in Seq(StartSteps)
  BY <1>1, <1>3, MapSeq
<1>5. << Wait("cond") >> \in Seq(StartSteps)
  BY DEF StartSteps
<1>6. Step("firsts", "again", 0) \in StartSteps
  BY <1>1 DEF StartSteps, Step
<1>7. << Step("firsts", "again", 0) >> \in Seq(StartSteps)
  BY <1>6
<1> HIDE DEF e
<1>8. e \o << Wait("cond") >> \in Seq(StartSteps)
  BY <1>4, <1>5, ConcatProperties
<1>9. EraseAll = e \o << Wait("cond") >>
  BY DEF EraseAll, e
<1>10. EraseAll \in Seq(StartSteps)
  BY <1>8, <1>9
<1> QED BY <1>7, <1>10, ConcatProperties

LEMMA MoveKeeps ==
  ASSUME Shaped(script), InStep, ScriptMoves
  PROVE  Shaped(script)' /\ InStep'
<1>1. /\ script \in Seq(AllSteps)
      /\ script # << >> => Head(script) \in AllSteps /\ Shaped(Tail(script))
      /\ script # << >> /\ Head(script) \in StartSteps \ RestSteps
           => Idle(script) /\ Idle(Tail(script))
  BY ShapedIs
<1>2. CASE UNCHANGED << script, pc >>
  BY <1>2 DEF InStep, Shaped, Idle, Used
<1>3. CASE script # << >> /\ script' = Tail(script) /\ pc' = "step"
  <2>1. Shaped(script')
    BY <1>1, <1>3
  <2> QED BY <1>3, <2>1 DEF InStep, Shaped, Idle, Used
<1>4. CASE At("readStatus") /\ pc' = pc /\ script' = EraseAll \o Tail(script)
  <2>1. script # << >> /\ Head(script).do = "readStatus" /\ pc = "step"
    BY <1>4 DEF At
  <2>2. Head(script) \in StartSteps \ RestSteps
    BY <1>1, <2>1, StepsAre
  <2>3. Idle(script')
    BY <1>1, <1>4, <2>1, <2>2, EraseAllIs, IdleAfter
  <2> QED BY <1>4, <2>1, <2>3 DEF InStep, Shaped, Idle, Used
<1>5. CASE At("populate") /\ pc' = pc
           /\ script' = EraseAll \o << Step("firsts", "again", 0) >> \o script
  <2>1. script # << >> /\ Head(script).do = "populate" /\ pc = "step"
    BY <1>5 DEF At
  <2>2. Head(script) \in StartSteps \ RestSteps
    BY <1>1, <2>1, StepsAre
  <2>3. Idle(script')
    <3> DEFINE x == EraseAll \o << Step("firsts", "again", 0) >>
    <3>1. x \in Seq(StartSteps)
      BY EraseAllIs
    <3>2. script' = x \o script
      BY <1>5
    <3> HIDE DEF x
    <3> QED BY <1>1, <2>1, <2>2, <3>1, <3>2, IdleAfter
  <2> QED BY <1>5, <2>1, <2>3 DEF InStep, Shaped, Idle, Used
<1>6. ASSUME NEW x \in { "write", "getBuffer", "flush", "getNext", "asleep" }, StaysAt(x)
      PROVE  Shaped(script)' /\ InStep'
  <2>1. Shaped(script)'
    BY <1>6 DEF Shaped, Idle, Used, StaysAt
  <2> QED BY <1>6, <2>1 DEF InStep, StaysAt
<1> QED BY <1>2, <1>3, <1>4, <1>5, <1>6 DEF ScriptMoves

LEMMA SignalMoves ==
  ASSUME InStep, NEW c, Signal(c)
  PROVE  \/ UNCHANGED << script, pc >>
         \/ /\ pc = "asleep" /\ script # << >> /\ Head(script).do = "wait" /\ Head(script).on = c
            /\ script' = Tail(script) /\ pc' = "step"
BY DEF Signal, InStep

LEMMA MainMoves ==
  ASSUME InStep, FlashMain \/ AskInit \/ GiveBuffers \/ Sleep \/ Writing \/ Polled
  PROVE  ScriptMoves /\ ~ At("check") /\ UNCHANGED dpc
<1>1. CASE ReadStatusFile
  BY <1>1 DEF ReadStatusFile, ScriptMoves, At, reader
<1>2. CASE EraseBlock
  BY <1>2 DEF EraseBlock, ScriptMoves, At, reader, Next1
<1>3. CASE FirstBlocks
  BY <1>3 DEF FirstBlocks, ScriptMoves, At, reader, Next1
<1>4. CASE Populate
  BY <1>4 DEF Populate, ScriptMoves, At, reader, Next1
<1>5. CASE AskDump
  BY <1>5 DEF AskDump, ScriptMoves, At, reader, Next1
<1>6. CASE WriteStatusFile
  BY <1>6 DEF WriteStatusFile, ScriptMoves, At, reader, Next1
<1>7. CASE AskInit
  BY <1>7 DEF AskInit, ScriptMoves, At, reader
<1>8. CASE GiveBuffers
  BY <1>8 DEF GiveBuffers, ScriptMoves, At, reader
<1>9. CASE Sleep
  BY <1>9 DEF Sleep, ScriptMoves, StaysAt, At, reader
<1>10. CASE BeginWrite("send", "SET") \/ BeginWrite("send", "GET") \/ BeginWrite("flush", "EOM")
  BY <1>10 DEF BeginWrite, ScriptMoves, StaysAt, At, reader
<1>11. CASE WriteRest
  BY <1>11 DEF WriteRest, Written, ScriptMoves, StaysAt, At, reader, InStep
<1>12. CASE WriteFull
  BY <1>12 DEF WriteFull, ScriptMoves, StaysAt, At, reader, InStep
<1>13. CASE WriteGetBuffer(TakeReadBuffer)
  BY <1>13 DEF WriteGetBuffer, Written, ScriptMoves, StaysAt, At, reader, InStep
<1>14. CASE FlushSend
  BY <1>14 DEF FlushSend, ScriptMoves, StaysAt, At, reader, InStep
<1>15. CASE FlushGetBuffer(TakeReadBuffer)
  BY <1>15 DEF FlushGetBuffer, ScriptMoves, StaysAt, At, reader, InStep
<1>16. CASE Polled
  BY <1>16 DEF Polled, ScriptMoves, At, reader
<1> QED BY <1>1, <1>2, <1>3, <1>4, <1>5, <1>6, <1>7, <1>8, <1>9, <1>10, <1>11, <1>12, <1>13,
           <1>14, <1>15, <1>16 DEF FlashMain, Writing

LEMMA DeviceMoves ==
  ASSUME InStep, FlashDevice \/ Device
  PROVE  /\ \/ UNCHANGED << script, pc >>
            \/ pc = "asleep" /\ script # << >> /\ script' = Tail(script) /\ pc' = "step"
         /\ UNCHANGED dpc
<1>1. CASE DeviceErase(EraseAcked)
  <2>1. PICK e \in erasing, good \in BOOLEAN : EraseAcked(e, good) /\ UNCHANGED reader
    BY <1>1 DEF DeviceErase
  <2>2. Signal("cond") \/ UNCHANGED << pc, script, unheard >>
    BY <2>1 DEF EraseAcked
  <2> QED BY <2>1, <2>2, SignalMoves DEF reader
<1>2. CASE DeviceProgram
  BY <1>2 DEF DeviceProgram, batch, reader
<1>3. CASE DeviceDump(DumpAnswered)
  <2>1. Signal("cond") \/ UNCHANGED << pc, script, unheard >>
    BY <1>3 DEF DeviceDump, DumpAnswered
  <2> QED BY <1>3, <2>1, SignalMoves DEF DeviceDump, reader
<1>4. CASE InitDone
  BY <1>4, SignalMoves DEF InitDone, reader
<1>5. CASE ReadBufferDone \/ WriteBufferDone \/ DeviceRead \/ doDMAWrite
  BY <1>5 DEF ReadBufferDone, WriteBufferDone, DeviceRead, doDMAWrite, reader
<1>6. ASSUME NEW i \in 1 .. Len(devQ), NEW body \in BodySizes \cup {0}, Answer(i, body)
      PROVE  UNCHANGED << script, pc, dpc >>
  BY <1>6 DEF Answer, reader
<1> QED BY <1>1, <1>2, <1>3, <1>4, <1>5, <1>6 DEF FlashDevice, Device

LEMMA ReadingMoves ==
  ASSUME InStep, Checking, Reading
  PROVE  /\ \/ UNCHANGED << script, pc >>
            \/ script # << >> /\ script' = Tail(script) /\ pc' = "step" /\ dpc' = "read"
         /\ program = "TestBluecache" => At("check")
<1>1. CASE ReadRest(Reads)
  BY <1>1 DEF ReadRest, Reads
<1>2. CASE ReadFull(Reads)
  BY <1>2 DEF ReadFull, Reads
<1>3. CASE DropWriteBuffer
  BY <1>3 DEF DropWriteBuffer, Checking
<1>4. CASE FrontWriteBuffer
  BY <1>4 DEF FrontWriteBuffer, Checking
<1>5. CASE HandleValueFollows
  BY <1>5 DEF HandleValueFollows, Checking
<1>6. dpc = "handle" => (program = "TestBluecache" => At("check"))
  BY DEF Checking
<1>7. ASSUME dpc = "handle", Noticed
      PROVE  UNCHANGED << script, pc >> \/ (script # << >> /\ script' = Tail(script) /\ pc' = "step")
  BY <1>6, <1>7 DEF Noticed, At
<1>8. CASE HandleAnswer(Noticed)
  BY <1>6, <1>7, <1>8 DEF HandleAnswer, NextHeader
<1>9. CASE HandleEom(SkipPadding, EomNoticed)
  BY <1>6, <1>7, <1>9, SignalMoves DEF HandleEom, EomNoticed, NextHeader
<1> QED BY <1>1, <1>2, <1>3, <1>4, <1>5, <1>8, <1>9 DEF Reading

LEMMA ShapeKept ==
  ASSUME Shape, HostStep
  PROVE  Shape'
<1> USE DEF Shape
<1>1. program' = program
  BY DEF HostStep
<1>2. CASE FlashMain \/ AskInit \/ GiveBuffers \/ Sleep \/ Writing \/ Polled
  BY <1>1, <1>2, MainMoves, MoveKeeps DEF Checking
<1>3. CASE FlashDevice \/ Device
  <2>1. ScriptMoves
    BY <1>3, DeviceMoves DEF ScriptMoves
  <2>2. Checking'
    BY <1>1, <1>3, DeviceMoves DEF Checking, At
  <2> QED BY <2>1, <2>2, MoveKeeps
<1>4. CASE Reading
  <2>1. ScriptMoves
    BY <1>4, ReadingMoves DEF ScriptMoves
  <2>2. Checking'
    BY <1>1, <1>4, ReadingMoves DEF Checking, At
  <2> QED BY <2>1, <2>2, MoveKeeps
<1> QED BY <1>2, <1>3, <1>4 DEF HostStep, BatchStep

-----------------------------------------------------------------------------
(* The types of the variables. *)

UnitT == [ op : Ops3, body : Nat, k : Nat ]

RequestTypes ==
  /\ RequestQueues
  /\ src \in Seq(Ops3) /\ todo \in Nat /\ srcOff \in 0 .. BufSize

DeviceTypes == devQ \in Seq(Ops3) /\ outQ \in Seq(UnitT)

(* A buffer that has been written stays full. *)
AnswerTypes ==
  /\ AnswerQueues /\ dst \in [ Bufs -> Seq(UnitT) ]
  /\ \A i \in 1 .. Len(wrDoneQ) : Len(dst[wrDoneQ[i]]) = BufSize
  /\ \A i \in 1 .. Len(returnWrite) : Len(dst[returnWrite[i]]) = BufSize
  /\ currDst # -1 => Len(dst[currDst]) = BufSize

(* What is read of an answer is its header, or its header and its value.   *)
ReaderTypes ==
  /\ dpc \in { "read", "pop", "getBuffer", "handle" } /\ part \in { "header", "body" }
  /\ need \in Nat /\ dstOff \in 0 .. BufSize /\ units \in Seq(UnitT)
  /\ currDst = -1 => dpc \in { "read", "getBuffer" } /\ need > 0
  /\ currDst = -1 /\ dpc = "read" => dstOff = BufSize
  /\ part = "header" => Len(units) + need = 1
  /\ part = "body" => Len(units) > 0 /\ Len(units) + need = 1 + Header.body
  /\ dpc = "handle" => need = 0

FlagTypes == asked \in BOOLEAN /\ unheard \in BOOLEAN /\ eomCnt \in Nat

BatchTypes == RequestTypes /\ DeviceTypes /\ AnswerTypes /\ ReaderTypes /\ FlagTypes

LEMMA TypesImply ==
  ASSUME InStep, BatchTypes
  PROVE  BatchTypeOK
<1>1. currSrc \in -1 .. NumBufs - 1 /\ currDst \in -1 .. NumBufs - 1
  BY Positive DEF BatchTypes, RequestTypes, RequestQueues, AnswerTypes, AnswerQueues, Bufs
<1> QED BY <1>1 DEF BatchTypes, RequestTypes, ReaderTypes, FlagTypes, InStep, BatchTypeOK, Ops3

-----------------------------------------------------------------------------
(* What each step leaves alone. *)

requestVars == << writer, freeRead, rdDoneQ, readQ >>
deviceVars == << devQ, outQ >>
answerVars == << writeBaseQ, wrDoneQ, dst, returnWrite, currDst >>
readerVars == << dpc, part, need, units, dstOff >>
flagVars == << asked, unheard, eomCnt >>

LEMMA FlashLeaves ==
  ASSUME FlashMain \/ FlashDevice
  PROVE  UNCHANGED << requestVars, deviceVars, answerVars, readerVars, asked, eomCnt >>
<1> USE DEF requestVars, deviceVars, answerVars, readerVars, writer, reader, devOut
<1>1. CASE ReadStatusFile
  BY <1>1 DEF ReadStatusFile
<1>2. CASE EraseBlock
  BY <1>2 DEF EraseBlock
<1>3. CASE FirstBlocks
  BY <1>3 DEF FirstBlocks
<1>4. CASE Populate
  BY <1>4 DEF Populate
<1>5. CASE AskDump
  BY <1>5 DEF AskDump
<1>6. CASE WriteStatusFile
  BY <1>6 DEF WriteStatusFile
<1>7. CASE DeviceErase(EraseAcked)
  BY <1>7 DEF DeviceErase
<1>8. CASE DeviceProgram
  BY <1>8 DEF DeviceProgram, batch
<1>9. CASE DeviceDump(DumpAnswered)
  BY <1>9 DEF DeviceDump
<1> QED BY <1>1, <1>2, <1>3, <1>4, <1>5, <1>6, <1>7, <1>8, <1>9 DEF FlashMain, FlashDevice

LEMMA QuietLeaves ==
  ASSUME AskInit \/ Sleep \/ Polled \/ InitDone
  PROVE  UNCHANGED << requestVars, deviceVars, answerVars, readerVars >>
<1> USE DEF requestVars, deviceVars, answerVars, readerVars, writer, reader, devOut
<1>1. CASE AskInit
  BY <1>1 DEF AskInit
<1>2. CASE Sleep
  BY <1>2 DEF Sleep
<1>3. CASE Polled
  BY <1>3 DEF Polled
<1>4. CASE InitDone
  BY <1>4 DEF InitDone
<1> QED BY <1>1, <1>2, <1>3, <1>4

LEMMA WritingLeaves ==
  ASSUME Writing
  PROVE  UNCHANGED << deviceVars, answerVars, readerVars, flagVars >>
<1> USE DEF deviceVars, answerVars, readerVars, flagVars, reader, devOut
<1>1. CASE BeginWrite("send", "SET") \/ BeginWrite("send", "GET") \/ BeginWrite("flush", "EOM")
  BY <1>1 DEF BeginWrite
<1>2. CASE WriteRest
  BY <1>2 DEF WriteRest
<1>3. CASE WriteFull
  BY <1>3 DEF WriteFull
<1>4. CASE WriteGetBuffer(TakeReadBuffer)
  BY <1>4 DEF WriteGetBuffer
<1>5. CASE FlushSend
  BY <1>5 DEF FlushSend
<1>6. CASE FlushGetBuffer(TakeReadBuffer)
  BY <1>6 DEF FlushGetBuffer
<1> QED BY <1>1, <1>2, <1>3, <1>4, <1>5, <1>6 DEF Writing

LEMMA DeviceLeaves ==
  /\ GiveBuffers => UNCHANGED << deviceVars, readerVars, flagVars >>
  /\ ReadBufferDone => UNCHANGED << deviceVars, answerVars, readerVars, flagVars >>
  /\ WriteBufferDone => UNCHANGED << requestVars, deviceVars, readerVars, flagVars >>
  /\ DeviceRead => UNCHANGED << answerVars, readerVars, flagVars >>
  /\ doDMAWrite => UNCHANGED << requestVars, readerVars, flagVars >>
  /\ \A i \in 1 .. Len(devQ), body \in BodySizes \cup {0} :
       Answer(i, body) => UNCHANGED << requestVars, answerVars, readerVars, flagVars >>
<1> USE DEF requestVars, deviceVars, answerVars, readerVars, flagVars, writer, reader, devOut
<1>1. GiveBuffers => UNCHANGED << deviceVars, readerVars, flagVars >>
  BY DEF GiveBuffers
<1>2. ReadBufferDone => UNCHANGED << deviceVars, answerVars, readerVars, flagVars >>
  BY DEF ReadBufferDone
<1>3. WriteBufferDone => UNCHANGED << requestVars, deviceVars, readerVars, flagVars >>
  BY DEF WriteBufferDone
<1>4. DeviceRead => UNCHANGED << answerVars, readerVars, flagVars >>
  BY DEF DeviceRead
<1>5. doDMAWrite => UNCHANGED << requestVars, readerVars, flagVars >>
  BY DEF doDMAWrite
<1>6. \A i \in 1 .. Len(devQ), body \in BodySizes \cup {0} :
        Answer(i, body) => UNCHANGED << requestVars, answerVars, readerVars, flagVars >>
  BY DEF Answer
<1> QED BY <1>1, <1>2, <1>3, <1>4, <1>5, <1>6

LEMMA ReadingLeaves ==
  /\ Reading => UNCHANGED << requestVars, deviceVars, asked >>
  /\ ReadRest(Reads) \/ HandleValueFollows \/ HandleAnswer(Noticed)
       \/ HandleEom(SkipPadding, EomNoticed) => UNCHANGED answerVars
  /\ DropWriteBuffer => UNCHANGED << writeBaseQ, wrDoneQ, dst, currDst >>
  /\ FrontWriteBuffer => UNCHANGED << writeBaseQ, wrDoneQ, dst, returnWrite >>
<1> USE DEF requestVars, deviceVars, answerVars, writer, devOut
<1>1. ReadRest(Reads) => UNCHANGED << requestVars, deviceVars, asked, answerVars >>
  BY DEF ReadRest
<1>2. ReadFull(Reads) => UNCHANGED << requestVars, deviceVars, asked >>
  BY DEF ReadFull
<1>3. DropWriteBuffer =>
        UNCHANGED << requestVars, deviceVars, asked, writeBaseQ, wrDoneQ, dst, currDst >>
  BY DEF DropWriteBuffer
<1>4. FrontWriteBuffer =>
        UNCHANGED << requestVars, deviceVars, asked, writeBaseQ, wrDoneQ, dst, returnWrite >>
  BY DEF FrontWriteBuffer
<1>5. HandleValueFollows => UNCHANGED << requestVars, deviceVars, asked, answerVars >>
  BY DEF HandleValueFollows
<1>6. HandleAnswer(Noticed) => UNCHANGED << requestVars, deviceVars, asked, answerVars >>
  BY DEF HandleAnswer
<1>7. HandleEom(SkipPadding, EomNoticed) =>
        UNCHANGED << requestVars, deviceVars, asked, answerVars >>
  BY DEF HandleEom
<1> QED BY <1>1, <1>2, <1>3, <1>4, <1>5, <1>6, <1>7 DEF Reading

-----------------------------------------------------------------------------
(* The types hold in every step.                                           *)
LEMMA RequestTypesStay ==
  ASSUME RequestTypes, UNCHANGED requestVars
  PROVE  RequestTypes'
BY DEF RequestTypes, RequestQueues, requestVars, writer

LEMMA AllBufs ==
  LET s == [ i \in 1 .. NumBufs |-> i - 1 ] IN
  s \in Seq(Bufs) /\ Len(s) = NumBufs /\ ToSet(s) = Bufs
<1> DEFINE s == [ i \in 1 .. NumBufs |-> i - 1 ]
<1>1. NumBufs \in Nat
  BY Positive
<1>2. s \in [ 1 .. NumBufs -> Bufs ]
  BY <1>1 DEF Bufs
<1>3. \A i \in 1 .. NumBufs : s[i] = i - 1
  OBVIOUS
<1> HIDE DEF s
<1>4. s \in Seq(Bufs) /\ Len(s) = NumBufs
  BY <1>1, <1>2, MapSeq
<1>5. ToSet(s) = { s[i] : i \in 1 .. NumBufs } /\ ToSet(s) \subseteq Bufs
  BY <1>4, SetIs
<1>6. ASSUME NEW b \in Bufs PROVE b \in ToSet(s)
  <2>1. b + 1 \in 1 .. NumBufs /\ s[b + 1] = b
    BY <1>1, <1>3 DEF Bufs
  <2> QED BY <1>5, <2>1
<1> QED BY <1>4, <1>5, <1>6 DEF s

LEMMA ReadIn ==
  ASSUME NEW b \in Bufs, NEW ms \in Seq(Ops3)
  PROVE  [ buf |-> b, msgs |-> ms ] \in ReadT /\ [ buf |-> b, msgs |-> ms ].buf = b
BY DEF ReadT

LEMMA WritingTyped ==
  ASSUME RequestTypes, Shaped(script), InStep, Writing
  PROVE  RequestTypes'
<1> USE DEF RequestTypes, RequestQueues, writer
<1>1. pc \in { "write", "getBuffer" } => Head(script).on \in Ops3
  BY ShapedIs, StepsAre DEF InStep
<1>2. CASE BeginWrite("send", "SET") \/ BeginWrite("send", "GET") \/ BeginWrite("flush", "EOM")
  <2>1. ReqSize["SET"] \in Nat /\ ReqSize["GET"] \in Nat /\ ReqSize["EOM"] \in Nat
    BY BatchAssumption
  <2> QED BY <1>2, <2>1 DEF BeginWrite
<1>3. CASE WriteRest
  <2>1. srcOff + todo \in 0 .. BufSize
    BY <1>3, Positive DEF WriteRest
  <2>2. Append(src, Head(script).on) \in Seq(Ops3)
    BY <1>1, <1>3, AppendIs DEF WriteRest
  <2> QED BY <1>3, <2>1, <2>2 DEF WriteRest
<1>4. CASE WriteFull
  <2>1. 0 \in 0 .. BufSize /\ << >> \in Seq(Ops3)
    BY Positive
  <2>2. CASE currSrc = -1
    BY <1>4, <2>1, <2>2 DEF WriteFull
  <2>3. CASE currSrc # -1
    <3> DEFINE ms == IF todo' = 0 THEN Append(src, Head(script).on) ELSE src
    <3>1. todo' = todo - (BufSize - srcOff) /\ readQ' = Append(readQ, [ buf |-> currSrc, msgs |-> ms ])
          /\ src' = << >> /\ srcOff' = 0 /\ UNCHANGED << freeRead, rdDoneQ, currSrc >>
      BY <1>4, <2>3 DEF WriteFull, StartRead
    <3>2. todo' \in Nat
      BY <1>4, <3>1, Positive DEF WriteFull
    <3>3. Append(src, Head(script).on) \in Seq(Ops3)
      BY <1>1, <1>4, AppendIs DEF WriteFull
    <3>4. ms \in Seq(Ops3)
      BY <3>3
    <3> HIDE DEF ms
    <3>5. readQ' \in Seq(ReadT)
      BY <2>3, <3>1, <3>4, ReadIn, AppendIs
    <3> QED BY <2>1, <3>1, <3>2, <3>5
  <2> QED BY <2>2, <2>3
<1>5. CASE WriteGetBuffer(TakeReadBuffer)
  BY <1>5, TailIs DEF WriteGetBuffer, TakeReadBuffer
<1>6. CASE FlushSend
  <2>1. 0 \in 0 .. BufSize /\ << >> \in Seq(Ops3)
    BY Positive
  <2>2. srcOff > 0 /\ currSrc # -1 => Append(readQ, [ buf |-> currSrc, msgs |-> src ]) \in Seq(ReadT)
    BY ReadIn, AppendIs
  <2> QED BY <1>6, <2>1, <2>2 DEF FlushSend, StartRead
<1>7. CASE FlushGetBuffer(TakeReadBuffer)
  BY <1>7, TailIs DEF FlushGetBuffer, TakeReadBuffer
<1> QED BY <1>2, <1>3, <1>4, <1>5, <1>6, <1>7 DEF Writing

LEMMA RequestTypesKept ==
  ASSUME RequestTypes, DeviceTypes, Shaped(script), InStep, HostStep
  PROVE  RequestTypes'
<1>1. CASE Writing
  BY <1>1, WritingTyped
<1>2. CASE GiveBuffers
  BY <1>2, AllBufs DEF GiveBuffers, RequestTypes, RequestQueues, writer
<1>3. CASE ReadBufferDone
  <2>1. Append(freeRead, Head(rdDoneQ)) \in Seq(Bufs) /\ Tail(rdDoneQ) \in Seq(Bufs)
    BY <1>3, AppendIs, TailIs DEF ReadBufferDone, RequestTypes, RequestQueues
  <2> QED BY <1>3, <2>1 DEF ReadBufferDone, RequestTypes, RequestQueues, writer
<1>4. CASE DeviceRead
  <2>1. Tail(readQ) \in Seq(ReadT) /\ Head(readQ) \in ReadT
    BY <1>4, TailIs DEF DeviceRead, RequestTypes, RequestQueues
  <2>2. Head(readQ).buf \in Bufs
    BY <2>1 DEF ReadT
  <2>3. Append(rdDoneQ, Head(readQ).buf) \in Seq(Bufs)
    BY <2>2, AppendIs DEF RequestTypes, RequestQueues
  <2> QED BY <1>4, <2>1, <2>3 DEF DeviceRead, RequestTypes, RequestQueues, writer
<1>5. CASE FlashMain \/ FlashDevice \/ AskInit \/ Sleep \/ Polled \/ InitDone \/ WriteBufferDone
           \/ doDMAWrite \/ Reading
  BY <1>5, RequestTypesStay, FlashLeaves, QuietLeaves, DeviceLeaves, ReadingLeaves
<1>6. ASSUME NEW i \in 1 .. Len(devQ), NEW body \in BodySizes \cup {0}, Answer(i, body)
      PROVE  RequestTypes'
  BY <1>6, RequestTypesStay, DeviceLeaves
<1> QED BY <1>1, <1>2, <1>3, <1>4, <1>5, <1>6 DEF HostStep, BatchStep, Device

-----------------------------------------------------------------------------
LEMMA AnswerTyped ==
  ASSUME DeviceTypes, NEW i \in 1 .. Len(devQ), NEW body \in BodySizes \cup {0}, Answer(i, body)
  PROVE  DeviceTypes'
<1> DEFINE op == devQ[i]
<1> DEFINE r == (Len(outQ) + 1 + body) % BufSize
<1> DEFINE padding == IF op = "EOM" /\ r # 0 THEN BufSize - r ELSE 0
<1> DEFINE answer == [ k \in 1 .. 1 + body |-> Unit(op, body, k) ]
<1> DEFINE pad == [ k \in 1 .. padding |-> Unit("EOM", 0, 0) ]
<1>1. devQ' = RemoveAt(devQ, i) /\ outQ' = outQ \o answer \o pad
  BY DEF Answer
<1>2. devQ \in Seq(Ops3) /\ Len(devQ) \in Nat /\ outQ \in Seq(UnitT) /\ Len(outQ) \in Nat
      /\ op \in Ops3 /\ body \in Nat /\ i \in 1 .. Len(devQ)
  BY Positive DEF DeviceTypes
<1>3. r \in 0 .. BufSize - 1 /\ BufSize \in Nat
  BY <1>2, Positive
<1>4. padding \in Nat
  <2> HIDE DEF r
  <2> QED BY <1>3
<1> HIDE DEF padding, op
<1>5. \A k \in Nat : Unit(op, body, k) \in UnitT /\ Unit("EOM", 0, 0) \in UnitT
  BY <1>2 DEF Unit, UnitT, Ops3
<1>6. answer \in [ 1 .. 1 + body -> UnitT ] /\ 1 + body \in Nat
  <2>1. 1 .. 1 + body \subseteq Nat
    BY <1>2
  <2> QED BY <1>2, <1>5, <2>1
<1>7. pad \in [ 1 .. padding -> UnitT ]
  BY <1>5
<1> HIDE DEF answer, pad
<1>8. answer \in Seq(UnitT) /\ pad \in Seq(UnitT)
  BY <1>4, <1>6, <1>7, MapSeq
<1>9. outQ \o answer \in Seq(UnitT)
  BY <1>2, <1>8, ConcatProperties
<1>10. outQ' \in Seq(UnitT)
  BY <1>1, <1>8, <1>9, ConcatProperties
<1>11. devQ' \in Seq(Ops3)
  <2>1. SubSeq(devQ, 1, i - 1) \in Seq(Ops3) /\ SubSeq(devQ, i + 1, Len(devQ)) \in Seq(Ops3)
    BY <1>2
  <2> QED BY <1>1, <2>1, ConcatProperties DEF RemoveAt
<1> QED BY <1>10, <1>11 DEF DeviceTypes

LEMMA SubSeqIs ==
  ASSUME NEW S, NEW s \in Seq(S), NEW m \in Nat \ {0}, NEW n \in Nat, m <= n + 1, n <= Len(s)
  PROVE  SubSeq(s, m, n) \in Seq(S) /\ Len(SubSeq(s, m, n)) = n - m + 1
OBVIOUS

LEMMA DeviceTypesKept ==
  ASSUME RequestTypes, DeviceTypes, HostStep
  PROVE  DeviceTypes'
<1>1. CASE DeviceRead
  <2>1. Head(readQ) \in ReadT
    BY <1>1, TailIs DEF DeviceRead, RequestTypes, RequestQueues
  <2>2. Head(readQ).msgs \in Seq(Ops3)
    BY <2>1 DEF ReadT
  <2>3. devQ \o Head(readQ).msgs \in Seq(Ops3)
    BY <2>2, ConcatProperties DEF DeviceTypes
  <2> QED BY <1>1, <2>3 DEF DeviceRead, DeviceTypes
<1>2. CASE doDMAWrite
  <2>1. SubSeq(outQ, BufSize + 1, Len(outQ)) \in Seq(UnitT)
    BY <1>2, SubSeqIs, Positive DEF doDMAWrite, DeviceTypes
  <2> QED BY <1>2, <2>1 DEF doDMAWrite, DeviceTypes
<1>3. ASSUME NEW i \in 1 .. Len(devQ), NEW body \in BodySizes \cup {0}, Answer(i, body)
      PROVE  DeviceTypes'
  BY <1>3, AnswerTyped
<1>4. CASE FlashMain \/ FlashDevice \/ AskInit \/ GiveBuffers \/ Sleep \/ Writing \/ Polled
           \/ InitDone \/ ReadBufferDone \/ WriteBufferDone \/ Reading
  <2>1. UNCHANGED deviceVars
    BY <1>4, FlashLeaves, QuietLeaves, WritingLeaves, DeviceLeaves, ReadingLeaves
  <2> QED BY <2>1 DEF deviceVars, DeviceTypes
<1> QED BY <1>1, <1>2, <1>3, <1>4 DEF HostStep, BatchStep, Device

-----------------------------------------------------------------------------
(* The buffers of the answers. *)

Full(q) == \A i \in 1 .. Len(q) : Len(dst[q[i]]) = BufSize

LEMMA AnswerTypesAre ==
  AnswerTypes <=>
    /\ AnswerQueues /\ dst \in [ Bufs -> Seq(UnitT) ]
    /\ Full(wrDoneQ) /\ Full(returnWrite)
    /\ currDst # -1 => Len(dst[currDst]) = BufSize
BY DEF AnswerTypes, Full

LEMMA FullMoves ==
  ASSUME NEW q \in Seq(Bufs), Full(q)
  PROVE  /\ q # << >> => Full(Tail(q)) /\ Len(dst[Head(q)]) = BufSize
         /\ \A b \in Bufs : Len(dst[b]) = BufSize => Full(Append(q, b))
<1>1. ASSUME q # << >> PROVE Full(Tail(q)) /\ Len(dst[Head(q)]) = BufSize
  <2>1. /\ Len(q) \in Nat \ {0} /\ Head(q) = q[1] /\ Len(Tail(q)) = Len(q) - 1
        /\ \A i \in 1 .. Len(q) - 1 : Tail(q)[i] = q[i + 1]
    BY <1>1, TailIs
  <2>2. ASSUME NEW i \in 1 .. Len(q) - 1 PROVE i + 1 \in 1 .. Len(q)
    BY <2>1
  <2>3. 1 \in 1 .. Len(q)
    BY <2>1
  <2> QED BY <2>1, <2>2, <2>3 DEF Full
<1>2. ASSUME NEW b \in Bufs, Len(dst[b]) = BufSize PROVE Full(Append(q, b))
  <2>1. /\ Len(q) \in Nat /\ Len(Append(q, b)) = Len(q) + 1 /\ Append(q, b)[Len(q) + 1] = b
        /\ \A i \in 1 .. Len(q) : Append(q, b)[i] = q[i]
    BY AppendIs
  <2>2. ASSUME NEW i \in 1 .. Len(q) + 1 PROVE i \in 1 .. Len(q) \/ i = Len(q) + 1
    BY <2>1
  <2> QED BY <1>2, <2>1, <2>2 DEF Full
<1> QED BY <1>1, <1>2

LEMMA AnswerTypesKept ==
  ASSUME AnswerTypes, ReaderTypes, DeviceTypes, HostStep
  PROVE  AnswerTypes'
<1> DEFINE Types == AnswerQueues /\ dst \in [ Bufs -> Seq(UnitT) ] /\ Full(wrDoneQ)
                      /\ Full(returnWrite) /\ (currDst # -1 => Len(dst[currDst]) = BufSize)
<1>0. Types
  BY AnswerTypesAre
<1> HIDE DEF Types
<1> SUFFICES Types'
  BY DEF Types, AnswerTypes, Full
<1> USE <1>0 DEF Types, AnswerQueues
<1>1. CASE GiveBuffers
  BY <1>1, AllBufs DEF GiveBuffers, reader, Full
<1>2. CASE doDMAWrite
  <2> DEFINE b == Head(writeBaseQ)
  <2>1. b \in Bufs /\ Tail(writeBaseQ) \in Seq(Bufs)
    BY <1>2, TailIs DEF doDMAWrite
  <2>2. SubSeq(outQ, 1, BufSize) \in Seq(UnitT) /\ Len(SubSeq(outQ, 1, BufSize)) = BufSize
    BY <1>2, SubSeqIs, Positive DEF doDMAWrite, DeviceTypes
  <2>3. /\ dst' = [ dst EXCEPT ![b] = SubSeq(outQ, 1, BufSize) ]
        /\ wrDoneQ' = Append(wrDoneQ, b) /\ writeBaseQ' = Tail(writeBaseQ)
        /\ UNCHANGED << returnWrite, currDst >>
    BY <1>2 DEF doDMAWrite, reader
  <2> HIDE DEF b
  <2>4. dst' \in [ Bufs -> Seq(UnitT) ] /\ Len(dst'[b]) = BufSize
        /\ \A c \in Bufs : Len(dst[c]) = BufSize => Len(dst'[c]) = BufSize
    BY <2>1, <2>2, <2>3
  <2>5. wrDoneQ' \in Seq(Bufs) /\ Len(wrDoneQ') = Len(wrDoneQ) + 1 /\ Len(wrDoneQ) \in Nat
        /\ wrDoneQ'[Len(wrDoneQ) + 1] = b /\ \A i \in 1 .. Len(wrDoneQ) : wrDoneQ'[i] = wrDoneQ[i]
    BY <2>1, <2>3, AppendIs
  <2>6. ASSUME NEW i \in 1 .. Len(wrDoneQ') PROVE Len(dst'[wrDoneQ'[i]]) = BufSize
    <3>1. i \in 1 .. Len(wrDoneQ) \/ i = Len(wrDoneQ) + 1
      BY <2>5
    <3>2. i \in 1 .. Len(wrDoneQ) => wrDoneQ[i] \in Bufs
      OBVIOUS
    <3> QED BY <2>4, <2>5, <3>1, <3>2 DEF Full
  <2>7. \A i \in 1 .. Len(returnWrite) : returnWrite[i] \in Bufs
    OBVIOUS
  <2> QED BY <2>1, <2>3, <2>4, <2>5, <2>6, <2>7 DEF Full
<1>3. CASE WriteBufferDone
  <2>1. /\ returnWrite' = Append(returnWrite, Head(wrDoneQ)) /\ wrDoneQ' = Tail(wrDoneQ)
        /\ wrDoneQ # << >> /\ UNCHANGED << writeBaseQ, dst, currDst >>
    BY <1>3 DEF WriteBufferDone, reader
  <2>2. Head(wrDoneQ) \in Bufs /\ Len(dst[Head(wrDoneQ)]) = BufSize /\ Full(Tail(wrDoneQ))
        /\ Tail(wrDoneQ) \in Seq(Bufs)
    BY <2>1, FullMoves, TailIs
  <2>3. Append(returnWrite, Head(wrDoneQ)) \in Seq(Bufs) /\ Full(Append(returnWrite, Head(wrDoneQ)))
    BY <2>2, FullMoves, AppendIs
  <2> QED BY <2>1, <2>2, <2>3 DEF Full
<1>4. CASE ReadFull(Reads)
  <2>1. UNCHANGED << wrDoneQ, dst, returnWrite, currDst >>
    BY <1>4 DEF ReadFull
  <2>2. writeBaseQ' = writeBaseQ \/ (currDst # -1 /\ writeBaseQ' = Append(writeBaseQ, currDst))
    BY <1>4 DEF ReadFull
  <2>3. writeBaseQ \in Seq(Bufs) /\ (currDst # -1 => currDst \in Bufs)
    OBVIOUS
  <2>4. currDst # -1 => Append(writeBaseQ, currDst) \in Seq(Bufs)
    BY <2>3, AppendIs
  <2>5. writeBaseQ' \in Seq(Bufs)
    BY <2>2, <2>3, <2>4
  <2> QED BY <2>1, <2>5 DEF Full
<1>5. CASE DropWriteBuffer
  <2>1. UNCHANGED << writeBaseQ, wrDoneQ, dst, currDst >>
    BY <1>5, ReadingLeaves
  <2>2. returnWrite' = IF returnWrite = << >> THEN << >> ELSE Tail(returnWrite)
    BY <1>5 DEF DropWriteBuffer
  <2>3. CASE returnWrite = << >>
    BY <2>1, <2>2, <2>3 DEF Full
  <2>4. CASE returnWrite # << >>
    <3>1. Tail(returnWrite) \in Seq(Bufs) /\ Full(Tail(returnWrite))
      BY <2>4, TailIs, FullMoves
    <3> QED BY <2>1, <2>2, <2>4, <3>1 DEF Full
  <2> QED BY <2>3, <2>4
<1>6. CASE FrontWriteBuffer
  <2>1. UNCHANGED << writeBaseQ, wrDoneQ, dst, returnWrite >>
    BY <1>6, ReadingLeaves
  <2>2. currDst' = Head(returnWrite) /\ returnWrite # << >>
    BY <1>6 DEF FrontWriteBuffer
  <2>3. Head(returnWrite) \in Bufs /\ Len(dst[Head(returnWrite)]) = BufSize
    BY <2>2, TailIs, FullMoves
  <2> QED BY <2>1, <2>2, <2>3 DEF Full
<1>7. ASSUME UNCHANGED answerVars PROVE Types'
  BY <1>7 DEF answerVars, Full
<1>8. CASE FlashMain \/ FlashDevice \/ AskInit \/ Sleep \/ Writing \/ Polled
           \/ InitDone \/ ReadBufferDone \/ DeviceRead
  BY <1>7, <1>8, FlashLeaves, QuietLeaves, WritingLeaves, DeviceLeaves
<1>9. ASSUME NEW i \in 1 .. Len(devQ), NEW body \in BodySizes \cup {0}, Answer(i, body)
      PROVE  Types'
  BY <1>7, <1>9, DeviceLeaves
<1>10. CASE ReadRest(Reads) \/ HandleValueFollows \/ HandleAnswer(Noticed)
            \/ HandleEom(SkipPadding, EomNoticed)
  BY <1>7, <1>10, ReadingLeaves
<1> HIDE DEF Types
<1> QED BY <1>1, <1>2, <1>3, <1>4, <1>5, <1>6, <1>8, <1>9, <1>10
        DEF HostStep, BatchStep, Device, Reading

-----------------------------------------------------------------------------
(* The reader. *)

LEMMA ReadsOn ==
  ASSUME ReaderTypes, AnswerTypes, currDst # -1, NEW n \in Nat,
         dstOff <= n, n <= BufSize
  PROVE  LET s == units \o SubSeq(dst[currDst], dstOff + 1, n) IN
         /\ s \in Seq(UnitT) /\ Len(s) = Len(units) + (n - dstOff) /\ Len(units) \in Nat
         /\ Len(units) > 0 => s[1] = units[1]
<1>1. dst[currDst] \in Seq(UnitT) /\ Len(dst[currDst]) = BufSize
  BY DEF AnswerTypes, AnswerQueues
<1> DEFINE t == SubSeq(dst[currDst], dstOff + 1, n)
<1>2. t \in Seq(UnitT) /\ Len(t) = n - dstOff
  BY <1>1, SubSeqIs, Positive DEF ReaderTypes
<1> HIDE DEF t
<1>3. units \in Seq(UnitT) /\ Len(units) \in Nat
  BY DEF ReaderTypes
<1>4. /\ units \o t \in Seq(UnitT) /\ Len(units \o t) = Len(units) + Len(t)
      /\ \A i \in 1 .. Len(units) + Len(t) :
           (units \o t)[i] = IF i <= Len(units) THEN units[i] ELSE t[i - Len(units)]
  BY <1>2, <1>3, ConcatProperties
<1>5. Len(units) > 0 => (units \o t)[1] = units[1]
  <2>1. Len(t) \in Nat
    BY <1>2
  <2> QED BY <1>3, <1>4, <2>1
<1> QED BY <1>2, <1>3, <1>4, <1>5 DEF t

LEMMA ReaderTypesKept ==
  ASSUME AnswerTypes, ReaderTypes, HostStep
  PROVE  ReaderTypes'
<1> USE Positive
<1>1. CASE ReadRest(Reads)
  <2>1. dpc = "read" /\ dstOff + need < BufSize /\ dstOff \in Nat /\ need \in Nat
    BY <1>1 DEF ReadRest, ReaderTypes
  <2>2. currDst # -1
    BY <2>1 DEF ReaderTypes
  <2> DEFINE s == units \o SubSeq(dst[currDst], dstOff + 1, dstOff + need)
  <2>3. s \in Seq(UnitT) /\ Len(s) = Len(units) + need /\ Len(units) \in Nat
        /\ (Len(units) > 0 => s[1] = units[1])
    <3>1. dstOff + need \in Nat /\ dstOff <= dstOff + need /\ dstOff + need <= BufSize
          /\ (dstOff + need) - dstOff = need
      BY <2>1
    <3> QED BY <2>2, <3>1, ReadsOn
  <2>4. units' = s /\ dstOff' = dstOff + need /\ need' = 0 /\ dpc' = "handle"
        /\ UNCHANGED << part, currDst >>
    BY <1>1 DEF ReadRest
  <2> HIDE DEF s
  <2>5. dstOff' \in 0 .. BufSize
    BY <2>1, <2>4
  <2>6. part = "header" => Len(units') + need' = 1
    BY <2>1, <2>3, <2>4 DEF ReaderTypes
  <2>7. part = "body" => Len(units') > 0 /\ Len(units') + need' = 1 + Header'.body
    BY <2>1, <2>3, <2>4 DEF ReaderTypes, Header
  <2> QED BY <2>2, <2>3, <2>4, <2>5, <2>6, <2>7 DEF ReaderTypes
<1>2. CASE ReadFull(Reads)
  <2>1. dpc = "read" /\ dstOff + need >= BufSize /\ dstOff \in 0 .. BufSize /\ need \in Nat
    BY <1>2 DEF ReadFull, ReaderTypes
  <2>2. CASE currDst = -1
    BY <1>2, <2>2 DEF ReadFull, ReaderTypes, Header
  <2>3. CASE currDst # -1
    <3> DEFINE s == units \o SubSeq(dst[currDst], dstOff + 1, BufSize)
    <3>1. s \in Seq(UnitT) /\ Len(s) = Len(units) + (BufSize - dstOff) /\ Len(units) \in Nat
          /\ (Len(units) > 0 => s[1] = units[1])
      BY <2>1, <2>3, ReadsOn
    <3>2. units' = s /\ dstOff' = 0 /\ need' = need - (BufSize - dstOff) /\ dpc' = "pop"
          /\ UNCHANGED << part, currDst >>
      BY <1>2, <2>3 DEF ReadFull
    <3> HIDE DEF s
    <3>3. need' \in Nat /\ dstOff' \in 0 .. BufSize
      BY <2>1, <3>2
    <3>4. part = "header" => Len(units') + need' = 1
      BY <2>1, <3>1, <3>2 DEF ReaderTypes
    <3>5. part = "body" => Len(units') > 0 /\ Len(units') + need' = 1 + Header'.body
      <4>1. ASSUME part = "body" PROVE Header' = Header /\ Len(units) > 0 /\ Len(units) + need = 1 + Header.body
        BY <3>1, <3>2, <4>1 DEF ReaderTypes, Header
      <4>2. part = "body" => Len(units') = Len(units) + (BufSize - dstOff)
        BY <3>1, <3>2
      <4> QED BY <2>1, <3>1, <3>2, <4>1, <4>2
    <3> QED BY <2>3, <3>1, <3>2, <3>3, <3>4, <3>5 DEF ReaderTypes
  <2> QED BY <2>2, <2>3
<1>3. CASE DropWriteBuffer
  BY <1>3 DEF DropWriteBuffer, ReaderTypes, Header
<1>4. CASE FrontWriteBuffer
  <2>1. currDst' = Head(returnWrite) /\ Head(returnWrite) \in Bufs
    BY <1>4, TailIs DEF FrontWriteBuffer, AnswerTypes, AnswerQueues
  <2>2. currDst' # -1
    BY <2>1 DEF Bufs
  <2> QED BY <1>4, <2>2 DEF FrontWriteBuffer, ReaderTypes, Header
<1>5. dpc = "handle" => currDst # -1 /\ Len(units) \in Nat
  BY DEF ReaderTypes
<1>6. CASE HandleValueFollows
  <2>1. Len(units) = 1
    BY <1>6 DEF HandleValueFollows, ReaderTypes
  <2>2. Header \in UnitT
    BY <2>1 DEF ReaderTypes, Header
  <2>3. Header.body \in Nat
    BY <2>2 DEF UnitT
  <2>4. UNCHANGED << units, currDst, dstOff >> /\ Header' = Header
    BY <1>6 DEF HandleValueFollows, Header
  <2> QED BY <1>5, <1>6, <2>1, <2>3, <2>4 DEF HandleValueFollows, ReaderTypes
<1>7. << >> \in Seq(UnitT) /\ Len(<< >>) = 0
  OBVIOUS
<1>8. CASE HandleAnswer(Noticed)
  BY <1>5, <1>7, <1>8 DEF HandleAnswer, NextHeader, ReaderTypes
<1>9. CASE HandleEom(SkipPadding, EomNoticed)
  BY <1>5, <1>7, <1>9 DEF HandleEom, NextHeader, SkipPadding, ReaderTypes
<1>10. ASSUME UNCHANGED << readerVars, currDst >> PROVE ReaderTypes'
  BY <1>10 DEF readerVars, ReaderTypes, Header
<1>11. CASE FlashMain \/ FlashDevice \/ AskInit \/ Sleep \/ Writing \/ Polled
            \/ InitDone \/ ReadBufferDone \/ DeviceRead
  BY <1>10, <1>11, FlashLeaves, QuietLeaves, WritingLeaves, DeviceLeaves DEF answerVars
<1>12. CASE GiveBuffers \/ WriteBufferDone \/ doDMAWrite
  <2>1. UNCHANGED currDst
    BY <1>12 DEF GiveBuffers, WriteBufferDone, doDMAWrite, reader
  <2> QED BY <1>10, <1>12, <2>1, DeviceLeaves
<1>13. ASSUME NEW i \in 1 .. Len(devQ), NEW body \in BodySizes \cup {0}, Answer(i, body)
       PROVE  ReaderTypes'
  BY <1>10, <1>13, DeviceLeaves DEF answerVars
<1> QED BY <1>1, <1>2, <1>3, <1>4, <1>6, <1>8, <1>9, <1>11, <1>12, <1>13
        DEF HostStep, BatchStep, Device, Reading

LEMMA FlagTypesKept ==
  ASSUME FlagTypes, HostStep
  PROVE  FlagTypes'
<1>1. ASSUME NEW c, Signal(c) PROVE unheard' \in BOOLEAN
  BY <1>1 DEF Signal, FlagTypes
<1>2. CASE FlashMain
  <2>1. UNCHANGED unheard
    BY <1>2 DEF FlashMain, ReadStatusFile, EraseBlock, FirstBlocks, Populate, AskDump,
                WriteStatusFile
  <2> QED BY <1>2, <2>1, FlashLeaves DEF FlagTypes
<1>3. CASE FlashDevice
  <2>1. CASE DeviceErase(EraseAcked)
    BY <1>1, <2>1 DEF DeviceErase, EraseAcked, FlagTypes
  <2>2. CASE DeviceProgram
    BY <2>2 DEF DeviceProgram, batch, FlagTypes
  <2>3. CASE DeviceDump(DumpAnswered)
    BY <1>1, <2>3 DEF DeviceDump, DumpAnswered, FlagTypes
  <2>4. unheard' \in BOOLEAN
    BY <2>1, <2>2, <2>3, <1>3 DEF FlashDevice, FlagTypes
  <2> QED BY <1>3, <2>4, FlashLeaves DEF FlagTypes
<1>4. CASE AskInit
  BY <1>4 DEF AskInit, FlagTypes
<1>5. CASE Sleep
  BY <1>5 DEF Sleep, FlagTypes
<1>6. CASE Polled
  BY <1>6 DEF Polled, FlagTypes
<1>7. CASE InitDone
  <2>1. asked' = FALSE /\ Signal("cond") /\ UNCHANGED eomCnt
    BY <1>7 DEF InitDone
  <2> QED BY <1>1, <2>1 DEF FlagTypes
<1>8. CASE Writing \/ GiveBuffers \/ ReadBufferDone \/ WriteBufferDone \/ DeviceRead \/ doDMAWrite
  <2>1. UNCHANGED flagVars
    BY <1>8, WritingLeaves, DeviceLeaves
  <2> QED BY <2>1 DEF flagVars, FlagTypes
<1>9. ASSUME NEW i \in 1 .. Len(devQ), NEW body \in BodySizes \cup {0}, Answer(i, body)
      PROVE  FlagTypes'
  <2>1. UNCHANGED flagVars
    BY <1>9, DeviceLeaves
  <2> QED BY <2>1 DEF flagVars, FlagTypes
<1>10. CASE Reading
  <2>1. UNCHANGED asked
    BY <1>10, ReadingLeaves
  <2>2. CASE HandleAnswer(Noticed)
    BY <2>1, <2>2 DEF HandleAnswer, Noticed, FlagTypes
  <2>3. CASE HandleEom(SkipPadding, EomNoticed)
    <3>1. unheard' \in BOOLEAN
      BY <1>1, <2>3 DEF HandleEom, EomNoticed, Noticed, FlagTypes
    <3>2. eomCnt' \in { eomCnt, eomCnt + 1 }
      BY <2>3 DEF HandleEom, EomNoticed
    <3> QED BY <2>1, <3>1, <3>2 DEF FlagTypes
  <2>4. CASE ReadRest(Reads) \/ ReadFull(Reads) \/ DropWriteBuffer \/ FrontWriteBuffer
             \/ HandleValueFollows
    BY <2>1, <2>4 DEF ReadRest, ReadFull, DropWriteBuffer, FrontWriteBuffer, HandleValueFollows,
                      FlagTypes
  <2> QED BY <1>10, <2>2, <2>3, <2>4 DEF Reading
<1> QED BY <1>2, <1>3, <1>4, <1>5, <1>6, <1>7, <1>8, <1>9, <1>10 DEF HostStep, BatchStep, Device

-----------------------------------------------------------------------------
(* The rings. *)

RingsIdle ==
  /\ freeRead = << >> /\ rdDoneQ = << >> /\ readQ = << >> /\ currSrc = -1
  /\ writeBaseQ = << >> /\ wrDoneQ = << >> /\ returnWrite = << >> /\ currDst = -1
  /\ dpc \in { "read", "getBuffer" }

RingsInUse == AllRequestBufs /\ AllAnswerBufs /\ AtFront /\ (dpc = "pop" => returnWrite # << >>)

Rings == (Idle(script) /\ RingsIdle) \/ (Used(script) /\ RingsInUse)

(* Nothing but the rings' own steps disturbs them. *)
LEMMA RequestBufsStay ==
  ASSUME AllRequestBufs, UNCHANGED requestVars,
         pc' \in { "getBuffer", "getNext" } <=> pc \in { "getBuffer", "getNext" }
  PROVE  AllRequestBufs'
BY DEF AllRequestBufs, requestVars, writer, NumOwn, OwnSet, ReadBufs

LEMMA AnswerBufsStay ==
  ASSUME AllAnswerBufs, AtFront, dpc = "pop" => returnWrite # << >>, UNCHANGED answerVars,
         dpc' # "pop", dpc # "pop", dpc' = "getBuffer" <=> dpc = "getBuffer"
  PROVE  AllAnswerBufs' /\ AtFront' /\ (dpc' = "pop" => returnWrite' # << >>)
BY DEF AllAnswerBufs, AtFront, answerVars, Filled

-----------------------------------------------------------------------------
LEMMA WritingRing ==
  ASSUME RequestTypes, Shaped(script), InStep, AllRequestBufs, Writing
  PROVE  AllRequestBufs'
<1> USE DEF RequestTypes, RequestQueues
<1>1. freeRead \in Seq(Bufs) /\ readQ \in Seq(ReadT) /\ rdDoneQ \in Seq(Bufs)
      /\ Len(freeRead) \in Nat /\ Len(readQ) \in Nat /\ Len(rdDoneQ) \in Nat
  OBVIOUS
<1>2. ASSUME pc = "getBuffer" \/ pc = "getNext", TakeReadBuffer, UNCHANGED << rdDoneQ, readQ >>,
             pc' \notin { "getBuffer", "getNext" }
      PROVE  AllRequestBufs'
  <2>1. /\ freeRead # << >> /\ currSrc' = Head(freeRead) /\ freeRead' = Tail(freeRead)
    BY <1>2 DEF TakeReadBuffer
  <2>2. Head(freeRead) \in Bufs /\ Len(Tail(freeRead)) = Len(freeRead) - 1
        /\ ToSet(freeRead) = { Head(freeRead) } \cup ToSet(Tail(freeRead))
    BY <2>1, TailIs, SetTail
  <2>3. NumOwn = 0 /\ OwnSet = {}
    BY <1>2 DEF NumOwn, OwnSet
  <2>4. NumOwn' = 1 /\ OwnSet' = { Head(freeRead) }
    BY <1>2, <2>1, <2>2 DEF NumOwn, OwnSet, Bufs
  <2>5. Len(freeRead') + Len(rdDoneQ') + Len(readQ') + NumOwn' = NumBufs
    BY <1>1, <1>2, <2>1, <2>2, <2>3, <2>4 DEF AllRequestBufs
  <2>6. ToSet(freeRead') \cup ToSet(rdDoneQ') \cup ReadBufs(readQ') \cup OwnSet' = Bufs
    BY <1>2, <2>1, <2>2, <2>3, <2>4 DEF AllRequestBufs
  <2> QED BY <2>5, <2>6 DEF AllRequestBufs, ReadBufs
<1>3. ASSUME pc \notin { "getBuffer", "getNext" }, currSrc # -1, NEW ms \in Seq(Ops3),
             StartRead(currSrc, ms), UNCHANGED << freeRead, rdDoneQ, currSrc >>,
             pc' \in { "getBuffer", "getNext" }
      PROVE  AllRequestBufs'
  <2> DEFINE r == [ buf |-> currSrc, msgs |-> ms ]
  <2>1. r \in ReadT /\ r.buf = currSrc
    BY <1>3, ReadIn
  <2>2. readQ' = Append(readQ, r)
    BY <1>3 DEF StartRead
  <2> HIDE DEF r
  <2>3. Len(readQ') = Len(readQ) + 1 /\ ReadBufs(readQ') = ReadBufs(readQ) \cup { currSrc }
    BY <1>1, <2>1, <2>2, AppendIs, ReadBufsAppend
  <2>4. NumOwn = 1 /\ OwnSet = { currSrc } /\ NumOwn' = 0 /\ OwnSet' = {}
    BY <1>3 DEF NumOwn, OwnSet
  <2>5. Len(freeRead') + Len(rdDoneQ') + Len(readQ') + NumOwn' = NumBufs
    BY <1>1, <1>3, <2>3, <2>4 DEF AllRequestBufs
  <2>6. ToSet(freeRead') \cup ToSet(rdDoneQ') \cup ReadBufs(readQ') \cup OwnSet' = Bufs
    BY <1>3, <2>3, <2>4 DEF AllRequestBufs
  <2> QED BY <2>5, <2>6 DEF AllRequestBufs, ReadBufs
<1>4. ASSUME UNCHANGED << freeRead, rdDoneQ, readQ, currSrc >>,
             currSrc = -1 \/ (pc \notin { "getBuffer", "getNext" } /\ pc' \notin { "getBuffer", "getNext" })
      PROVE  AllRequestBufs'
  BY <1>4 DEF AllRequestBufs, NumOwn, OwnSet, ReadBufs
<1>5. CASE BeginWrite("send", "SET") \/ BeginWrite("send", "GET") \/ BeginWrite("flush", "EOM")
  BY <1>4, <1>5 DEF BeginWrite, At
<1>6. CASE WriteRest
  BY <1>4, <1>6 DEF WriteRest, Written
<1>7. CASE WriteFull
  <2>1. CASE currSrc = -1
    BY <1>4, <1>7, <2>1 DEF WriteFull
  <2>2. CASE currSrc # -1
    <3> DEFINE ms == IF todo' = 0 THEN Append(src, Head(script).on) ELSE src
    <3>1. ms \in Seq(Ops3)
      <4>1. Head(script).on \in Ops3
        BY <1>7, ShapedIs, StepsAre DEF InStep, WriteFull
      <4> QED BY <4>1, AppendIs
    <3>2. StartRead(currSrc, ms) /\ UNCHANGED << freeRead, rdDoneQ, currSrc >>
          /\ pc' = "getBuffer" /\ pc = "write"
      BY <1>7, <2>2 DEF WriteFull
    <3> HIDE DEF ms
    <3> QED BY <1>3, <2>2, <3>1, <3>2
  <2> QED BY <2>1, <2>2
<1>8. CASE WriteGetBuffer(TakeReadBuffer)
  BY <1>2, <1>8 DEF WriteGetBuffer, Written
<1>9. CASE FlushSend
  <2>1. CASE srcOff > 0 /\ currSrc # -1
    BY <1>3, <1>9, <2>1 DEF FlushSend
  <2>2. CASE ~ (srcOff > 0 /\ currSrc # -1)
    BY <1>4, <1>9, <2>2 DEF FlushSend
  <2> QED BY <2>1, <2>2
<1>10. CASE FlushGetBuffer(TakeReadBuffer)
  BY <1>2, <1>10 DEF FlushGetBuffer
<1> QED BY <1>5, <1>6, <1>7, <1>8, <1>9, <1>10 DEF Writing

LEMMA GivenRings ==
  ASSUME RingsIdle, GiveBuffers
  PROVE  RingsInUse'
<1> DEFINE s == [ i \in 1 .. NumBufs |-> i - 1 ]
<1>1. Len(s) = NumBufs /\ ToSet(s) = Bufs
  BY AllBufs
<1>2. freeRead' = s /\ writeBaseQ' = s
  BY DEF GiveBuffers
<1>3. /\ rdDoneQ' = << >> /\ readQ' = << >> /\ currSrc' = -1 /\ wrDoneQ' = << >>
      /\ returnWrite' = << >> /\ currDst' = -1 /\ dpc' \in { "read", "getBuffer" }
  BY DEF GiveBuffers, RingsIdle, writer, reader
<1> HIDE DEF s
<1>4. Len(<< >>) = 0 /\ ToSet(<< >>) = {} /\ ReadBufs(<< >>) = {}
  BY SetOne DEF ReadBufs
<1>5. NumBufs \in Nat
  BY Positive
<1>6. AllRequestBufs'
  <2>1. NumOwn' = 0 /\ OwnSet' = {}
    BY <1>3 DEF NumOwn, OwnSet
  <2>2. Len(freeRead') = NumBufs /\ Len(rdDoneQ') = 0 /\ Len(readQ') = 0
    BY <1>1, <1>2, <1>3, <1>4
  <2>3. ToSet(freeRead') = Bufs /\ ToSet(rdDoneQ') = {} /\ ReadBufs(readQ') = {}
    BY <1>1, <1>2, <1>3, <1>4
  <2>4. Len(freeRead') + Len(rdDoneQ') + Len(readQ') + NumOwn' = NumBufs
    BY <1>5, <2>1, <2>2
  <2>5. ToSet(freeRead') \cup ToSet(rdDoneQ') \cup ReadBufs(readQ') \cup OwnSet' = Bufs
    BY <2>1, <2>3
  <2> QED BY <2>4, <2>5 DEF AllRequestBufs, ReadBufs
<1>7. AllAnswerBufs'
  <2>1. Filled' = << >>
    BY <1>3 DEF Filled
  <2>2. Len(writeBaseQ') = NumBufs /\ Len(wrDoneQ') = 0 /\ Len(Filled') = 0
    BY <1>1, <1>2, <1>3, <1>4, <2>1
  <2>3. ToSet(writeBaseQ') = Bufs /\ ToSet(wrDoneQ') = {} /\ ToSet(Filled') = {}
    BY <1>1, <1>2, <1>3, <1>4, <2>1
  <2> QED BY <1>5, <2>2, <2>3 DEF AllAnswerBufs
<1> QED BY <1>3, <1>6, <1>7 DEF RingsInUse, AtFront

LEMMA RequestRing ==
  ASSUME RequestTypes, DeviceTypes, Shape, AllRequestBufs, HostStep, ~ GiveBuffers
  PROVE  AllRequestBufs'
<1> USE DEF RequestTypes, RequestQueues, Shape
<1>1. freeRead \in Seq(Bufs) /\ readQ \in Seq(ReadT) /\ rdDoneQ \in Seq(Bufs)
      /\ Len(freeRead) \in Nat /\ Len(readQ) \in Nat /\ Len(rdDoneQ) \in Nat
      /\ NumOwn \in { 0, 1 }
  BY DEF NumOwn
<1>2. CASE Writing
  BY <1>2, WritingRing
<1>3. CASE ReadBufferDone
  <2>1. /\ rdDoneQ # << >> /\ freeRead' = Append(freeRead, Head(rdDoneQ)) /\ rdDoneQ' = Tail(rdDoneQ)
        /\ UNCHANGED << readQ, currSrc, pc >>
    BY <1>3 DEF ReadBufferDone, writer
  <2>2. Head(rdDoneQ) \in Bufs /\ Len(rdDoneQ') = Len(rdDoneQ) - 1
        /\ ToSet(rdDoneQ) = { Head(rdDoneQ) } \cup ToSet(rdDoneQ')
    BY <2>1, TailIs, SetTail
  <2>3. Len(freeRead') = Len(freeRead) + 1 /\ ToSet(freeRead') = ToSet(freeRead) \cup { Head(rdDoneQ) }
    BY <2>1, <2>2, AppendIs, SetAppend
  <2>4. NumOwn' = NumOwn /\ OwnSet' = OwnSet /\ ReadBufs(readQ') = ReadBufs(readQ)
    BY <2>1 DEF NumOwn, OwnSet
  <2>5. Len(freeRead') + Len(rdDoneQ') + Len(readQ') + NumOwn' = NumBufs
    BY <1>1, <2>1, <2>2, <2>3, <2>4 DEF AllRequestBufs
  <2>6. ToSet(freeRead') \cup ToSet(rdDoneQ') \cup ReadBufs(readQ') \cup OwnSet' = Bufs
    BY <2>2, <2>3, <2>4 DEF AllRequestBufs
  <2> QED BY <2>5, <2>6 DEF AllRequestBufs, ReadBufs
<1>4. CASE DeviceRead
  <2> DEFINE b == Head(readQ).buf
  <2>1. /\ readQ # << >> /\ rdDoneQ' = Append(rdDoneQ, b) /\ readQ' = Tail(readQ)
        /\ UNCHANGED << freeRead, currSrc, pc >>
    BY <1>4 DEF DeviceRead, writer
  <2>2. b \in Bufs /\ Len(readQ') = Len(readQ) - 1 /\ ReadBufs(readQ) = { b } \cup ReadBufs(readQ')
    <3>1. Head(readQ) \in ReadT
      BY <2>1, TailIs
    <3> QED BY <2>1, <3>1, TailIs, ReadBufsTail DEF ReadT
  <2> HIDE DEF b
  <2>3. Len(rdDoneQ') = Len(rdDoneQ) + 1 /\ ToSet(rdDoneQ') = ToSet(rdDoneQ) \cup { b }
    BY <2>1, <2>2, AppendIs, SetAppend
  <2>4. NumOwn' = NumOwn /\ OwnSet' = OwnSet
    BY <2>1 DEF NumOwn, OwnSet
  <2>5. Len(freeRead') + Len(rdDoneQ') + Len(readQ') + NumOwn' = NumBufs
    BY <1>1, <2>1, <2>2, <2>3, <2>4 DEF AllRequestBufs
  <2>6. ToSet(freeRead') \cup ToSet(rdDoneQ') \cup ReadBufs(readQ') \cup OwnSet' = Bufs
    BY <2>1, <2>2, <2>3, <2>4 DEF AllRequestBufs
  <2> QED BY <2>5, <2>6 DEF AllRequestBufs, ReadBufs
<1>5. CASE FlashMain \/ AskInit \/ Sleep \/ Polled
  <2>1. pc = "step" /\ pc' \in { "step", "asleep" }
    BY <1>5 DEF FlashMain, ReadStatusFile, EraseBlock, FirstBlocks, Populate, AskDump,
                WriteStatusFile, AskInit, Sleep, Polled, At
  <2> QED BY <1>5, <2>1, RequestBufsStay, FlashLeaves, QuietLeaves
<1>6. CASE FlashDevice \/ InitDone
  <2>1. UNCHANGED << script, pc >> \/ (pc = "asleep" /\ pc' = "step")
    BY <1>6, DeviceMoves DEF Device
  <2> QED BY <1>6, <2>1, RequestBufsStay, FlashLeaves, QuietLeaves
<1>7. CASE WriteBufferDone \/ doDMAWrite
  <2>1. UNCHANGED pc
    BY <1>7 DEF WriteBufferDone, doDMAWrite
  <2> QED BY <1>7, <2>1, RequestBufsStay, DeviceLeaves
<1>8. ASSUME NEW i \in 1 .. Len(devQ), NEW body \in BodySizes \cup {0}, Answer(i, body)
      PROVE  AllRequestBufs'
  <2>1. UNCHANGED pc
    BY <1>8 DEF Answer
  <2> QED BY <1>8, <2>1, RequestBufsStay, DeviceLeaves
<1>9. CASE Reading
  <2>1. \/ UNCHANGED pc
        \/ pc \in { "step", "asleep" } /\ pc' = "step"
    <3>1. CASE program = "TestBluecache"
      BY <1>9, <3>1, ReadingMoves DEF At
    <3>2. CASE program # "TestBluecache" /\ ~ UNCHANGED pc
      <4>1. ASSUME EomNoticed PROVE pc = "asleep" /\ pc' = "step"
        BY <3>2, <4>1, SignalMoves DEF EomNoticed, Noticed
      <4> QED BY <1>9, <3>2, <4>1 DEF Reading, ReadRest, ReadFull, DropWriteBuffer,
                 FrontWriteBuffer, HandleValueFollows, HandleAnswer, Noticed, HandleEom
    <3> QED BY <3>1, <3>2
  <2> QED BY <1>9, <2>1, RequestBufsStay, ReadingLeaves
<1> QED BY <1>2, <1>3, <1>4, <1>5, <1>6, <1>7, <1>8, <1>9 DEF HostStep, BatchStep, Device

-----------------------------------------------------------------------------
(* The ring of the answers.                                                *)
ReaderAtFront == AtFront /\ (dpc = "pop" => returnWrite # << >>)

LEMMA AnswerRing ==
  ASSUME AnswerTypes, AllAnswerBufs, ReaderAtFront, HostStep, ~ GiveBuffers
  PROVE  AllAnswerBufs' /\ ReaderAtFront'
<1> USE DEF AnswerTypes, AnswerQueues
<1>1. /\ writeBaseQ \in Seq(Bufs) /\ wrDoneQ \in Seq(Bufs) /\ returnWrite \in Seq(Bufs)
      /\ Len(writeBaseQ) \in Nat /\ Len(wrDoneQ) \in Nat /\ Len(returnWrite) \in Nat
  OBVIOUS
<1>2. Filled \in Seq(Bufs) /\ Len(Filled) \in Nat
  <2>1. dpc = "pop" => Tail(returnWrite) \in Seq(Bufs)
    BY TailIs DEF ReaderAtFront
  <2>2. Filled \in Seq(Bufs)
    BY <1>1, <2>1 DEF Filled
  <2> QED BY <2>2
<1>3. CASE doDMAWrite
  <2>1. /\ writeBaseQ # << >> /\ wrDoneQ' = Append(wrDoneQ, Head(writeBaseQ))
        /\ writeBaseQ' = Tail(writeBaseQ) /\ UNCHANGED << returnWrite, currDst, dpc >>
    BY <1>3 DEF doDMAWrite, reader
  <2>2. Head(writeBaseQ) \in Bufs /\ Len(writeBaseQ') = Len(writeBaseQ) - 1
        /\ ToSet(writeBaseQ) = { Head(writeBaseQ) } \cup ToSet(writeBaseQ')
    BY <2>1, TailIs, SetTail
  <2>3. Len(wrDoneQ') = Len(wrDoneQ) + 1 /\ ToSet(wrDoneQ') = ToSet(wrDoneQ) \cup { Head(writeBaseQ) }
    BY <2>1, <2>2, AppendIs, SetAppend
  <2>4. Filled' = Filled
    BY <2>1 DEF Filled
  <2>5. Len(writeBaseQ') + Len(wrDoneQ') + Len(Filled') = NumBufs
    BY <1>1, <1>2, <2>2, <2>3, <2>4 DEF AllAnswerBufs
  <2>6. ToSet(writeBaseQ') \cup ToSet(wrDoneQ') \cup ToSet(Filled') = Bufs
    BY <2>2, <2>3, <2>4 DEF AllAnswerBufs
  <2> QED BY <2>1, <2>5, <2>6 DEF AllAnswerBufs, ReaderAtFront, AtFront
<1>4. CASE WriteBufferDone
  <2> DEFINE b == Head(wrDoneQ)
  <2>1. /\ wrDoneQ # << >> /\ returnWrite' = Append(returnWrite, b)
        /\ wrDoneQ' = Tail(wrDoneQ) /\ UNCHANGED << writeBaseQ, currDst, dpc >>
    BY <1>4 DEF WriteBufferDone, reader
  <2>2. b \in Bufs /\ Len(wrDoneQ') = Len(wrDoneQ) - 1
        /\ ToSet(wrDoneQ) = { b } \cup ToSet(wrDoneQ')
    BY <2>1, TailIs, SetTail
  <2> HIDE DEF b
  <2>3. /\ Append(returnWrite, b) # << >>
        /\ Head(Append(returnWrite, b)) = IF returnWrite = << >> THEN b ELSE Head(returnWrite)
        /\ Tail(Append(returnWrite, b)) =
             IF returnWrite = << >> THEN << >> ELSE Append(Tail(returnWrite), b)
    <3> DEFINE q == returnWrite
    <3>1. q \in Seq(Bufs)
      BY <1>1
    <3> HIDE DEF q
    <3>2. Append(q, b) # << >>
      <4>1. b \in Bufs
        BY <2>2
      <4> QED BY ONLY <3>1, <4>1, AppendIs, Zenon
    <3>3. /\ Head(Append(q, b)) = IF q = << >> THEN b ELSE Head(q)
          /\ Tail(Append(q, b)) = IF q = << >> THEN << >> ELSE Append(Tail(q), b)
      BY ONLY <3>1, HeadTailAppend, Zenon
    <3> QED BY <3>2, <3>3 DEF q
  <2>4. Filled' = Append(Filled, b)
    BY <2>1, <2>3 DEF Filled, ReaderAtFront
  <2>5. Len(Filled') = Len(Filled) + 1 /\ ToSet(Filled') = ToSet(Filled) \cup { b }
    BY <1>2, <2>2, <2>4, AppendIs, SetAppend
  <2>6. Len(writeBaseQ') + Len(wrDoneQ') + Len(Filled') = NumBufs
    BY <1>1, <1>2, <2>1, <2>2, <2>5 DEF AllAnswerBufs
  <2>7. ToSet(writeBaseQ') \cup ToSet(wrDoneQ') \cup ToSet(Filled') = Bufs
    BY <2>1, <2>2, <2>5 DEF AllAnswerBufs
  <2> QED BY <2>1, <2>3, <2>6, <2>7 DEF AllAnswerBufs, ReaderAtFront, AtFront
<1>5. CASE ReadFull(Reads)
  <2>1. dpc = "read" /\ UNCHANGED << wrDoneQ, returnWrite, currDst >>
    BY <1>5 DEF ReadFull
  <2>2. CASE currDst = -1
    <3>1. dpc' = "getBuffer" /\ UNCHANGED writeBaseQ
      BY <1>5, <2>2 DEF ReadFull
    <3> QED BY <2>1, <3>1 DEF AllAnswerBufs, Filled, ReaderAtFront, AtFront
  <2>3. CASE currDst # -1
    <3>1. dpc' = "pop" /\ writeBaseQ' = Append(writeBaseQ, currDst) /\ currDst \in Bufs
      BY <1>5, <2>3 DEF ReadFull
    <3>2. returnWrite # << >> /\ Head(returnWrite) = currDst
      BY <2>1, <2>3 DEF ReaderAtFront, AtFront
    <3>3. Filled = returnWrite /\ Filled' = Tail(returnWrite)
      BY <2>1, <3>1 DEF Filled
    <3>4. Len(Filled') = Len(Filled) - 1 /\ ToSet(Filled) = { currDst } \cup ToSet(Filled')
      BY <1>1, <3>2, <3>3, TailIs, SetTail
    <3>5. Len(writeBaseQ') = Len(writeBaseQ) + 1 /\ ToSet(writeBaseQ') = ToSet(writeBaseQ) \cup { currDst }
      BY <1>1, <3>1, AppendIs, SetAppend
    <3>6. Len(writeBaseQ') + Len(wrDoneQ') + Len(Filled') = NumBufs
      BY <1>1, <1>2, <2>1, <3>4, <3>5 DEF AllAnswerBufs
    <3>7. ToSet(writeBaseQ') \cup ToSet(wrDoneQ') \cup ToSet(Filled') = Bufs
      BY <2>1, <3>4, <3>5 DEF AllAnswerBufs
    <3> QED BY <2>1, <3>2, <3>6, <3>7 DEF AllAnswerBufs, ReaderAtFront, AtFront
  <2> QED BY <2>2, <2>3
<1>6. CASE DropWriteBuffer
  <2>1. dpc = "pop" /\ dpc' = "getBuffer" /\ returnWrite # << >> /\ returnWrite' = Tail(returnWrite)
        /\ UNCHANGED << writeBaseQ, wrDoneQ, currDst >>
    BY <1>6, ReadingLeaves DEF DropWriteBuffer, ReaderAtFront
  <2> QED BY <2>1 DEF AllAnswerBufs, Filled, ReaderAtFront, AtFront
<1>7. CASE FrontWriteBuffer
  <2>1. dpc = "getBuffer" /\ returnWrite # << >> /\ currDst' = Head(returnWrite)
        /\ dpc' \in { "read", "handle" } /\ UNCHANGED << writeBaseQ, wrDoneQ, returnWrite >>
    BY <1>7, ReadingLeaves DEF FrontWriteBuffer
  <2> QED BY <2>1 DEF AllAnswerBufs, Filled, ReaderAtFront, AtFront
<1>8. ASSUME UNCHANGED answerVars,
             UNCHANGED dpc \/ { dpc, dpc' } \subseteq { "read", "handle" }
      PROVE  AllAnswerBufs' /\ ReaderAtFront'
  BY <1>8 DEF answerVars, AllAnswerBufs, Filled, ReaderAtFront, AtFront
<1>9. CASE FlashMain \/ FlashDevice \/ AskInit \/ Sleep \/ Writing \/ Polled
           \/ InitDone \/ ReadBufferDone \/ DeviceRead
  <2>1. UNCHANGED << answerVars, dpc >>
    BY <1>9, FlashLeaves, QuietLeaves, WritingLeaves, DeviceLeaves DEF readerVars
  <2> QED BY <1>8, <2>1
<1>10. ASSUME NEW i \in 1 .. Len(devQ), NEW body \in BodySizes \cup {0}, Answer(i, body)
       PROVE  AllAnswerBufs' /\ ReaderAtFront'
  <2>1. UNCHANGED << answerVars, dpc >>
    BY <1>10, DeviceLeaves DEF readerVars
  <2> QED BY <1>8, <2>1
<1>11. CASE ReadRest(Reads) \/ HandleValueFollows \/ HandleAnswer(Noticed)
            \/ HandleEom(SkipPadding, EomNoticed)
  <2>1. UNCHANGED answerVars
    BY <1>11, ReadingLeaves
  <2>2. { dpc, dpc' } \subseteq { "read", "handle" }
    BY <1>11 DEF ReadRest, HandleValueFollows, HandleAnswer, HandleEom, NextHeader
  <2> QED BY <1>8, <2>1, <2>2
<1> QED BY <1>3, <1>4, <1>5, <1>6, <1>7, <1>9, <1>10, <1>11
        DEF HostStep, BatchStep, Device, Reading

-----------------------------------------------------------------------------
(* What can happen before the rings are taken into use. *)

LEMMA IdleStep ==
  ASSUME ReaderTypes, Shape, Idle(script), RingsIdle, HostStep, ~ GiveBuffers
  PROVE  RingsIdle' /\ Idle(script)'
<1> USE DEF Shape
<1>1. script \in Seq(AllSteps) /\ script # << >>
      /\ (Head(script) # Give => Head(script) \in StartSteps /\ Idle(Tail(script)))
  BY IdleIs
<1>2. Head(script).do \in StartDos \cup { "give" }
  BY <1>1, StepsAre
<1>3. dpc \in { "read", "getBuffer" } /\ currDst = -1 /\ returnWrite = << >>
      /\ writeBaseQ = << >> /\ wrDoneQ = << >> /\ readQ = << >> /\ rdDoneQ = << >>
      /\ freeRead = << >> /\ currSrc = -1
  BY DEF RingsIdle
<1>4. pc \in { "step", "asleep" }
  BY <1>2 DEF InStep, StartDos
<1>5. ~ AskInit /\ ~ Polled /\ ~ Writing
  <2>1. ~ AskInit
    BY <1>2 DEF AskInit, At, StartDos
  <2>2. ~ Polled
    BY <1>2 DEF Polled, At, StartDos
  <2>3. ~ Writing
    BY <1>2, <1>4 DEF Writing, BeginWrite, WriteRest, WriteFull, WriteGetBuffer, FlushSend,
                      FlushGetBuffer, At, StartDos
  <2> QED BY <2>1, <2>2, <2>3
<1>6. ~ (WriteBufferDone \/ ReadBufferDone \/ DeviceRead \/ doDMAWrite)
  BY <1>3 DEF WriteBufferDone, ReadBufferDone, DeviceRead, doDMAWrite
<1>7. Reading => ReadFull(Reads)
  <2>1. ~ ReadRest(Reads)
    <3>1. dpc = "read" => dstOff = BufSize /\ need \in Nat
      BY <1>3 DEF ReaderTypes
    <3> QED BY <3>1, Positive DEF ReadRest
  <2> QED BY <1>3, <2>1 DEF Reading, DropWriteBuffer, FrontWriteBuffer, HandleValueFollows,
             HandleAnswer, HandleEom
<1>8. ASSUME ScriptMoves, script' = Tail(script) => Head(script).do # "give"
      PROVE  Idle(script')
  <2>1. CASE UNCHANGED << script, pc >>
    BY <2>1
  <2>2. CASE script' = Tail(script)
    <3>1. Head(script) # Give
      BY <1>8, <2>2, StepsAre
    <3> QED BY <1>1, <2>2, <3>1
  <2>3. CASE At("readStatus") /\ script' = EraseAll \o Tail(script)
    <3>1. Head(script) # Give
      BY <2>3, StepsAre DEF At
    <3> QED BY <1>1, <2>3, <3>1, EraseAllIs, IdleAfter
  <2>4. CASE script' = EraseAll \o << Step("firsts", "again", 0) >> \o script
    <3> DEFINE x == EraseAll \o << Step("firsts", "again", 0) >>
    <3>1. x \in Seq(StartSteps) /\ script' = x \o script
      BY <2>4, EraseAllIs
    <3> HIDE DEF x
    <3> QED BY <3>1, IdleAfter
  <2>5. CASE script' = script
    BY <2>5
  <2> QED BY <1>8, <2>1, <2>2, <2>3, <2>4, <2>5 DEF ScriptMoves, StaysAt
<1>9. CASE FlashMain \/ Sleep
  <2>1. script' = Tail(script) => Head(script).do # "give"
    BY <1>9 DEF FlashMain, Sleep, ReadStatusFile, EraseBlock, FirstBlocks, Populate, AskDump,
                WriteStatusFile, At
  <2>2. Idle(script')
    BY <1>8, <1>9, <2>1, MainMoves
  <2>3. UNCHANGED << requestVars, answerVars, dpc >>
    BY <1>9, FlashLeaves, QuietLeaves DEF readerVars
  <2> QED BY <2>2, <2>3 DEF RingsIdle, requestVars, answerVars, writer, Idle
<1>10. CASE FlashDevice \/ InitDone
  <2>1. UNCHANGED << script, pc >> \/ (pc = "asleep" /\ script' = Tail(script) /\ pc' = "step")
    BY <1>10, DeviceMoves DEF Device
  <2>2. pc = "asleep" => Head(script).do # "give"
    BY DEF InStep
  <2>3. ScriptMoves /\ (script' = Tail(script) /\ ~ UNCHANGED << script, pc >> => Head(script).do # "give")
    BY <1>1, <2>1, <2>2 DEF ScriptMoves
  <2>4. Idle(script')
    <3>1. CASE UNCHANGED << script, pc >>
      BY <3>1
    <3>2. CASE ~ UNCHANGED << script, pc >>
      BY <1>8, <2>3, <3>2
    <3> QED BY <3>1, <3>2
  <2>5. UNCHANGED << requestVars, answerVars, dpc >>
    BY <1>10, FlashLeaves, QuietLeaves DEF readerVars
  <2> QED BY <2>4, <2>5 DEF RingsIdle, requestVars, answerVars, writer, Idle
<1>11. ASSUME NEW i \in 1 .. Len(devQ), NEW body \in BodySizes \cup {0}, Answer(i, body)
       PROVE  RingsIdle' /\ Idle(script)'
  <2>1. UNCHANGED << requestVars, answerVars, dpc, script >>
    BY <1>11, DeviceLeaves, Zenon DEF readerVars, Answer
  <2> QED BY <2>1 DEF RingsIdle, requestVars, answerVars, writer, Idle
<1>12. CASE ReadFull(Reads)
  <2>1. UNCHANGED << requestVars, script, answerVars >> /\ dpc' = "getBuffer"
    BY <1>3, <1>12 DEF ReadFull, requestVars, answerVars, writer
  <2> QED BY <2>1 DEF RingsIdle, requestVars, answerVars, writer, Idle
<1> QED BY <1>5, <1>6, <1>7, <1>9, <1>10, <1>11, <1>12 DEF HostStep, BatchStep, Device

LEMMA UsedStep ==
  ASSUME Shape, Used(script), HostStep
  PROVE  Used(script)' /\ ~ GiveBuffers
<1>1. script \in Seq(AllSteps) /\ (script # << >> => Head(script) \in RestSteps /\ Used(Tail(script)))
  BY UsedIs
<1>2. script # << >> => Head(script).do \in RestDos
  BY <1>1, StepsAre
<1>3. ~ At("readStatus") /\ ~ At("populate") /\ ~ At("give")
  BY <1>2 DEF At, RestDos
<1>4. ScriptMoves
  <2>1. FlashDevice \/ Device \/ Reading => ScriptMoves
    BY DeviceMoves, ReadingMoves DEF ScriptMoves, Shape
  <2> QED BY <2>1, MainMoves DEF HostStep, BatchStep, Shape
<1>5. Used(script')
  BY <1>1, <1>3, <1>4 DEF ScriptMoves, StaysAt
<1> QED BY <1>3, <1>5 DEF GiveBuffers, Used

LEMMA RingsKept ==
  ASSUME Shape, BatchTypes, Rings, HostStep
  PROVE  Rings'
<1> USE DEF BatchTypes
<1>1. CASE Idle(script) /\ RingsIdle /\ GiveBuffers
  <2>1. RingsInUse'
    BY <1>1, GivenRings
  <2>2. Used(script')
    BY <1>1, IdleIs, StepsAre DEF GiveBuffers, At
  <2> QED BY <2>1, <2>2 DEF Rings, Used
<1>2. CASE Idle(script) /\ RingsIdle /\ ~ GiveBuffers
  BY <1>2, IdleStep DEF Rings
<1>3. CASE Used(script) /\ RingsInUse
  <2>1. Used(script)' /\ ~ GiveBuffers
    BY <1>3, UsedStep
  <2>2. AllRequestBufs'
    BY <1>3, <2>1, RequestRing DEF RingsInUse
  <2>3. AllAnswerBufs' /\ ReaderAtFront'
    BY <1>3, <2>1, AnswerRing DEF RingsInUse, ReaderAtFront
  <2> QED BY <2>1, <2>2, <2>3 DEF Rings, RingsInUse, ReaderAtFront
<1> QED BY <1>1, <1>2, <1>3 DEF Rings

LEMMA EveryBuffer ==
  ASSUME BatchTypes, Rings
  PROVE  EveryBufferOnce
<1>1. CASE Idle(script)
  BY <1>1, IdleIs DEF EveryBufferOnce, Give
<1>2. CASE Used(script) /\ RingsInUse
  <2>1. RequestsOwned
    BY <1>2, RequestPlacesIs DEF RingsInUse, BatchTypes, RequestTypes
  <2>2. AnswersOwned
    BY <1>2, ResponsePlacesIs DEF RingsInUse, BatchTypes, AnswerTypes
  <2> QED BY <2>1, <2>2 DEF EveryBufferOnce, RequestsOwned, AnswersOwned
<1> QED BY <1>1, <1>2 DEF Rings

-----------------------------------------------------------------------------
(* Least elements and division. *)

LEMMA MinExists ==
  ASSUME NEW S \in SUBSET Nat, S # {}
  PROVE  \E i \in S : \A j \in S : i <= j
<1> DEFINE Below(i) == { j \in S : j < i }
           F == { Below(i) : i \in S }
           R == StrictSubsetOrdering(Nat)
<1>1. F \subseteq FiniteSubsetsOf(Nat) /\ F # {}
  <2>1. ASSUME NEW i \in S PROVE IsFiniteSet(Below(i)) /\ Below(i) \in SUBSET Nat
    <3>1. IsFiniteSet(0 .. i)
      BY FS_Interval
    <3>2. Below(i) \in SUBSET (0 .. i)
      <4>1. \A j \in S : j < i => j \in 0 .. i
        OBVIOUS
      <4> QED BY <4>1
    <3>3. Below(i) \in SUBSET Nat
      OBVIOUS
    <3> HIDE DEF Below
    <3> QED BY <3>1, <3>2, <3>3, FS_Subset
  <2> QED BY <2>1 DEF FiniteSubsetsOf
<1>2. IsWellFoundedOn(R, FiniteSubsetsOf(Nat))
  BY FS_StrictSubsetOrderingWellFounded
<1>3. \E X \in F : \A Y \in F : << Y, X >> \notin R
  <2> HIDE DEF F, R
  <2> QED BY <1>1, <1>2, WFMin
<1>4. PICK i \in S : \A Y \in F : << Y, Below(i) >> \notin R
  BY <1>3
<1>5. ASSUME NEW j \in S, j < i PROVE FALSE
  <2>1. j \in Below(i) /\ j \notin Below(j)
    BY <1>5
  <2>2. Below(j) \subseteq Below(i)
    <3>1. \A k \in S : k < j => k < i
      BY <1>5
    <3> QED BY <3>1
  <2>3. << Below(j), Below(i) >> \in R
    BY <2>1, <2>2 DEF StrictSubsetOrdering
  <2> QED BY <2>3, <1>4
<1> QED BY <1>5

LEMMA MinIs ==
  ASSUME NEW S \in SUBSET Nat, S # {}
  PROVE  Min(S) \in S /\ \A j \in S : Min(S) <= j
BY MinExists DEF Min

LEMMA Times ==
  ASSUME NEW m \in Nat, NEW p \in Nat, NEW q \in Nat
  PROVE  p * m \in Nat /\ (p + 1) * m = p * m + m /\ (p < q => p * m + m <= q * m)
<1>1. p * m \in Nat /\ (p + 1) * m = p * m + m
  OBVIOUS
<1>2. ASSUME p < q PROVE p * m + m <= q * m
  <2>1. PICK d \in Nat : q = (p + 1) + d
    <3>1. q - (p + 1) \in Nat /\ q = (p + 1) + (q - (p + 1))
      BY <1>2
    <3> QED BY <3>1
  <2>2. q * m = (p + 1) * m + d * m /\ d * m \in Nat
    BY <2>1
  <2> QED BY <2>2, <1>1
<1> QED BY <1>1, <1>2

LEMMA Divided ==
  ASSUME NEW m \in Nat \ {0}, NEW a \in Nat
  PROVE  /\ a \div m \in Nat /\ a % m \in 0 .. m - 1
         /\ a = (a \div m) * m + (a % m)
OBVIOUS

LEMMA Parts ==
  ASSUME NEW m \in Nat \ {0}, NEW q \in Nat, NEW r \in 0 .. m - 1
  PROVE  (q * m + r) \div m = q /\ (q * m + r) % m = r
<1>1. PICK a \in Nat : a = q * m + r
  <2>1. q * m + r \in Nat
    OBVIOUS
  <2> QED BY <2>1
<1>2. PICK p \in Nat : p = a \div m
  BY <1>1, Divided
<1>3. PICK s \in Nat : s = a % m /\ s < m
  BY <1>1, Divided
<1>4. a = p * m + s
  BY <1>1, <1>2, <1>3, Divided
<1>5. CASE p < q
  <2>1. p * m + m <= q * m /\ p * m \in Nat /\ q * m \in Nat
    BY <1>5, Times
  <2> QED BY <2>1, <1>1, <1>3, <1>4
<1>6. CASE q < p
  <2>1. q * m + m <= p * m /\ p * m \in Nat /\ q * m \in Nat
    BY <1>6, Times
  <2> QED BY <2>1, <1>1, <1>3, <1>4
<1>7. CASE p = q
  <2>1. q * m \in Nat /\ p * m = q * m
    BY <1>7
  <2>2. s = r
    BY <2>1, <1>1, <1>4
  <2> QED BY <1>1, <1>2, <1>3, <1>7, <2>2
<1> QED BY <1>5, <1>6, <1>7

(* A virtual block lies on a chip. *)
LEMMA OnChip ==
  ASSUME NEW v \in 0 .. NumVirtual - 1
  PROVE  v \div Real \in 0 .. Chips - 1 /\ v % Real \in 0 .. Real - 1 /\ v \in Nat
         /\ v = (v \div Real) * Real + (v % Real)
<1>1. Chips \in Nat \ {0} /\ Real \in Nat \ {0} /\ v \in Nat /\ v < Chips * Real
  BY FlashAssumption, Positive DEF NumVirtual
<1>2. v \div Real \in Nat /\ v % Real \in 0 .. Real - 1 /\ v = (v \div Real) * Real + (v % Real)
  BY <1>1, Divided
<1>3. ASSUME Chips <= v \div Real PROVE FALSE
  <2>1. PICK q \in Nat : q = v \div Real
    BY <1>2
  <2>2. Chips * Real <= q * Real
    <3>1. CASE Chips = q
      BY <3>1, <1>1
    <3>2. CASE Chips < q
      BY <3>2, <1>1, Times
    <3> QED BY <1>1, <1>3, <2>1, <3>1, <3>2
  <2>3. q * Real \in Nat /\ Chips * Real \in Nat
    BY <1>1, <2>1
  <2>4. v = q * Real + (v % Real)
    BY <1>2, <2>1
  <2>5. ASSUME NEW x \in Nat, NEW y \in Nat, NEW r \in Nat, x <= y, v = y + r, v < x PROVE FALSE
    BY <2>5
  <2>6. v % Real \in Nat
    BY <1>1, <1>2
  <2> QED BY <1>1, <2>2, <2>3, <2>4, <2>5, <2>6
<1> QED BY <1>1, <1>2, <1>3

(* A block is found again by its number. *)
LEMMA RealParts ==
  ASSUME NEW c \in 0 .. Chips - 1, NEW b \in 0 .. Blocks - 1
  PROVE  RealIndex(c, b) \div Blocks = c /\ RealIndex(c, b) % Blocks = b
<1>1. Blocks \in Nat \ {0} /\ c \in Nat
  BY FlashAssumption
<1>2. RealIndex(c, b) = c * Blocks + b
  BY <1>1 DEF RealIndex
<1> QED BY <1>1, <1>2, Parts

-----------------------------------------------------------------------------
(* The tags of the erases. *)

Tags == 1 .. EraseTags

Erase == [ tag : Tags, chip : 0 .. Chips - 1, block : 0 .. Blocks - 1 ]

CountTypes ==
  /\ curFresh \in [ 0 .. Chips - 1 -> Nat ]
  /\ curUninit \in [ 0 .. Chips - 1 -> Nat ]
  /\ eraseAcks \in Nat /\ dumpAcks \in Nat

TagsKept ==
  /\ eraseTagQ \in Seq(Tags)
  /\ \A i, j \in 1 .. Len(eraseTagQ) : eraseTagQ[i] = eraseTagQ[j] => i = j
  /\ tag2block \in [ Tags -> Nat ]
  /\ erasing \subseteq Erase /\ IsFiniteSet(erasing)
  /\ TagsExact

LEMMA EraseN ==
  ASSUME Shaped(script), At("erase")
  PROVE  Head(script).n \in 0 .. NumVirtual - 1
<1>1. Head(script) \in AllSteps /\ script # << >> /\ Head(script).do = "erase"
  BY ShapedIs DEF At
<1>2. Head(script) \in StartSteps
  BY <1>1, StepsAre
<1>3. Head(script) # Wait("cond")
  BY <1>1 DEF Wait, Step
<1>4. Head(script) \in [ do : { "readStatus", "erase", "firsts", "populate" },
                         on : { "", "again" }, n : 0 .. NumVirtual - 1 ]
  BY <1>2, <1>3 DEF StartSteps
<1> QED BY <1>4

LEMMA FirstIn ==
  ASSUME NEW c, NEW st
  PROVE  First(c, st) \in 0 .. Blocks - 1
<1>1. Blocks \in Nat \ {0}
  BY FlashAssumption
<1>2. WithStatus(c, st) \in SUBSET Nat /\ WithStatus(c, st) \subseteq 0 .. Blocks - 1
  BY <1>1 DEF WithStatus
<1>3. WithStatus(c, st) # {} => Min(WithStatus(c, st)) \in WithStatus(c, st)
  BY <1>2, MinIs
<1> QED BY <1>1, <1>2, <1>3 DEF First

LEMMA FoundFinite ==
  ASSUME NEW c
  PROVE  Cardinality({ v \in 0 .. NumFound - 1 : v \div Real = c }) \in Nat
<1>1. NumFound \in 0 .. NumVirtual
  <2> DEFINE N == { v \in 0 .. NumVirtual - 1 : BlockFor(v) < 0 } \cup { NumVirtual }
  <2>1. N \in SUBSET Nat /\ N \subseteq 0 .. NumVirtual /\ N # {}
    BY Positive
  <2>2. Min(N) \in N
    BY <2>1, MinIs
  <2> QED BY <2>1, <2>2 DEF NumFound
<1>2. IsFiniteSet(0 .. NumFound - 1)
  BY <1>1, FS_Interval
<1>3. { v \in 0 .. NumFound - 1 : v \div Real = c } \subseteq 0 .. NumFound - 1
  OBVIOUS
<1> QED BY <1>2, <1>3, FS_Subset, FS_CardinalityType

LEMMA CountTypesKept ==
  ASSUME CountTypes, HostStep
  PROVE  CountTypes'
<1> USE DEF CountTypes
<1>1. CASE ReadStatusFile
  BY <1>1 DEF ReadStatusFile
<1>2. CASE EraseBlock
  BY <1>2 DEF EraseBlock
<1>3. CASE FirstBlocks
  <2>1. \A c \in 0 .. Chips - 1 : First(c, "FRESH") \in Nat /\ First(c, "UNINIT") \in Nat
    <3>1. \A x \in 0 .. Blocks - 1 : x \in Nat
      OBVIOUS
    <3> QED BY <3>1, FirstIn
  <2> QED BY <1>3, <2>1 DEF FirstBlocks
<1>4. CASE Populate
  <2>1. curFresh' = [ c \in 0 .. Chips - 1 |->
          curFresh[c] + Cardinality({ v \in 0 .. NumFound - 1 : v \div Real = c }) ]
    BY <1>4 DEF Populate
  <2>2. \A c \in 0 .. Chips - 1 :
          curFresh[c] + Cardinality({ v \in 0 .. NumFound - 1 : v \div Real = c }) \in Nat
    <3> TAKE c \in 0 .. Chips - 1
    <3>1. Cardinality({ v \in 0 .. NumFound - 1 : v \div Real = c }) \in Nat
      BY FoundFinite
    <3> QED BY <3>1
  <2> QED BY <1>4, <2>1, <2>2 DEF Populate
<1>5. CASE AskDump
  BY <1>5 DEF AskDump
<1>6. CASE WriteStatusFile
  BY <1>6 DEF WriteStatusFile, process
<1>7. CASE DeviceErase(EraseAcked)
  BY <1>7 DEF DeviceErase, EraseAcked
<1>8. CASE DeviceProgram
  BY <1>8 DEF DeviceProgram
<1>9. CASE DeviceDump(DumpAnswered)
  BY <1>9 DEF DeviceDump, DumpAnswered
<1>10. CASE UNCHANGED flash
  BY <1>10 DEF flash, process
<1> QED BY <1>1, <1>2, <1>3, <1>4, <1>5, <1>6, <1>7, <1>8, <1>9, <1>10
        DEF HostStep, FlashMain, FlashDevice

-----------------------------------------------------------------------------
tagVars == << eraseTagQ, tag2block, erasing >>

LEMMA TagsStay ==
  ASSUME TagsKept, UNCHANGED tagVars
  PROVE  TagsKept'
BY DEF TagsKept, TagsExact, tagVars

(* A block is given the oldest idle tag. *)
LEMMA TagTaken ==
  ASSUME TagsKept, CountTypes, Shaped(script), EraseBlock
  PROVE  TagsKept'
<1> DEFINE v == Head(script).n
           chip == v \div Real
           block == ((v % Real) + curUninit[chip]) % Blocks
           t == Head(eraseTagQ)
           e0 == [ tag |-> t, chip |-> chip, block |-> block ]
<1>1. v \in 0 .. NumVirtual - 1
  BY EraseN DEF EraseBlock
<1>2. chip \in 0 .. Chips - 1 /\ v % Real \in Nat
  <2>1. v % Real \in 0 .. Real - 1 /\ Real \in Nat
    BY <1>1, OnChip, FlashAssumption
  <2> QED BY <1>1, <2>1, OnChip
<1>3. block \in 0 .. Blocks - 1
  <2>1. PICK a \in Nat : a = (v % Real) + curUninit[chip]
    BY <1>2 DEF CountTypes
  <2>2. a % Blocks \in 0 .. Blocks - 1
    BY Divided, FlashAssumption
  <2> QED BY <2>1, <2>2
<1>4. /\ eraseTagQ # << >> /\ eraseTagQ' = Tail(eraseTagQ)
      /\ tag2block' = [ tag2block EXCEPT ![t] = RealIndex(chip, block) ]
      /\ erasing' = erasing \cup { e0 }
  BY DEF EraseBlock
<1> HIDE DEF v, chip, block
<1>5. RealIndex(chip, block) \in Nat
  <2>1. chip \in Nat /\ block \in Nat /\ Blocks \in Nat
    BY <1>2, <1>3, FlashAssumption
  <2> QED BY <2>1 DEF RealIndex
<1>6. /\ Len(eraseTagQ) \in Nat \ {0} /\ t = eraseTagQ[1] /\ t \in Tags
      /\ Tail(eraseTagQ) \in Seq(Tags) /\ Len(Tail(eraseTagQ)) = Len(eraseTagQ) - 1
      /\ \A i \in 1 .. Len(eraseTagQ) - 1 : Tail(eraseTagQ)[i] = eraseTagQ[i + 1]
  BY <1>4, TailIs DEF TagsKept
<1>7. /\ ToSet(eraseTagQ) = { t } \cup ToSet(Tail(eraseTagQ))
      /\ ToSet(Tail(eraseTagQ)) = { Tail(eraseTagQ)[i] : i \in 1 .. Len(Tail(eraseTagQ)) }
  <2>1. eraseTagQ \in Seq(Tags)
    BY DEF TagsKept
  <2>2. ToSet(eraseTagQ) = { Head(eraseTagQ) } \cup ToSet(Tail(eraseTagQ))
    BY <1>4, <2>1, SetTail
  <2>3. ToSet(Tail(eraseTagQ)) = { Tail(eraseTagQ)[i] : i \in 1 .. Len(Tail(eraseTagQ)) }
    BY <1>6, SetIs
  <2> QED BY <2>2, <2>3
<1>8. \A i \in 1 .. Len(eraseTagQ) - 1 : i + 1 \in 1 .. Len(eraseTagQ) /\ i + 1 # 1
      /\ 1 \in 1 .. Len(eraseTagQ)
  BY <1>6
<1>9. t \notin ToSet(Tail(eraseTagQ))
  BY <1>6, <1>7, <1>8 DEF TagsKept
<1>10. e0 \in Erase /\ e0.tag = t /\ e0.chip = chip /\ e0.block = block
  BY <1>2, <1>3, <1>6 DEF Erase
<1> HIDE DEF e0, t
<1>11. \A e \in erasing : e.tag # t /\ e.tag \in Tags
  BY <1>7 DEF TagsKept, TagsExact, Erase
<1>12. e0 \notin erasing
  BY <1>10, <1>11
<1>13. IsFiniteSet(erasing') /\ Cardinality(erasing') = Cardinality(erasing) + 1
       /\ Cardinality(erasing) \in Nat
  BY <1>4, <1>12, FS_AddElement, FS_CardinalityType DEF TagsKept
<1>14. Len(eraseTagQ') + Cardinality(erasing') = EraseTags
  BY <1>4, <1>6, <1>13 DEF TagsKept, TagsExact
<1>15. \A i, j \in 1 .. Len(eraseTagQ') : eraseTagQ'[i] = eraseTagQ'[j] => i = j
  BY <1>4, <1>6, <1>8 DEF TagsKept
<1>16. tag2block' \in [ Tags -> Nat ] /\ tag2block'[t] = RealIndex(chip, block)
       /\ \A x \in Tags : x # t => tag2block'[x] = tag2block[x]
  BY <1>4, <1>5, <1>6 DEF TagsKept
<1>17. \A e \in erasing' :
         /\ tag2block'[e.tag] = RealIndex(e.chip, e.block)
         /\ e.tag \notin ToSet(eraseTagQ')
         /\ \A f \in erasing' : e.tag = f.tag => e = f
  <2>1. ASSUME NEW e \in erasing'
        PROVE  tag2block'[e.tag] = RealIndex(e.chip, e.block) /\ e.tag \notin ToSet(eraseTagQ')
    <3>1. CASE e = e0
      BY <1>4, <1>9, <1>10, <1>16, <3>1
    <3>2. CASE e \in erasing
      BY <1>4, <1>7, <1>11, <1>16, <3>2 DEF TagsKept, TagsExact
    <3> QED BY <1>4, <3>1, <3>2
  <2>2. ASSUME NEW e \in erasing', NEW f \in erasing', e.tag = f.tag PROVE e = f
    BY <1>4, <1>10, <1>11, <2>2 DEF TagsKept, TagsExact
  <2> QED BY <2>1, <2>2
<1>18. erasing' \subseteq Erase
  BY <1>4, <1>10 DEF TagsKept
<1> QED BY <1>4, <1>6, <1>13, <1>14, <1>15, <1>16, <1>17, <1>18 DEF TagsKept, TagsExact

(* A tag is given back, and it is the tag of that erase alone. *)
LEMMA TagGivenBack ==
  ASSUME TagsKept, DeviceErase(EraseAcked)
  PROVE  TagsKept'
<1>1. PICK e0 \in erasing : /\ eraseTagQ' = Append(eraseTagQ, e0.tag)
                           /\ erasing' = erasing \ { e0 } /\ tag2block' = tag2block
  BY DEF DeviceErase, EraseAcked
<1>2. e0.tag \in Tags
  BY DEF TagsKept, Erase
<1>3. /\ Len(eraseTagQ) \in Nat /\ eraseTagQ' \in Seq(Tags) /\ Len(eraseTagQ') = Len(eraseTagQ) + 1
      /\ eraseTagQ'[Len(eraseTagQ) + 1] = e0.tag
      /\ \A i \in 1 .. Len(eraseTagQ) : eraseTagQ'[i] = eraseTagQ[i]
  BY <1>1, <1>2, AppendIs DEF TagsKept
<1>4. /\ ToSet(eraseTagQ') = ToSet(eraseTagQ) \cup { e0.tag }
      /\ ToSet(eraseTagQ) = { eraseTagQ[i] : i \in 1 .. Len(eraseTagQ) }
  BY <1>1, <1>2, SetAppend, SetIs DEF TagsKept
<1>5. e0.tag \notin ToSet(eraseTagQ) /\ \A f \in erasing : f.tag = e0.tag => f = e0
  BY DEF TagsKept, TagsExact
<1>6. IsFiniteSet(erasing') /\ Cardinality(erasing') = Cardinality(erasing) - 1
      /\ Cardinality(erasing) \in Nat
  BY <1>1, FS_RemoveElement, FS_CardinalityType DEF TagsKept
<1>7. Len(eraseTagQ') + Cardinality(erasing') = EraseTags
  BY <1>3, <1>6 DEF TagsKept, TagsExact
<1>8. \A i, j \in 1 .. Len(eraseTagQ') : eraseTagQ'[i] = eraseTagQ'[j] => i = j
  <2>1. \A i \in 1 .. Len(eraseTagQ') : i \in 1 .. Len(eraseTagQ) \/ i = Len(eraseTagQ) + 1
    BY <1>3
  <2>2. \A i \in 1 .. Len(eraseTagQ) : eraseTagQ[i] # e0.tag
    BY <1>4, <1>5
  <2> QED BY <1>3, <2>1, <2>2 DEF TagsKept
<1>9. \A e \in erasing' :
        /\ tag2block'[e.tag] = RealIndex(e.chip, e.block)
        /\ e.tag \notin ToSet(eraseTagQ')
        /\ \A f \in erasing' : e.tag = f.tag => e = f
  BY <1>1, <1>4, <1>5 DEF TagsKept, TagsExact
<1> QED BY <1>1, <1>3, <1>6, <1>7, <1>8, <1>9 DEF TagsKept, TagsExact

LEMMA TagsStep ==
  ASSUME TagsKept, CountTypes, Shaped(script), HostStep
  PROVE  TagsKept'
<1> USE DEF tagVars
<1>1. CASE ReadStatusFile
  BY <1>1, TagsStay DEF ReadStatusFile
<1>2. CASE EraseBlock
  BY <1>2, TagTaken
<1>3. CASE FirstBlocks
  BY <1>3, TagsStay DEF FirstBlocks
<1>4. CASE Populate
  BY <1>4, TagsStay DEF Populate
<1>5. CASE AskDump
  BY <1>5, TagsStay DEF AskDump
<1>6. CASE WriteStatusFile
  BY <1>6, TagsStay DEF WriteStatusFile, process
<1>7. CASE DeviceErase(EraseAcked)
  BY <1>7, TagGivenBack
<1>8. CASE DeviceProgram
  BY <1>8, TagsStay DEF DeviceProgram
<1>9. CASE DeviceDump(DumpAnswered)
  BY <1>9, TagsStay DEF DeviceDump
<1>10. CASE UNCHANGED flash
  BY <1>10, TagsStay DEF flash, process
<1> QED BY <1>1, <1>2, <1>3, <1>4, <1>5, <1>6, <1>7, <1>8, <1>9, <1>10
        DEF HostStep, FlashMain, FlashDevice

-----------------------------------------------------------------------------
(* The map. *)

LEMMA FreshIs ==
  ASSUME CountTypes, NEW c \in 0 .. Chips - 1, NEW k \in Nat
  PROVE  /\ NextFresh(c, k) \in -1 .. Blocks - 1
         /\ NextFresh(c, k) >= 0 =>
              /\ NextFresh(c, k) \in WithStatus(c, "FRESH")
              /\ curFresh[c] + k <= NextFresh(c, k)
              /\ \A b \in WithStatus(c, "FRESH") : curFresh[c] + k <= b => NextFresh(c, k) <= b
<1> DEFINE W == WithStatus(c, "FRESH")
           F == { b \in W : b >= SearchFrom(c, k) }
<1>1. Blocks \in Nat \ {0} /\ curFresh[c] + k \in Nat /\ SearchFrom(c, k) = curFresh[c] + k
  BY FlashAssumption DEF CountTypes, SearchFrom
<1>2. W \subseteq 0 .. Blocks - 1
  BY DEF WithStatus
<1>3. NextFresh(c, k) = IF F = {} THEN -1 ELSE Min(F)
  BY DEF NextFresh
<1> HIDE DEF W
<1>4. F \in SUBSET Nat /\ F \subseteq W
  <2>1. F \subseteq W
    OBVIOUS
  <2>2. \A x \in 0 .. Blocks - 1 : x \in Nat
    BY <1>1
  <2> HIDE DEF F
  <2> QED BY <1>2, <2>1, <2>2
<1>5. F # {} => Min(F) \in F /\ \A j \in F : Min(F) <= j
  BY <1>4, MinIs
<1>6. CASE F = {}
  BY <1>1, <1>3, <1>6
<1>7. CASE F # {}
  <2>1. NextFresh(c, k) \in F /\ \A j \in F : NextFresh(c, k) <= j
    BY <1>3, <1>5, <1>7
  <2> HIDE DEF F
  <2>2. NextFresh(c, k) \in 0 .. Blocks - 1
    BY <1>2, <1>4, <2>1
  <2>3. NextFresh(c, k) >= curFresh[c] + k
    BY <1>1, <2>1 DEF F
  <2>4. \A b \in W : b >= curFresh[c] + k => NextFresh(c, k) <= b
    BY <1>1, <2>1 DEF F
  <2>5. \A b \in W : b \in Nat
    BY <1>1, <1>2
  <2> QED BY <1>1, <1>4, <2>1, <2>2, <2>3, <2>4, <2>5 DEF W
<1> QED BY <1>6, <1>7

(* The search has found a block for each virtual block. *)
LEMMA AllFound ==
  ASSUME CountTypes, NumFound = NumVirtual, NEW v \in 0 .. NumVirtual - 1
  PROVE  /\ v \div Real \in 0 .. Chips - 1 /\ v % Real \in Nat
         /\ BlockFor(v) \in 0 .. Blocks - 1
         /\ BlockFor(v) \in WithStatus(v \div Real, "FRESH")
         /\ curFresh[v \div Real] + (v % Real) <= BlockFor(v)
         /\ \A b \in WithStatus(v \div Real, "FRESH") :
              curFresh[v \div Real] + (v % Real) <= b => BlockFor(v) <= b
<1> DEFINE N == { w \in 0 .. NumVirtual - 1 : BlockFor(w) < 0 } \cup { NumVirtual }
<1>1. N \in SUBSET Nat /\ N # {}
  BY Positive
<1>2. \A w \in N : NumVirtual <= w
  BY <1>1, MinIs DEF NumFound
<1>3. ~ (BlockFor(v) < 0)
  <2>1. v \notin N
    BY <1>2, Positive
  <2> QED BY <2>1
<1>4. v \div Real \in 0 .. Chips - 1 /\ v % Real \in Nat
  <2>1. \A x \in 0 .. Real - 1 : x \in Nat
    OBVIOUS
  <2> QED BY <2>1, OnChip
<1>5. BlockFor(v) = NextFresh(v \div Real, v % Real)
  BY DEF BlockFor
<1>6. BlockFor(v) \in -1 .. Blocks - 1
  BY <1>4, <1>5, FreshIs
<1>7. BlockFor(v) >= 0 /\ BlockFor(v) \in 0 .. Blocks - 1
  BY <1>3, <1>6, FlashAssumption
<1>8. NextFresh(v \div Real, v % Real) >= 0
  BY <1>5, <1>7
<1> QED BY <1>4, <1>5, <1>7, <1>8, FreshIs

LEMMA MapIs ==
  ASSUME CountTypes, Populate
  PROVE  \/ map' = map /\ twice' = twice
         \/ /\ NumFound = NumVirtual /\ script' = Tail(script)
            /\ twice' = (twice \/ ~ Injective(map'))
            /\ map' \in [ 1 .. NumVirtual -> 0 .. Blocks - 1 ]
            /\ \A v \in 0 .. NumVirtual - 1 : map'[v + 1] = BlockFor(v)
<1>1. CASE NumFound = NumVirtual
  <2>1. map' = [ i \in 1 .. NumVirtual |-> BlockFor(i - 1) ] /\ script' = Tail(script)
        /\ twice' = (twice \/ ~ Injective(map'))
    BY <1>1 DEF Populate, Next1, blockMapTable
  <2>2. \A i \in 1 .. NumVirtual : i - 1 \in 0 .. NumVirtual - 1
    BY Positive
  <2>3. \A v \in 0 .. NumVirtual - 1 : v + 1 \in 1 .. NumVirtual /\ (v + 1) - 1 = v
    BY Positive
  <2>4. map' \in [ 1 .. NumVirtual -> 0 .. Blocks - 1 ]
    BY <1>1, <2>1, <2>2, AllFound
  <2>5. \A v \in 0 .. NumVirtual - 1 : map'[v + 1] = BlockFor(v)
    BY <2>1, <2>3
  <2> QED BY <1>1, <2>1, <2>4, <2>5
<1>2. CASE NumFound # NumVirtual
  BY <1>2 DEF Populate
<1> QED BY <1>1, <1>2

(* Two virtual blocks of a chip with the same block: the search for the    *)
(* first of them began at a block that is not fresh.                       *)
LEMMA GapBetween ==
  ASSUME CountTypes, NumFound = NumVirtual,
         NEW v \in 0 .. NumVirtual - 1, NEW w \in 0 .. NumVirtual - 1,
         v \div Real = w \div Real, v % Real < w % Real, BlockFor(v) = BlockFor(w)
  PROVE  Gap(v \div Real)
<1> DEFINE c == v \div Real
           h == curFresh[c] + (v % Real)
           W == WithStatus(c, "FRESH")
<1>1. /\ c \in 0 .. Chips - 1 /\ v % Real \in Nat /\ w % Real \in Nat
      /\ BlockFor(v) \in 0 .. Blocks - 1 /\ BlockFor(v) \in W
      /\ \A b \in W : h <= b => BlockFor(v) <= b
      /\ curFresh[c] + (w % Real) <= BlockFor(v)
  BY AllFound
<1>2. curFresh[c] \in Nat
  BY <1>1 DEF CountTypes
<1> HIDE DEF c
<1>3. h \in Nat /\ h < BlockFor(v)
  <2>1. PICK a \in Nat, x \in Nat, y \in Nat : a = curFresh[c] /\ x = v % Real /\ y = w % Real
    BY <1>1, <1>2
  <2> QED BY <1>1, <2>1
<1>4. h \notin W
  BY <1>1, <1>3
<1>5. h \in curFresh[c] .. Blocks - 1
  <2>1. PICK a \in Nat, x \in Nat : a = curFresh[c] /\ x = v % Real
    BY <1>1, <1>2
  <2> QED BY <1>1, <1>3, <2>1, FlashAssumption
<1>6. \E b \in W, i \in curFresh[c] .. Blocks - 1 : i < b /\ i \notin W
  BY <1>1, <1>3, <1>4, <1>5
<1> QED BY <1>6 DEF Gap, c

LEMMA OneBlockPopulated ==
  ASSUME CountTypes, Populate
  PROVE  OneBlockEachUnlessGap
<1> SUFFICES ASSUME map' # map,
                    NEW v \in 0 .. NumVirtual - 1, NEW w \in 0 .. NumVirtual - 1,
                    v # w, At2(map', v) = At2(map', w)
             PROVE  Gap(v \div Real)
  BY DEF OneBlockEachUnlessGap
<1>1. NumFound = NumVirtual /\ \A x \in 0 .. NumVirtual - 1 : map'[x + 1] = BlockFor(x)
  BY MapIs
<1>2. v \div Real = w \div Real /\ BlockFor(v) = BlockFor(w)
  BY <1>1 DEF At2
<1>3. v % Real # w % Real
  BY <1>2, OnChip
<1>4. v % Real \in 0 .. Real - 1 /\ w % Real \in 0 .. Real - 1 /\ Real \in Nat
  BY OnChip, FlashAssumption
<1>5. v % Real < w % Real \/ w % Real < v % Real
  BY <1>3, <1>4
<1> QED BY <1>1, <1>2, <1>5, GapBetween

LEMMA OneBlockStep ==
  ASSUME CountTypes, HostStep
  PROVE  OneBlockEachUnlessGap
<1>1. CASE Populate
  BY <1>1, OneBlockPopulated
<1>2. CASE ~ Populate
  <2>1. map' = map
    BY <1>2, Zenon DEF HostStep, FlashMain, FlashDevice, ReadStatusFile, EraseBlock, FirstBlocks, AskDump,
       WriteStatusFile, DeviceErase, DeviceProgram, DeviceDump, process, flash
  <2> QED BY <2>1 DEF OneBlockEachUnlessGap
<1> QED BY <1>1, <1>2

-----------------------------------------------------------------------------
(* Where a program with flash is in its script. *)

StoreStep == Step("store", "", 0)

(* The steps of the batches. *)
MidSteps == [ do : { "send", "flush", "check" }, on : Ops3, n : Nat ] \cup { Wait("cond_write") }

EraseSteps == [ do : { "erase" }, on : { "" }, n : 0 .. NumVirtual - 1 ]

(* The steps that are left of a program with flash, from a certain one on. *)
Late(s) == \E mid \in Seq(MidSteps) : s = mid \o StoreSteps

AfterInit(s) == s # << >> /\ Head(s) = Wait("cond") /\ Late(Tail(s))

AtInit(s) == s # << >> /\ Head(s) = Step("init", "", 0) /\ AfterInit(Tail(s))

AtGive(s) == s # << >> /\ Head(s) = Give /\ AtInit(Tail(s))

AtPopulate(s) == s # << >> /\ Head(s) = Step("populate", "", 0) /\ AtGive(Tail(s))

AtFirsts(s) == s # << >> /\ Head(s).do = "firsts" /\ AtPopulate(Tail(s))

(* The erase steps that are left when k blocks have been sent. *)
AtErase(s, k) ==
  \E e \in Seq(EraseSteps), w \in Seq(AllSteps) :
    /\ s = e \o w /\ Len(e) = NumVirtual - k
    /\ w # << >> /\ Head(w) = Wait("cond") /\ AtFirsts(Tail(w))

AtRead(s) == s # << >> /\ Head(s).do = "readStatus" /\ AtFirsts(Tail(s))

(* Nothing is mapped yet. *)
Before == map = << >> /\ programmed = {} /\ ~ dumping /\ dumpAcks = 0 /\ ~ asked

(* The flash is brought up.  While it is formatted, the acknowledgements   *)
(* are those of this format, or they have passed the number for which the  *)
(* wait ends.                                                              *)
StartPhase ==
  \/ AtRead(script) /\ erasing = {} /\ eraseAcks = 0
  \/ \E k \in 0 .. NumVirtual :
       /\ AtErase(script, k)
       /\ eraseAcks >= NumVirtual \/ eraseAcks + Cardinality(erasing) = k
  \/ /\ AtFirsts(script) \/ AtPopulate(script)
     /\ erasing = {} /\ (eraseAcks = 0 \/ eraseAcks = NumVirtual)

Mapped == map # << >> /\ erasing = {}

(* The batches, and the end: the statuses are stored when the device has   *)
(* answered for every virtual block.                                       *)
RunPhase ==
  \/ /\ AtGive(script) \/ AtInit(script) \/ AfterInit(script) \/ Late(script)
     /\ ~ dumping /\ dumpAcks = 0 /\ (asked => AfterInit(script))
  \/ script = << Wait("cond"), StoreStep >> /\ ~ asked
  \/ script = << StoreStep >> /\ dumpAcks = NumVirtual /\ ~ asked
  \/ script = << >> /\ ~ asked

Phase == (Before /\ StartPhase) \/ (Mapped /\ RunPhase)

LEMMA Three ==
  ASSUME NEW S, NEW a \in S, NEW b \in S, NEW c \in S
  PROVE  /\ << a, b, c >> # << >> /\ Head(<< a, b, c >>) = a /\ Tail(<< a, b, c >>) = << b, c >>
         /\ << a, b, c >> \in Seq(S) /\ << b, c >> # << >> /\ Head(<< b, c >>) = b /\ Tail(<< b, c >>) = << c >>
         /\ << c >> # << >> /\ Head(<< c >>) = c /\ Tail(<< c >>) = << >>
OBVIOUS
LEMMA One == \A S : \A x \in S : << x >> \in Seq(S)
OBVIOUS
LEMMA EmptyBefore == ASSUME NEW S, NEW s \in Seq(S) PROVE << >> \o s = s
OBVIOUS

LEMMA StepNames ==
  /\ Wait("cond") \in AllSteps /\ Wait("cond").do = "wait" /\ Wait("cond").on = "cond"
  /\ Wait("cond_write").do = "wait" /\ Wait("cond_write").on = "cond_write"
  /\ Step("init", "", 0).do = "init" /\ Step("populate", "", 0).do = "populate"
  /\ Give.do = "give" /\ StoreStep.do = "store" /\ Step("dump", "", 0).do = "dump"
BY DEF Wait, Step, Give, StoreStep, AllSteps, StartSteps

LEMMA LateIs ==
  ASSUME NEW s, Late(s)
  PROVE  /\ s # << >>
         /\ \/ Head(s).do \in { "send", "flush", "check" } /\ Late(Tail(s))
            \/ Head(s).do = "wait" /\ Head(s).on = "cond_write" /\ Late(Tail(s))
            \/ Head(s).do = "dump" /\ Tail(s) = << Wait("cond"), StoreStep >>
<1>1. PICK mid \in Seq(MidSteps) : s = mid \o StoreSteps
  BY DEF Late
<1>2. CASE mid = << >>
  <2> DEFINE S == { Step("dump", "", 0), Wait("cond"), StoreStep }
  <2>0. StoreSteps = << Step("dump", "", 0), Wait("cond"), StoreStep >>
    BY DEF StoreSteps, StoreStep
  <2>3. StoreSteps \in Seq(S) /\ StoreSteps # << >> /\ Head(StoreSteps) = Step("dump", "", 0)
        /\ Tail(StoreSteps) = << Wait("cond"), StoreStep >>
    <3>1. Step("dump", "", 0) \in S /\ Wait("cond") \in S /\ StoreStep \in S
      OBVIOUS
    <3> HIDE DEF S
    <3>2. ASSUME NEW a \in S, NEW b \in S, NEW c \in S, StoreSteps = << a, b, c >>
          PROVE  StoreSteps \in Seq(S) /\ StoreSteps # << >> /\ Head(StoreSteps) = a
                 /\ Tail(StoreSteps) = << b, c >>
      BY <3>2, Three
    <3> QED BY <2>0, <3>1, <3>2
  <2>1. s = StoreSteps
    BY <1>1, <1>2, <2>3, EmptyBefore
  <2>2. s # << >> /\ Head(s) = Step("dump", "", 0) /\ Tail(s) = << Wait("cond"), StoreStep >>
    BY <2>1, <2>3
  <2> QED BY <2>2, StepNames
<1>3. CASE mid # << >>
  <2> DEFINE S == MidSteps \cup { Step("dump", "", 0), Wait("cond"), StoreStep }
  <2>1. mid \in Seq(S) /\ StoreSteps \in Seq(S)
    <3>1. mid \in Seq(S)
      BY Longer
    <3>2. StoreSteps = << Step("dump", "", 0), Wait("cond"), StoreStep >>
      BY DEF StoreSteps, StoreStep
    <3>3. StoreSteps \in Seq(S)
      BY <3>2, Three
    <3> QED BY <3>1, <3>3
  <2> HIDE DEF S
  <2>2. s # << >> /\ Head(s) = Head(mid) /\ Tail(s) = Tail(mid) \o StoreSteps
    BY <1>1, <1>3, <2>1, ConcatTail
  <2>3. Head(mid) \in MidSteps /\ Tail(mid) \in Seq(MidSteps)
    BY <1>3, TailIs
  <2>4. Late(Tail(s))
    BY <2>2, <2>3 DEF Late
  <2>5. CASE Head(mid) = Wait("cond_write")
    BY <2>2, <2>4, <2>5, StepNames
  <2>6. CASE Head(mid) # Wait("cond_write")
    <3>1. Head(mid).do \in { "send", "flush", "check" }
      BY <2>3, <2>6 DEF MidSteps
    <3> QED BY <2>2, <2>4, <3>1
  <2> QED BY <2>5, <2>6
<1> QED BY <1>2, <1>3

LEMMA EraseIs ==
  ASSUME NEW s, NEW k \in 0 .. NumVirtual, AtErase(s, k)
  PROVE  /\ s # << >>
         /\ \/ Head(s).do = "erase" /\ k + 1 \in 0 .. NumVirtual /\ AtErase(Tail(s), k + 1)
            \/ Head(s) = Wait("cond") /\ k = NumVirtual /\ AtFirsts(Tail(s))
<1>1. PICK e \in Seq(EraseSteps), w \in Seq(AllSteps) :
        /\ s = e \o w /\ Len(e) = NumVirtual - k
        /\ w # << >> /\ Head(w) = Wait("cond") /\ AtFirsts(Tail(w))
  BY DEF AtErase
<1>2. EraseSteps \subseteq AllSteps
  BY DEF EraseSteps, AllSteps, StartSteps
<1>3. e \in Seq(AllSteps)
  BY <1>2, Longer
<1>4. NumVirtual \in Nat
  BY Positive
<1>5. CASE e = << >>
  <2>1. s = w /\ Len(e) = 0
    BY <1>1, <1>5
  <2>2. k = NumVirtual
    BY <1>1, <1>4, <2>1
  <2> QED BY <1>1, <2>1, <2>2
<1>6. CASE e # << >>
  <2>1. s # << >> /\ Head(s) = Head(e) /\ Tail(s) = Tail(e) \o w
    BY <1>1, <1>3, <1>6, ConcatTail
  <2>2. Head(e) \in EraseSteps /\ Tail(e) \in Seq(EraseSteps) /\ Len(e) \in Nat \ {0}
        /\ Len(Tail(e)) = Len(e) - 1
    BY <1>6, TailIs
  <2>3. k + 1 \in 0 .. NumVirtual /\ Len(Tail(e)) = NumVirtual - (k + 1)
    BY <1>1, <1>4, <2>2
  <2>4. AtErase(Tail(s), k + 1)
    BY <1>1, <2>1, <2>2, <2>3 DEF AtErase
  <2>5. Head(s).do = "erase"
    BY <2>1, <2>2 DEF EraseSteps
  <2> QED BY <2>1, <2>3, <2>4, <2>5
<1> QED BY <1>5, <1>6

(* A format before the steps w. *)
LEMMA EraseBegins ==
  ASSUME NEW w \in Seq(AllSteps), AtFirsts(w)
  PROVE  AtErase(EraseAll \o w, 0)
<1> DEFINE e == [ i \in 1 .. NumVirtual |-> Step("erase", "", i - 1) ]
           q == Wait("cond")
           x == << q >> \o w
<1>1. NumVirtual \in Nat \ {0}
  BY Positive
<1>2. e \in [ 1 .. NumVirtual -> EraseSteps ]
  <2>1. \A i \in 1 .. NumVirtual : i - 1 \in 0 .. NumVirtual - 1
    BY <1>1
  <2>2. ASSUME NEW k \in 0 .. NumVirtual - 1 PROVE Step("erase", "", k) \in EraseSteps
    BY DEF EraseSteps, Step
  <2> QED BY <2>1, <2>2
<1>3. e \in Seq(EraseSteps) /\ Len(e) = NumVirtual
  BY <1>1, <1>2, MapSeq
<1>0. q \in AllSteps
  BY StepNames
<1>5. EraseAll = e \o << q >>
  BY DEF EraseAll, e
<1> HIDE DEF e, q
<1>4. /\ x \in Seq(AllSteps) /\ x # << >> /\ Head(x) = q /\ Tail(x) = w
  BY <1>0, Cons1
<1> HIDE DEF x
<1>6. e \in Seq(AllSteps) /\ << q >> \in Seq(AllSteps)
  <2>1. EraseSteps \subseteq AllSteps
    BY DEF EraseSteps, AllSteps, StartSteps
  <2>2. << q >> \in Seq(AllSteps)
    BY <1>0, One
  <2> QED BY <1>3, <2>1, <2>2, Longer
<1>7. EraseAll \o w = e \o x
  <2>1. (e \o << q >>) \o w = e \o (<< q >> \o w)
    BY <1>6, ConcatAssociative
  <2> QED BY <1>5, <2>1 DEF x
<1>8. Len(e) = NumVirtual - 0 /\ Head(x) = Wait("cond") /\ AtFirsts(Tail(x))
  <2>1. Len(e) = NumVirtual - 0
    BY <1>1, <1>3
  <2>2. Head(x) = Wait("cond")
    BY <1>4 DEF q
  <2>3. AtFirsts(Tail(x))
    BY <1>4
  <2> QED BY <2>1, <2>2, <2>3
<1> QED BY <1>3, <1>4, <1>7, <1>8 DEF AtErase

(* The step at which each phase is. *)
LEMMA Heads ==
  /\ \A s : AtRead(s) => s # << >> /\ Head(s).do = "readStatus" /\ AtFirsts(Tail(s))
  /\ \A s : AtFirsts(s) => s # << >> /\ Head(s).do = "firsts" /\ AtPopulate(Tail(s))
  /\ \A s : AtPopulate(s) => s # << >> /\ Head(s).do = "populate" /\ AtGive(Tail(s))
  /\ \A s : AtGive(s) => s # << >> /\ Head(s).do = "give" /\ AtInit(Tail(s))
  /\ \A s : AtInit(s) => s # << >> /\ Head(s).do = "init" /\ AfterInit(Tail(s))
  /\ \A s : AfterInit(s) =>
       s # << >> /\ Head(s).do = "wait" /\ Head(s).on = "cond" /\ Late(Tail(s))
BY StepNames, Zenon DEF AtRead, AtFirsts, AtPopulate, AtGive, AtInit, AfterInit

LEMMA Primed ==
  /\ AtRead(script)' <=> AtRead(script')
  /\ AtFirsts(script)' <=> AtFirsts(script')
  /\ AtPopulate(script)' <=> AtPopulate(script')
  /\ AtGive(script)' <=> AtGive(script')
  /\ AtInit(script)' <=> AtInit(script')
  /\ AfterInit(script)' <=> AfterInit(script')
  /\ Late(script)' <=> Late(script')
  /\ \A k \in 0 .. NumVirtual : AtErase(script, k)' <=> AtErase(script', k)
BY DEF AtRead, AtErase, AtFirsts, AtPopulate, AtGive, AtInit, AfterInit, Late

-----------------------------------------------------------------------------
(* What a step of the batches does to the script of a program with flash. *)

ScriptStays == script' = script /\ asked' = asked

StepDone(dos) == script # << >> /\ Head(script).do \in dos /\ script' = Tail(script)

BatchMoves ==
  \/ ScriptStays
  \/ StepDone({ "init" }) /\ asked' = TRUE
  \/ asked /\ asked' = FALSE /\ script' = script
  \/ asked /\ asked' = FALSE /\ StepDone({ "wait" }) /\ Head(script).on = "cond"
  \/ asked' = asked /\ StepDone({ "give", "send", "flush", "check", "poll" })
  \/ asked' = asked /\ StepDone({ "wait" }) /\ Head(script).on = "cond_write"

LEMMA BatchMovesMain ==
  ASSUME InStep, AskInit \/ GiveBuffers \/ Sleep \/ Writing \/ Polled
  PROVE  BatchMoves
<1> USE DEF BatchMoves, ScriptStays, StepDone, At
<1>1. CASE AskInit
  BY <1>1 DEF AskInit
<1>2. CASE GiveBuffers
  BY <1>2 DEF GiveBuffers
<1>3. CASE Sleep
  BY <1>3 DEF Sleep
<1>4. CASE BeginWrite("send", "SET") \/ BeginWrite("send", "GET") \/ BeginWrite("flush", "EOM")
  BY <1>4 DEF BeginWrite
<1>5. CASE WriteRest
  BY <1>5 DEF WriteRest, Written, InStep
<1>6. CASE WriteFull
  BY <1>6 DEF WriteFull
<1>7. CASE WriteGetBuffer(TakeReadBuffer)
  BY <1>7 DEF WriteGetBuffer, Written, InStep
<1>8. CASE FlushSend
  BY <1>8 DEF FlushSend, InStep
<1>9. CASE FlushGetBuffer(TakeReadBuffer)
  BY <1>9 DEF FlushGetBuffer, InStep
<1>10. CASE Polled
  BY <1>10 DEF Polled
<1> QED BY <1>1, <1>2, <1>3, <1>4, <1>5, <1>6, <1>7, <1>8, <1>9, <1>10 DEF Writing

LEMMA BatchMovesRest ==
  ASSUME InStep, Checking, Device \/ Reading
  PROVE  BatchMoves
<1> USE DEF BatchMoves, ScriptStays, StepDone
<1>1. CASE InitDone
  <2>1. asked /\ asked' = FALSE /\ Signal("cond")
    BY <1>1 DEF InitDone
  <2> QED BY <2>1, SignalMoves
<1>2. CASE ReadBufferDone \/ WriteBufferDone \/ DeviceRead \/ doDMAWrite
  BY <1>2 DEF ReadBufferDone, WriteBufferDone, DeviceRead, doDMAWrite
<1>3. ASSUME NEW i \in 1 .. Len(devQ), NEW body \in BodySizes \cup {0}, Answer(i, body)
      PROVE  ScriptStays
  BY <1>3 DEF Answer
<1>4. CASE ReadRest(Reads) \/ ReadFull(Reads) \/ DropWriteBuffer \/ FrontWriteBuffer
           \/ HandleValueFollows
  BY <1>4 DEF ReadRest, ReadFull, DropWriteBuffer, FrontWriteBuffer, HandleValueFollows
<1>5. ASSUME dpc = "handle", Noticed
      PROVE  script' = script \/ StepDone({ "check" })
  BY <1>5 DEF Noticed, Checking, At
<1>6. CASE HandleAnswer(Noticed)
  <2>1. dpc = "handle" /\ Noticed /\ asked' = asked
    BY <1>6 DEF HandleAnswer
  <2> QED BY <1>5, <2>1
<1>7. CASE HandleEom(SkipPadding, EomNoticed)
  <2>1. dpc = "handle" /\ asked' = asked /\ (Noticed \/ Signal("cond_write"))
    BY <1>7 DEF HandleEom, EomNoticed
  <2> QED BY <1>5, <2>1, SignalMoves
<1> QED BY <1>1, <1>2, <1>3, <1>4, <1>6, <1>7 DEF Device, Reading

-----------------------------------------------------------------------------
LEMMA StartBatch ==
  ASSUME Before, StartPhase, BatchMoves, UNCHANGED flash
  PROVE  (Before /\ StartPhase)'
<1>1. script # << >> /\ (Head(script).do = "wait" => Head(script).on = "cond")
      /\ Head(script).do \in { "readStatus", "erase", "wait", "firsts", "populate" }
  BY Heads, EraseIs, StepNames, Zenon DEF StartPhase
<1>2. ScriptStays
  BY <1>1 DEF BatchMoves, StepDone, Before
<1> QED BY <1>2, Primed DEF ScriptStays, Before, StartPhase, flash, process

(* How far the script of a process that has mapped its blocks is. *)
Batches == AtGive(script) \/ AtInit(script) \/ AfterInit(script) \/ Late(script)

LEMMA BatchesMove ==
  ASSUME Batches, asked => AfterInit(script), BatchMoves
  PROVE  Batches' /\ (asked => AfterInit(script))'
<1>1. CASE ScriptStays
  BY <1>1, Primed DEF Batches, ScriptStays
<1>2. CASE asked /\ asked' = FALSE /\ script' = script
  BY <1>2, Primed DEF Batches
<1>3. CASE AtGive(script) /\ ~ asked /\ ~ ScriptStays
  <2>1. script' = Tail(script) /\ AtInit(Tail(script)) /\ asked' = asked
    BY <1>3, Heads DEF BatchMoves, StepDone
  <2> QED BY <1>3, <2>1, Primed DEF Batches
<1>4. CASE AtInit(script) /\ ~ asked /\ ~ ScriptStays
  <2>1. script' = Tail(script) /\ AfterInit(Tail(script))
    BY <1>4, Heads DEF BatchMoves, StepDone
  <2> QED BY <2>1, Primed DEF Batches
<1>5. CASE AfterInit(script) /\ ~ ScriptStays /\ ~ (asked /\ asked' = FALSE /\ script' = script)
  <2>1. script' = Tail(script) /\ Late(Tail(script)) /\ asked' = FALSE
    BY <1>5, Heads DEF BatchMoves, StepDone
  <2> QED BY <2>1, Primed DEF Batches
<1>6. CASE Late(script) /\ ~ asked /\ ~ ScriptStays
  <2>1. script' = Tail(script) /\ Late(Tail(script)) /\ asked' = asked
    BY <1>6, LateIs DEF BatchMoves, StepDone
  <2> QED BY <1>6, <2>1, Primed DEF Batches
<1> QED BY <1>1, <1>2, <1>3, <1>4, <1>5, <1>6 DEF Batches

LEMMA RunBatch ==
  ASSUME Mapped, RunPhase, BatchMoves, UNCHANGED flash
  PROVE  (Mapped /\ RunPhase)'
<1>1. Mapped' /\ dumpAcks' = dumpAcks /\ dumping' = dumping
  BY DEF Mapped, flash, process
<1>2. CASE Batches /\ ~ dumping /\ dumpAcks = 0 /\ (asked => AfterInit(script))
  <2>1. Batches' /\ (asked => AfterInit(script))'
    BY <1>2, BatchesMove
  <2> QED BY <1>1, <1>2, <2>1 DEF RunPhase, Batches
<1>3. CASE script = << Wait("cond"), StoreStep >> /\ ~ asked
  <2>1. Head(script) = Wait("cond")
    BY <1>3
  <2>2. ScriptStays
    BY <1>3, <2>1, StepNames DEF BatchMoves, StepDone
  <2> QED BY <1>1, <1>3, <2>2 DEF RunPhase, ScriptStays, StoreStep, Wait, Step
<1>4. CASE script = << StoreStep >> /\ dumpAcks = NumVirtual /\ ~ asked
  <2>1. Head(script) = StoreStep
    BY <1>4
  <2>2. ScriptStays
    BY <1>4, <2>1, StepNames DEF BatchMoves, StepDone
  <2> QED BY <1>1, <1>4, <2>2 DEF RunPhase, ScriptStays, StoreStep, Step, NumVirtual
<1>5. CASE script = << >> /\ ~ asked
  <2>1. ScriptStays
    BY <1>5 DEF BatchMoves, StepDone
  <2> QED BY <1>1, <1>5, <2>1 DEF RunPhase, ScriptStays
<1> QED BY <1>2, <1>3, <1>4, <1>5 DEF RunPhase, Batches

-----------------------------------------------------------------------------
(* The step at which the script is tells the phase. *)

AcksFor(k) == eraseAcks >= NumVirtual \/ eraseAcks + Cardinality(erasing) = k

AcksDone == erasing = {} /\ (eraseAcks = 0 \/ eraseAcks = NumVirtual)

LEMMA StartAt ==
  ASSUME Before, StartPhase
  PROVE  /\ script # << >>
         /\ Head(script).do \in { "readStatus", "erase", "wait", "firsts", "populate" }
         /\ Head(script).do = "readStatus" => AtRead(script) /\ erasing = {} /\ eraseAcks = 0
         /\ Head(script).do = "erase" => \E k \in 0 .. NumVirtual :
              k + 1 \in 0 .. NumVirtual /\ AtErase(Tail(script), k + 1) /\ AcksFor(k)
         /\ Head(script).do = "firsts" => AtPopulate(Tail(script)) /\ AcksDone
         /\ Head(script).do = "populate" =>
              AtPopulate(script) /\ AtGive(Tail(script)) /\ AcksDone
<1>1. CASE AtRead(script) /\ erasing = {} /\ eraseAcks = 0
  BY <1>1, Heads
<1>2. ASSUME NEW k \in 0 .. NumVirtual, AtErase(script, k), AcksFor(k)
      PROVE  /\ script # << >> /\ Head(script).do \in { "erase", "wait" }
             /\ Head(script).do = "erase" =>
                  k + 1 \in 0 .. NumVirtual /\ AtErase(Tail(script), k + 1)
  BY <1>2, EraseIs, StepNames
<1>3. CASE \E k \in 0 .. NumVirtual : AtErase(script, k) /\ AcksFor(k)
  BY <1>2, <1>3
<1>4. CASE AtFirsts(script) /\ AcksDone
  BY <1>4, Heads
<1>5. CASE AtPopulate(script) /\ AcksDone
  BY <1>5, Heads
<1> QED BY <1>1, <1>3, <1>4, <1>5 DEF StartPhase, AcksFor, AcksDone

LEMMA RunAt ==
  ASSUME Mapped, RunPhase, script # << >>
  PROVE  /\ Head(script).do \in { "give", "init", "wait", "send", "flush", "check", "dump", "store" }
         /\ Head(script).do = "dump" =>
              /\ Tail(script) = << Wait("cond"), StoreStep >>
              /\ ~ dumping /\ dumpAcks = 0 /\ ~ asked
         /\ Head(script).do = "store" =>
              Tail(script) = << >> /\ dumpAcks = NumVirtual /\ ~ asked
<1>1. CASE Batches /\ ~ dumping /\ dumpAcks = 0 /\ (asked => AfterInit(script))
  <2>1. CASE Late(script)
    BY <1>1, <2>1, LateIs, Heads
  <2>2. CASE AtGive(script) \/ AtInit(script) \/ AfterInit(script)
    BY <2>2, Heads
  <2> QED BY <1>1, <2>1, <2>2 DEF Batches
<1>2. CASE script = << Wait("cond"), StoreStep >> /\ ~ asked
  <2>1. Head(script) = Wait("cond")
    BY <1>2
  <2> QED BY <2>1, StepNames
<1>3. CASE script = << StoreStep >> /\ dumpAcks = NumVirtual /\ ~ asked
  <2>1. Head(script) = StoreStep /\ Tail(script) = << >>
    BY <1>3
  <2> QED BY <1>3, <2>1, StepNames
<1> QED BY <1>1, <1>2, <1>3 DEF RunPhase, Batches

-----------------------------------------------------------------------------
LEMMA ReadPhase ==
  ASSUME Shape, Phase, ReadStatusFile
  PROVE  Phase'
<1>1. script # << >> /\ Head(script).do = "readStatus"
  BY DEF ReadStatusFile, At
<1>2. Before /\ AtRead(script) /\ erasing = {} /\ eraseAcks = 0
  BY <1>1, StartAt, RunAt DEF Phase
<1>3. Before' /\ erasing' = {} /\ eraseAcks' = 0
  BY <1>2 DEF ReadStatusFile, Before
<1>4. AtFirsts(Tail(script))
  BY <1>2, Heads
<1>5. CASE script' = Tail(script)
  <2>1. AtFirsts(script')
    BY <1>4, <1>5
  <2> QED BY <1>3, <2>1, Primed DEF Phase, StartPhase
<1>6. CASE script' = EraseAll \o Tail(script)
  <2>1. Tail(script) \in Seq(AllSteps)
    BY <1>1, ShapedIs, TailIs DEF Shape
  <2>2. AtErase(script', 0)
    BY <1>4, <1>6, <2>1, EraseBegins
  <2>3. 0 \in 0 .. NumVirtual /\ Cardinality(erasing') = 0
    BY <1>3, Positive, FS_EmptySet
  <2>4. AtErase(script, 0)' /\ eraseAcks' + Cardinality(erasing') = 0
    BY <1>3, <2>2, <2>3, Primed
  <2>5. StartPhase'
    BY <2>3, <2>4 DEF StartPhase
  <2> QED BY <1>3, <2>5 DEF Phase
<1> QED BY <1>5, <1>6 DEF ReadStatusFile

LEMMA ErasePhase ==
  ASSUME Shape, CountTypes, TagsKept, TagsKept', Phase, EraseBlock
  PROVE  Phase'
<1>1. script # << >> /\ Head(script).do = "erase" /\ script' = Tail(script)
  BY DEF EraseBlock, At, Next1
<1>2. Before /\ StartPhase
  BY <1>1, RunAt DEF Phase
<1>3. PICK k \in 0 .. NumVirtual :
        k + 1 \in 0 .. NumVirtual /\ AtErase(Tail(script), k + 1) /\ AcksFor(k)
  BY <1>1, <1>2, StartAt
<1>4. Before' /\ eraseAcks' = eraseAcks
  BY <1>2 DEF EraseBlock, Before
<1>5. Cardinality(erasing') = Cardinality(erasing) + 1
  <2>1. eraseTagQ # << >> /\ eraseTagQ' = Tail(eraseTagQ) /\ eraseTagQ \in Seq(Tags)
    BY SMTT(30) DEF EraseBlock, TagsKept
  <2>2. Len(eraseTagQ') = Len(eraseTagQ) - 1 /\ Len(eraseTagQ) \in Nat
    BY <2>1, TailIs
  <2>3. Cardinality(erasing) \in Nat /\ Cardinality(erasing') \in Nat
    BY FS_CardinalityType DEF TagsKept
  <2>4. Len(eraseTagQ) + Cardinality(erasing) = EraseTags
    BY DEF TagsKept, TagsExact
  <2>5. Len(eraseTagQ') + Cardinality(erasing') = EraseTags
    BY DEF TagsKept, TagsExact
  <2> QED BY <2>2, <2>3, <2>4, <2>5
<1>6. eraseAcks' >= NumVirtual \/ eraseAcks' + Cardinality(erasing') = k + 1
  <2>1. Cardinality(erasing) \in Nat /\ eraseAcks \in Nat
    BY FS_CardinalityType DEF TagsKept, CountTypes
  <2> QED BY <1>3, <1>4, <1>5, <2>1, SMTT(30) DEF AcksFor
<1>7. AtErase(script, k + 1)'
  BY <1>1, <1>3, Primed
<1>8. StartPhase'
  BY <1>3, <1>6, <1>7 DEF StartPhase
<1> QED BY <1>4, <1>8 DEF Phase

LEMMA FirstsPhase ==
  ASSUME Phase, FirstBlocks
  PROVE  Phase'
<1>1. script # << >> /\ Head(script).do = "firsts" /\ script' = Tail(script)
  BY DEF FirstBlocks, At, Next1
<1>2. Before /\ AtPopulate(Tail(script)) /\ AcksDone
  BY <1>1, StartAt, RunAt DEF Phase
<1>3. Before' /\ AtPopulate(script') /\ erasing' = {} /\ (eraseAcks' = 0 \/ eraseAcks' = NumVirtual)
  BY <1>1, <1>2 DEF FirstBlocks, Before, AcksDone
<1> QED BY <1>3, Primed DEF Phase, StartPhase, NumVirtual

(* The format after a search that failed. *)
LEMMA FormatAgain ==
  ASSUME Shaped(script), AtPopulate(script)
  PROVE  AtErase(EraseAll \o << Step("firsts", "again", 0) >> \o script, 0)
<1> DEFINE f == Step("firsts", "again", 0)
           w == << f >> \o script
<1>1. f \in AllSteps /\ f.do = "firsts"
  BY Positive DEF AllSteps, StartSteps, Step
<1>2. script \in Seq(AllSteps)
  BY ShapedIs
<1>3. EraseAll \in Seq(AllSteps)
  BY EraseAllIs, Longer DEF AllSteps
<1> HIDE DEF f
<1>4. w \in Seq(AllSteps) /\ w # << >> /\ Head(w) = f /\ Tail(w) = script
  BY <1>1, <1>2, Cons1
<1>5. AtFirsts(w)
  BY <1>1, <1>4 DEF AtFirsts
<1>6. EraseAll \o << f >> \o script = EraseAll \o w
  <2>1. << f >> \in Seq(AllSteps)
    BY <1>1, One
  <2> QED BY <1>2, <1>3, <2>1, ConcatAssociative
<1> HIDE DEF w
<1> QED BY <1>4, <1>5, <1>6, EraseBegins DEF f

LEMMA PopulatePhase ==
  ASSUME Shape, CountTypes, Phase, Populate
  PROVE  Phase'
<1>1. script # << >> /\ Head(script).do = "populate"
  BY DEF Populate, At
<1>2. Before /\ AtPopulate(script) /\ AtGive(Tail(script)) /\ AcksDone
  BY <1>1, StartAt, RunAt DEF Phase
<1>3. erasing' = {} /\ eraseAcks' = eraseAcks /\ programmed' = {} /\ dumping' = FALSE
      /\ dumpAcks' = 0 /\ asked' = FALSE
  BY <1>2 DEF Populate, Before, AcksDone
<1>4. CASE NumFound = NumVirtual
  <2>1. script' = Tail(script) /\ map' \in [ 1 .. NumVirtual -> 0 .. Blocks - 1 ]
    <3>1. script' = Tail(script) /\ map' = blockMapTable
      BY <1>4 DEF Populate, Next1
    <3>2. map' \in [ 1 .. NumVirtual -> 0 .. Blocks - 1 ]
      <4>1. \A i \in 1 .. NumVirtual : i - 1 \in 0 .. NumVirtual - 1
        BY Positive
      <4> QED BY <1>4, <3>1, <4>1, AllFound DEF blockMapTable
    <3> QED BY <3>1, <3>2
  <2>2. map' # << >>
    <3>1. Len(map') = NumVirtual /\ NumVirtual # 0
      BY <2>1, Positive, MapSeq
    <3> QED BY <3>1
  <2>3. AtGive(script)'
    BY <1>2, <2>1, Primed
  <2> QED BY <1>3, <2>2, <2>3 DEF Phase, Mapped, RunPhase
<1>5. CASE NumFound # NumVirtual
  <2>1. map' = map /\ script' = EraseAll \o << Step("firsts", "again", 0) >> \o script
    BY <1>5 DEF Populate
  <2>2. Before'
    BY <1>2, <1>3, <2>1 DEF Before
  <2>9. AtErase(script', 0)
    BY <1>2, <2>1, FormatAgain DEF Shape
  <2>10. 0 \in 0 .. NumVirtual /\ Cardinality(erasing') = 0
    BY <1>3, Positive, FS_EmptySet
  <2>11. eraseAcks' >= NumVirtual \/ eraseAcks' + Cardinality(erasing') = 0
    BY <1>2, <1>3, <2>10, Positive DEF AcksDone
  <2>12. AtErase(script, 0)'
    BY <2>9, <2>10, Primed
  <2>13. StartPhase'
    BY <2>10, <2>11, <2>12 DEF StartPhase
  <2> QED BY <2>2, <2>13 DEF Phase
<1> QED BY <1>4, <1>5

LEMMA EndPhase ==
  ASSUME Phase, AskDump \/ DeviceProgram \/ WriteStatusFile
  PROVE  Phase'
<1>1. CASE AskDump
  <2>1. script # << >> /\ Head(script).do = "dump" /\ script' = Tail(script)
    BY <1>1 DEF AskDump, At, Next1
  <2>2. Mapped /\ Tail(script) = << Wait("cond"), StoreStep >> /\ ~ asked
    BY <2>1, StartAt, RunAt DEF Phase
  <2>3. Mapped' /\ script' = << Wait("cond"), StoreStep >> /\ ~ asked'
    BY <1>1, <2>1, <2>2 DEF AskDump, Mapped
  <2> QED BY <2>3 DEF Phase, RunPhase, StoreStep, Wait, Step
<1>2. CASE DeviceProgram
  <2>1. script # << >> /\ Head(script).do = "dump"
    BY <1>2 DEF DeviceProgram, At
  <2>2. Mapped /\ RunPhase
    BY <2>1, StartAt DEF Phase
  <2>3. UNCHANGED << script, asked, map, erasing, dumping, dumpAcks >>
    BY <1>2 DEF DeviceProgram, batch
  <2> QED BY <2>2, <2>3, Primed DEF Phase, Mapped, RunPhase, StoreStep, Wait, Step, NumVirtual
<1>3. CASE WriteStatusFile
  <2>1. script # << >> /\ Head(script).do = "store" /\ script' = Tail(script)
    BY <1>3 DEF WriteStatusFile, At, Next1
  <2>2. Mapped /\ Tail(script) = << >> /\ ~ asked
    BY <2>1, StartAt, RunAt DEF Phase
  <2>3. Mapped' /\ script' = << >> /\ ~ asked'
    BY <1>3, <2>1, <2>2 DEF WriteStatusFile, Mapped, process
  <2> QED BY <2>3 DEF Phase, RunPhase
<1> QED BY <1>1, <1>2, <1>3

LEMMA ErasedPhase ==
  ASSUME InStep, CountTypes, TagsKept, Phase, DeviceErase(EraseAcked)
  PROVE  Phase'
<1>1. PICK e \in erasing : /\ erasing' = erasing \ { e } /\ eraseAcks' = eraseAcks + 1
                          /\ IF eraseAcks' = NumVirtual THEN Signal("cond")
                             ELSE UNCHANGED << pc, script, unheard >>
  BY DEF DeviceErase, EraseAcked
<1>2. Before /\ StartPhase
  BY <1>1 DEF Phase, Mapped
<1>3. PICK k \in 0 .. NumVirtual : AtErase(script, k) /\ AcksFor(k)
  BY <1>1, <1>2 DEF StartPhase, AcksFor
<1>4. Before'
  BY <1>2 DEF DeviceErase, Before
<1>5. Cardinality(erasing') = Cardinality(erasing) - 1 /\ Cardinality(erasing) \in Nat
      /\ IsFiniteSet(erasing') /\ eraseAcks \in Nat /\ NumVirtual \in Nat
  BY <1>1, FS_RemoveElement, FS_CardinalityType, FS_Subset, Positive DEF TagsKept, CountTypes
<1>6. AcksFor(k)'
  <2>1. eraseAcks' >= NumVirtual \/ eraseAcks' + Cardinality(erasing') = k
    BY <1>1, <1>3, <1>5 DEF AcksFor
  <2> QED BY <2>1 DEF AcksFor, NumVirtual
<1>7. CASE script' = script
  <2>1. AtErase(script, k)'
    BY <1>3, <1>7, Primed
  <2>2. StartPhase'
    BY <1>6, <2>1 DEF StartPhase, AcksFor, NumVirtual
  <2> QED BY <1>4, <2>2 DEF Phase
<1>8. CASE script' # script
  <2>1. eraseAcks' = NumVirtual /\ pc = "asleep" /\ script # << >>
        /\ Head(script).do = "wait" /\ script' = Tail(script)
    BY <1>1, <1>8, SignalMoves
  <2>2. k = NumVirtual /\ AtFirsts(Tail(script))
    BY <1>3, <2>1, EraseIs
  <2>3. Cardinality(erasing') = 0
    BY <1>1, <1>3, <1>5, <2>1, <2>2 DEF AcksFor
  <2>4. erasing' = {}
    BY <1>5, <2>3, FS_EmptySet
  <2>5. AtFirsts(script)'
    BY <2>1, <2>2, Primed
  <2>6. StartPhase'
    BY <2>1, <2>4, <2>5 DEF StartPhase, NumVirtual
  <2> QED BY <1>4, <2>6 DEF Phase
<1> QED BY <1>7, <1>8

LEMMA DumpPhase ==
  ASSUME InStep, Phase, DeviceDump(DumpAnswered)
  PROVE  Phase'
<1>1. dumping /\ dumpAcks < NumVirtual /\ dumpAcks' = dumpAcks + 1
      /\ IF dumpAcks' = NumVirtual THEN Signal("cond") ELSE UNCHANGED << pc, script, unheard >>
  BY DEF DeviceDump, DumpAnswered
<1>2. Mapped' /\ asked' = asked /\ Mapped
  BY <1>1 DEF DeviceDump, Phase, Mapped, Before
<1>3. \/ script = << Wait("cond"), StoreStep >> /\ ~ asked
      \/ script = << >> /\ ~ asked
  BY <1>1, Positive DEF Phase, RunPhase, Before
<1>4. CASE script = << Wait("cond"), StoreStep >> /\ script' = script
  BY <1>2, <1>3, <1>4 DEF Phase, RunPhase, StoreStep, Wait, Step
<1>5. CASE script = << Wait("cond"), StoreStep >> /\ script' # script
  <2>1. dumpAcks' = NumVirtual /\ script' = Tail(script)
    BY <1>1, <1>5, SignalMoves
  <2>2. script' = << StoreStep >>
    BY <1>5, <2>1
  <2> QED BY <1>2, <1>3, <2>1, <2>2 DEF Phase, RunPhase, StoreStep, Step, NumVirtual
<1>6. CASE script = << >>
  <2>1. script' = script
    BY <1>1, <1>6, SignalMoves
  <2> QED BY <1>2, <1>3, <1>6, <2>1 DEF Phase, RunPhase
<1> QED BY <1>3, <1>4, <1>5, <1>6

LEMMA PhaseKept ==
  ASSUME Shape, CountTypes, TagsKept, TagsKept', Phase, HostStep
  PROVE  Phase'
<1> USE DEF Shape
<1>1. CASE BatchStep /\ UNCHANGED flash
  <2>1. BatchMoves
    BY <1>1, BatchMovesMain, BatchMovesRest DEF BatchStep
  <2> QED BY <1>1, <2>1, StartBatch, RunBatch DEF Phase
<1>2. CASE FlashMain
  BY <1>2, ReadPhase, ErasePhase, FirstsPhase, PopulatePhase, EndPhase DEF FlashMain
<1>3. CASE FlashDevice
  BY <1>3, ErasedPhase, EndPhase, DumpPhase DEF FlashDevice
<1> QED BY <1>1, <1>2, <1>3 DEF HostStep

-----------------------------------------------------------------------------
(* The statuses of the blocks. *)

Statuses == [ 0 .. Chips - 1 -> [ 0 .. Blocks - 1 -> FlashStatusT ] ]

StatusTypes ==
  /\ flashStatus \in Statuses /\ (file # << >> => file \in Statuses)
  /\ map # << >> => map \in [ 1 .. NumVirtual -> 0 .. Blocks - 1 ]
  /\ programmed \subseteq 0 .. NumVirtual - 1

(* A block is erased, or it has been written since and that has not been   *)
(* reported yet.                                                           *)
ErasedOrUnreported(c, k) ==
  \/ << c, k >> \in erased
  \/ map # << >> /\ \E v \in programmed : dumpAcks <= v /\ At2(map, v) = << c, k >>

FreshKnown ==
  ~ crashed /\ ~ twice =>
    \A c \in 0 .. Chips - 1, k \in 0 .. Blocks - 1 :
      flashStatus[c][k] = "FRESH" => ErasedOrUnreported(c, k)

(* The file tells the truth when no process has used the flash since. *)
FileKnown ==
  ~ crashed /\ ~ twice /\ file # << >> /\ (script = << >> \/ AtRead(script)) =>
    \A c \in 0 .. Chips - 1, k \in 0 .. Blocks - 1 :
      file[c][k] = "FRESH" => << c, k >> \in erased

MapKnown == map # << >> /\ ~ twice => Injective(map)

StatusKept == StatusTypes /\ FreshKnown /\ MapKnown /\ UnwrittenIsErased

statusVars == << flashStatus, file, erased, crashed, twice, map, programmed, dumpAcks >>

LEMMA StatusStays ==
  ASSUME StatusKept, UNCHANGED statusVars
  PROVE  StatusKept'
BY DEF StatusKept, StatusTypes, FreshKnown, ErasedOrUnreported, MapKnown, Injective, At2,
       UnwrittenIsErased, statusVars, Statuses

-----------------------------------------------------------------------------
LEMMA StatusRead ==
  ASSUME StatusKept, FileKnown, Phase, ReadStatusFile
  PROVE  StatusKept'
<1>1. script # << >> /\ Head(script).do = "readStatus"
  BY DEF ReadStatusFile, At
<1>2. AtRead(script)
  BY <1>1, StartAt, RunAt DEF Phase
<1>3. /\ UNCHANGED << file, erased, crashed, twice, map, programmed, dumpAcks >>
      /\ flashStatus' = flashStatus \/ (file # << >> /\ flashStatus' = file)
  BY DEF ReadStatusFile, disk
<1>4. CASE flashStatus' = flashStatus
  BY <1>3, <1>4, StatusStays DEF statusVars
<1>5. CASE file # << >> /\ flashStatus' = file
  <2>1. StatusTypes'
    BY <1>3, <1>5 DEF StatusKept, StatusTypes, Statuses
  <2>2. FreshKnown'
    BY <1>2, <1>3, <1>5 DEF FileKnown, FreshKnown, ErasedOrUnreported
  <2>3. MapKnown' /\ UnwrittenIsErased'
    BY <1>3 DEF StatusKept, MapKnown, Injective, At2, UnwrittenIsErased
  <2> QED BY <2>1, <2>2, <2>3 DEF StatusKept
<1> QED BY <1>3, <1>4, <1>5

LEMMA StatusErased ==
  ASSUME TagsKept, StatusKept, Phase, DeviceErase(EraseAcked)
  PROVE  StatusKept'
<1>1. PICK e \in erasing, good \in BOOLEAN :
        /\ erased' = IF good THEN erased \cup { << e.chip, e.block >> }
                     ELSE erased \ { << e.chip, e.block >> }
        /\ flashStatus' = [ flashStatus EXCEPT ![tag2block[e.tag] \div Blocks][tag2block[e.tag] % Blocks]
                              = IF good THEN "FRESH" ELSE "BAD" ]
  BY Zenon DEF DeviceErase, EraseAcked
<1>2. map = << >> /\ UNCHANGED << file, crashed, twice, map, programmed, dumpAcks >>
  BY <1>1 DEF DeviceErase, Phase, Mapped, Before
<1>3. e.chip \in 0 .. Chips - 1 /\ e.block \in 0 .. Blocks - 1
      /\ tag2block[e.tag] = RealIndex(e.chip, e.block)
  BY DEF TagsKept, TagsExact, Erase
<1> DEFINE st == IF good THEN "FRESH" ELSE "BAD"
<1>4. st \in FlashStatusT
  BY DEF FlashStatusT
<1>5. flashStatus' = [ flashStatus EXCEPT ![e.chip][e.block] = st ]
  BY <1>1, <1>3, RealParts, Zenon
<1>6. /\ flashStatus' \in Statuses
      /\ \A c \in 0 .. Chips - 1, k \in 0 .. Blocks - 1 :
           flashStatus'[c][k] = IF c = e.chip /\ k = e.block THEN st ELSE flashStatus[c][k]
  <2>1. flashStatus \in Statuses
    BY DEF StatusKept, StatusTypes
  <2> HIDE DEF st
  <2> DEFINE c0 == e.chip
             b0 == e.block
  <2>2. c0 \in 0 .. Chips - 1 /\ b0 \in 0 .. Blocks - 1
    BY <1>3
  <2>3. flashStatus' = [ flashStatus EXCEPT ![c0][b0] = st ]
    BY <1>5
  <2> HIDE DEF c0, b0
  <2> HIDE DEF st
  <2>4. PICK g : g = flashStatus'
    OBVIOUS
  <2>6. g = [ flashStatus EXCEPT ![c0][b0] = st ]
    BY <2>3, <2>4
  <2>5. /\ flashStatus' \in Statuses
        /\ \A c \in 0 .. Chips - 1, k \in 0 .. Blocks - 1 :
             flashStatus'[c][k] = IF c = c0 /\ k = b0 THEN st ELSE flashStatus[c][k]
    <3>1. /\ g \in Statuses
          /\ \A c \in 0 .. Chips - 1, k \in 0 .. Blocks - 1 :
               g[c][k] = IF c = c0 /\ k = b0 THEN st ELSE flashStatus[c][k]
      BY <1>4, <2>1, <2>2, <2>6 DEF Statuses
    <3> QED BY <2>4, <3>1
  <2> QED BY <2>5 DEF c0, b0
<1>7. StatusTypes'
  BY <1>2, <1>6 DEF StatusKept, StatusTypes, Statuses
<1>8. FreshKnown'
  <2> SUFFICES ASSUME ~ crashed, ~ twice, NEW c \in 0 .. Chips - 1, NEW k \in 0 .. Blocks - 1,
                      flashStatus'[c][k] = "FRESH"
               PROVE  << c, k >> \in erased'
    BY <1>2 DEF FreshKnown, ErasedOrUnreported
  <2>1. CASE c = e.chip /\ k = e.block
    BY <1>1, <1>6, <2>1, SMTT(30)
  <2>2. CASE ~ (c = e.chip /\ k = e.block)
    <3>1. << c, k >> \in erased /\ << c, k >> # << e.chip, e.block >>
      BY <1>2, <1>6, <2>2 DEF StatusKept, FreshKnown, ErasedOrUnreported
    <3> QED BY <1>1, <3>1
  <2> QED BY <2>1, <2>2
<1>9. MapKnown' /\ UnwrittenIsErased'
  BY <1>2 DEF MapKnown, UnwrittenIsErased
<1> QED BY <1>7, <1>8, <1>9 DEF StatusKept

LEMMA StatusPopulated ==
  ASSUME CountTypes, StatusKept, Phase, Populate
  PROVE  StatusKept'
<1>1. script # << >> /\ Head(script).do = "populate"
  BY DEF Populate, At
<1>2. Before
  BY <1>1, RunAt DEF Phase
<1>3. UNCHANGED << flashStatus, file, erased, crashed, programmed, dumpAcks >>
  BY DEF Populate
<1>4. CASE map' = map /\ twice' = twice
  BY <1>3, <1>4, StatusStays DEF statusVars
<1>5. CASE /\ NumFound = NumVirtual
           /\ twice' = (twice \/ ~ Injective(map'))
           /\ map' \in [ 1 .. NumVirtual -> 0 .. Blocks - 1 ]
           /\ \A v \in 0 .. NumVirtual - 1 : map'[v + 1] = BlockFor(v)
  <2>1. StatusTypes'
    BY <1>3, <1>5 DEF StatusKept, StatusTypes, Statuses, NumVirtual
  <2>2. MapKnown'
    BY <1>5 DEF MapKnown, Injective, At2, NumVirtual
  <2>3. ~ crashed /\ ~ twice => \A c \in 0 .. Chips - 1, k \in 0 .. Blocks - 1 :
          flashStatus[c][k] = "FRESH" => << c, k >> \in erased
    BY <1>2 DEF StatusKept, FreshKnown, ErasedOrUnreported, Before
  <2>4. ~ crashed' /\ ~ twice' => ~ crashed /\ ~ twice
    BY <1>3, <1>5
  <2>5. FreshKnown'
    BY <1>3, <2>3, <2>4 DEF FreshKnown, ErasedOrUnreported
  <2>6. ASSUME ~ crashed', ~ twice', NEW v \in 0 .. NumVirtual - 1
        PROVE  At2(map', v) \in erased
    <3>1. v \div Real \in 0 .. Chips - 1 /\ BlockFor(v) \in 0 .. Blocks - 1
          /\ BlockFor(v) \in WithStatus(v \div Real, "FRESH")
      BY <1>5, AllFound
    <3>2. flashStatus[v \div Real][BlockFor(v)] = "FRESH"
      BY <3>1 DEF WithStatus
    <3>3. << v \div Real, BlockFor(v) >> \in erased
      BY <2>3, <2>4, <2>6, <3>1, <3>2
    <3> QED BY <1>5, <3>3 DEF At2
  <2>7. UnwrittenIsErased'
    BY <1>3, <2>6 DEF UnwrittenIsErased, At2, NumVirtual
  <2> QED BY <2>1, <2>2, <2>5, <2>7 DEF StatusKept
<1> QED BY <1>4, <1>5, MapIs

LEMMA StatusProgrammed ==
  ASSUME CountTypes, StatusKept, Phase, DeviceProgram
  PROVE  StatusKept'
<1>1. script # << >> /\ Head(script).do = "dump"
  BY DEF DeviceProgram, At
<1>2. Mapped /\ dumpAcks = 0
  BY <1>1, StartAt, RunAt DEF Phase
<1>3. PICK v \in 0 .. NumVirtual - 1 :
        programmed' = programmed \cup { v } /\ erased' = erased \ { At2(map, v) }
  BY DEF DeviceProgram
<1>4. UNCHANGED << flashStatus, file, crashed, twice, map, dumpAcks >>
  BY DEF DeviceProgram
<1>5. StatusTypes'
  BY <1>3, <1>4 DEF StatusKept, StatusTypes, Statuses, NumVirtual
<1>6. MapKnown'
  BY <1>4 DEF StatusKept, MapKnown, Injective, At2
<1>7. FreshKnown'
  <2>0. \A x, y : ErasedOrUnreported(x, y) => ErasedOrUnreported(x, y)'
    <3> SUFFICES ASSUME NEW x, NEW y, ErasedOrUnreported(x, y)
                 PROVE  \/ << x, y >> \in erased'
                        \/ \E w \in programmed' : 0 <= w /\ At2(map, w) = << x, y >>
      BY <1>2, <1>4 DEF ErasedOrUnreported, Mapped, At2
    <3>1. CASE << x, y >> = At2(map, v)
      <4>1. v \in programmed' /\ 0 <= v
        BY <1>3, Positive
      <4> QED BY <3>1, <4>1
    <3>2. CASE << x, y >> # At2(map, v)
      BY <1>2, <1>3, <3>2 DEF ErasedOrUnreported
    <3> QED BY <3>1, <3>2
  <2> QED BY <1>4, <2>0 DEF StatusKept, FreshKnown
<1>8. UnwrittenIsErased'
  <2> SUFFICES ASSUME ~ crashed, ~ twice, NEW w \in 0 .. NumVirtual - 1, w \notin programmed'
               PROVE  At2(map, w) \in erased'
    BY <1>4 DEF UnwrittenIsErased, At2, NumVirtual
  <2>1. w \notin programmed /\ w # v
    BY <1>3
  <2>2. At2(map, w) \in erased
    BY <1>2, <2>1 DEF StatusKept, UnwrittenIsErased, Mapped
  <2>3. At2(map, w) # At2(map, v)
    BY <1>2, <2>1 DEF StatusKept, MapKnown, Mapped, Injective
  <2> QED BY <1>3, <2>2, <2>3
<1> QED BY <1>5, <1>6, <1>7, <1>8 DEF StatusKept

LEMMA StatusDumped ==
  ASSUME CountTypes, StatusKept, Phase, DeviceDump(DumpAnswered)
  PROVE  StatusKept'
<1> DEFINE c0 == dumpAcks \div Real
           b0 == map[dumpAcks + 1]
           st == IF dumpAcks \in programmed THEN "WRITTEN" ELSE "FRESH"
<1>1. dumpAcks \in 0 .. NumVirtual - 1 /\ dumpAcks + 1 \in 1 .. NumVirtual /\ map # << >>
  <2>1. dumpAcks < NumVirtual /\ dumping
    BY DEF DeviceDump
  <2>2. map # << >>
    BY <2>1 DEF Phase, Before, Mapped
  <2> QED BY <2>1, <2>2, Positive DEF CountTypes
<1>2. c0 \in 0 .. Chips - 1 /\ b0 \in 0 .. Blocks - 1 /\ st \in FlashStatusT
  BY <1>1, OnChip DEF StatusKept, StatusTypes, FlashStatusT
<1>3. /\ flashStatus' = [ flashStatus EXCEPT ![c0][b0] = st ] /\ dumpAcks' = dumpAcks + 1
      /\ UNCHANGED << file, erased, crashed, twice, map, programmed >>
  <2>1. /\ flashStatus' = [ flashStatus EXCEPT ![dumpAcks \div Real][map[dumpAcks + 1]] =
             IF (IF dumpAcks \in programmed THEN 0 ELSE 1) = 1 THEN "FRESH" ELSE "WRITTEN" ]
        /\ dumpAcks' = dumpAcks + 1
        /\ UNCHANGED << file, erased, crashed, twice, map, programmed >>
    BY DEF DeviceDump, DumpAnswered, disk
  <2>2. (IF (IF dumpAcks \in programmed THEN 0 ELSE 1) = 1 THEN "FRESH" ELSE "WRITTEN") = st
    OBVIOUS
  <2> QED BY <2>1, <2>2
<1>4. At2(map, dumpAcks) = << c0, b0 >>
  BY DEF At2
<1> HIDE DEF c0, b0, st
<1>5. /\ flashStatus' \in Statuses
      /\ \A c \in 0 .. Chips - 1, k \in 0 .. Blocks - 1 :
           flashStatus'[c][k] = IF c = c0 /\ k = b0 THEN st ELSE flashStatus[c][k]
  <2>1. flashStatus \in Statuses
    BY DEF StatusKept, StatusTypes
  <2>2. PICK g : g = flashStatus'
    OBVIOUS
  <2>3. g = [ flashStatus EXCEPT ![c0][b0] = st ]
    BY <1>3, <2>2
  <2>4. /\ g \in Statuses
        /\ \A c \in 0 .. Chips - 1, k \in 0 .. Blocks - 1 :
             g[c][k] = IF c = c0 /\ k = b0 THEN st ELSE flashStatus[c][k]
    BY <1>2, <2>1, <2>3 DEF Statuses
  <2> QED BY <2>2, <2>4
<1>6. StatusTypes'
  BY <1>3, <1>5 DEF StatusKept, StatusTypes, Statuses, NumVirtual
<1>7. MapKnown' /\ UnwrittenIsErased'
  BY <1>3 DEF StatusKept, MapKnown, Injective, At2, UnwrittenIsErased
<1>8. FreshKnown'
  <2> SUFFICES ASSUME ~ crashed, ~ twice, NEW c \in 0 .. Chips - 1, NEW k \in 0 .. Blocks - 1,
                      flashStatus'[c][k] = "FRESH"
               PROVE  \/ << c, k >> \in erased
                      \/ \E v \in programmed : dumpAcks + 1 <= v /\ At2(map, v) = << c, k >>
    BY <1>1, <1>3 DEF FreshKnown, ErasedOrUnreported, At2
  <2>1. CASE c = c0 /\ k = b0
    <3>1. dumpAcks \notin programmed
      BY <1>5, <2>1 DEF st
    <3>2. At2(map, dumpAcks) \in erased
      BY <1>1, <3>1 DEF StatusKept, UnwrittenIsErased
    <3> QED BY <1>4, <2>1, <3>2
  <2>2. CASE ~ (c = c0 /\ k = b0)
    <3>1. ErasedOrUnreported(c, k)
      BY <1>5, <2>2 DEF StatusKept, FreshKnown
    <3>2. ASSUME NEW v \in programmed, dumpAcks <= v, At2(map, v) = << c, k >>
          PROVE  dumpAcks + 1 <= v
      <4>1. v # dumpAcks
        BY <1>4, <2>2, <3>2
      <4>2. v \in 0 .. NumVirtual - 1
        BY DEF StatusKept, StatusTypes
      <4> QED BY <1>1, <3>2, <4>1, <4>2, Positive
    <3> QED BY <3>1, <3>2 DEF ErasedOrUnreported
  <2> QED BY <2>1, <2>2
<1> QED BY <1>6, <1>7, <1>8 DEF StatusKept

LEMMA StatusStored ==
  ASSUME StatusKept, WriteStatusFile
  PROVE  StatusKept'
<1>1. file' = flashStatus
      /\ UNCHANGED << flashStatus, erased, crashed, twice, map, programmed, dumpAcks >>
  BY DEF WriteStatusFile, process
<1>2. StatusTypes'
  BY <1>1 DEF StatusKept, StatusTypes, Statuses, NumVirtual
<1>3. FreshKnown' /\ MapKnown' /\ UnwrittenIsErased'
  BY <1>1 DEF StatusKept, FreshKnown, ErasedOrUnreported, MapKnown, Injective, At2,
     UnwrittenIsErased
<1> QED BY <1>2, <1>3 DEF StatusKept

LEMMA StatusStep ==
  ASSUME CountTypes, TagsKept, StatusKept, HostStep,
         program \in OnFlash => Phase /\ FileKnown
  PROVE  StatusKept'
<1> USE DEF statusVars
<1>1. CASE UNCHANGED flash
  BY <1>1, StatusStays DEF flash, process, disk
<1>2. CASE program \in OnFlash /\ (FlashMain \/ FlashDevice)
  <2>1. CASE ReadStatusFile
    BY <1>2, <2>1, StatusRead
  <2>2. CASE EraseBlock
    BY <2>2, StatusStays DEF EraseBlock, disk
  <2>3. CASE FirstBlocks
    BY <2>3, StatusStays DEF FirstBlocks, disk
  <2>4. CASE Populate
    BY <1>2, <2>4, StatusPopulated
  <2>5. CASE AskDump
    BY <2>5, StatusStays DEF AskDump, disk
  <2>6. CASE WriteStatusFile
    BY <2>6, StatusStored
  <2>7. CASE DeviceErase(EraseAcked)
    BY <1>2, <2>7, StatusErased
  <2>8. CASE DeviceProgram
    BY <1>2, <2>8, StatusProgrammed
  <2>9. CASE DeviceDump(DumpAnswered)
    BY <1>2, <2>9, StatusDumped
  <2> QED BY <1>2, <2>1, <2>2, <2>3, <2>4, <2>5, <2>6, <2>7, <2>8, <2>9 DEF FlashMain, FlashDevice
<1> QED BY <1>1, <1>2 DEF HostStep

-----------------------------------------------------------------------------
(* The file. *)

LEMMA TailPhase ==
  ASSUME Phase, script # << >>, Head(script).do # "store"
  PROVE  Tail(script) # << >> /\ Head(Tail(script)).do # "readStatus"
<1> DEFINE Ok(s) == s # << >> /\ Head(s).do # "readStatus"
<1>1. ASSUME NEW s,
             \/ AtFirsts(s) \/ AtPopulate(s) \/ AtGive(s) \/ AtInit(s) \/ AfterInit(s) \/ Late(s)
             \/ s = << Wait("cond"), StoreStep >> \/ s = << StoreStep >>
             \/ \E k \in 0 .. NumVirtual : AtErase(s, k)
      PROVE  Ok(s)
  <2>1. CASE AtFirsts(s) \/ AtPopulate(s) \/ AtGive(s) \/ AtInit(s) \/ AfterInit(s)
    BY <2>1, Heads
  <2>2. CASE Late(s)
    BY <2>2, LateIs
  <2>3. CASE s = << Wait("cond"), StoreStep >>
    <3>1. s # << >> /\ Head(s) = Wait("cond")
      BY <2>3
    <3> QED BY <3>1, StepNames
  <2>4. CASE s = << StoreStep >>
    <3>1. s # << >> /\ Head(s) = StoreStep
      BY <2>4
    <3> QED BY <3>1, StepNames
  <2>5. CASE \E k \in 0 .. NumVirtual : AtErase(s, k)
    BY <2>5, EraseIs, StepNames
  <2> QED BY <1>1, <2>1, <2>2, <2>3, <2>4, <2>5
<1> HIDE DEF Ok
<1>2. Ok(Tail(script))
  <2>1. CASE AtRead(script) \/ AtFirsts(script) \/ AtPopulate(script)
    BY <1>1, <2>1, Heads
  <2>2. CASE \E k \in 0 .. NumVirtual : AtErase(script, k)
    BY <1>1, <2>2, EraseIs
  <2>3. CASE AtGive(script) \/ AtInit(script) \/ AfterInit(script)
    BY <1>1, <2>3, Heads
  <2>4. CASE Late(script)
    BY <1>1, <2>4, LateIs
  <2>5. CASE script = << Wait("cond"), StoreStep >>
    <3>1. Tail(script) = << StoreStep >>
      BY <2>5
    <3> QED BY <1>1, <3>1
  <2>6. CASE script = << StoreStep >>
    <3>1. Head(script) = StoreStep
      BY <2>6
    <3> QED BY <3>1, StepNames
  <2> QED BY <2>1, <2>2, <2>3, <2>4, <2>5, <2>6 DEF Phase, StartPhase, RunPhase
<1> QED BY <1>2 DEF Ok

(* The script ends with the file. *)
LEMMA EndStays ==
  ASSUME Shape, Phase, Phase', HostStep, ~ WriteStatusFile, program \in OnFlash,
         script' = << >> \/ AtRead(script')
  PROVE  script' = script /\ erased' = erased
<1>0. script' = << >> \/ Head(script').do = "readStatus"
  BY Heads
<1>1. CASE BatchStep /\ UNCHANGED flash
  <2>1. BatchMoves
    BY <1>1, BatchMovesMain, BatchMovesRest DEF BatchStep, Shape
  <2>2. script' = script \/ (script # << >> /\ Head(script).do # "store" /\ script' = Tail(script))
    BY <2>1 DEF BatchMoves, ScriptStays, StepDone
  <2>3. script' = script
    BY <1>0, <2>2, TailPhase
  <2> QED BY <1>1, <2>3 DEF flash, disk
<1>2. CASE FlashMain
  <2>1. script # << >> /\ Head(script).do # "store"
    BY <1>2 DEF FlashMain, At, ReadStatusFile, EraseBlock, FirstBlocks, Populate, AskDump
  <2>2. script' # Tail(script)
    BY <1>0, <2>1, TailPhase
  <2>3. CASE ReadStatusFile
    <3>1. script' = EraseAll \o Tail(script)
      BY <2>2, <2>3 DEF ReadStatusFile
    <3>2. AtFirsts(Tail(script))
      <4>1. Head(script).do = "readStatus"
        BY <2>3 DEF ReadStatusFile, At
      <4> QED BY <2>1, <4>1, StartAt, RunAt, Heads DEF Phase
    <3>3. Tail(script) \in Seq(AllSteps)
      BY <2>1, ShapedIs, TailIs DEF Shape
    <3>4. AtErase(script', 0) /\ 0 \in 0 .. NumVirtual
      <4>1. AtErase(EraseAll \o Tail(script), 0)
        BY <3>2, <3>3, EraseBegins
      <4> QED BY <3>1, <4>1, Positive
    <3> QED BY <1>0, <3>4, EraseIs, StepNames
  <2>4. CASE Populate
    <3>1. script' = EraseAll \o << Step("firsts", "again", 0) >> \o script
      BY <2>2, <2>4 DEF Populate, Next1
    <3>2. AtPopulate(script)
      <4>1. Head(script).do = "populate"
        BY <2>4 DEF Populate, At
      <4> QED BY <2>1, <4>1, StartAt, RunAt DEF Phase
    <3>3. AtErase(script', 0) /\ 0 \in 0 .. NumVirtual
      BY <3>1, <3>2, FormatAgain, Positive DEF Shape
    <3> QED BY <1>0, <3>3, EraseIs, StepNames
  <2>5. CASE EraseBlock \/ FirstBlocks \/ AskDump
    BY <2>2, <2>5 DEF EraseBlock, FirstBlocks, AskDump, Next1
  <2> QED BY <1>2, <2>3, <2>4, <2>5 DEF FlashMain
<1>3. CASE FlashDevice
  <2>1. script' = script
    <3>1. script' = script \/ (script # << >> /\ Head(script).do # "store" /\ script' = Tail(script))
      BY <1>3, DeviceMoves DEF Shape, InStep
    <3> QED BY <1>0, <3>1, TailPhase
  <2>2. CASE DeviceErase(EraseAcked)
    <3>1. erasing # {}
      BY <2>2 DEF DeviceErase
    <3>2. PICK k \in 0 .. NumVirtual : AtErase(script, k)
      BY <3>1 DEF Phase, StartPhase, Mapped
    <3> QED BY <1>0, <2>1, <3>2, EraseIs, StepNames
  <2>3. CASE DeviceProgram
    <3>1. script # << >> /\ Head(script).do = "dump"
      BY <2>3 DEF DeviceProgram, At
    <3> QED BY <1>0, <2>1, <3>1
  <2>4. CASE DeviceDump(DumpAnswered)
    BY <2>1, <2>4 DEF DeviceDump, disk
  <2> QED BY <1>3, <2>2, <2>3, <2>4 DEF FlashDevice
<1> QED BY <1>1, <1>2, <1>3 DEF HostStep

LEMMA FileStep ==
  ASSUME Shape, Phase, Phase', StatusKept, FileKnown, HostStep, program \in OnFlash
  PROVE  FileKnown'
<1>1. AtRead(script)' <=> AtRead(script')
  BY Primed
<1> SUFFICES ASSUME ~ crashed', ~ twice', file' # << >>, script' = << >> \/ AtRead(script'),
                    NEW c \in 0 .. Chips - 1, NEW k \in 0 .. Blocks - 1,
                    file'[c][k] = "FRESH"
             PROVE  << c, k >> \in erased'
  BY <1>1 DEF FileKnown
<1>2. CASE WriteStatusFile
  <2>1. script # << >> /\ Head(script).do = "store"
    BY <1>2 DEF WriteStatusFile, At
  <2>2. dumpAcks = NumVirtual
    BY <2>1, StartAt, RunAt DEF Phase
  <2>3. file' = flashStatus /\ UNCHANGED << erased, crashed, twice >>
    BY <1>2 DEF WriteStatusFile
  <2>4. ErasedOrUnreported(c, k)
    BY <2>3 DEF StatusKept, FreshKnown
  <2>5. \A v \in programmed : ~ (dumpAcks <= v)
    BY <2>2, Positive DEF StatusKept, StatusTypes
  <2> QED BY <2>3, <2>4, <2>5 DEF ErasedOrUnreported
<1>3. CASE ~ WriteStatusFile
  <2>1. script' = script /\ erased' = erased
    BY <1>3, EndStays
  <2>2. file' = file /\ crashed' = crashed /\ (twice => twice')
    <3>1. CASE ReadStatusFile
      BY <3>1 DEF ReadStatusFile, disk
    <3>2. CASE EraseBlock
      BY <3>2 DEF EraseBlock, disk
    <3>3. CASE FirstBlocks
      BY <3>3 DEF FirstBlocks, disk
    <3>4. CASE Populate
      BY <3>4 DEF Populate
    <3>5. CASE AskDump
      BY <3>5 DEF AskDump, disk
    <3>6. CASE DeviceErase(EraseAcked)
      BY <3>6 DEF DeviceErase
    <3>7. CASE DeviceProgram
      BY <3>7 DEF DeviceProgram
    <3>8. CASE DeviceDump(DumpAnswered)
      BY <3>8 DEF DeviceDump, disk
    <3>9. CASE UNCHANGED flash
      BY <3>9 DEF flash, disk
    <3> QED BY <1>3, <3>1, <3>2, <3>3, <3>4, <3>5, <3>6, <3>7, <3>8, <3>9
            DEF HostStep, FlashMain, FlashDevice
  <2> QED BY <2>1, <2>2 DEF FileKnown
<1> QED BY <1>2, <1>3

-----------------------------------------------------------------------------
(* The scripts with which the programs begin. *)

LEMMA Assoc ==
  ASSUME NEW S, NEW a \in Seq(S), NEW b \in Seq(S), NEW c \in Seq(S)
  PROVE  (a \o b) \o c = a \o (b \o c) /\ a \o b \in Seq(S) /\ b \o c \in Seq(S)
BY ConcatAssociative, ConcatProperties

(* s begins with a, b and c, and u follows. *)
Begins(S, s, a, b, c, u) ==
  /\ s \in Seq(S) /\ s # << >> /\ Head(s) = a
  /\ Tail(s) # << >> /\ Head(Tail(s)) = b
  /\ Tail(Tail(s)) # << >> /\ Head(Tail(Tail(s))) = c /\ Tail(Tail(Tail(s))) = u

LEMMA ThreeThen ==
  \A S : \A a, b, c \in S : \A u \in Seq(S) : \A s :
    s = << a, b, c >> \o u => Begins(S, s, a, b, c, u)
<1> SUFFICES ASSUME NEW S, NEW a \in S, NEW b \in S, NEW c \in S, NEW u \in Seq(S),
                    NEW s, s = << a, b, c >> \o u
             PROVE  Begins(S, s, a, b, c, u)
  OBVIOUS
<1> DEFINE x == << a, b, c >>
           y == << b, c >>
           z == << c >>
<1>1. /\ x # << >> /\ Head(x) = a /\ Tail(x) = y /\ x \in Seq(S)
      /\ y # << >> /\ Head(y) = b /\ Tail(y) = z /\ z # << >> /\ Head(z) = c /\ Tail(z) = << >>
  BY Three
<1> HIDE DEF x, y, z
<1>2. y \in Seq(S) /\ z \in Seq(S)
  BY <1>1, TailIs
<1>3. s = x \o u /\ s \in Seq(S)
  BY <1>1, ConcatProperties DEF x
<1>4. s # << >> /\ Head(s) = a /\ Tail(s) = y \o u
  <2>1. x \o u # << >> /\ Head(x \o u) = Head(x) /\ Tail(x \o u) = Tail(x) \o u
    BY <1>1, ConcatTail
  <2>2. s = x \o u /\ Head(x) = a /\ Tail(x) = y
    BY <1>1, <1>3
  <2> HIDE <1>1
  <2> QED BY ONLY <2>1, <2>2
<1>5. y \o u # << >> /\ Head(y \o u) = b /\ Tail(y \o u) = z \o u
  BY <1>1, <1>2, ConcatTail
<1>6. z \o u # << >> /\ Head(z \o u) = c /\ Tail(z \o u) = << >> \o u
  <2>1. z \o u # << >> /\ Head(z \o u) = Head(z) /\ Tail(z \o u) = Tail(z) \o u
    <3>1. z # << >>
      BY <1>1
    <3> QED BY ONLY <3>1, <1>2, u \in Seq(S), ConcatTail
  <2>2. Head(z) = c /\ Tail(z) = << >>
    BY <1>1
  <2> QED BY ONLY <2>1, <2>2, Zenon
<1>7. << >> \o u = u
  BY EmptyBefore
<1> QED BY <1>3, <1>4, <1>5, <1>6, <1>7 DEF Begins

(* Each program takes the rings into use and has the table zeroed. *)
GiveInit == << Give, Step("init", "", 0), Wait("cond") >>

LEMMA GiveInitIs ==
  ASSUME NEW t \in Seq(RestSteps)
  PROVE  /\ GiveInit \in Seq(AllSteps) /\ t \in Seq(AllSteps)
         /\ GiveInit \o t \in Seq(AllSteps)
         /\ Idle(GiveInit \o t)
         /\ \A pre \in Seq(StartSteps) : Idle(pre \o (GiveInit \o t))
         /\ Late(t) => AtGive(GiveInit \o t)
<1> DEFINE i == Step("init", "", 0)
           w == Wait("cond")
           s == GiveInit \o t
<1>1. Give \in AllSteps /\ i \in AllSteps /\ w \in AllSteps /\ i \in RestSteps /\ w \in RestSteps
  BY DEF AllSteps, RestSteps, Wait, Step
<1>2. t \in Seq(AllSteps)
  BY Longer DEF AllSteps
<1>3. GiveInit = << Give, i, w >>
  BY DEF GiveInit
<1> HIDE DEF i, w
<1>4. GiveInit \in Seq(AllSteps)
  BY <1>1, <1>3, Three
<1>5. /\ s \in Seq(AllSteps) /\ s # << >> /\ Head(s) = Give
      /\ Tail(s) # << >> /\ Head(Tail(s)) = i
      /\ Tail(Tail(s)) # << >> /\ Head(Tail(Tail(s))) = w /\ Tail(Tail(Tail(s))) = t
  <2>1. s = << Give, i, w >> \o t
    BY <1>3
  <2>2. Give \in AllSteps /\ i \in AllSteps /\ w \in AllSteps
    BY <1>1
  <2> HIDE DEF s
  <2>0. t \in Seq(AllSteps)
    BY <1>2
  <2>3. Begins(AllSteps, s, Give, i, w, t)
    BY <2>0, <2>1, <2>2, ThreeThen, Zenon
  <2> QED BY <2>3 DEF Begins
<1>6. << i, w >> \in Seq(RestSteps)
  BY <1>1
<1>7. << i, w >> \o t \in Seq(RestSteps)
  BY <1>6, ConcatProperties
<1>8. s = << Give >> \o (<< i, w >> \o t)
  <2>1. GiveInit = << Give >> \o << i, w >>
    BY <1>1, <1>3
  <2>2. << Give >> \in Seq(AllSteps) /\ << i, w >> \in Seq(AllSteps)
    BY <1>1
  <2> QED BY <1>2, <2>1, <2>2, ConcatAssociative
<1>9. Late(t) => AtGive(s)
  BY <1>5 DEF AtGive, AtInit, AfterInit, i, w
<1>10. \A pre \in Seq(StartSteps) : Idle(pre \o s)
  BY <1>7, <1>8 DEF Idle
<1> HIDE DEF s
<1>11. Idle(s)
  <2>1. << >> \in Seq(StartSteps) /\ << >> \o s = s
    BY <1>5, EmptyBefore
  <2> QED BY <1>10, <2>1
<1> QED BY <1>2, <1>4, <1>5, <1>9, <1>10, <1>11 DEF s

LEMMA OnlyGive == Idle(<< Step("give", "", 0) >>)
<1>1. << >> \in Seq(StartSteps) /\ << >> \in Seq(RestSteps)
  OBVIOUS
<1>2. Give \in AllSteps /\ << Give >> \in Seq(AllSteps)
  BY DEF AllSteps
<1>3. << >> \o (<< Give >> \o << >>) = << Give >>
  BY <1>2
<1> QED BY <1>1, <1>3 DEF Idle, Give

LEMMA MidRest ==
  ASSUME NEW mid \in Seq(MidSteps)
  PROVE  mid \o StoreSteps \in Seq(RestSteps) /\ Late(mid \o StoreSteps)
         /\ mid \in Seq(RestSteps) /\ StoreSteps \in Seq(RestSteps)
<1>1. MidSteps \subseteq RestSteps
  <2>1. ASSUME NEW x \in [ do : { "send", "flush", "check" }, on : Ops3, n : Nat ]
        PROVE  x \in RestSteps
    BY DEF RestSteps
  <2>2. Wait("cond_write") \in RestSteps
    BY DEF RestSteps, Wait, Step
  <2> QED BY <2>1, <2>2 DEF MidSteps
<1>2. mid \in Seq(RestSteps)
  BY <1>1, Longer
<1>3. Step("dump", "", 0) \in RestSteps /\ Wait("cond") \in RestSteps /\ Step("store", "", 0) \in RestSteps
  BY DEF RestSteps, Wait, Step
<1>4. StoreSteps \in Seq(RestSteps)
  <2>1. ASSUME NEW a \in RestSteps, NEW b \in RestSteps, NEW c \in RestSteps,
               StoreSteps = << a, b, c >>
        PROVE  StoreSteps \in Seq(RestSteps)
    BY <2>1, Three
  <2>2. StoreSteps = << Step("dump", "", 0), Wait("cond"), Step("store", "", 0) >>
    BY DEF StoreSteps
  <2> QED BY <1>3, <2>1, <2>2
<1> QED BY <1>2, <1>4, ConcatProperties DEF Late

(* A program with flash. *)
LEMMA FlashScript ==
  ASSUME NEW mid \in Seq(MidSteps), NEW s, s = ((StartFlash \o GiveInit) \o mid) \o StoreSteps
  PROVE  Idle(s) /\ AtRead(s)
<1> DEFINE t == mid \o StoreSteps
           u == GiveInit \o t
<1>1. t \in Seq(RestSteps) /\ Late(t) /\ mid \in Seq(RestSteps) /\ StoreSteps \in Seq(RestSteps)
  BY MidRest
<1> HIDE DEF t
<1>2. /\ GiveInit \in Seq(AllSteps) /\ u \in Seq(AllSteps) /\ AtGive(u)
      /\ \A pre \in Seq(StartSteps) : Idle(pre \o u)
  BY <1>1, GiveInitIs
<1>3. mid \in Seq(AllSteps) /\ StoreSteps \in Seq(AllSteps) /\ t \in Seq(AllSteps)
  BY <1>1, Longer DEF AllSteps
<1> DEFINE r == Step("readStatus", "", 0)
           f == Step("firsts", "", 0)
           p == Step("populate", "", 0)
<1>4. r \in StartSteps /\ f \in StartSteps /\ p \in StartSteps
      /\ r.do = "readStatus" /\ f.do = "firsts"
  <2>1. 0 \in 0 .. NumVirtual - 1
    BY Positive
  <2> QED BY <2>1 DEF StartSteps, Step
<1>5. StartFlash = << r, f, p >>
  BY DEF StartFlash
<1> HIDE DEF r, f
<1>6. StartFlash \in Seq(StartSteps) /\ StartFlash \in Seq(AllSteps)
  <2>1. StartFlash \in Seq(StartSteps)
    BY <1>4, <1>5, Three
  <2> QED BY <2>1, Longer DEF AllSteps
<1>7. s = StartFlash \o u
  <2>1. ((StartFlash \o GiveInit) \o mid) \o StoreSteps = (StartFlash \o GiveInit) \o t
    <3>1. StartFlash \o GiveInit \in Seq(AllSteps)
      BY <1>2, <1>6, ConcatProperties
    <3> QED BY <1>3, <3>1, ConcatAssociative, SMTT(30) DEF t
  <2>2. (StartFlash \o GiveInit) \o t = StartFlash \o u
    BY <1>2, <1>3, <1>6, ConcatAssociative, SMTT(30)
  <2> QED BY <2>1, <2>2
<1> HIDE DEF u
<1>8. Idle(s)
  BY <1>2, <1>6, <1>7
<1>9. /\ s # << >> /\ Head(s) = r /\ Tail(s) # << >> /\ Head(Tail(s)) = f
      /\ Tail(Tail(s)) # << >> /\ Head(Tail(Tail(s))) = p /\ Tail(Tail(Tail(s))) = u
  <2>1. r \in AllSteps /\ f \in AllSteps /\ p \in AllSteps
    BY <1>4 DEF AllSteps
  <2> HIDE DEF p
  <2>2. s = << r, f, p >> \o u
    BY <1>5, <1>7
  <2>0. u \in Seq(AllSteps)
    BY <1>2
  <2>3. Begins(AllSteps, s, r, f, p, u)
    BY <2>0, <2>1, <2>2, ThreeThen, Zenon
  <2> QED BY <2>3 DEF Begins
<1>10. AtRead(s)
  BY <1>2, <1>4, <1>9 DEF AtRead, AtFirsts, AtPopulate
<1> QED BY <1>8, <1>10

LEMMA SendsIs ==
  ASSUME NEW op \in Ops3, NEW n \in Nat
  PROVE  /\ [ i \in 1 .. n |-> Step("send", op, 0) ] \in Seq(MidSteps)
         /\ [ i \in 1 .. n |-> Step("check", op, 0) ] \in Seq(MidSteps)
<1>1. Step("send", op, 0) \in MidSteps /\ Step("check", op, 0) \in MidSteps
  BY DEF MidSteps, Step
<1>2. [ i \in 1 .. n |-> Step("send", op, 0) ] \in [ 1 .. n -> MidSteps ]
      /\ [ i \in 1 .. n |-> Step("check", op, 0) ] \in [ 1 .. n -> MidSteps ]
  BY <1>1
<1> QED BY <1>2, MapSeq

LEMMA FlushIs ==
  /\ << Step("flush", "EOM", 0), Wait("cond_write") >> \in Seq(MidSteps)
  /\ << Step("flush", "EOM", 0) >> \in Seq(MidSteps)
  /\ << Step("check", "EOM", 0) >> \in Seq(MidSteps)
<1>1. Step("flush", "EOM", 0) \in MidSteps /\ Wait("cond_write") \in MidSteps
      /\ Step("check", "EOM", 0) \in MidSteps
  BY DEF MidSteps, Step, Ops3
<1> QED BY <1>1

-----------------------------------------------------------------------------
(* Scripts of several parts.                                               *)
LEMMA Join == \A S : \A a, b \in Seq(S) : a \o b \in Seq(S)
BY Assoc

LEMMA Joined ==
  \A S : \A a, b, c \in Seq(S) : (a \o b) \o c = a \o (b \o c) /\ b \o c \in Seq(S)
BY Assoc

LEMMA MidSeq == \A s \in Seq(MidSteps) : s \in Seq(AllSteps)
<1> TAKE s \in Seq(MidSteps)
<1>1. s \in Seq(RestSteps)
  BY MidRest
<1> QED BY <1>1, Longer DEF AllSteps

LEMMA RestSeq == \A s \in Seq(RestSteps) : s \in Seq(AllSteps)
BY Longer DEF AllSteps

LEMMA StartSeq == StartFlash \o GiveInit \in Seq(AllSteps)
<1>1. << >> \in Seq(RestSteps)
  OBVIOUS
<1>2. GiveInit \in Seq(AllSteps)
  BY <1>1, GiveInitIs
<1> DEFINE r == Step("readStatus", "", 0)
           f == Step("firsts", "", 0)
           p == Step("populate", "", 0)
<1>3. r \in StartSteps /\ f \in StartSteps /\ p \in StartSteps
  <2>1. 0 \in 0 .. NumVirtual - 1
    BY Positive
  <2> QED BY <2>1 DEF StartSteps, Step
<1>4. StartFlash = << r, f, p >>
  BY DEF StartFlash
<1> HIDE DEF r, f, p
<1>5. StartFlash \in Seq(StartSteps)
  BY <1>3, <1>4, Three
<1>6. StartFlash \in Seq(AllSteps)
  BY <1>5, Longer DEF AllSteps
<1> QED BY <1>2, <1>6, Join, Zenon

LEMMA FourParts ==
  \A S : \A x, a, b, c, d \in Seq(S) :
    /\ (((x \o a) \o b) \o c) \o d = x \o (((a \o b) \o c) \o d)
    /\ ((a \o b) \o c) \o d \in Seq(S)
<1> SUFFICES ASSUME NEW S, NEW x \in Seq(S), NEW a \in Seq(S), NEW b \in Seq(S),
                    NEW c \in Seq(S), NEW d \in Seq(S)
             PROVE  /\ (((x \o a) \o b) \o c) \o d = x \o (((a \o b) \o c) \o d)
                    /\ ((a \o b) \o c) \o d \in Seq(S)
  OBVIOUS
<1> DEFINE ab == a \o b
           abc == ab \o c
<1>1. (x \o a) \o b = x \o ab
  BY Joined, SMTT(30)
<1>2. ab \in Seq(S)
  BY Join, SMTT(30)
<1> HIDE DEF ab
<1>3. (x \o ab) \o c = x \o abc
  BY Joined, <1>2, SMTT(30)
<1>4. abc \in Seq(S)
  BY Join, <1>2, SMTT(30)
<1> HIDE DEF abc
<1>5. (x \o abc) \o d = x \o (abc \o d)
  BY Joined, <1>4, SMTT(30)
<1>6. abc \o d \in Seq(S)
  BY Join, <1>4, SMTT(30)
<1> QED BY <1>1, <1>3, <1>5, <1>6 DEF ab, abc

LEMMA JoinedAll ==
  \A a, b, c \in Seq(AllSteps) : (a \o b) \o c = a \o (b \o c) /\ a \o b \in Seq(AllSteps)
BY Joined, Join

LEMMA FourAll ==
  \A x, a, b, c, d \in Seq(AllSteps) :
    /\ (((x \o a) \o b) \o c) \o d = x \o (((a \o b) \o c) \o d)
    /\ ((a \o b) \o c) \o d \in Seq(AllSteps)
BY FourParts

(* Two batches, each flushed and waited for. *)
LEMMA FourScript ==
  \A a, b, c, d \in Seq(MidSteps) : \A s :
    s = (((((StartFlash \o GiveInit) \o a) \o b) \o c) \o d) \o StoreSteps
      => Idle(s) /\ AtRead(s)
<1> SUFFICES ASSUME NEW a \in Seq(MidSteps), NEW b \in Seq(MidSteps),
                    NEW c \in Seq(MidSteps), NEW d \in Seq(MidSteps)
             PROVE  \A s : s = (((((StartFlash \o GiveInit) \o a) \o b) \o c) \o d) \o StoreSteps
                      => Idle(s) /\ AtRead(s)
  OBVIOUS
<1> DEFINE x == StartFlash \o GiveInit
           mid == ((a \o b) \o c) \o d
<1>1. a \in Seq(AllSteps) /\ b \in Seq(AllSteps) /\ c \in Seq(AllSteps) /\ d \in Seq(AllSteps)
  BY MidSeq
<1>2. x \in Seq(AllSteps)
  BY StartSeq
<1> HIDE DEF x
<1>3. (((x \o a) \o b) \o c) \o d = x \o mid /\ mid \in Seq(AllSteps)
  BY <1>1, <1>2, FourAll
<1>4. mid \in Seq(MidSteps)
  BY FourParts
<1> HIDE DEF mid
<1>5. \A s : s = (x \o mid) \o StoreSteps => Idle(s) /\ AtRead(s)
  BY <1>4, FlashScript DEF x
<1> QED BY <1>3, <1>5 DEF x

(* Two batches, each flushed and its answers checked one by one. *)
LEMMA SixScript ==
  \A a, b, c, d, e, f \in Seq(MidSteps) : \A s :
    s = (((((((StartFlash \o GiveInit) \o a) \o b) \o c) \o d) \o e) \o f) \o StoreSteps
      => Idle(s) /\ AtRead(s)
<1> SUFFICES ASSUME NEW a \in Seq(MidSteps), NEW b \in Seq(MidSteps),
                    NEW c \in Seq(MidSteps), NEW d \in Seq(MidSteps),
                    NEW e \in Seq(MidSteps), NEW f \in Seq(MidSteps)
             PROVE  \A s : s = (((((((StartFlash \o GiveInit) \o a) \o b) \o c) \o d) \o e) \o f)
                               \o StoreSteps
                      => Idle(s) /\ AtRead(s)
  OBVIOUS
<1> DEFINE x == StartFlash \o GiveInit
           four == ((a \o b) \o c) \o d
           five == four \o e
           mid == five \o f
<1>1. /\ a \in Seq(AllSteps) /\ b \in Seq(AllSteps) /\ c \in Seq(AllSteps) /\ d \in Seq(AllSteps)
      /\ e \in Seq(AllSteps) /\ f \in Seq(AllSteps)
  BY MidSeq
<1>2. x \in Seq(AllSteps)
  BY StartSeq
<1> HIDE DEF x
<1>3. (((x \o a) \o b) \o c) \o d = x \o four /\ four \in Seq(AllSteps)
  BY <1>1, <1>2, FourAll
<1>4. four \in Seq(MidSteps)
  BY FourParts
<1> HIDE DEF four
<1>5. (x \o four) \o e = x \o five /\ five \in Seq(AllSteps)
  <2>1. four \in Seq(AllSteps) /\ e \in Seq(AllSteps)
    BY <1>1, <1>3
  <2> QED BY <1>2, <2>1, JoinedAll
<1>6. five \in Seq(MidSteps)
  BY <1>4, Join, Zenon
<1> HIDE DEF five
<1>7. (x \o five) \o f = x \o mid
  <2>1. five \in Seq(AllSteps) /\ f \in Seq(AllSteps)
    BY <1>1, <1>5
  <2> QED BY <1>2, <2>1, JoinedAll
<1>8. mid \in Seq(MidSteps)
  BY <1>6, Join, Zenon
<1> HIDE DEF mid
<1>9. \A s : s = (x \o mid) \o StoreSteps => Idle(s) /\ AtRead(s)
  BY <1>8, FlashScript DEF x
<1>10. ((((((x \o a) \o b) \o c) \o d) \o e) \o f) = x \o mid
  BY <1>3, <1>5, <1>7
<1> QED BY <1>9, <1>10 DEF x

(* The programs without flash. *)
LEMMA FourPlain ==
  \A a, b, c, d \in Seq(RestSteps) : Idle((((GiveInit \o a) \o b) \o c) \o d)
<1> SUFFICES ASSUME NEW a \in Seq(RestSteps), NEW b \in Seq(RestSteps),
                    NEW c \in Seq(RestSteps), NEW d \in Seq(RestSteps)
             PROVE  Idle((((GiveInit \o a) \o b) \o c) \o d)
  OBVIOUS
<1> DEFINE mid == ((a \o b) \o c) \o d
<1>1. mid \in Seq(RestSteps)
  BY FourParts
<1>2. GiveInit \in Seq(AllSteps)
  BY <1>1, GiveInitIs
<1>3. a \in Seq(AllSteps) /\ b \in Seq(AllSteps) /\ c \in Seq(AllSteps) /\ d \in Seq(AllSteps)
  BY RestSeq
<1>4. (((GiveInit \o a) \o b) \o c) \o d = GiveInit \o mid
  <2> DEFINE g == GiveInit
  <2>1. g \in Seq(AllSteps)
    BY <1>2
  <2> HIDE DEF g
  <2>2. (((g \o a) \o b) \o c) \o d = g \o mid /\ mid \in Seq(AllSteps)
    BY <1>3, <2>1, FourAll
  <2> QED BY <2>2 DEF g
<1> HIDE DEF mid
<1>5. Idle(GiveInit \o mid)
  BY <1>1, GiveInitIs
<1> QED BY <1>4, <1>5

LEMMA TwoPlain ==
  \A a, b \in Seq(RestSteps) : Idle((GiveInit \o a) \o b)
<1> SUFFICES ASSUME NEW a \in Seq(RestSteps), NEW b \in Seq(RestSteps)
             PROVE  Idle((GiveInit \o a) \o b)
  OBVIOUS
<1> DEFINE mid == a \o b
<1>1. mid \in Seq(RestSteps)
  BY Join, Zenon
<1>2. GiveInit \in Seq(AllSteps)
  BY <1>1, GiveInitIs
<1>3. a \in Seq(AllSteps) /\ b \in Seq(AllSteps)
  BY RestSeq
<1>4. (GiveInit \o a) \o b = GiveInit \o mid
  BY <1>2, <1>3, JoinedAll
<1> HIDE DEF mid
<1>5. Idle(GiveInit \o mid)
  BY <1>1, GiveInitIs
<1> QED BY <1>4, <1>5

(* What a program does with requests. *)
Flushed == << Step("flush", "EOM", 0), Wait("cond_write") >>
Flush1 == << Step("flush", "EOM", 0) >>
SendsOf(op, n) == [ i \in 1 .. n |-> Step("send", op, 0) ]
ChecksOf(op, n) == [ i \in 1 .. n |-> Step("check", op, 0) ] \o << Step("check", "EOM", 0) >>
BatchesOf(op, n, k) ==
  [ i \in 1 .. k * (n + 1) |->
      IF i % (n + 1) = 0 THEN Step("flush", "EOM", 0) ELSE Step("send", op, 0) ]
  \o << Step("poll", "", k) >>

LEMMA PartsAre ==
  /\ Flushed \in Seq(MidSteps) /\ Flush1 \in Seq(MidSteps)
  /\ \A op \in Ops3, n \in Nat :
       /\ SendsOf(op, n) \in Seq(MidSteps) /\ ChecksOf(op, n) \in Seq(MidSteps)
       /\ \A k \in Nat : BatchesOf(op, n, k) \in Seq(RestSteps)
<1>1. Flushed \in Seq(MidSteps) /\ Flush1 \in Seq(MidSteps) /\ << Step("check", "EOM", 0) >> \in Seq(MidSteps)
  BY FlushIs DEF Flushed, Flush1
<1>2. ASSUME NEW op \in Ops3, NEW n \in Nat
      PROVE  SendsOf(op, n) \in Seq(MidSteps) /\ ChecksOf(op, n) \in Seq(MidSteps)
  <2> DEFINE x == [ i \in 1 .. n |-> Step("check", op, 0) ]
             y == << Step("check", "EOM", 0) >>
  <2>1. SendsOf(op, n) \in Seq(MidSteps) /\ x \in Seq(MidSteps)
    BY SendsIs DEF SendsOf
  <2>2. y \in Seq(MidSteps)
    BY <1>1
  <2>3. ChecksOf(op, n) = x \o y
    BY DEF ChecksOf
  <2> HIDE DEF x, y
  <2> QED BY <2>1, <2>2, <2>3, Join, Zenon
<1>3. ASSUME NEW op \in Ops3, NEW n \in Nat, NEW k \in Nat
      PROVE  BatchesOf(op, n, k) \in Seq(RestSteps)
  <2> DEFINE m == k * (n + 1)
             st(i) == IF i % (n + 1) = 0 THEN Step("flush", "EOM", 0) ELSE Step("send", op, 0)
             x == [ i \in 1 .. m |-> st(i) ]
             y == << Step("poll", "", k) >>
  <2>1. m \in Nat
    OBVIOUS
  <2>2. Step("flush", "EOM", 0) \in RestSteps /\ Step("send", op, 0) \in RestSteps
        /\ Step("poll", "", k) \in RestSteps
    BY DEF RestSteps, Step, Ops3
  <2>3. \A i \in 1 .. m : st(i) \in RestSteps
    BY <2>2
  <2>4. BatchesOf(op, n, k) = x \o y
    BY DEF BatchesOf
  <2> HIDE DEF m, st
  <2>5. x \in [ 1 .. m -> RestSteps ]
    BY <2>3
  <2> HIDE DEF x
  <2>6. x \in Seq(RestSteps)
    BY <2>1, <2>5, MapSeq
  <2>7. y \in Seq(RestSteps)
    BY <2>2, One
  <2> HIDE DEF y
  <2> QED BY <2>4, <2>6, <2>7, Join, Zenon
<1> QED BY <1>1, <1>2, <1>3

-----------------------------------------------------------------------------
(* The invariant. *)
FlashKept == CountTypes /\ TagsKept /\ StatusKept /\ (program \in OnFlash => Phase /\ FileKnown)

HostInv == Shape /\ BatchTypes /\ Rings /\ FlashKept

LEMMA HostInvKept ==
  ASSUME HostInv, HostStep
  PROVE  HostInv'
<1> USE DEF HostInv, FlashKept
<1>1. Shape'
  BY ShapeKept
<1>2. BatchTypes'
  <2>1. Shaped(script) /\ InStep
    BY DEF Shape
  <2>2. RequestTypes /\ DeviceTypes /\ AnswerTypes /\ ReaderTypes /\ FlagTypes
    BY DEF BatchTypes
  <2>3. RequestTypes'
    BY <2>1, <2>2, RequestTypesKept
  <2>4. DeviceTypes'
    BY <2>2, DeviceTypesKept
  <2>5. AnswerTypes'
    BY <2>2, AnswerTypesKept
  <2>6. ReaderTypes'
    BY <2>2, ReaderTypesKept
  <2>7. FlagTypes'
    BY <2>2, FlagTypesKept
  <2> QED BY <2>3, <2>4, <2>5, <2>6, <2>7 DEF BatchTypes
<1>3. Rings'
  BY RingsKept
<1>4. CountTypes'
  BY CountTypesKept
<1>5. TagsKept'
  BY TagsStep DEF Shape
<1>6. StatusKept'
  BY StatusStep
<1>7. (program \in OnFlash => Phase /\ FileKnown)'
  <2>1. program' = program
    BY DEF HostStep
  <2>2. CASE program \in OnFlash
    <3>1. Phase'
      BY <1>5, <2>2, PhaseKept
    <3>2. FileKnown'
      BY <2>2, <3>1, FileStep
    <3> QED BY <3>1, <3>2
  <2> QED BY <2>1, <2>2
<1> QED BY <1>1, <1>2, <1>3, <1>4, <1>5, <1>6, <1>7

(* A step of something else. *)
LEMMA HostInvStays ==
  ASSUME HostInv, UNCHANGED << program, batch, flash >>
  PROVE  HostInv'
<1> USE DEF HostInv, FlashKept, batch, flash, process, disk, writer, reader, devOut
<1>1. Shape'
  BY DEF Shape, Shaped, Idle, Used, InStep, Checking, At
<1>2. BatchTypes'
  BY DEF BatchTypes, RequestTypes, RequestQueues, DeviceTypes, AnswerTypes, AnswerQueues,
         ReaderTypes, FlagTypes, Header
<1>3. Rings'
  BY DEF Rings, Idle, Used, RingsIdle, RingsInUse, AllRequestBufs, NumOwn, OwnSet, ReadBufs,
         AllAnswerBufs, Filled, AtFront
<1>4. CountTypes'
  BY DEF CountTypes
<1>5. TagsKept'
  BY TagsStay DEF tagVars
<1>6. StatusKept'
  BY StatusStays DEF statusVars
<1>7. (program \in OnFlash => Phase /\ FileKnown)'
  <2>1. Phase' <=> Phase
    <3>1. /\ AtRead(script)' <=> AtRead(script)
          /\ AtFirsts(script)' <=> AtFirsts(script)
          /\ AtPopulate(script)' <=> AtPopulate(script)
          /\ \A k \in 0 .. NumVirtual : AtErase(script, k)' <=> AtErase(script, k)
      BY Primed
    <3>2. /\ AtGive(script)' <=> AtGive(script)
          /\ AtInit(script)' <=> AtInit(script)
          /\ AfterInit(script)' <=> AfterInit(script)
          /\ Late(script)' <=> Late(script)
      BY Primed
    <3>3. StartPhase' <=> StartPhase
      BY <3>1 DEF StartPhase
    <3>4. RunPhase' <=> RunPhase
      BY <3>2 DEF RunPhase
    <3>5. (Before' <=> Before) /\ (Mapped' <=> Mapped)
      BY DEF Before, Mapped
    <3> QED BY <3>3, <3>4, <3>5 DEF Phase
  <2>2. FileKnown' <=> FileKnown
    BY Zenon DEF FileKnown, AtRead, AtFirsts, AtPopulate, AtGive, AtInit, AfterInit, Late
  <2> QED BY <2>1, <2>2
<1> QED BY <1>1, <1>2, <1>3, <1>4, <1>5, <1>6, <1>7

-----------------------------------------------------------------------------
(* The start of a process. *)
LEMMA EmptyIsSeq == \A S : << >> \in Seq(S)
OBVIOUS

LEMMA BatchBegins ==
  ASSUME NEW s, Idle(s), BatchInit(s)
  PROVE  Shape /\ BatchTypes /\ Rings
<1> USE Positive DEF BatchInit
<1>1. Shape
  BY DEF Shape, Shaped, InStep, Checking
<1>2. RequestTypes /\ FlagTypes /\ DeviceTypes
  <2>1. RequestQueues
    BY EmptyIsSeq DEF RequestQueues
  <2>2. src \in Seq(Ops3) /\ devQ \in Seq(Ops3) /\ outQ \in Seq(UnitT)
    BY EmptyIsSeq
  <2>3. todo \in Nat /\ srcOff \in 0 .. BufSize
    OBVIOUS
  <2>4. FlagTypes
    BY DEF FlagTypes
  <2> QED BY <2>1, <2>2, <2>3, <2>4 DEF RequestTypes, DeviceTypes
<1>3. AnswerTypes
  <2>1. \A b \in Bufs : << >> \in Seq(UnitT)
    OBVIOUS
  <2>2. dst \in [ Bufs -> Seq(UnitT) ]
    BY <2>1
  <2>3. Len(wrDoneQ) = 0 /\ Len(returnWrite) = 0
    OBVIOUS
  <2> QED BY <2>2, <2>3 DEF AnswerTypes, AnswerQueues
<1>4. ReaderTypes
  <2>1. Len(units) = 0 /\ units \in Seq(UnitT)
    OBVIOUS
  <2> QED BY <2>1 DEF ReaderTypes
<1>5. Rings
  BY DEF Rings, RingsIdle
<1> QED BY <1>1, <1>2, <1>3, <1>4, <1>5 DEF BatchTypes

LEMMA BatchBeginsAgain ==
  ASSUME NEW s, Idle(s), BatchRestart(s)
  PROVE  Shape' /\ BatchTypes' /\ Rings'
<1> USE Positive DEF BatchRestart
<1>0. Idle(script')
  OBVIOUS
<1>1. Shape'
  BY <1>0 DEF Shape, Shaped, InStep, Checking, Idle
<1>2. RequestTypes' /\ FlagTypes' /\ DeviceTypes'
  <2>1. RequestQueues'
    BY EmptyIsSeq DEF RequestQueues
  <2>2. src' \in Seq(Ops3) /\ devQ' \in Seq(Ops3) /\ outQ' \in Seq(UnitT)
    BY EmptyIsSeq
  <2>3. todo' \in Nat /\ srcOff' \in 0 .. BufSize
    OBVIOUS
  <2>4. FlagTypes'
    BY DEF FlagTypes
  <2> QED BY <2>1, <2>2, <2>3, <2>4 DEF RequestTypes, DeviceTypes
<1>3. AnswerTypes'
  <2>1. \A b \in Bufs : << >> \in Seq(UnitT)
    OBVIOUS
  <2>2. dst' \in [ Bufs -> Seq(UnitT) ]
    BY <2>1
  <2>3. Len(wrDoneQ') = 0 /\ Len(returnWrite') = 0
    OBVIOUS
  <2> QED BY <2>2, <2>3 DEF AnswerTypes, AnswerQueues
<1>4. ReaderTypes'
  <2>1. Len(units') = 0 /\ units' \in Seq(UnitT)
    OBVIOUS
  <2> QED BY <2>1 DEF ReaderTypes
<1>5. Rings'
  BY <1>0 DEF Rings, RingsIdle, Idle
<1> QED BY <1>1, <1>2, <1>3, <1>4, <1>5 DEF BatchTypes

LEMMA IdleTags ==
  ASSUME NEW q, q = [ t \in 1 .. EraseTags |-> t ]
  PROVE  /\ q \in Seq(Tags) /\ Len(q) = EraseTags
         /\ \A i, j \in 1 .. Len(q) : q[i] = q[j] => i = j
<1>1. EraseTags \in Nat
  BY FlashAssumption
<1>2. q \in [ 1 .. EraseTags -> Tags ]
  BY DEF Tags
<1>3. q \in Seq(Tags) /\ Len(q) = EraseTags
  BY <1>1, <1>2, MapSeq
<1> QED BY <1>3

LEMMA Uninit ==
  LET u == OnAllChips([ b \in 0 .. Blocks - 1 |-> "UNINIT" ])
  IN  u \in Statuses /\ \A c \in 0 .. Chips - 1, k \in 0 .. Blocks - 1 : u[c][k] = "UNINIT"
BY DEF OnAllChips, Statuses, FlashStatusT

LEMMA FlashBegins ==
  ASSUME ProcessInit, file # << >> => file \in Statuses,
         program \in OnFlash => AtRead(script) /\ ~ asked,
         file # << >> => \A c \in 0 .. Chips - 1, k \in 0 .. Blocks - 1 :
                           file[c][k] = "FRESH" => << c, k >> \in erased
  PROVE  FlashKept
<1> USE DEF ProcessInit
<1>1. CountTypes
  BY DEF CountTypes, OnAllChips
<1>2. TagsKept
  <2>1. /\ eraseTagQ \in Seq(Tags) /\ Len(eraseTagQ) = EraseTags
        /\ \A i, j \in 1 .. Len(eraseTagQ) : eraseTagQ[i] = eraseTagQ[j] => i = j
    BY IdleTags
  <2>2. tag2block \in [ Tags -> Nat ]
    BY DEF Tags
  <2>3. IsFiniteSet(erasing) /\ Cardinality(erasing) = 0
    BY FS_EmptySet
  <2>4. EraseTags \in Nat
    BY FlashAssumption
  <2>5. TagsExact
    BY <2>1, <2>3, <2>4 DEF TagsExact
  <2> QED BY <2>1, <2>2, <2>3, <2>5 DEF TagsKept
<1>3. StatusKept
  BY Uninit DEF StatusKept, StatusTypes, FreshKnown, MapKnown, UnwrittenIsErased
<1>4. ASSUME program \in OnFlash PROVE Phase /\ FileKnown
  BY <1>4 DEF Phase, Before, StartPhase, FileKnown
<1> QED BY <1>1, <1>2, <1>3, <1>4 DEF FlashKept

LEMMA FlashBeginsAgain ==
  ASSUME HostInv, program \in OnFlash, ProcessRestart, UNCHANGED << program, file, erased, bad, twice >>,
         crashed' = (crashed \/ script # << >>), AtRead(script'), asked' = FALSE
  PROVE  FlashKept'
<1> USE DEF ProcessRestart
<1>1. CountTypes'
  BY DEF CountTypes, OnAllChips
<1>2. TagsKept'
  <2>1. /\ eraseTagQ' \in Seq(Tags) /\ Len(eraseTagQ') = EraseTags
        /\ \A i, j \in 1 .. Len(eraseTagQ') : eraseTagQ'[i] = eraseTagQ'[j] => i = j
    BY IdleTags
  <2>2. tag2block' \in [ Tags -> Nat ]
    BY DEF Tags
  <2>3. IsFiniteSet(erasing') /\ Cardinality(erasing') = 0
    BY FS_EmptySet
  <2>4. EraseTags \in Nat
    BY FlashAssumption
  <2>5. TagsExact'
    BY <2>1, <2>3, <2>4 DEF TagsExact
  <2> QED BY <2>1, <2>2, <2>3, <2>5 DEF TagsKept
<1>3. file' # << >> => file' \in Statuses
  BY DEF HostInv, FlashKept, StatusKept, StatusTypes
<1>4. StatusKept'
  BY <1>3, Uninit DEF StatusKept, StatusTypes, FreshKnown, MapKnown, UnwrittenIsErased
<1>5. Phase'
  <2>1. AtRead(script)'
    BY Primed
  <2> QED BY <2>1 DEF Phase, Before, StartPhase
<1>6. FileKnown'
  <2>1. FileKnown
    BY DEF HostInv, FlashKept
  <2>2. ASSUME ~ crashed', ~ twice', file' # << >>
        PROVE  \A c \in 0 .. Chips - 1, k \in 0 .. Blocks - 1 :
                 file'[c][k] = "FRESH" => << c, k >> \in erased'
    BY <2>1, <2>2 DEF FileKnown
  <2> QED BY <2>2 DEF FileKnown
<1> QED BY <1>1, <1>2, <1>4, <1>5, <1>6 DEF FlashKept

-----------------------------------------------------------------------------
(* The scripts of the programs, from their parts. *)
FourOf(n, g) ==
  (((((StartFlash \o GiveInit) \o SendsOf("SET", n)) \o Flushed)
     \o SendsOf("GET", g)) \o Flushed) \o StoreSteps

SixOf(n) ==
  (((((((StartFlash \o GiveInit) \o SendsOf("SET", n)) \o Flush1)
       \o ChecksOf("SET", n)) \o SendsOf("GET", n)) \o Flush1)
       \o ChecksOf("GET", n)) \o StoreSteps

FinalOf(n, g) == (GiveInit \o BatchesOf("SET", n, g)) \o BatchesOf("GET", n, g)

MultiOf(n, g) == (((GiveInit \o SendsOf("SET", n)) \o Flushed) \o SendsOf("GET", g)) \o Flushed

ScriptOf(p, n, g) ==
  CASE p = "TestBluecache"      -> SixOf(2 * g)
    [] p = "BetterDRAM"         -> FourOf(n, g)
    [] p = "BetterDRAMSticky"   -> FourOf(n, g)
    [] p = "TestBluecacheFlash" -> FourOf(n, g)
    [] p = "TestBluecacheFinal" -> FinalOf(n, g)
    [] p = "Multi5678"          -> MultiOf(n, g)
    [] OTHER                    -> << Step("give", "", 0) >>

LEMMA FourOfIs ==
  \A n, g \in Nat : Idle(FourOf(n, g)) /\ AtRead(FourOf(n, g))
<1> TAKE n, g \in Nat
<1>1. SendsOf("SET", n) \in Seq(MidSteps) /\ SendsOf("GET", g) \in Seq(MidSteps)
      /\ Flushed \in Seq(MidSteps)
  BY PartsAre DEF Ops3
<1>2. FourOf(n, g) = (((((StartFlash \o GiveInit) \o SendsOf("SET", n)) \o Flushed)
                         \o SendsOf("GET", g)) \o Flushed) \o StoreSteps
  BY Zenon DEF FourOf
<1> QED BY <1>1, <1>2, FourScript, Zenon

LEMMA SixOfIs ==
  \A n \in Nat : Idle(SixOf(n)) /\ AtRead(SixOf(n))
<1> TAKE n \in Nat
<1>1. SendsOf("SET", n) \in Seq(MidSteps) /\ SendsOf("GET", n) \in Seq(MidSteps)
      /\ ChecksOf("SET", n) \in Seq(MidSteps) /\ ChecksOf("GET", n) \in Seq(MidSteps)
      /\ Flush1 \in Seq(MidSteps)
  BY PartsAre DEF Ops3
<1>2. SixOf(n) = (((((((StartFlash \o GiveInit) \o SendsOf("SET", n)) \o Flush1)
                      \o ChecksOf("SET", n)) \o SendsOf("GET", n)) \o Flush1)
                      \o ChecksOf("GET", n)) \o StoreSteps
  BY Zenon DEF SixOf
<1> QED BY <1>1, <1>2, SixScript, Zenon

LEMMA PartsRest ==
  \A op \in Ops3, n \in Nat : SendsOf(op, n) \in Seq(RestSteps) /\ Flushed \in Seq(RestSteps)
<1> TAKE op \in Ops3, n \in Nat
<1>1. SendsOf(op, n) \in Seq(MidSteps) /\ Flushed \in Seq(MidSteps)
  BY PartsAre
<1> QED BY <1>1, MidRest, Zenon

LEMMA PlainOfIs ==
  \A n, g \in Nat : Idle(FinalOf(n, g)) /\ Idle(MultiOf(n, g))
<1> TAKE n, g \in Nat
<1>0. "SET" \in Ops3 /\ "GET" \in Ops3
  BY DEF Ops3
<1>1. BatchesOf("SET", n, g) \in Seq(RestSteps) /\ BatchesOf("GET", n, g) \in Seq(RestSteps)
  BY <1>0, PartsAre, Zenon
<1>2. SendsOf("SET", n) \in Seq(RestSteps) /\ SendsOf("GET", g) \in Seq(RestSteps)
      /\ Flushed \in Seq(RestSteps)
  BY <1>0, PartsRest, Zenon
<1>3. Idle(FinalOf(n, g))
  BY <1>1, TwoPlain, Zenon DEF FinalOf
<1>4. Idle(MultiOf(n, g))
  BY <1>2, FourPlain, Zenon DEF MultiOf
<1> QED BY <1>3, <1>4

LEMMA ScriptIs ==
  \A p : \A n, g \in Nat :
    Idle(ScriptOf(p, n, g)) /\ (p \in OnFlash => AtRead(ScriptOf(p, n, g)))
<1> SUFFICES ASSUME NEW p, NEW n \in Nat, NEW g \in Nat
             PROVE  Idle(ScriptOf(p, n, g)) /\ (p \in OnFlash => AtRead(ScriptOf(p, n, g)))
  OBVIOUS
<1>1. 2 * g \in Nat
  OBVIOUS
<1>2. Idle(SixOf(2 * g)) /\ AtRead(SixOf(2 * g))
  BY <1>1, SixOfIs, Zenon
<1>3. Idle(FourOf(n, g)) /\ AtRead(FourOf(n, g))
  BY FourOfIs
<1>4. Idle(FinalOf(n, g)) /\ Idle(MultiOf(n, g))
  BY PlainOfIs
<1> QED BY <1>2, <1>3, <1>4, OnlyGive DEF ScriptOf, OnFlash, Programs

-----------------------------------------------------------------------------
(* A program with flash starts again. *)
Restarted ==
  /\ program \in OnFlash
  /\ StartAgain(ScriptOf(program, 0, 0))
  /\ UNCHANGED program

LEMMA RestartKeeps ==
  ASSUME HostInv, Restarted
  PROVE  HostInv'
<1>1. Idle(ScriptOf(program, 0, 0)) /\ AtRead(ScriptOf(program, 0, 0))
  BY ScriptIs DEF Restarted
<1>2. BatchRestart(ScriptOf(program, 0, 0))
  BY DEF Restarted, StartAgain
<1>3. script' = ScriptOf(program, 0, 0) /\ asked' = FALSE
  BY <1>2 DEF BatchRestart
<1>4. Shape' /\ BatchTypes' /\ Rings'
  BY <1>1, <1>2, BatchBeginsAgain
<1>5. FlashKept'
  <2>1. /\ program \in OnFlash /\ ProcessRestart /\ UNCHANGED << program, file, erased, bad, twice >>
        /\ crashed' = (crashed \/ script # << >>)
    BY DEF Restarted, StartAgain
  <2> QED BY <1>1, <1>3, <2>1, FlashBeginsAgain
<1> QED BY <1>4, <1>5 DEF HostInv

(* A program begins on a blank flash or on one that was formatted before. *)
Blank == FlashInit

FormattedBefore ==
  /\ ProcessInit
  /\ erased = (0 .. Chips - 1) \X (0 .. Real - 1)
  /\ file = OnAllChips([ b \in 0 .. Blocks - 1 |->
                            IF b < Real THEN "FRESH" ELSE "UNINIT" ])

Begun ==
  \E n, g \in Nat :
    BatchInit(ScriptOf(program, n, g)) /\ (Blank \/ FormattedBefore)

LEMMA HostBegins ==
  ASSUME Begun
  PROVE  HostInv
<1>1. PICK n \in Nat, g \in Nat : BatchInit(ScriptOf(program, n, g)) /\ (Blank \/ FormattedBefore)
  BY DEF Begun
<1>2. Idle(ScriptOf(program, n, g)) /\ (program \in OnFlash => AtRead(ScriptOf(program, n, g)))
  BY ScriptIs
<1>3. script = ScriptOf(program, n, g) /\ ~ asked
  BY <1>1 DEF BatchInit
<1>4. Shape /\ BatchTypes /\ Rings
  BY <1>1, <1>2, BatchBegins
<1>5. program \in OnFlash => AtRead(script) /\ ~ asked
  BY <1>2, <1>3
<1>6. CASE Blank
  <2>1. ProcessInit /\ file = << >>
    BY <1>6 DEF Blank, FlashInit
  <2>2. FlashKept
    BY <1>5, <2>1, FlashBegins
  <2> QED BY <1>4, <2>2 DEF HostInv
<1>7. CASE FormattedBefore
  <2>1. ProcessInit
    BY <1>7 DEF FormattedBefore
  <2>2. file \in Statuses
    BY <1>7 DEF FormattedBefore, OnAllChips, Statuses, FlashStatusT
  <2>3. \A c \in 0 .. Chips - 1, k \in 0 .. Blocks - 1 : file[c][k] = "FRESH" => << c, k >> \in erased
    <3> SUFFICES ASSUME NEW c \in 0 .. Chips - 1, NEW k \in 0 .. Blocks - 1, file[c][k] = "FRESH"
                 PROVE  << c, k >> \in erased
      OBVIOUS
    <3>1. file[c][k] = IF k < Real THEN "FRESH" ELSE "UNINIT"
      BY <1>7 DEF FormattedBefore, OnAllChips
    <3>2. k \in 0 .. Real - 1
      BY <3>1, FlashAssumption
    <3> QED BY <1>7, <3>2 DEF FormattedBefore
  <2>4. FlashKept
    BY <1>5, <2>1, <2>2, <2>3, FlashBegins
  <2> QED BY <1>4, <2>4 DEF HostInv
<1> QED BY <1>1, <1>6, <1>7

-----------------------------------------------------------------------------
(* What a program may do: a step of its own, a start, or nothing. *)
HostMove == HostStep \/ Restarted \/ UNCHANGED << program, batch, flash >>

LEMMA HostMoves ==
  HostInv /\ HostMove => HostInv'
BY HostInvKept, RestartKeeps, HostInvStays DEF HostMove

(* What follows from the invariant. *)
LEMMA HostInvGives ==
  HostInv => BatchTypeOK /\ EveryBufferOnce /\ TagsExact /\ UnwrittenIsErased
<1> SUFFICES ASSUME HostInv
             PROVE  BatchTypeOK /\ EveryBufferOnce /\ TagsExact /\ UnwrittenIsErased
  OBVIOUS
<1>1. InStep /\ BatchTypes /\ Rings
  BY DEF HostInv, Shape
<1>2. BatchTypeOK
  BY <1>1, TypesImply
<1>3. EveryBufferOnce
  BY <1>1, EveryBuffer
<1>4. TagsExact /\ UnwrittenIsErased
  BY DEF HostInv, FlashKept, TagsKept, StatusKept
<1> QED BY <1>2, <1>3, <1>4

LEMMA OneBlockMoves ==
  HostInv /\ HostMove => OneBlockEachUnlessGap
<1> SUFFICES ASSUME HostInv, HostMove
             PROVE  OneBlockEachUnlessGap
  OBVIOUS
<1>1. CASE HostStep
  BY <1>1, OneBlockStep DEF HostInv, FlashKept
<1>2. CASE Restarted
  BY <1>2 DEF Restarted, StartAgain, ProcessRestart, OneBlockEachUnlessGap
<1>3. CASE UNCHANGED << program, batch, flash >>
  BY <1>3 DEF flash, process, OneBlockEachUnlessGap
<1> QED BY <1>1, <1>2, <1>3 DEF HostMove

-----------------------------------------------------------------------------
HP == INSTANCE HostPrograms

-----------------------------------------------------------------------------
(* The steps of each program. *)
LEMMA TestBluecacheSteps ==
  HP!Is("TestBluecache") /\ HP!TB!Next => HostStep
<1>1. HP!TB!StartUp \/ HP!TB!AskDump \/ HP!TB!WriteStatusFile => FlashMain
  BY Zenon DEF HP!TB!StartUp, HP!TB!AskDump, HP!TB!WriteStatusFile, HP!TB!ReadStatusFile,
  HP!TB!waitIdleEraseTag, HP!TB!FirstBlocks, HP!TB!populateMappingTable, HP!TB!At,
  HP!TB!Next1, HP!TB!writer, HP!TB!reader, HP!TB!devOut, HP!TB!disk, HP!TB!process,
  HP!TB!EraseAll, HP!TB!EraseBlock, HP!TB!First, HP!TB!Populate, HP!TB!NumVirtual,
  HP!TB!Step, HP!TB!Wait, HP!TB!RealIndex, HP!TB!WithStatus, HP!TB!Min, HP!TB!Cardinality,
  HP!TB!NumFound, HP!TB!blockMapTable, HP!TB!Injective, HP!TB!BlockFor, HP!TB!At2,
  HP!TB!NextFresh, HP!TB!SearchFrom, FlashMain, ReadStatusFile, EraseBlock, FirstBlocks,
  Populate, AskDump, WriteStatusFile, At, EraseAll, writer, reader, devOut, disk, RealIndex,
  Next1, First, Cardinality, NumFound, NumVirtual, blockMapTable, Injective, Step, process,
  Wait, WithStatus, Min, BlockFor, At2, NextFresh, SearchFrom
<1>2. HP!TB!FlashDevice => FlashDevice
  BY Zenon DEF HP!TB!FlashDevice, HP!TB!DeviceErase, HP!TB!eraseDone, HP!TB!DeviceProgram,
  HP!TB!DeviceDump, HP!TB!dumpMapResp, HP!TB!Cardinality, HP!TB!writer, HP!TB!reader,
  HP!TB!devOut, HP!TB!EraseAcked, HP!TB!At, HP!TB!NumVirtual, HP!TB!At2, HP!TB!batch,
  HP!TB!disk, HP!TB!DumpAnswered, HP!TB!Signal, HP!TB!Wait, HP!TB!ToSet, HP!TB!Step,
  FlashDevice, DeviceErase, EraseAcked, DeviceProgram, DeviceDump, DumpAnswered, Cardinality,
  writer, reader, devOut, NumVirtual, Signal, At, At2, batch, disk, Wait, ToSet, Step
<1>3. HP!TB!GiveBuffers \/ HP!TB!Sleep \/ HP!TB!sendSet \/ HP!TB!sendGet \/ HP!TB!sendEom \/
      HP!TB!dmaBufMemwrite \/ HP!TB!flushDmaBuf
      => GiveBuffers \/ Sleep \/ Writing
  BY Zenon DEF HP!TB!GiveBuffers, HP!TB!Sleep, HP!TB!sendSet, HP!TB!sendGet, HP!TB!sendEom,
  HP!TB!dmaBufMemwrite, HP!TB!flushDmaBuf, HP!TB!At, HP!TB!writer, HP!TB!reader,
  HP!TB!devOut, HP!TB!BeginWrite, HP!TB!WriteRest, HP!TB!WriteFull, HP!TB!WriteGetBuffer,
  HP!TB!waitIdleReadBuffer, HP!TB!FlushSend, HP!TB!FlushGetBuffer, HP!TB!Written,
  HP!TB!StartRead, HP!TB!TakeReadBuffer, GiveBuffers, Sleep, Writing, At, writer, reader,
  devOut, BeginWrite, WriteRest, WriteFull, WriteGetBuffer, TakeReadBuffer, FlushSend,
  FlushGetBuffer, Written, StartRead
<1>4. HP!TB!AskInit \/ HP!TB!Device => AskInit \/ Device
  BY Zenon DEF HP!TB!AskInit, HP!TB!Device, HP!TB!At, HP!TB!writer, HP!TB!reader,
  HP!TB!devOut, HP!TB!initDone, HP!TB!rdDone, HP!TB!wrDone, HP!TB!DeviceRead,
  HP!TB!doDMAWrite, HP!TB!Answer, HP!TB!InitDone, HP!TB!ReadBufferDone,
  HP!TB!WriteBufferDone, HP!TB!MayAnswer, HP!TB!RemoveAt, HP!TB!Unit, HP!TB!Signal,
  HP!TB!Wait, HP!TB!ToSet, HP!TB!Step, AskInit, Device, At, writer, reader, devOut, InitDone,
  ReadBufferDone, WriteBufferDone, DeviceRead, doDMAWrite, Answer, Signal, MayAnswer,
  RemoveAt, Unit, Wait, ToSet, Step
<1>5. HP!Is("TestBluecache") /\ HP!TB!checkGetResp => Reading
  BY Zenon DEF HP!Is, HP!TB!checkGetResp, HP!TB!dmaBufMemreadBuf, HP!TB!HandleValueFollows,
  HP!TB!HandleAnswer, HP!TB!Checked, HP!TB!HandleEom, HP!TB!resetDMADstBuf, HP!TB!ReadRest,
  HP!TB!At, HP!TB!ReadFull, HP!TB!waitIdleWriteBuffer, HP!TB!Header, HP!TB!writer,
  HP!TB!devOut, HP!TB!NextHeader, HP!TB!SkipPadding, HP!TB!DropWriteBuffer,
  HP!TB!FrontWriteBuffer, Reading, ReadRest, Reads, ReadFull, DropWriteBuffer,
  FrontWriteBuffer, HandleValueFollows, HandleAnswer, Noticed, HandleEom, SkipPadding,
  EomNoticed, writer, devOut, At, Header, NextHeader, Signal, Wait, ToSet, Step
<1> QED
  BY <1>1, <1>2, <1>3, <1>4, <1>5, Zenon DEF HP!TB!Next, HP!TB!MainThread, BatchStep,
  HostStep, HP!Is, HP!fifo, HP!test, HP!store_vars, HP!tagged, HP!oneByOne, fifo, test,
  store_vars, tagged, oneByOne, Programs, OnFlash, HP!TB!initMemcached, HP!TB!flash,
  HP!TB!process, HP!TB!disk, flash, process, disk

LEMMA BetterDRAMSteps ==
  HP!Is("BetterDRAM") /\ HP!BD!Next => HostStep
<1>1. HP!BD!StartUp \/ HP!BD!AskDump \/ HP!BD!WriteStatusFile => FlashMain
  BY Zenon DEF HP!BD!StartUp, HP!BD!AskDump, HP!BD!WriteStatusFile, HP!BD!ReadStatusFile,
  HP!BD!waitIdleEraseTag, HP!BD!FirstBlocks, HP!BD!populateMappingTable, HP!BD!At,
  HP!BD!Next1, HP!BD!writer, HP!BD!reader, HP!BD!devOut, HP!BD!disk, HP!BD!process,
  HP!BD!EraseAll, HP!BD!EraseBlock, HP!BD!First, HP!BD!Populate, HP!BD!NumVirtual,
  HP!BD!Step, HP!BD!Wait, HP!BD!RealIndex, HP!BD!WithStatus, HP!BD!Min, HP!BD!Cardinality,
  HP!BD!NumFound, HP!BD!blockMapTable, HP!BD!Injective, HP!BD!BlockFor, HP!BD!At2,
  HP!BD!NextFresh, HP!BD!SearchFrom, FlashMain, ReadStatusFile, EraseBlock, FirstBlocks,
  Populate, AskDump, WriteStatusFile, At, EraseAll, writer, reader, devOut, disk, RealIndex,
  Next1, First, Cardinality, NumFound, NumVirtual, blockMapTable, Injective, Step, process,
  Wait, WithStatus, Min, BlockFor, At2, NextFresh, SearchFrom
<1>2. HP!BD!FlashDevice => FlashDevice
  BY Zenon DEF HP!BD!FlashDevice, HP!BD!DeviceErase, HP!BD!eraseDone, HP!BD!DeviceProgram,
  HP!BD!DeviceDump, HP!BD!dumpMapResp, HP!BD!Cardinality, HP!BD!writer, HP!BD!reader,
  HP!BD!devOut, HP!BD!EraseAcked, HP!BD!At, HP!BD!NumVirtual, HP!BD!At2, HP!BD!batch,
  HP!BD!disk, HP!BD!DumpAnswered, HP!BD!Signal, HP!BD!Wait, HP!BD!ToSet, HP!BD!Step,
  FlashDevice, DeviceErase, EraseAcked, DeviceProgram, DeviceDump, DumpAnswered, Cardinality,
  writer, reader, devOut, NumVirtual, Signal, At, At2, batch, disk, Wait, ToSet, Step
<1>3. HP!BD!GiveBuffers \/ HP!BD!Sleep \/ HP!BD!sendSet \/ HP!BD!sendGet \/ HP!BD!sendEom \/
      HP!BD!dmaBufMemwrite \/ HP!BD!flushDmaBuf
      => GiveBuffers \/ Sleep \/ Writing
  BY Zenon DEF HP!BD!GiveBuffers, HP!BD!Sleep, HP!BD!sendSet, HP!BD!sendGet, HP!BD!sendEom,
  HP!BD!dmaBufMemwrite, HP!BD!flushDmaBuf, HP!BD!At, HP!BD!writer, HP!BD!reader,
  HP!BD!devOut, HP!BD!BeginWrite, HP!BD!WriteRest, HP!BD!WriteFull, HP!BD!WriteGetBuffer,
  HP!BD!waitIdleReadBuffer, HP!BD!FlushSend, HP!BD!FlushGetBuffer, HP!BD!Written,
  HP!BD!StartRead, HP!BD!TakeReadBuffer, GiveBuffers, Sleep, Writing, At, writer, reader,
  devOut, BeginWrite, WriteRest, WriteFull, WriteGetBuffer, TakeReadBuffer, FlushSend,
  FlushGetBuffer, Written, StartRead
<1>4. HP!BD!AskInit \/ HP!BD!Device => AskInit \/ Device
  BY Zenon DEF HP!BD!AskInit, HP!BD!Device, HP!BD!At, HP!BD!writer, HP!BD!reader,
  HP!BD!devOut, HP!BD!initDone, HP!BD!rdDone, HP!BD!wrDone, HP!BD!DeviceRead,
  HP!BD!doDMAWrite, HP!BD!Answer, HP!BD!InitDone, HP!BD!ReadBufferDone,
  HP!BD!WriteBufferDone, HP!BD!MayAnswer, HP!BD!RemoveAt, HP!BD!Unit, HP!BD!Signal,
  HP!BD!Wait, HP!BD!ToSet, HP!BD!Step, AskInit, Device, At, writer, reader, devOut, InitDone,
  ReadBufferDone, WriteBufferDone, DeviceRead, doDMAWrite, Answer, Signal, MayAnswer,
  RemoveAt, Unit, Wait, ToSet, Step
<1>5. HP!Is("BetterDRAM") /\ HP!BD!decode_response => Reading
  BY Zenon DEF HP!Is, HP!BD!decode_response, HP!BD!dmaBufMemreadBuf, HP!BD!HandleValueFollows,
  HP!BD!HandleAnswer, HP!BD!HandleEom, HP!BD!resetDMADstBuf, HP!BD!Signal, HP!BD!ReadRest,
  HP!BD!ReadFull, HP!BD!waitIdleWriteBuffer, HP!BD!Header, HP!BD!writer, HP!BD!devOut,
  HP!BD!NextHeader, HP!BD!SkipPadding, HP!BD!Wait, HP!BD!ToSet, HP!BD!DropWriteBuffer,
  HP!BD!FrontWriteBuffer, HP!BD!Step, Reading, ReadRest, Reads, ReadFull, DropWriteBuffer,
  FrontWriteBuffer, HandleValueFollows, HandleAnswer, Noticed, HandleEom, SkipPadding,
  EomNoticed, writer, devOut, At, Header, NextHeader, Signal, Wait, ToSet, Step
<1> QED
  BY <1>1, <1>2, <1>3, <1>4, <1>5, Zenon DEF HP!BD!Next, HP!BD!MainThread, BatchStep,
  HostStep, HP!Is, HP!fifo, HP!test, HP!store_vars, HP!tagged, HP!oneByOne, fifo, test,
  store_vars, tagged, oneByOne, Programs, OnFlash, HP!BD!initMemcached, HP!BD!flash,
  HP!BD!process, HP!BD!disk, flash, process, disk

LEMMA BetterDRAMStickySteps ==
  HP!Is("BetterDRAMSticky") /\ HP!BS!Next => HostStep
<1>1. HP!BS!StartUp \/ HP!BS!AskDump \/ HP!BS!WriteStatusFile => FlashMain
  BY Zenon DEF HP!BS!StartUp, HP!BS!AskDump, HP!BS!WriteStatusFile, HP!BS!ReadStatusFile,
  HP!BS!waitIdleEraseTag, HP!BS!FirstBlocks, HP!BS!populateMappingTable, HP!BS!At,
  HP!BS!Next1, HP!BS!writer, HP!BS!reader, HP!BS!devOut, HP!BS!disk, HP!BS!process,
  HP!BS!EraseAll, HP!BS!EraseBlock, HP!BS!First, HP!BS!Populate, HP!BS!NumVirtual,
  HP!BS!Step, HP!BS!Wait, HP!BS!RealIndex, HP!BS!WithStatus, HP!BS!Min, HP!BS!Cardinality,
  HP!BS!NumFound, HP!BS!blockMapTable, HP!BS!Injective, HP!BS!BlockFor, HP!BS!At2,
  HP!BS!NextFresh, HP!BS!SearchFrom, FlashMain, ReadStatusFile, EraseBlock, FirstBlocks,
  Populate, AskDump, WriteStatusFile, At, EraseAll, writer, reader, devOut, disk, RealIndex,
  Next1, First, Cardinality, NumFound, NumVirtual, blockMapTable, Injective, Step, process,
  Wait, WithStatus, Min, BlockFor, At2, NextFresh, SearchFrom
<1>2. HP!BS!FlashDevice => FlashDevice
  BY Zenon DEF HP!BS!FlashDevice, HP!BS!DeviceErase, HP!BS!eraseDone, HP!BS!DeviceProgram,
  HP!BS!DeviceDump, HP!BS!dumpMapResp, HP!BS!Cardinality, HP!BS!writer, HP!BS!reader,
  HP!BS!devOut, HP!BS!EraseAcked, HP!BS!At, HP!BS!NumVirtual, HP!BS!At2, HP!BS!batch,
  HP!BS!disk, HP!BS!DumpAnswered, HP!BS!Signal, HP!BS!Wait, HP!BS!ToSet, HP!BS!Step,
  FlashDevice, DeviceErase, EraseAcked, DeviceProgram, DeviceDump, DumpAnswered, Cardinality,
  writer, reader, devOut, NumVirtual, Signal, At, At2, batch, disk, Wait, ToSet, Step
<1>3. HP!BS!GiveBuffers \/ HP!BS!Sleep \/ HP!BS!sendSet \/ HP!BS!sendGet \/ HP!BS!sendEom \/
      HP!BS!dmaBufMemwrite \/ HP!BS!flushDmaBuf
      => GiveBuffers \/ Sleep \/ Writing
  BY Zenon DEF HP!BS!GiveBuffers, HP!BS!Sleep, HP!BS!sendSet, HP!BS!sendGet, HP!BS!sendEom,
  HP!BS!dmaBufMemwrite, HP!BS!flushDmaBuf, HP!BS!At, HP!BS!writer, HP!BS!reader,
  HP!BS!devOut, HP!BS!BeginWrite, HP!BS!WriteRest, HP!BS!WriteFull, HP!BS!WriteGetBuffer,
  HP!BS!waitIdleReadBuffer, HP!BS!FlushSend, HP!BS!FlushGetBuffer, HP!BS!Written,
  HP!BS!StartRead, HP!BS!TakeReadBuffer, GiveBuffers, Sleep, Writing, At, writer, reader,
  devOut, BeginWrite, WriteRest, WriteFull, WriteGetBuffer, TakeReadBuffer, FlushSend,
  FlushGetBuffer, Written, StartRead
<1>4. HP!BS!AskInit \/ HP!BS!Device => AskInit \/ Device
  BY Zenon DEF HP!BS!AskInit, HP!BS!Device, HP!BS!At, HP!BS!writer, HP!BS!reader,
  HP!BS!devOut, HP!BS!initDone, HP!BS!rdDone, HP!BS!wrDone, HP!BS!DeviceRead,
  HP!BS!doDMAWrite, HP!BS!Answer, HP!BS!InitDone, HP!BS!ReadBufferDone,
  HP!BS!WriteBufferDone, HP!BS!MayAnswer, HP!BS!RemoveAt, HP!BS!Unit, HP!BS!Signal,
  HP!BS!Wait, HP!BS!ToSet, HP!BS!Step, AskInit, Device, At, writer, reader, devOut, InitDone,
  ReadBufferDone, WriteBufferDone, DeviceRead, doDMAWrite, Answer, Signal, MayAnswer,
  RemoveAt, Unit, Wait, ToSet, Step
<1>5. HP!Is("BetterDRAMSticky") /\ HP!BS!decode_response => Reading
  BY Zenon DEF HP!Is, HP!BS!decode_response, HP!BS!dmaBufMemreadBuf, HP!BS!HandleValueFollows,
  HP!BS!HandleAnswer, HP!BS!HandleEom, HP!BS!resetDMADstBuf, HP!BS!Signal, HP!BS!ReadRest,
  HP!BS!ReadFull, HP!BS!waitIdleWriteBuffer, HP!BS!Header, HP!BS!writer, HP!BS!devOut,
  HP!BS!NextHeader, HP!BS!SkipPadding, HP!BS!Wait, HP!BS!ToSet, HP!BS!DropWriteBuffer,
  HP!BS!FrontWriteBuffer, HP!BS!Step, Reading, ReadRest, Reads, ReadFull, DropWriteBuffer,
  FrontWriteBuffer, HandleValueFollows, HandleAnswer, Noticed, HandleEom, SkipPadding,
  EomNoticed, writer, devOut, At, Header, NextHeader, Signal, Wait, ToSet, Step
<1> QED
  BY <1>1, <1>2, <1>3, <1>4, <1>5, Zenon DEF HP!BS!Next, HP!BS!MainThread, BatchStep,
  HostStep, HP!Is, HP!fifo, HP!test, HP!store_vars, HP!tagged, HP!oneByOne, fifo, test,
  store_vars, tagged, oneByOne, Programs, OnFlash, HP!BS!initMemcached, HP!BS!flash,
  HP!BS!process, HP!BS!disk, flash, process, disk

LEMMA TestBluecacheFlashSteps ==
  HP!Is("TestBluecacheFlash") /\ HP!TF!Next => HostStep
<1>1. HP!TF!StartUp \/ HP!TF!AskDump \/ HP!TF!WriteStatusFile => FlashMain
  BY Zenon DEF HP!TF!StartUp, HP!TF!AskDump, HP!TF!WriteStatusFile, HP!TF!ReadStatusFile,
  HP!TF!waitIdleEraseTag, HP!TF!FirstBlocks, HP!TF!populateMappingTable, HP!TF!At,
  HP!TF!Next1, HP!TF!writer, HP!TF!reader, HP!TF!devOut, HP!TF!disk, HP!TF!process,
  HP!TF!EraseAll, HP!TF!EraseBlock, HP!TF!First, HP!TF!Populate, HP!TF!NumVirtual,
  HP!TF!Step, HP!TF!Wait, HP!TF!RealIndex, HP!TF!WithStatus, HP!TF!Min, HP!TF!Cardinality,
  HP!TF!NumFound, HP!TF!blockMapTable, HP!TF!Injective, HP!TF!BlockFor, HP!TF!At2,
  HP!TF!NextFresh, HP!TF!SearchFrom, FlashMain, ReadStatusFile, EraseBlock, FirstBlocks,
  Populate, AskDump, WriteStatusFile, At, EraseAll, writer, reader, devOut, disk, RealIndex,
  Next1, First, Cardinality, NumFound, NumVirtual, blockMapTable, Injective, Step, process,
  Wait, WithStatus, Min, BlockFor, At2, NextFresh, SearchFrom
<1>2. HP!TF!FlashDevice => FlashDevice
  BY Zenon DEF HP!TF!FlashDevice, HP!TF!DeviceErase, HP!TF!eraseDone, HP!TF!DeviceProgram,
  HP!TF!DeviceDump, HP!TF!dumpMapResp, HP!TF!Cardinality, HP!TF!writer, HP!TF!reader,
  HP!TF!devOut, HP!TF!EraseAcked, HP!TF!At, HP!TF!NumVirtual, HP!TF!At2, HP!TF!batch,
  HP!TF!disk, HP!TF!DumpAnswered, HP!TF!Signal, HP!TF!Wait, HP!TF!ToSet, HP!TF!Step,
  FlashDevice, DeviceErase, EraseAcked, DeviceProgram, DeviceDump, DumpAnswered, Cardinality,
  writer, reader, devOut, NumVirtual, Signal, At, At2, batch, disk, Wait, ToSet, Step
<1>3. HP!TF!GiveBuffers \/ HP!TF!Sleep \/ HP!TF!sendSet \/ HP!TF!sendGet \/ HP!TF!sendEom \/
      HP!TF!dmaBufMemwrite \/ HP!TF!flushDmaBuf
      => GiveBuffers \/ Sleep \/ Writing
  BY Zenon DEF HP!TF!GiveBuffers, HP!TF!Sleep, HP!TF!sendSet, HP!TF!sendGet, HP!TF!sendEom,
  HP!TF!dmaBufMemwrite, HP!TF!flushDmaBuf, HP!TF!At, HP!TF!writer, HP!TF!reader,
  HP!TF!devOut, HP!TF!BeginWrite, HP!TF!WriteRest, HP!TF!WriteFull, HP!TF!WriteGetBuffer,
  HP!TF!waitIdleReadBuffer, HP!TF!FlushSend, HP!TF!FlushGetBuffer, HP!TF!Written,
  HP!TF!StartRead, HP!TF!TakeReadBuffer, GiveBuffers, Sleep, Writing, At, writer, reader,
  devOut, BeginWrite, WriteRest, WriteFull, WriteGetBuffer, TakeReadBuffer, FlushSend,
  FlushGetBuffer, Written, StartRead
<1>4. HP!TF!AskInit \/ HP!TF!Device => AskInit \/ Device
  BY Zenon DEF HP!TF!AskInit, HP!TF!Device, HP!TF!At, HP!TF!writer, HP!TF!reader,
  HP!TF!devOut, HP!TF!initDone, HP!TF!rdDone, HP!TF!wrDone, HP!TF!DeviceRead,
  HP!TF!doDMAWrite, HP!TF!Answer, HP!TF!InitDone, HP!TF!ReadBufferDone,
  HP!TF!WriteBufferDone, HP!TF!MayAnswer, HP!TF!RemoveAt, HP!TF!Unit, HP!TF!Signal,
  HP!TF!Wait, HP!TF!ToSet, HP!TF!Step, AskInit, Device, At, writer, reader, devOut, InitDone,
  ReadBufferDone, WriteBufferDone, DeviceRead, doDMAWrite, Answer, Signal, MayAnswer,
  RemoveAt, Unit, Wait, ToSet, Step
<1>5. HP!Is("TestBluecacheFlash") /\ HP!TF!decode_response => Reading
  BY Zenon DEF HP!Is, HP!TF!decode_response, HP!TF!dmaBufMemreadBuf, HP!TF!HandleValueFollows,
  HP!TF!HandleAnswer, HP!TF!HandleEom, HP!TF!resetDMADstBuf, HP!TF!Signal, HP!TF!ReadRest,
  HP!TF!ReadFull, HP!TF!waitIdleWriteBuffer, HP!TF!Header, HP!TF!writer, HP!TF!devOut,
  HP!TF!NextHeader, HP!TF!SkipPadding, HP!TF!Wait, HP!TF!ToSet, HP!TF!DropWriteBuffer,
  HP!TF!FrontWriteBuffer, HP!TF!Step, Reading, ReadRest, Reads, ReadFull, DropWriteBuffer,
  FrontWriteBuffer, HandleValueFollows, HandleAnswer, Noticed, HandleEom, SkipPadding,
  EomNoticed, writer, devOut, At, Header, NextHeader, Signal, Wait, ToSet, Step
<1> QED
  BY <1>1, <1>2, <1>3, <1>4, <1>5, Zenon DEF HP!TF!Next, HP!TF!MainThread, BatchStep,
  HostStep, HP!Is, HP!fifo, HP!test, HP!store_vars, HP!tagged, HP!oneByOne, fifo, test,
  store_vars, tagged, oneByOne, Programs, OnFlash, HP!TF!initMemcached, HP!TF!flash,
  HP!TF!process, HP!TF!disk, flash, process, disk

LEMMA TestBluecacheFinalSteps ==
  HP!Is("TestBluecacheFinal") /\ HP!TL!Next /\ HP!NoFlash => HostStep
<1>1. HP!TL!GiveBuffers \/ HP!TL!Sleep \/ HP!TL!sendSet \/ HP!TL!sendGet \/ HP!TL!sendEom \/
      HP!TL!dmaBufMemwrite \/ HP!TL!flushDmaBuf \/ HP!TL!PollEoms
      => GiveBuffers \/ Sleep \/ Writing \/ Polled
  BY Zenon DEF HP!TL!GiveBuffers, HP!TL!Sleep, HP!TL!sendSet, HP!TL!sendGet, HP!TL!sendEom,
  HP!TL!dmaBufMemwrite, HP!TL!flushDmaBuf, HP!TL!PollEoms, HP!TL!At, HP!TL!writer,
  HP!TL!reader, HP!TL!devOut, HP!TL!BeginWrite, HP!TL!WriteRest, HP!TL!WriteFull,
  HP!TL!WriteGetBuffer, HP!TL!waitIdleReadBuffer, HP!TL!FlushSend, HP!TL!FlushGetBuffer,
  HP!TL!Written, HP!TL!StartRead, HP!TL!TakeReadBuffer, GiveBuffers, Sleep, Writing, Polled,
  At, writer, reader, devOut, BeginWrite, WriteRest, WriteFull, WriteGetBuffer,
  TakeReadBuffer, FlushSend, FlushGetBuffer, Written, StartRead
<1>2. HP!TL!AskInit \/ HP!TL!Device => AskInit \/ Device
  BY Zenon DEF HP!TL!AskInit, HP!TL!Device, HP!TL!At, HP!TL!writer, HP!TL!reader,
  HP!TL!devOut, HP!TL!initDone, HP!TL!rdDone, HP!TL!wrDone, HP!TL!DeviceRead,
  HP!TL!doDMAWrite, HP!TL!Answer, HP!TL!InitDone, HP!TL!ReadBufferDone,
  HP!TL!WriteBufferDone, HP!TL!MayAnswer, HP!TL!RemoveAt, HP!TL!Unit, HP!TL!Signal,
  HP!TL!Wait, HP!TL!ToSet, HP!TL!Step, AskInit, Device, At, writer, reader, devOut, InitDone,
  ReadBufferDone, WriteBufferDone, DeviceRead, doDMAWrite, Answer, Signal, MayAnswer,
  RemoveAt, Unit, Wait, ToSet, Step
<1>3. HP!Is("TestBluecacheFinal") /\ HP!TL!decode_response => Reading
  BY Zenon DEF HP!Is, HP!TL!decode_response, HP!TL!dmaBufMemreadBuf, HP!TL!HandleValueFollows,
  HP!TL!HandleAnswer, HP!TL!HandleEom, HP!TL!resetDMADstBuf, HP!TL!ReadRest, HP!TL!ReadFull,
  HP!TL!waitIdleWriteBuffer, HP!TL!Header, HP!TL!writer, HP!TL!devOut, HP!TL!NextHeader,
  HP!TL!SkipPadding, HP!TL!DropWriteBuffer, HP!TL!FrontWriteBuffer, Reading, ReadRest, Reads,
  ReadFull, DropWriteBuffer, FrontWriteBuffer, HandleValueFollows, HandleAnswer, Noticed,
  HandleEom, SkipPadding, EomNoticed, writer, devOut, At, Header, NextHeader, Signal, Wait,
  ToSet, Step
<1> QED
  BY <1>1, <1>2, <1>3, Zenon DEF HP!TL!Next, HP!TL!MainThread, BatchStep, HostStep, HP!Is,
  HP!fifo, HP!test, HP!store_vars, HP!tagged, HP!oneByOne, fifo, test, store_vars, tagged,
  oneByOne, Programs, OnFlash, HP!TL!initMemcached, HP!NoFlash, HP!flash, HP!process,
  HP!disk, flash, process, disk

LEMMA Multi5678Steps ==
  HP!Is("Multi5678") /\ HP!MU!Next /\ HP!NoFlash => HostStep
<1>1. HP!MU!GiveBuffers \/ HP!MU!Sleep \/ HP!MU!sendSet \/ HP!MU!sendGet \/ HP!MU!sendEom \/
      HP!MU!dmaBufMemwrite \/ HP!MU!flushDmaBuf
      => GiveBuffers \/ Sleep \/ Writing
  BY Zenon DEF HP!MU!GiveBuffers, HP!MU!Sleep, HP!MU!sendSet, HP!MU!sendGet, HP!MU!sendEom,
  HP!MU!dmaBufMemwrite, HP!MU!flushDmaBuf, HP!MU!At, HP!MU!writer, HP!MU!reader,
  HP!MU!devOut, HP!MU!BeginWrite, HP!MU!WriteRest, HP!MU!WriteFull, HP!MU!WriteGetBuffer,
  HP!MU!waitIdleReadBuffer, HP!MU!FlushSend, HP!MU!FlushGetBuffer, HP!MU!Written,
  HP!MU!StartRead, HP!MU!TakeReadBuffer, GiveBuffers, Sleep, Writing, At, writer, reader,
  devOut, BeginWrite, WriteRest, WriteFull, WriteGetBuffer, TakeReadBuffer, FlushSend,
  FlushGetBuffer, Written, StartRead
<1>2. HP!MU!AskInit \/ HP!MU!Device => AskInit \/ Device
  BY Zenon DEF HP!MU!AskInit, HP!MU!Device, HP!MU!At, HP!MU!writer, HP!MU!reader,
  HP!MU!devOut, HP!MU!initDone, HP!MU!rdDone, HP!MU!wrDone, HP!MU!DeviceRead,
  HP!MU!doDMAWrite, HP!MU!Answer, HP!MU!InitDone, HP!MU!ReadBufferDone,
  HP!MU!WriteBufferDone, HP!MU!MayAnswer, HP!MU!RemoveAt, HP!MU!Unit, HP!MU!Signal,
  HP!MU!Wait, HP!MU!ToSet, HP!MU!Step, AskInit, Device, At, writer, reader, devOut, InitDone,
  ReadBufferDone, WriteBufferDone, DeviceRead, doDMAWrite, Answer, Signal, MayAnswer,
  RemoveAt, Unit, Wait, ToSet, Step
<1>3. HP!Is("Multi5678") /\ HP!MU!decode_response => Reading
  BY Zenon DEF HP!Is, HP!MU!decode_response, HP!MU!dmaBufMemreadBuf, HP!MU!HandleValueFollows,
  HP!MU!HandleAnswer, HP!MU!HandleEom, HP!MU!resetDMADstBuf, HP!MU!Signal, HP!MU!ReadRest,
  HP!MU!ReadFull, HP!MU!waitIdleWriteBuffer, HP!MU!Header, HP!MU!writer, HP!MU!devOut,
  HP!MU!NextHeader, HP!MU!SkipPadding, HP!MU!Wait, HP!MU!ToSet, HP!MU!DropWriteBuffer,
  HP!MU!FrontWriteBuffer, HP!MU!Step, Reading, ReadRest, Reads, ReadFull, DropWriteBuffer,
  FrontWriteBuffer, HandleValueFollows, HandleAnswer, Noticed, HandleEom, SkipPadding,
  EomNoticed, writer, devOut, At, Header, NextHeader, Signal, Wait, ToSet, Step
<1> QED
  BY <1>1, <1>2, <1>3, Zenon DEF HP!MU!Next, HP!MU!MainThread, BatchStep, HostStep, HP!Is,
  HP!fifo, HP!test, HP!store_vars, HP!tagged, HP!oneByOne, fifo, test, store_vars, tagged,
  oneByOne, Programs, OnFlash, HP!NoFlash, HP!flash, HP!process, HP!disk, flash, process,
  disk

-----------------------------------------------------------------------------
(* The scripts of the programs are these.                                  *)
LEMMA ScriptSame == \A p, n, g : HP!Script(p, n, g) = ScriptOf(p, n, g)
<1> TAKE p, n, g
<1>1. HP!BD!runtest(n, g) = FourOf(n, g) /\ HP!BS!runtest(n, g) = FourOf(n, g)
      /\ HP!TF!runtest(n, g) = FourOf(n, g)
  BY Zenon DEF HP!BD!runtest, HP!BD!StartFlash, HP!BD!Step, HP!BD!Wait, HP!BD!storeFlashStatus,
     HP!BD!StoreSteps, HP!BS!runtest, HP!BS!StartFlash, HP!BS!Step, HP!BS!Wait,
     HP!BS!storeFlashStatus, HP!BS!StoreSteps, HP!TF!runtest, HP!TF!StartFlash, HP!TF!Step,
     HP!TF!Wait, HP!TF!storeFlashStatus, HP!TF!StoreSteps,
     FourOf, StartFlash, GiveInit, Give, SendsOf, Flushed, StoreSteps, Step, Wait
<1>2. \A m : HP!TB!runtest(m) = SixOf(m)
  BY Zenon DEF HP!TB!runtest, HP!TB!StartFlash, HP!TB!Step, HP!TB!Wait, HP!TB!storeFlashStatus,
     HP!TB!StoreSteps, HP!TB!checkSetResp, HP!TB!Check,
     SixOf, StartFlash, GiveInit, Give, SendsOf, Flush1, ChecksOf, StoreSteps, Step, Wait
<1>3. HP!TL!runtest(n, g) = FinalOf(n, g) /\ HP!MU!runtest(n, g) = MultiOf(n, g)
  BY Zenon DEF HP!TL!runtest, HP!TL!Batches, HP!TL!Step, HP!TL!Wait, HP!MU!runtest,
     HP!MU!initBluecache, HP!MU!Step, HP!MU!Wait,
     FinalOf, MultiOf, GiveInit, Give, SendsOf, Flushed, BatchesOf, Step, Wait
<1> QED BY <1>1, <1>2, <1>3, Zenon DEF HP!Script, HP!Step, ScriptOf, Step

(* A program that is started again, every step, and the first state.       *)
LEMMA RunAgainIs == HP!RunAgain => Restarted
BY ScriptSame, Zenon DEF HP!RunAgain, HP!StartAgain, HP!BatchRestart, HP!ProcessRestart,
   HP!OnAllChips, HP!Bufs, HP!OnFlash, HP!Programs, Restarted, StartAgain, BatchRestart,
   ProcessRestart, OnAllChips, Bufs, OnFlash, Programs

LEMMA NextIs == [HP!Next]_(HP!vars) => HostMove
<1>1. HP!IsFifo \/ (\E p : HP!IsTest(p)) \/ UNCHANGED HP!vars
        => UNCHANGED << program, batch, flash >>
  BY Zenon DEF HP!IsFifo, HP!IsTest, HP!vars, HP!batch, HP!flash, HP!process, HP!disk, HP!writer,
     HP!reader, HP!devOut, batch, flash, process, disk, writer, reader, devOut
<1> QED
  BY <1>1, RunAgainIs, TestBluecacheSteps, BetterDRAMSteps, BetterDRAMStickySteps,
     TestBluecacheFlashSteps, TestBluecacheFinalSteps, Multi5678Steps, Zenon
  DEF HP!Next, HP!Threads, HostMove

LEMMA InitIs == HP!Init => Begun
<1>1. \A r \in Requests : r[1] \in Nat /\ r[2] \in Nat
  BY RequestsAssumption
<1>2. 0 \in Nat
  OBVIOUS
<1> QED
  BY <1>1, <1>2, ScriptSame, Zenon DEF HP!Init, HP!FlashInit, HP!Formatted, HP!ProcessInit, HP!BatchInit,
     HP!OnAllChips, HP!Bufs, Begun, Blank, FormattedBefore, FlashInit, ProcessInit,
     BatchInit, OnAllChips, Bufs

(* The invariant holds in every behaviour of the six programs.             *)
LEMMA HostInvHolds == HP!Spec => []HostInv
<1>1. HP!Init => HostInv
  BY InitIs, HostBegins, Zenon
<1>2. HostInv /\ [HP!Next]_(HP!vars) => HostInv'
  BY NextIs, HostMoves, Zenon
<1> QED BY <1>1, <1>2, PTL DEF HP!Spec

(* The variables of dmaBufMemwrite, of dmaBufMemread and of the device     *)
(* keep their types in every program, whatever it sends and however often  *)
(* it is started again.                                                    *)
THEOREM HostTypeCorrect == HP!Spec => []BatchTypeOK
<1>1. HostInv => BatchTypeOK
  BY HostInvGives, Zenon
<1> QED BY <1>1, HostInvHolds, PTL

(* From the moment the rings are in use each DMA buffer of either ring has *)
(* exactly one owner - the host, the device or a queue between them - and  *)
(* the buffer that is read is the oldest one that came back: startRead,    *)
(* rdDone, wrDone and freeWriteBufId neither lose a buffer nor hand it out *)
(* twice.                                                                  *)
THEOREM EveryBufferOnceHolds == HP!Spec => []EveryBufferOnce
<1>1. HostInv => EveryBufferOnce
  BY HostInvGives, Zenon
<1> QED BY <1>1, HostInvHolds, PTL

(* eraseDone records its status for the block that the erase was for,      *)
(* although there are fewer tags than blocks and erases finish in any      *)
(* order, also after a crash: no tag is in use twice and none is lost.     *)
THEOREM TagsExactHolds == HP!Spec => []TagsExact
<1>1. HostInv => TagsExact
  BY HostInvGives, Zenon
<1> QED BY <1>1, HostInvHolds, PTL

(* A block of the map that has not been written lies on an erased block,   *)
(* whether this process erased it or an earlier one stored its status,     *)
(* unless a process ended without storing the statuses or a block was      *)
(* mapped twice.                                                           *)
THEOREM UnwrittenIsErasedHolds == HP!Spec => []UnwrittenIsErased
<1>1. HostInv => UnwrittenIsErased
  BY HostInvGives, Zenon
<1> QED BY <1>1, HostInvHolds, PTL

(* populateMappingTable maps two virtual blocks to one real block only     *)
(* where the fresh blocks of the chip have a gap, on whatever flash and    *)
(* file a run begins.                                                      *)
THEOREM OneBlockEachHolds == HP!Spec => OneBlockEach
<1>1. HostInv /\ [HP!Next]_(HP!vars) => [OneBlockEachUnlessGap]_vars
  BY NextIs, OneBlockMoves, Zenon
<1> QED BY <1>1, HostInvHolds, PTL DEF HP!Spec, OneBlockEach

(* The FIFOs in a behaviour of the programs are the FIFOs by themselves. *)
LEMMA FifoSame == HP!Spec => FifoSpec
<1>1. HP!Init => FifoInit
  BY Zenon DEF HP!Init, HP!FifoInit, FifoInit
<1>2. [HP!Next]_(HP!vars) => [FifoNext]_fifo
  <2>1. HP!IsFifo /\ (HP!FifoRules \/ HP!enq) => FifoNext
    BY Zenon DEF HP!FifoRules, HP!enq, HP!doEnqToFPGA, HP!doReqFromHost, HP!doEnqToHost,
       HP!doDeqFromHost, HP!deq, HP!sendData, HP!elementReq, HP!Indicated, HP!isFull,
       FifoNext, FifoRules, enq, doEnqToFPGA, doReqFromHost, doEnqToHost,
       doDeqFromHost, deq, sendData, elementReq, Indicated, isFull
  <2>2. (\E p : HP!Is(p) \/ HP!IsTest(p)) \/ HP!RunAgain \/ UNCHANGED HP!vars => UNCHANGED fifo
    BY Zenon DEF HP!Is, HP!IsTest, HP!RunAgain, HP!vars, HP!fifo, fifo
  <2> QED BY <2>1, <2>2, Zenon DEF HP!Next, HP!Threads
<1> QED BY <1>1, <1>2, PTL DEF HP!Spec, FifoSpec

(* In a behaviour of the programs, too, the elements come out of the FIFO  *)
(* in the order of enq, unless the array of the host has grown while its   *)
(* contents were wrapped.                                                  *)
THEOREM ProgramFifoOrder == HP!Spec => []FifoOrder
BY FifoSame, FifoOrderHolds, PTL
=============================================================================
