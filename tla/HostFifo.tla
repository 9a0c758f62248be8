------------------------------ MODULE HostFifo ------------------------------
(***************************************************************************)
(* A FIFO of the FPGA that overflows into the memory of the host:          *)
(* lib/HostFIFO.bsv keeps up to n elements itself and sends the others to  *)
(* the host (sendData), which keeps them in an array that doubles when it  *)
(* is full, and asks for them back (elementReq) when it runs low.  The     *)
(* host side is BluecacheIndication of the programs that use the FIFO.     *)
(*                                                                         *)
(* The indications reach the host in the order in which they were sent.    *)
(* The elements are the numbers 1, 2, ... in the order of enq.             *)
(***************************************************************************)
EXTENDS Integers, SequencesExt

CONSTANTS
  FifoSize,       (* n                                                      *)
  LowerThreshold, (* lowerThreshold                                         *)
  MaxElems        (* bound of the model: elements that are enqueued         *)

ASSUME FifoAssumption ==
  { FifoSize, LowerThreshold, MaxElems } \subseteq Nat \ {0}

VARIABLES
  (* the FPGA *)
  enqd,         (* elements enqueued so far                                 *)
  inputQ,       (* two elements at most, as in a mkFIFO                    *)
  fpgaFIFO,
  hostElemCnt0, (* elements that have gone to the host and not come back    *)
  hostElemCnt1, (* of these, the ones that are not asked for                *)
  fpgaElemCnt,  (* elements in fpgaFIFO or asked for                        *)
  toHost,       (* indications on their way                                 *)
  fromHostQ,
  deqd,         (* what has been dequeued                                   *)
  (* the host *)
  lowCnt, upCnt, max, fifoArray,
  grownWrapped  (* the array has grown while its contents were wrapped      *)

fifo == << enqd, inputQ, fpgaFIFO, hostElemCnt0, hostElemCnt1, fpgaElemCnt,
           toHost, fromHostQ, deqd, lowCnt, upCnt, max, fifoArray,
           grownWrapped >>

FifoInit ==
  /\ enqd = 0 /\ inputQ = << >> /\ fpgaFIFO = << >>
  /\ hostElemCnt0 = 0 /\ hostElemCnt1 = 0 /\ fpgaElemCnt = 0
  /\ toHost = << >> /\ fromHostQ = << >> /\ deqd = << >>
  /\ lowCnt = 0 /\ upCnt = 0 /\ max = 2 /\ fifoArray = [ i \in 0 .. 1 |-> 0 ]
  /\ grownWrapped = FALSE

-----------------------------------------------------------------------------
enq ==
  /\ enqd < MaxElems /\ Len(inputQ) < 2
  /\ enqd' = enqd + 1
  /\ inputQ' = Append(inputQ, enqd + 1)
  /\ UNCHANGED << fpgaFIFO, hostElemCnt0, hostElemCnt1, fpgaElemCnt, toHost,
                  fromHostQ, deqd, lowCnt, upCnt, max, fifoArray, grownWrapped >>

(* Nothing is at the host and there is room. *)
doEnqToFPGA ==
  /\ hostElemCnt0 = 0 /\ Len(fpgaFIFO) < FifoSize /\ inputQ # << >>
  /\ fpgaFIFO' = Append(fpgaFIFO, Head(inputQ))
  /\ inputQ' = Tail(inputQ)
  /\ fpgaElemCnt' = fpgaElemCnt + 1
  /\ UNCHANGED << enqd, hostElemCnt0, hostElemCnt1, toHost, fromHostQ, deqd,
                  lowCnt, upCnt, max, fifoArray, grownWrapped >>

doReqFromHost ==
  LET emptySlots == FifoSize - fpgaElemCnt
      reqSize == IF emptySlots > hostElemCnt1 THEN hostElemCnt1 ELSE emptySlots
  IN  /\ fpgaElemCnt < LowerThreshold /\ hostElemCnt1 > 0
      /\ toHost' = Append(toHost, [ call |-> "elementReq", v |-> reqSize ])
      /\ hostElemCnt1' = hostElemCnt1 - reqSize
      /\ fpgaElemCnt' = fpgaElemCnt + reqSize
      /\ UNCHANGED << enqd, inputQ, fpgaFIFO, hostElemCnt0, fromHostQ, deqd,
                      lowCnt, upCnt, max, fifoArray, grownWrapped >>

doEnqToHost ==
  /\ hostElemCnt0 > 0 \/ Len(fpgaFIFO) >= FifoSize
  /\ inputQ # << >>
  /\ toHost' = Append(toHost, [ call |-> "sendData", v |-> Head(inputQ) ])
  /\ inputQ' = Tail(inputQ)
  /\ hostElemCnt0' = hostElemCnt0 + 1
  /\ hostElemCnt1' = hostElemCnt1 + 1
  /\ UNCHANGED << enqd, fpgaFIFO, fpgaElemCnt, fromHostQ, deqd, lowCnt, upCnt,
                  max, fifoArray, grownWrapped >>

doDeqFromHost ==
  /\ fromHostQ # << >> /\ Len(fpgaFIFO) < FifoSize
  /\ hostElemCnt0' = hostElemCnt0 - 1
  /\ fpgaFIFO' = Append(fpgaFIFO, Head(fromHostQ))
  /\ fromHostQ' = Tail(fromHostQ)
  /\ UNCHANGED << enqd, inputQ, hostElemCnt1, fpgaElemCnt, toHost, deqd,
                  lowCnt, upCnt, max, fifoArray, grownWrapped >>

deq ==
  /\ fpgaFIFO # << >>
  /\ deqd' = Append(deqd, Head(fpgaFIFO))
  /\ fpgaFIFO' = Tail(fpgaFIFO)
  /\ fpgaElemCnt' = fpgaElemCnt - 1
  /\ UNCHANGED << enqd, inputQ, hostElemCnt0, hostElemCnt1, toHost, fromHostQ,
                  lowCnt, upCnt, max, fifoArray, grownWrapped >>

-----------------------------------------------------------------------------
Indicated(call) == toHost # << >> /\ Head(toHost).call = call

(* Mutant: the array is full one element later. *)
isFullLate == upCnt - lowCnt = max + 1

isFull == upCnt - lowCnt = max

(* A full array is copied to one of twice the size, element by element     *)
(* from its start, wherever the oldest element is.                         *)
sendData ==
  /\ Indicated("sendData")
  /\ LET newMax == IF isFull THEN max * 2 ELSE max
         grown == [ i \in 0 .. newMax - 1 |-> IF i < max THEN fifoArray[i] ELSE 0 ]
     IN  /\ max' = newMax
         /\ fifoArray' = [ grown EXCEPT ![upCnt % newMax] = Head(toHost).v ]
         /\ grownWrapped' = (grownWrapped \/
              \E k \in lowCnt .. upCnt - 1 : newMax # max /\ k % newMax # k % max)
  /\ upCnt' = upCnt + 1
  /\ toHost' = Tail(toHost)
  /\ UNCHANGED << enqd, inputQ, fpgaFIFO, hostElemCnt0, hostElemCnt1,
                  fpgaElemCnt, fromHostQ, deqd, lowCnt >>

elementReq ==
  /\ Indicated("elementReq")
  /\ fromHostQ' = fromHostQ \o
       [ i \in 1 .. Head(toHost).v |-> fifoArray[(lowCnt + i - 1) % max] ]
  /\ lowCnt' = lowCnt + Head(toHost).v
  /\ toHost' = Tail(toHost)
  /\ UNCHANGED << enqd, inputQ, fpgaFIFO, hostElemCnt0, hostElemCnt1,
                  fpgaElemCnt, deqd, upCnt, max, fifoArray, grownWrapped >>

FifoRules ==
  doEnqToFPGA \/ doReqFromHost \/ doEnqToHost \/ doDeqFromHost \/ deq
  \/ sendData \/ elementReq

FifoNext == enq \/ FifoRules

(* The FIFO by itself. *)
FifoSpec == FifoInit /\ [][FifoNext]_fifo
-----------------------------------------------------------------------------
(* The elements come out in the order in which they went in, through       *)
(* overflow to the host and back, unless the host's array has grown while  *)
(* the elements in it were wrapped around its end.                         *)
FifoOrder == ~ grownWrapped => \A i \in 1 .. Len(deqd) : deqd[i] = i
=============================================================================
