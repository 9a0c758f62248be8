------------------------------ MODULE Hashtable ------------------------------
(***************************************************************************)
(* The hash table engine of bsv/hashtable_simple as it runs: HeaderReader  *)
(* fetches the row of each request from DRAM, HeaderWriter answers it and  *)
(* writes one header back when the value store has given an address, and   *)
(* HashtableArbiter merges reads and writes into one queue of DRAM         *)
(* commands.  A scoreboard (sFifo) holds back the read of a row that an    *)
(* unacknowledged request is using.  One action is one Bluespec rule or    *)
(* the connection of two methods.                                          *)
(*                                                                         *)
(* Requests are never reordered between the rules, so a FIFO is kept as    *)
(* the history of everything that was enqueued and the number of elements  *)
(* dequeued: request i is element i of every history, and the content of   *)
(* a FIFO is a window of one.  dramQ and addrQ mix several sources and are *)
(* plain queues.                                                           *)
(***************************************************************************)
EXTENDS HeaderLogic, Sequences, FiniteSets

CONSTANTS
  MaxReqs,    (* bound of the model: requests accepted in a behaviour      *)
  NumStages,  (* NUM_STAGES: depth of the scoreboard and of the long FIFOs *)
  FifoDepth,  (* depth of a mkFIFO                                         *)
  DramDepth   (* depth of HashtableArbiter.dramCmdQ                        *)

ASSUME HashtableAssumption ==
  /\ MaxReqs \in Nat
  /\ NumStages \in Nat \ {0}
  /\ FifoDepth \in Nat \ {0}
  /\ DramDepth \in Nat \ {0}

VARIABLES
  reqs,     (* requests put; reqQ and immQ are windows of it               *)
  nCmd,     (* reads issued by doDRAMCmd; the scoreboard is nAck+1 .. nCmd *)
  nRd,      (* reads that HashtableArbiter has passed on                   *)
  dramQ,    (* dramCmdQ: commands [rnw, i] of request i, in order          *)
  dram,     (* the table in DRAM                                           *)
  rows,     (* rows read; dramRespQ and dramDtaQ are a window of it        *)
  hdrs,     (* rows compared with their request: HeaderReader.respQ        *)
  stages,   (* header updates: HeaderWriter.stageQ_0                       *)
  resps,    (* answers: HeaderWriter.respQ                                 *)
  taken,    (* answers the processor has dequeued                          *)
  nStored,  (* answers whose value command the value store has executed    *)
  addrQ,    (* flashWrAddrQ: addresses of stored values                    *)
  wrs,      (* write commands of writeHeader: dramReqQs                    *)
  nWrArb,   (* write commands that HashtableArbiter has passed on          *)
  nAck      (* write acknowledgements that have freed the scoreboard       *)

vars == << reqs, nCmd, nRd, dramQ, dram, rows, hdrs, stages, resps, taken,
           nStored, addrQ, wrs, nWrArb, nAck >>

-----------------------------------------------------------------------------
(* doinit has zeroed the table before any request is accepted. *)
Init ==
  /\ reqs = << >>
  /\ nCmd = 0
  /\ nRd = 0
  /\ dramQ = << >>
  /\ dram = [ h \in Rows |-> ZeroRow ]
  /\ rows = << >>
  /\ hdrs = << >>
  /\ stages = << >>
  /\ resps = << >>
  /\ taken = 0
  /\ nStored = 0
  /\ addrQ = << >>
  /\ wrs = << >>
  /\ nWrArb = 0
  /\ nAck = 0

Later(r) == reqs # << >> => reqs[Len(reqs)].time_now <= r.time_now

(* Hashtable.server.request.put: the row index and the time are added, and *)
(* the request is put into HeaderReader's reqQ and immQ.                   *)
Put(r) ==
  /\ Len(reqs) < MaxReqs
  /\ Len(reqs) - nCmd < NumStages
  /\ Len(reqs) - Len(hdrs) < NumStages
  /\ Later(r)
  /\ reqs' = Append(reqs, r)
  /\ UNCHANGED << nCmd, nRd, dramQ, dram, rows, hdrs, stages, resps, taken,
                  nStored, addrQ, wrs, nWrArb, nAck >>

(* The requests in the scoreboard, and its search. *)
sFifo == nAck + 1 .. nCmd

(* Mutant: the search misses the request that entered last.                *)
searchMissesNewest(h) == \E i \in sFifo \ {nCmd} : reqs[i].hv = h

search(h) == \E i \in sFifo : reqs[i].hv = h

(* Mutant: the read does not wait for the scoreboard.                      *)
doDRAMCmdNoSearch ==
  /\ nCmd < Len(reqs)
  /\ nCmd - nAck < NumStages
  /\ nCmd - nRd < 2 * FifoDepth
  /\ nCmd' = nCmd + 1
  /\ UNCHANGED << reqs, nRd, dramQ, dram, rows, hdrs, stages, resps, taken,
                  nStored, addrQ, wrs, nWrArb, nAck >>

doDRAMCmd ==
  /\ nCmd < Len(reqs)
  /\ ~ search(reqs[nCmd + 1].hv)
  /\ nCmd - nAck < NumStages
  /\ nCmd - nRd < 2 * FifoDepth
  /\ nCmd' = nCmd + 1
  /\ UNCHANGED << reqs, nRd, dramQ, dram, rows, hdrs, stages, resps, taken,
                  nStored, addrQ, wrs, nWrArb, nAck >>

(* doArbResp of port 0: the reads. *)
doArbRespRd ==
  /\ nRd < nCmd
  /\ Len(dramQ) < DramDepth
  /\ dramQ' = Append(dramQ, [ rnw |-> TRUE, i |-> nRd + 1 ])
  /\ nRd' = nRd + 1
  /\ UNCHANGED << reqs, nCmd, dram, rows, hdrs, stages, resps, taken,
                  nStored, addrQ, wrs, nWrArb, nAck >>

(* The DRAM behind the switch executes its commands in order. *)
DramRead ==
  /\ dramQ # << >>
  /\ dramQ[1].rnw
  /\ Len(rows) - Len(hdrs) < 2 * FifoDepth
  /\ rows' = Append(rows, dram[reqs[dramQ[1].i].hv])
  /\ dramQ' = Tail(dramQ)
  /\ UNCHANGED << reqs, nCmd, nRd, dram, hdrs, stages, resps, taken,
                  nStored, addrQ, wrs, nWrArb, nAck >>

DramWrite ==
  /\ dramQ # << >>
  /\ ~ dramQ[1].rnw
  /\ LET i == dramQ[1].i
     IN  dram' = [ dram EXCEPT ![reqs[i].hv][wrs[i].idx] = wrs[i].newhdr ]
  /\ dramQ' = Tail(dramQ)
  /\ UNCHANGED << reqs, nCmd, nRd, rows, hdrs, stages, resps, taken,
                  nStored, addrQ, wrs, nWrArb, nAck >>

(* The next row read belongs to the next request of immQ. *)
procHeader ==
  LET i == Len(hdrs) + 1
  IN  /\ i <= Len(rows)
      /\ Len(hdrs) - Len(stages) < FifoDepth
      /\ hdrs' = Append(hdrs, HdrWrReq(rows[i], reqs[i]))
      /\ UNCHANGED << reqs, nCmd, nRd, dramQ, dram, rows, stages, resps,
                      taken, nStored, addrQ, wrs, nWrArb, nAck >>

(* HeaderWriter.request.put, connected to HeaderReader.response. *)
putHdrWr ==
  LET i == Len(stages) + 1
  IN  /\ i <= Len(hdrs)
      /\ Len(stages) - Len(wrs) < NumStages
      /\ Len(resps) - taken < NumStages
      /\ stages' = Append(stages, stage(hdrs[i]))
      /\ resps' = Append(resps, retval(hdrs[i]))
      /\ UNCHANGED << reqs, nCmd, nRd, dramQ, dram, rows, hdrs, taken,
                      nStored, addrQ, wrs, nWrArb, nAck >>

(* The processor dequeues an answer and hands its command to the value     *)
(* store.                                                                  *)
TakeResp ==
  /\ taken < Len(resps)
  /\ taken' = taken + 1
  /\ UNCHANGED << reqs, nCmd, nRd, dramQ, dram, rows, hdrs, stages, resps,
                  nStored, addrQ, wrs, nWrArb, nAck >>

(* The value store executes commands in order, and returns the address of  *)
(* each value it stores.                                                   *)
StoreValue ==
  LET i == nStored + 1
  IN  /\ i <= taken
      /\ IF resps[i].value_cmd.kind = "write"
         THEN Len(addrQ) < FifoDepth /\ addrQ' = Append(addrQ, i)
         ELSE addrQ' = addrQ
      /\ nStored' = i
      /\ UNCHANGED << reqs, nCmd, nRd, dramQ, dram, rows, hdrs, stages,
                      resps, taken, wrs, nWrArb, nAck >>

(* Mutant: every header written takes an address.                          *)
writeHeaderTakesAddr ==
  LET s == stages[Len(wrs) + 1]
  IN  /\ Len(wrs) < Len(stages)
      /\ Len(wrs) - nWrArb < 2 * FifoDepth
      /\ s.doWrite => addrQ # << >>
      /\ addrQ' = IF s.doWrite THEN Tail(addrQ) ELSE addrQ
      /\ wrs' = Append(wrs,
                       [ doWrite |-> s.doWrite, idx |-> s.idx,
                         newhdr |-> WithAddr(s, addrQ[1]) ])
      /\ UNCHANGED << reqs, nCmd, nRd, dramQ, dram, rows, hdrs, stages,
                      resps, taken, nStored, nWrArb, nAck >>

(* A new value waits for its address; a stage that writes nothing still    *)
(* sends an empty command, which only brings the acknowledgement.          *)
writeHeader ==
  LET s == stages[Len(wrs) + 1]
  IN  /\ Len(wrs) < Len(stages)
      /\ Len(wrs) - nWrArb < 2 * FifoDepth
      /\ s.newValue => addrQ # << >>
      /\ addrQ' = IF s.newValue THEN Tail(addrQ) ELSE addrQ
      /\ wrs' = Append(wrs,
                       [ doWrite |-> s.doWrite, idx |-> s.idx,
                         newhdr |-> WithAddr(s, addrQ[1]) ])
      /\ UNCHANGED << reqs, nCmd, nRd, dramQ, dram, rows, hdrs, stages,
                      resps, taken, nStored, nWrArb, nAck >>

(* doArbResp of port 1: the writes, acknowledged when they are queued.  An *)
(* acknowledgement passes two bypass FIFOs of one element.                 *)
doArbRespWr ==
  LET i == nWrArb + 1
  IN  /\ i <= Len(wrs)
      /\ nWrArb - nAck < 2
      /\ wrs[i].doWrite => Len(dramQ) < DramDepth
      /\ dramQ' = IF wrs[i].doWrite
                  THEN Append(dramQ, [ rnw |-> FALSE, i |-> i ])
                  ELSE dramQ
      /\ nWrArb' = i
      /\ UNCHANGED << reqs, nCmd, nRd, dram, rows, hdrs, stages, resps,
                      taken, nStored, addrQ, wrs, nAck >>

(* Mutant: the scoreboard is freed when the write is sent to the arbiter.  *)
doWrAckEarly ==
  /\ nAck < Len(wrs)
  /\ nAck' = nAck + 1
  /\ UNCHANGED << reqs, nCmd, nRd, dramQ, dram, rows, hdrs, stages, resps,
                  taken, nStored, addrQ, wrs, nWrArb >>

(* Mutant: a request that writes nothing is not acknowledged.              *)
doWrAckOfWrites ==
  /\ nAck < nWrArb
  /\ wrs[nAck + 1].doWrite
  /\ nAck' = nAck + 1
  /\ UNCHANGED << reqs, nCmd, nRd, dramQ, dram, rows, hdrs, stages, resps,
                  taken, nStored, addrQ, wrs, nWrArb >>

doWrAck ==
  /\ nAck < nWrArb
  /\ nAck' = nAck + 1
  /\ UNCHANGED << reqs, nCmd, nRd, dramQ, dram, rows, hdrs, stages, resps,
                  taken, nStored, addrQ, wrs, nWrArb >>

Rules ==
  \/ doDRAMCmd \/ doArbRespRd \/ DramRead \/ DramWrite \/ procHeader
  \/ putHdrWr \/ TakeResp \/ StoreValue \/ writeHeader \/ doArbRespWr
  \/ doWrAck

Next == (\E r \in Requests : Put(r)) \/ Rules

Spec == Init /\ [][Next]_vars

(* The scheduler of the compiled rules fires a rule that can fire, the     *)
(* arbiter is round-robin, and the DRAM, the processor and the value store *)
(* do not stop.                                                            *)
Fairness ==
  /\ WF_vars(doDRAMCmd)
  /\ WF_vars(doArbRespRd)
  /\ WF_vars(DramRead)
  /\ WF_vars(DramWrite)
  /\ WF_vars(procHeader)
  /\ WF_vars(putHdrWr)
  /\ WF_vars(TakeResp)
  /\ WF_vars(StoreValue)
  /\ WF_vars(writeHeader)
  /\ WF_vars(doArbRespWr)
  /\ WF_vars(doWrAck)

FairSpec == Spec /\ Fairness
-----------------------------------------------------------------------------
Command == [ rnw : BOOLEAN, i : Nat ]

WriteCommand == [ doWrite : BOOLEAN, idx : Ways, newhdr : ItemHeader ]

(* Every history has the type of its FIFO, and each stage has seen at most *)
(* the requests of the stage before it.                                    *)
TypeOK ==
  /\ reqs \in Seq(Requests)
  /\ dramQ \in Seq(Command)
  /\ dram \in [ Rows -> Row ]
  /\ rows \in Seq(Row)
  /\ hdrs \in Seq([ args : Requests, cmpMask : SUBSET Ways,
                    idleMask : SUBSET Ways, oldHeaders : Row ])
  /\ stages \in Seq(Stage)
  /\ resps \in Seq(Response)
  /\ addrQ \in Seq(Nat)
  /\ wrs \in Seq(WriteCommand)
  /\ nCmd \in Nat /\ nRd \in Nat /\ taken \in Nat
  /\ nStored \in Nat /\ nWrArb \in Nat /\ nAck \in Nat

Queued(c) == \E p \in 1 .. Len(dramQ) : dramQ[p] = c

(* The requests whose header has been computed but is not in DRAM yet. *)
Pending(i) ==
  /\ i \in 1 .. Len(stages)
  /\ stages[i].doWrite
  /\ \/ i > nWrArb
     \/ Queued([ rnw |-> FALSE, i |-> i ])

PendingAt(h, w) ==
  { i \in 1 .. Len(stages) :
      Pending(i) /\ reqs[i].hv = h /\ stages[i].idx = w }

(* The table that the answers given so far have left behind: DRAM with the *)
(* pending headers written and their values' addresses known.              *)
Table ==
  [ h \in Rows |-> [ w \in Ways |->
      IF PendingAt(h, w) # {}
      THEN LET i == CHOOSE i \in PendingAt(h, w) : TRUE
           IN  WithAddr(stages[i], i)
      ELSE dram[h][w] ] ]

AT == INSTANCE AtomicTable WITH table <- Table

(* The pipeline implements the atomic table: its answers are those of      *)
(* requests executed one at a time, whatever overlaps in it.               *)
ImplementsAtomicTable == AT!Spec

-----------------------------------------------------------------------------
(* The parts of the inductive invariant. *)

(* A request passes the stages in order. *)
Counters ==
  /\ nAck <= nWrArb /\ nWrArb <= Len(wrs) /\ Len(wrs) <= Len(stages)
  /\ Len(stages) = Len(resps)
  /\ Len(stages) <= Len(hdrs) /\ Len(hdrs) <= Len(rows)
  /\ Len(rows) <= nRd /\ nRd <= nCmd /\ nCmd <= Len(reqs)
  /\ nStored <= taken /\ taken <= Len(resps)

(* Each stage has computed its element from the one before. *)
Data ==
  /\ \A i \in 1 .. Len(hdrs) : hdrs[i] = HdrWrReq(rows[i], reqs[i])
  /\ \A i \in 1 .. Len(stages) :
       stages[i] = stage(hdrs[i]) /\ resps[i] = retval(hdrs[i])

(* No two requests of the scoreboard use one row. *)
ScoreboardExclusive ==
  \A i, j \in sFifo : reqs[i].hv = reqs[j].hv => i = j

(* The reads queued for DRAM are those passed on and not executed, and a   *)
(* write is queued only after its stage. *)
DramQRange ==
  \A p \in 1 .. Len(dramQ) :
    IF dramQ[p].rnw
    THEN dramQ[p].i \in Len(rows) + 1 .. nRd
    ELSE dramQ[p].i \in 1 .. nWrArb /\ wrs[dramQ[p].i].doWrite

DramQComplete ==
  \A i \in Len(rows) + 1 .. nRd : Queued([ rnw |-> TRUE, i |-> i ])

(* No command is queued twice, and reads are queued in order. *)
DramQOrder ==
  \A p, q \in 1 .. Len(dramQ) :
    p < q => /\ dramQ[p] # dramQ[q]
             /\ dramQ[p].rnw /\ dramQ[q].rnw => dramQ[p].i < dramQ[q].i

(* A write is queued before any read of its row. *)
WriteBeforeRead ==
  \A p, q \in 1 .. Len(dramQ) :
    /\ dramQ[p].rnw
    /\ ~ dramQ[q].rnw
    /\ reqs[dramQ[p].i].hv = reqs[dramQ[q].i].hv
    => q < p

(* At most one header of a row is on its way to DRAM. *)
OnePendingPerRow ==
  \A i, j \in 1 .. Len(stages) :
    Pending(i) /\ Pending(j) /\ reqs[i].hv = reqs[j].hv => i = j

(* A row that was read and not answered from yet is still what the table   *)
(* holds: no other request has changed it in DRAM or is about to.          *)
NoStaleRow ==
  \A j \in Len(stages) + 1 .. Len(rows) :
    /\ rows[j] = dram[reqs[j].hv]
    /\ \A i \in 1 .. Len(stages) : Pending(i) => reqs[i].hv # reqs[j].hv

(* The addresses waiting are those of the new values that were stored and  *)
(* not written to a header, in order.                                      *)
AddrQRange ==
  \A p \in 1 .. Len(addrQ) :
    addrQ[p] \in Len(wrs) + 1 .. nStored /\ stages[addrQ[p]].newValue

AddrQComplete ==
  \A i \in Len(wrs) + 1 .. nStored :
    stages[i].newValue => \E p \in 1 .. Len(addrQ) : addrQ[p] = i

AddrQOrder ==
  \A p, q \in 1 .. Len(addrQ) : p < q => addrQ[p] < addrQ[q]

(* No new value is written to a header before it is stored. *)
StoredBeforeWritten ==
  \A i \in 1 .. Len(wrs) : stages[i].newValue => i <= nStored

(* The header written for a request is its own, with the address under     *)
(* which the value store put the value of that request and of no other.    *)
OwnAddress ==
  \A i \in 1 .. Len(wrs) :
    /\ wrs[i].doWrite = stages[i].doWrite
    /\ wrs[i].idx = stages[i].idx
    /\ wrs[i].newhdr = WithAddr(stages[i], i)

IInv ==
  /\ Counters
  /\ Data
  /\ ScoreboardExclusive
  /\ DramQRange
  /\ DramQComplete
  /\ DramQOrder
  /\ WriteBeforeRead
  /\ OnePendingPerRow
  /\ NoStaleRow
  /\ AddrQRange
  /\ AddrQComplete
  /\ AddrQOrder
  /\ StoredBeforeWritten
  /\ OwnAddress

(* Every accepted request is answered, and leaves the scoreboard: no stage *)
(* waits for a later one that waits for it.                                *)
AllAnswered ==
  \A n \in 1 .. MaxReqs : Len(reqs) >= n ~> taken >= n /\ nAck >= n
=============================================================================
