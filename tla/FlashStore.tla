----------------------------- MODULE FlashStore -----------------------------
(***************************************************************************)
(* The flash value store, bsv/flashstr/FlashValueStore.bsv: WriteBuffer    *)
(* collects values in two buffers of one super page each in DRAM,          *)
(* FlashWriter (mkEvictionBufFlush) writes a full buffer to flash, and     *)
(* FlashReader reads values that have left the buffers.  The values        *)
(* answered are merged from DRAM and flash, one value at a time.           *)
(*                                                                         *)
(* Everything is counted in pages: a value begins at a page, and page i of *)
(* value v is << v, i >>.  The words of a page are more than the FIFOs     *)
(* between DRAM, flash and the reader of the answers hold, so a page moves *)
(* through them in one step, when its taker is there; only dataQ holds one *)
(* page that DRAM has read.                                                *)
(***************************************************************************)
EXTENDS FlashServer

CONSTANTS
  ReorderBufs, (* pages that the reorder buffer of FlashReader holds        *)
  Requests     (* bound of the model: sequences of requests, which are      *)
               (* [ rnw |-> FALSE, n |-> size ] to write a value and        *)
               (* [ rnw |-> TRUE, n |-> v ] to read the v-th value written  *)

(* The writes among the first m requests. *)
WritesOf(s, m) == { k \in 1 .. m : ~ s[k].rnw }

(* Only a value that was written is read: its address is in the table.     *)
ASSUME FlashStoreAssumption ==
  /\ ReorderBufs \in Nat \ {0}
  /\ Requests \subseteq Seq([ rnw : BOOLEAN, n : Nat ])
  /\ \A s \in Requests : \A k \in 1 .. Len(s) :
       s[k].n \in IF s[k].rnw THEN 1 .. Cardinality(WritesOf(s, k - 1))
                  ELSE 1 .. NumPages

Bufs == 0 .. 1

VARIABLES
  reqQ,          (* the requests to come                                    *)
  wrote,         (* the values in the order of writing: address and size    *)
  reads,         (* the value that each read is for; the reads are numbered *)
                 (* by reqId                                                *)
  superPageCnt, currBuf, writeLocks, clean,
  used,          (* byteCnt_seg_V: pages used in each buffer                *)
  dram,          (* the pages of the two buffers                            *)
  dramReqQ, byteCnt, (* requests for DRAM, pages done of the first          *)
  dataQ,         (* a page read from DRAM that was not taken yet            *)
  flushReqQ,     (* super pages to be flushed                               *)
  flush,         (* the one being flushed: step, number, buffer, pages that *)
                 (* flash was asked to program, pages read from DRAM        *)
  flushRespQ,    (* buffers to be unlocked                                  *)
  writeTagQ,     (* chips that wait for the data of a page, in order        *)
  readQ, immQ,   (* reads for FlashReader, those it asks pages for          *)
  freeBufs,      (* pages free in the reorder buffer                        *)
  arrived,       (* pages in it                                             *)
  deqQ,          (* reads in the order in which their first page arrived    *)
  nextBurst, byteCntResp, (* reads being answered, pages of the first       *)
  answers,       (* the answer to each read so far                          *)
  early          (* values of which a page was flushed before it was there  *)

write_vars == << wrote, superPageCnt, currBuf, writeLocks, clean, used >>
dram_vars  == << dram, dramReqQ, byteCnt >>
flush_vars == << flushReqQ, flush, flushRespQ, writeTagQ, early >>
read_vars  == << readQ, immQ, freeBufs, arrived, deqQ >>
burst_vars == << nextBurst, byteCntResp, answers >>
store_vars == << reqQ, reads, write_vars, dram_vars, dataQ, flush_vars, read_vars, burst_vars >>

NoFlush == [ step |-> "no", seg |-> 0, buf |-> 0, asked |-> 0, read |-> 0 ]

StoreInit ==
  /\ ServerInit
  /\ reqQ \in Requests
  /\ wrote = << >> /\ reads = << >>
  /\ superPageCnt = 0 /\ currBuf = 0
  /\ writeLocks = [ b \in Bufs |-> FALSE ] /\ clean = [ b \in Bufs |-> TRUE ]
  /\ used = [ b \in Bufs |-> 0 ]
  /\ dram = [ b \in Bufs |-> [ p \in 0 .. NumPages - 1 |-> << >> ] ]
  /\ dramReqQ = << >> /\ byteCnt = 0 /\ dataQ = << >>
  /\ flushReqQ = << >> /\ flush = NoFlush /\ flushRespQ = << >> /\ writeTagQ = << >>
  /\ readQ = << >> /\ immQ = << >> /\ freeBufs = ReorderBufs
  /\ arrived = {} /\ deqQ = << >>
  /\ nextBurst = << >> /\ byteCntResp = 0 /\ answers = << >>
  /\ early = {}

-----------------------------------------------------------------------------
SegOf(v) == wrote[v].addr \div NumPages

(* Mutant: the buffer taken next may still be being flushed.               *)
BuffersFreeOne == ~ writeLocks[currBuf]

BuffersFree == ~ writeLocks[currBuf] /\ ~ writeLocks[1 - currBuf]

(* A value gets its address when it is accepted; its words come later.     *)
Accept_in(b, seg, n) ==
  /\ wrote' = Append(wrote, [ addr |-> seg * NumPages + used[b], size |-> n ])
  /\ used' = [ used EXCEPT ![b] = @ + n ]
  /\ dramReqQ' = Append(dramReqQ,
       [ rnw |-> FALSE, value |-> Len(wrote) + 1, buf |-> b, id |-> 0 ])
  /\ reqQ' = Tail(reqQ)

doWriteBuf ==
  /\ reqQ # << >> /\ ~ Head(reqQ).rnw /\ Len(dramReqQ) < 2
  /\ LET n == Head(reqQ).n IN
     IF used[currBuf] + n <= NumPages
     THEN /\ Accept_in(currBuf, superPageCnt, n)
          /\ UNCHANGED << superPageCnt, currBuf, writeLocks, clean, flushReqQ >>
     ELSE /\ BuffersFree
          /\ writeLocks' = [ writeLocks EXCEPT ![currBuf] = TRUE ]
          /\ clean' = [ clean EXCEPT ![currBuf] = TRUE, ![1 - currBuf] = FALSE ]
          /\ flushReqQ' = Append(flushReqQ, [ seg |-> superPageCnt, buf |-> currBuf ])
          /\ superPageCnt' = superPageCnt + 1
          /\ currBuf' = 1 - currBuf
          /\ Accept_in(1 - currBuf, superPageCnt + 1, n)
  /\ UNCHANGED << reads, dram, byteCnt, dataQ, flush, flushRespQ, writeTagQ, early,
                  read_vars, burst_vars, server_vars >>

doUnlockBuf ==
  /\ flushRespQ # << >>
  /\ writeLocks' = [ writeLocks EXCEPT ![Head(flushRespQ)] = FALSE ]
  /\ used' = [ used EXCEPT ![Head(flushRespQ)] = 0 ]
  /\ flushRespQ' = Tail(flushRespQ)
  /\ UNCHANGED << reqQ, reads, wrote, superPageCnt, currBuf, clean, dram_vars, dataQ,
                  flushReqQ, flush, writeTagQ, early, read_vars, burst_vars, server_vars >>

(* A read is served from DRAM if its super page is in one of the buffers.  *)
doReadCmd ==
  /\ reqQ # << >> /\ Head(reqQ).rnw
  /\ LET v     == Head(reqQ).n
         inBuf == { b \in Bufs : \/ b = currBuf /\ SegOf(v) = superPageCnt
                                 \/ b # currBuf /\ SegOf(v) = superPageCnt - 1 /\ clean[b] }
     IN IF inBuf # {}
        THEN /\ Len(dramReqQ) < 2
             /\ \E b \in inBuf : dramReqQ' = Append(dramReqQ,
                     [ rnw |-> TRUE, value |-> v, buf |-> b, id |-> Len(reads) + 1 ])
             /\ UNCHANGED readQ
        ELSE /\ readQ' = Append(readQ, [ id |-> Len(reads) + 1, value |-> v ])
             /\ UNCHANGED dramReqQ
  /\ reqQ' = Tail(reqQ)
  /\ reads' = Append(reads, Head(reqQ).n)
  /\ answers' = Append(answers, << >>)
  /\ UNCHANGED << write_vars, dram, byteCnt, dataQ, flush_vars, immQ, freeBufs, arrived,
                  deqQ, nextBurst, byteCntResp, server_vars >>

-----------------------------------------------------------------------------
(* The pages of the first request for DRAM one by one.                     *)
DramReq == Head(dramReqQ)

DramPage == (wrote[DramReq.value].addr % NumPages) + byteCnt

NextDramPage ==
  IF byteCnt + 1 < wrote[DramReq.value].size
  THEN byteCnt' = byteCnt + 1 /\ UNCHANGED dramReqQ
  ELSE byteCnt' = 0 /\ dramReqQ' = Tail(dramReqQ)

driveDRAMWriteCmd ==
  /\ dramReqQ # << >> /\ ~ DramReq.rnw
  /\ dram' = [ dram EXCEPT ![DramReq.buf][DramPage] = << DramReq.value, byteCnt + 1 >> ]
  /\ NextDramPage
  /\ UNCHANGED << reqQ, reads, write_vars, dataQ, flush_vars, read_vars, burst_vars, server_vars >>

driveDRAMReadCmd ==
  /\ dramReqQ # << >> /\ DramReq.rnw
  /\ dataQ = << >>
  /\ dataQ' = << [ to |-> "dram", id |-> DramReq.id, data |-> dram[DramReq.buf][DramPage] ] >>
  /\ NextDramPage
  /\ UNCHANGED << reqQ, reads, write_vars, dram, flush_vars, read_vars, burst_vars, server_vars >>

-----------------------------------------------------------------------------
(* FlashWriter: the super page is reserved, then a tag for each page.      *)
FlushReserve ==
  /\ flush.step = "no" /\ flushReqQ # << >>
  /\ doReserveReq
  /\ flush' = [ NoFlush EXCEPT !.step = "tags", !.seg = Head(flushReqQ).seg,
                                !.buf = Head(flushReqQ).buf ]
  /\ flushReqQ' = Tail(flushReqQ)
  /\ UNCHANGED << reqQ, reads, write_vars, dram_vars, dataQ, flushRespQ, writeTagQ, early,
                  read_vars, burst_vars >>

FlushTags ==
  /\ flush.step = "tags"
  /\ flush' = [ flush EXCEPT !.step = "pages" ]
  /\ tagReqQ' = AskTags("flush", NumPages)
  /\ UNCHANGED << reqQ, reads, write_vars, dram_vars, dataQ, flushReqQ, flushRespQ, writeTagQ, early,
                  read_vars, burst_vars, bad, eraser, chips, freeTags, eraseAcks, pageCntChips >>

doFlashCmds ==
  /\ flush.step = "pages" /\ flush.asked < NumPages
  /\ TakeTag("flush")
  /\ LET a == flush.seg * NumPages + flush.asked
     IN doReq(a, WritePage(a, flush.asked))
  /\ flush' = [ flush EXCEPT !.asked = @ + 1 ]
  /\ UNCHANGED << reqQ, reads, write_vars, dram_vars, dataQ, flushReqQ, flushRespQ, writeTagQ, early,
                  read_vars, burst_vars, bad, eraser, eraseAcks, pageCntChips >>

(* The flash asks for the data of a page.                                  *)
writeTags(c) ==
  /\ Current(c, "WRITE_PAGE") /\ Head(chipQ[c]).at = "queued"
  /\ chipQ' = [ chipQ EXCEPT ![c][1].at = "waits" ]
  /\ writeTagQ' = Append(writeTagQ, c)
  /\ UNCHANGED << reqQ, reads, write_vars, dram_vars, dataQ, flushReqQ, flush, flushRespQ, early,
                  read_vars, burst_vars, bad, eraser, flash, pagesWritten, panic, pool,
                  eraseAcks, pageCntChips >>

(* Values whose words for page p of buffer b are still to come.            *)
Coming(b, p) ==
  { v \in 1 .. Len(wrote) : \E k \in 1 .. Len(dramReqQ) :
      /\ dramReqQ[k].value = v /\ ~ dramReqQ[k].rnw /\ dramReqQ[k].buf = b
      /\ p - (wrote[v].addr % NumPages) \in (IF k = 1 THEN byteCnt ELSE 0) .. wrote[v].size - 1 }

(* The page is read from DRAM; when it is the last one the buffer is freed. *)
doFlashWriteReq ==
  /\ writeTagQ # << >> /\ dataQ = << >>
  /\ LET c == Head(writeTagQ)
         p == Head(chipQ[c]).addr
     IN /\ dataQ' = << [ to |-> "flash", id |-> c, data |-> dram[flush.buf][p] ] >>
        /\ early' = early \cup Coming(flush.buf, p)
  /\ writeTagQ' = Tail(writeTagQ)
  /\ IF flush.read + 1 = NumPages
     THEN flush' = NoFlush /\ flushRespQ' = Append(flushRespQ, flush.buf)
     ELSE flush' = [ flush EXCEPT !.read = @ + 1 ] /\ UNCHANGED flushRespQ
  /\ UNCHANGED << reqQ, reads, write_vars, dram_vars, flushReqQ, read_vars, burst_vars,
                  server_vars >>

doWriteDta ==
  /\ dataQ # << >> /\ Head(dataQ).to = "flash"
  /\ chipQ' = [ chipQ EXCEPT ![Head(dataQ).id][1].at = "data",
                             ![Head(dataQ).id][1].data = Head(dataQ).data ]
  /\ dataQ' = << >>
  /\ UNCHANGED << reqQ, reads, write_vars, dram_vars, flush_vars, read_vars, burst_vars,
                  bad, eraser, flash, pagesWritten, panic, pool, eraseAcks, pageCntChips >>

(* The page is programmed and acknowledged, and its tag returned.          *)
doWriteAck(c) ==
  LET cmd == Head(chipQ[c]) IN
  /\ Current(c, "WRITE_PAGE") /\ cmd.at = "data"
  /\ flash' = [ flash EXCEPT ![c][cmd.block][cmd.page] = cmd.data ]
  /\ chipQ' = [ chipQ EXCEPT ![c] = Tail(@) ]
  /\ ReturnTag
  /\ UNCHANGED << store_vars, bad, eraser, pagesWritten, panic, eraseAcks, pageCntChips >>

-----------------------------------------------------------------------------
(* FlashReader: tags and room in the reorder buffer are asked for a read.  *)
doReaderCmd ==
  /\ readQ # << >>
  /\ readQ' = Tail(readQ)
  /\ immQ' = Append(immQ, [ id |-> Head(readQ).id, value |-> Head(readQ).value,
                            cmdCnt |-> 0 ])
  /\ tagReqQ' = AskTags("read", wrote[Head(readQ).value].size)
  /\ UNCHANGED << reqQ, reads, write_vars, dram_vars, dataQ, flush_vars, freeBufs, arrived,
                  deqQ, burst_vars, bad, eraser, chips, freeTags, eraseAcks, pageCntChips >>

(* Room is given to one read after the other, and to all pages of it or,   *)
(* when it has more than there is room for, to as many as there are.       *)
Room(n, cmdCnt) ==
  /\ freeBufs > 0
  /\ n - cmdCnt <= freeBufs \/ freeBufs + cmdCnt >= ReorderBufs

doFlashCmd ==
  /\ immQ # << >>
  /\ LET r == Head(immQ)
         w == wrote[r.value]
     IN /\ Room(w.size, r.cmdCnt)
        /\ TakeTag("read")
        /\ freeBufs' = freeBufs - 1
        /\ doReq(w.addr + r.cmdCnt, ReadPage(w.addr + r.cmdCnt, r.id, r.cmdCnt + 1))
        /\ immQ' = IF r.cmdCnt + 1 >= w.size THEN Tail(immQ)
                   ELSE << [ r EXCEPT !.cmdCnt = @ + 1 ] >> \o Tail(immQ)
  /\ UNCHANGED << reqQ, reads, write_vars, dram_vars, dataQ, flush_vars, readQ, arrived,
                  deqQ, burst_vars, bad, eraser, eraseAcks, pageCntChips >>

(* A page arrives from flash.                                              *)
doDistributeData(c) ==
  LET cmd == Head(chipQ[c]) IN
  /\ Current(c, "READ_PAGE")
  /\ arrived' = arrived \cup
       { [ id |-> cmd.id, i |-> cmd.i, data |-> flash[c][cmd.block][cmd.page] ] }
  /\ chipQ' = [ chipQ EXCEPT ![c] = Tail(@) ]
  /\ freeTags' = freeTags + 1
  /\ deqQ' = IF cmd.i = 1 THEN Append(deqQ, cmd.id) ELSE deqQ
  /\ UNCHANGED << reqQ, reads, write_vars, dram_vars, dataQ, flush_vars, readQ, immQ,
                  freeBufs, burst_vars, bad, eraser, flash, pagesWritten, panic, tagReqQ,
                  eraseAcks, pageCntChips >>

-----------------------------------------------------------------------------
(* The arbiter lets one value at a time through, when its first page is    *)
(* there.                                                                  *)
Granted(sel) == { nextBurst[k].id : k \in { j \in 1 .. Len(nextBurst) : nextBurst[j].sel = sel } }

Grant(sel, id) ==
  /\ Len(nextBurst) < 2 /\ id \notin Granted(sel)
  /\ nextBurst' = Append(nextBurst, [ sel |-> sel, id |-> id ])
  /\ UNCHANGED << reqQ, reads, write_vars, dram_vars, dataQ, flush_vars, read_vars,
                  byteCntResp, answers, server_vars >>

arbitRespDram == dataQ # << >> /\ Head(dataQ).to = "dram" /\ Grant("dram", Head(dataQ).id)

arbitRespFlash ==
  \E k \in 1 .. Len(deqQ) :
    /\ \A j \in 1 .. k - 1 : deqQ[j] \in Granted("flash")
    /\ Grant("flash", deqQ[k])

(* A page of the value that is being answered.                             *)
Reply(page) ==
  LET b == Head(nextBurst) IN
  /\ answers' = [ answers EXCEPT ![b.id] =
                   Append(@, [ from |-> b.sel, data |-> page ]) ]
  /\ IF byteCntResp + 1 < wrote[reads[b.id]].size
     THEN byteCntResp' = byteCntResp + 1 /\ UNCHANGED nextBurst
     ELSE byteCntResp' = 0 /\ nextBurst' = Tail(nextBurst)

doBurstDram ==
  /\ nextBurst # << >> /\ Head(nextBurst).sel = "dram"
  /\ dataQ # << >> /\ Head(dataQ).to = "dram"
  /\ Reply(Head(dataQ).data)
  /\ dataQ' = << >>
  /\ UNCHANGED << reqQ, reads, write_vars, dram_vars, flush_vars, read_vars, server_vars >>

(* doExtractData takes the pages of a read in their order.                 *)
doBurstFlash ==
  /\ nextBurst # << >> /\ Head(nextBurst).sel = "flash"
  /\ \E d \in arrived :
       /\ d.id = Head(deqQ) /\ d.i = byteCntResp + 1
       /\ Reply(d.data)
       /\ arrived' = arrived \ {d}
  /\ freeBufs' = freeBufs + 1
  /\ deqQ' = IF byteCntResp' = 0 THEN Tail(deqQ) ELSE deqQ
  /\ UNCHANGED << reqQ, reads, write_vars, dram_vars, dataQ, flush_vars, readQ, immQ,
                  server_vars >>

-----------------------------------------------------------------------------
WriteBuffer ==
  \/ doWriteBuf \/ doUnlockBuf \/ doReadCmd
  \/ driveDRAMWriteCmd \/ driveDRAMReadCmd
  \/ arbitRespDram \/ arbitRespFlash \/ doBurstDram \/ doBurstFlash

FlashWriter ==
  \/ FlushReserve \/ FlushTags \/ doFlashCmds \/ doFlashWriteReq \/ doWriteDta
  \/ \E c \in Chips : writeTags(c) \/ doWriteAck(c)

FlashReader == doReaderCmd \/ doFlashCmd \/ \E c \in Chips : doDistributeData(c)

EraseAhead == ServerNext /\ UNCHANGED store_vars

StoreNext == ~ panic /\ (WriteBuffer \/ FlashWriter \/ FlashReader \/ EraseAhead)

(* The store by itself. *)
StoreSpec == StoreInit /\ [][StoreNext]_<< store_vars, server_vars >>
-----------------------------------------------------------------------------
OnErasedAgain(a) == ErasedAgain(ChipOf(a), PhysBlock(a))

(* A read gets the pages of its value in their order, whether they are in  *)
(* a buffer, are being flushed or are in flash.  Two pages of flash may be *)
(* wrong: one that was flushed before its words had come, and one on a     *)
(* block that was erased while it was in use.                              *)
ReadsOwnValue ==
  \A r \in 1 .. Len(answers) : \A i \in 1 .. Len(answers[r]) :
    \/ answers[r][i].data = << reads[r], i >>
    \/ /\ answers[r][i].from = "flash"
       /\ reads[r] \in early \/ OnErasedAgain(wrote[reads[r]].addr + i - 1)

(* The flash value being answered waits for a page whose chip waits for    *)
(* data to write, which DRAM can only read after the page that it has read *)
(* for another answer is taken.                                            *)
CircularWait ==
  /\ nextBurst # << >> /\ Head(nextBurst).sel = "flash"
  /\ dataQ # << >> /\ Head(dataQ).to = "dram"
  /\ \E c \in Chips : \E k \in 2 .. Len(chipQ[c]) :
       /\ chipQ[c][k].op = "READ_PAGE" /\ chipQ[c][k].id = Head(nextBurst).id
       /\ Head(chipQ[c]).op = "WRITE_PAGE" /\ Head(chipQ[c]).at = "waits"

(* No block is left for the super page to be flushed: the last virtual     *)
(* block is never erased (line 117 of FlashServer.bsv).                    *)
FlashFull ==
  /\ flushReqQ # << >> /\ pageCntChips = 0 /\ eraseFinish = 0
  /\ state = "IDLE" /\ nextErasePtr[0] = Blocks - 1

(* A chip on which no block can be erased tries its blocks for ever.       *)
NoGoodBlock == \E c \in Chips : \A b \in 0 .. Blocks - 1 : << c, b >> \in bad

(* Every request is answered in the end and every flush ends, unless the   *)
(* flash is full, a chip has only bad blocks, or an answer from flash, a   *)
(* flush and an answer from DRAM wait for each other.  In particular tags, *)
(* buffers and places of the reorder buffer are not held by those who wait *)
(* for another.                                                            *)
StoreAnswers ==
  <>(\/ /\ reqQ = << >> /\ dramReqQ = << >>
        /\ flushReqQ = << >> /\ flush = NoFlush /\ flushRespQ = << >>
        /\ \A r \in 1 .. Len(reads) : Len(answers[r]) = wrote[reads[r]].size
     \/ CircularWait
     \/ FlashFull
     \/ NoGoodBlock)
=============================================================================
