---------------------------- MODULE FlashServer -----------------------------
(***************************************************************************)
(* bsv/flashstr/FlashServer.bsv and the tags of flash commands: pages are  *)
(* written to virtual blocks in sequence; before the first page of a block *)
(* is written one physical block of every chip is erased and mapped to it. *)
(* A chip that fails to erase a block tries its next one.                  *)
(*                                                                         *)
(* A bus and a chip are one chip number.  The flash controller             *)
(* (controller/src/hw_artix) executes the commands of a chip in order; an  *)
(* erasure may fail.  Commands pass cmdQ and rawCmdQ at once; a tag is     *)
(* known only as one of those in use.                                      *)
(***************************************************************************)
EXTENDS Integers, SequencesExt

CONSTANTS
  NumPages,      (* NumPagesPerSuperPage, which is the number of tags too   *)
  NumChips, PagesPerBlock,
  Blocks,        (* BlocksPerCE                                             *)
  BadBlocks      (* the sets of << chip, block >> that may fail to erase    *)

ASSUME FlashServerAssumption ==
  /\ {NumPages, NumChips, PagesPerBlock, Blocks} \subseteq Nat \ {0}
  /\ NumPages % NumChips = 0
  /\ PagesPerBlock % (NumPages \div NumChips) = 0

Chips == 0 .. NumChips - 1

(* FlashAddrType: pages go round the chips before they fill a block.       *)
ChipOf(a)  == a % NumChips
PageOf(a)  == (a \div NumChips) % PagesPerBlock
BlockOf(a) == (a \div (NumChips * PagesPerBlock)) % Blocks

VARIABLES
  bad,           (* the blocks that fail to erase                           *)
  flash,         (* the contents of each page, << >> when it is erased      *)
  chipQ,         (* the commands of each chip                               *)
  tagReqQ, freeTags, (* TagAlloc: who waits for how many tags               *)
  state, eraseStatus, chipCnt, respMax, respCnt,
  eraseAcks,     (* ackStatusQs[1]                                          *)
  eraseFinish,   (* eraseFinishQ                                            *)
  pageCntChips,  (* pageCnt_chips: pages reserved in the blocks in use      *)
  nextPhysPtr, nextErasePtr,
  pagesWritten,  (* nextWritePtrs and pageCnts of each chip in one          *)
  blockMap,
  panic          (* $finish: the client did not write blocks sequentially   *)

eraser == << state, eraseStatus, chipCnt, respMax, respCnt, eraseFinish,
             nextPhysPtr, nextErasePtr, blockMap >>
chips  == << flash, chipQ, pagesWritten, panic >>
pool   == << tagReqQ, freeTags >>
server_vars == << bad, eraser, chips, pool, eraseAcks, pageCntChips >>

(* The host has called reset, with any number.                             *)
ServerInit ==
  /\ bad \in BadBlocks
  /\ flash = [ c \in Chips |-> [ b \in 0 .. Blocks - 1 |->
                 [ p \in 0 .. PagesPerBlock - 1 |-> << >> ] ] ]
  /\ chipQ = [ c \in Chips |-> << >> ]
  /\ tagReqQ = << >> /\ freeTags = NumPages
  /\ state = "IDLE" /\ eraseStatus = [ c \in Chips |-> FALSE ]
  /\ chipCnt = 0 /\ respMax = 0 /\ respCnt = 0
  /\ eraseAcks = << >> /\ eraseFinish = 0 /\ pageCntChips = 0
  /\ \E n \in 0 .. Blocks - 1 : nextPhysPtr = [ c \in Chips |-> n ]
  /\ nextErasePtr = [ c \in Chips |-> 0 ]
  /\ pagesWritten = [ c \in Chips |-> 0 ]
  /\ blockMap = [ c \in Chips |-> [ b \in 0 .. Blocks - 1 |-> 0 ] ]
  /\ panic = FALSE

-----------------------------------------------------------------------------
(* The next tag for a client: tags are asked for several at a time and     *)
(* given to one client after the other.                                    *)
AskTags(client, n) == Append(tagReqQ, << client, n >>)

TakeTag(client) ==
  /\ tagReqQ # << >> /\ Head(tagReqQ)[1] = client
  /\ freeTags > 0 /\ freeTags' = freeTags - 1
  /\ tagReqQ' = IF Head(tagReqQ)[2] = 1 THEN Tail(tagReqQ)
                ELSE << << client, Head(tagReqQ)[2] - 1 >> >> \o Tail(tagReqQ)

(* Mutant: nobody gives the tag of a written page back.                    *)
ReturnTagLost == UNCHANGED << tagReqQ, freeTags >>

ReturnTag == freeTags' = freeTags + 1 /\ UNCHANGED tagReqQ

nextWritePtr(c) == pagesWritten[c] \div PagesPerBlock

(* The commands for a page: they go to its physical block and page.        *)
PhysBlock(a) == blockMap[ChipOf(a)][BlockOf(a)]

WritePage(a, p) ==
  [ op |-> "WRITE_PAGE", addr |-> p, at |-> "queued", data |-> << >>,
    block |-> PhysBlock(a), page |-> PageOf(a) ]

ReadPage(a, id, i) ==
  [ op |-> "READ_PAGE", id |-> id, i |-> i,
    block |-> PhysBlock(a), page |-> PageOf(a) ]

(* sendCmd of a command for a page of the client.                          *)
Send(a, cmd) == chipQ' = [ chipQ EXCEPT ![ChipOf(a)] = Append(@, cmd) ]

doReq(a, cmd) ==
  LET c == ChipOf(a) IN
  /\ cmd.op = "WRITE_PAGE" => nextWritePtr(c) % Blocks < nextErasePtr[c]
  /\ Send(a, cmd)
  /\ IF cmd.op = "WRITE_PAGE"
     THEN /\ pagesWritten' = [ pagesWritten EXCEPT ![c] = @ + 1 ]
          /\ panic' = (nextWritePtr(c) # BlockOf(a))
     ELSE UNCHANGED << pagesWritten, panic >>
  /\ UNCHANGED flash

-----------------------------------------------------------------------------
(* The next blocks are erased when those of chip 0 have been written.      *)
doEraseIdle ==
  /\ state = "IDLE" /\ (nextWritePtr(0) + 1) % Blocks > nextErasePtr[0]
  /\ state' = "ERASECMD"
  /\ tagReqQ' = AskTags("erase", NumChips)
  /\ respMax' = 0
  /\ eraseStatus' = [ c \in Chips |-> FALSE ]
  /\ UNCHANGED << bad, chips, freeTags, chipCnt, respCnt, eraseFinish,
                  nextPhysPtr, nextErasePtr, blockMap, eraseAcks, pageCntChips >>

doEraseCmd ==
  /\ state = "ERASECMD"
  /\ IF eraseStatus[chipCnt] THEN UNCHANGED << pool, chipQ, respMax >>
     ELSE /\ TakeTag("erase")
          /\ chipQ' = [ chipQ EXCEPT ![chipCnt] = Append(@,
                 [ op |-> "ERASE_BLOCK", block |-> nextPhysPtr[chipCnt] ]) ]
          /\ respMax' = respMax + 1
  /\ chipCnt' = (chipCnt + 1) % NumChips
  /\ state' = IF chipCnt' = 0 THEN "ERASEACK" ELSE state
  /\ UNCHANGED << bad, flash, pagesWritten, panic, eraseStatus, respCnt, eraseFinish,
                  nextPhysPtr, nextErasePtr, blockMap, eraseAcks, pageCntChips >>

(* Mutant: the pointer goes back before the last block.                    *)
NextPhysShort(b) == (b + 1) % (Blocks - 1)

(* Blocks are tried in turn, also when those to come are in use.           *)
NextPhys(b) == (b + 1) % Blocks

(* The last answer of a round begins another one for the chips that failed. *)
doEraseAck ==
  /\ state = "ERASEACK" /\ eraseAcks # << >>
  /\ LET c    == Head(eraseAcks).chip
         done == [ eraseStatus EXCEPT ![c] = @ \/ Head(eraseAcks).ok ]
         left == { d \in Chips : ~ done[d] }
     IN /\ eraseAcks' = Tail(eraseAcks)
        /\ nextPhysPtr' = [ nextPhysPtr EXCEPT ![c] = NextPhys(@) ]
        /\ freeTags' = freeTags + 1
        /\ eraseStatus' = done
        /\ IF Head(eraseAcks).ok
           THEN /\ blockMap' = [ blockMap EXCEPT ![c][nextErasePtr[c]] = nextPhysPtr[c] ]
                /\ nextErasePtr' = [ nextErasePtr EXCEPT ![c] = (@ + 1) % Blocks ]
           ELSE UNCHANGED << blockMap, nextErasePtr >>
        /\ IF respCnt + 1 < respMax
           THEN /\ respCnt' = respCnt + 1
                /\ UNCHANGED << state, eraseFinish, tagReqQ, respMax >>
           ELSE /\ respCnt' = 0
                /\ IF left = {}
                   THEN /\ state' = "IDLE" /\ eraseFinish' = eraseFinish + 1
                        /\ UNCHANGED << tagReqQ, respMax >>
                   ELSE /\ state' = "ERASECMD" /\ respMax' = 0
                        /\ tagReqQ' = AskTags("erase", Cardinality(left))
                        /\ UNCHANGED eraseFinish
  /\ UNCHANGED << bad, chips, chipCnt, pageCntChips >>

(* A super page is reserved: the first of a block waits for the erasure.   *)
doReserveReq ==
  /\ IF pageCntChips = 0 THEN eraseFinish > 0 /\ eraseFinish' = eraseFinish - 1
     ELSE UNCHANGED eraseFinish
  /\ pageCntChips' = (pageCntChips + NumPages \div NumChips) % PagesPerBlock
  /\ UNCHANGED << bad, chips, pool, state, eraseStatus, chipCnt, respMax, respCnt,
                  nextPhysPtr, nextErasePtr, blockMap, eraseAcks >>

-----------------------------------------------------------------------------
(* The flash executes the first command of a chip.                         *)
Current(c, op) == chipQ[c] # << >> /\ Head(chipQ[c]).op = op

EraseBlock(c) ==
  LET b == Head(chipQ[c]).block IN
  /\ Current(c, "ERASE_BLOCK")
  /\ chipQ' = [ chipQ EXCEPT ![c] = Tail(@) ]
  /\ flash' = [ flash EXCEPT ![c][b] = [ p \in DOMAIN @ |-> << >> ] ]
  /\ eraseAcks' = Append(eraseAcks, [ chip |-> c, ok |-> << c, b >> \notin bad ])
  /\ UNCHANGED << bad, eraser, pool, pagesWritten, panic, pageCntChips >>

ServerNext ==
  \/ doEraseIdle \/ doEraseCmd \/ doEraseAck
  \/ \E c \in Chips : EraseBlock(c)
-----------------------------------------------------------------------------
(* The physical blocks in use.                                             *)
Mapped(c) == { blockMap[c][b] : b \in 0 .. nextErasePtr[c] - 1 }

(* Block b was erased while it was in use: two virtual blocks have it now, *)
(* or its erasure is about to be acknowledged.                             *)
ErasedAgain(c, b) ==
  \/ \E v, w \in 0 .. nextErasePtr[c] - 1 :
       v # w /\ blockMap[c][v] = b /\ blockMap[c][w] = b
  \/ /\ b \in Mapped(c) /\ b = nextPhysPtr[c]
     /\ \E k \in 1 .. Len(eraseAcks) : eraseAcks[k].chip = c

(* doEraseAck takes the next block of a chip whether it is in use or not.  *)
(* Yet a block in use is erased only on a chip that has no other one: each *)
(* block is in use or failed to erase.  Since the last virtual block is    *)
(* never erased, two blocks of the chip have failed.                       *)
ErasedAgainOnlyIf ==
  \A c \in Chips : \A b \in 0 .. Blocks - 1 : ErasedAgain(c, b) =>
    \A d \in 0 .. Blocks - 1 : d \in Mapped(c) \/ << c, d >> \in bad
=============================================================================
