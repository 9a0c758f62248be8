---------------------------- MODULE FlashBlocks -----------------------------
(***************************************************************************)
(* How the benchmark programs that use flash bring it up: the main thread  *)
(* reads the status of every block from a file or erases (formats) as many *)
(* blocks as the device exports, maps the virtual blocks of each chip to   *)
(* fresh ones, and at the end asks the device which blocks were written    *)
(* and stores the statuses in the file.  The lines are those of            *)
(* Test_Bluecache_Flash.                                                   *)
(*                                                                         *)
(* A bus and a chip are one chip number.  The flash itself (external)      *)
(* erases in any order, may find blocks bad, and survives the process.     *)
(***************************************************************************)
EXTENDS BatchHost, FiniteSetsExt

CONSTANTS
  Chips,     (* NUM_BUSES*CHIPS_PER_BUS                                     *)
  Blocks,    (* BLOCKS_PER_CHIP                                             *)
  Real,      (* REAL_BLOCKS_PER_CHIP: the blocks of a chip that are used    *)
  EraseTags, (* the number of tags in eraseTagQ                             *)
  MaxBad     (* bound of the model: blocks that turn out bad                *)

ASSUME FlashAssumption ==
  /\ { Chips, Blocks, Real, EraseTags } \subseteq Nat \ {0} /\ Real <= Blocks
  /\ MaxBad \in Nat

VARIABLES
  flashStatus, tag2block, eraseTagQ,
  curFresh,    (* currFRESHBlockId                                          *)
  curUninit,   (* currUNINITBlockId                                         *)
  eraseAcks, dumpAcks,
  (* the device *)
  erasing,     (* erase commands sent and not reported                      *)
  map,         (* blockMapTable as populated, << >> before                  *)
  programmed,  (* virtual blocks written since then                         *)
  dumping,     (* dumpMap was called                                        *)
  (* what outlives the process *)
  file,        (* bluemingstatus.txt: << >> or the statuses                 *)
  erased, bad, (* the real blocks that are erased, that are bad             *)
  crashed,     (* the process ended before it stored the statuses           *)
  twice        (* a block was mapped twice                                  *)

process == << flashStatus, tag2block, eraseTagQ, curFresh, curUninit,
              eraseAcks, dumpAcks, erasing, map, programmed, dumping >>
disk    == << file, erased, bad, crashed, twice >>
flash   == << process, disk >>

NumVirtual == Chips * Real

FlashStatusT == { "UNINIT", "BAD", "FRESH", "WRITTEN" }

OnAllChips(x) == [ c \in 0 .. Chips - 1 |-> x ]

(* The globals when runtest has filled the tag queue and the statuses. *)
ProcessInit ==
  /\ flashStatus = OnAllChips([ b \in 0 .. Blocks - 1 |-> "UNINIT" ])
  /\ tag2block = [ t \in 1 .. EraseTags |-> 0 ]
  /\ eraseTagQ = [ t \in 1 .. EraseTags |-> t ]
  /\ curFresh = OnAllChips(0) /\ curUninit = OnAllChips(0)
  /\ eraseAcks = 0 /\ dumpAcks = 0
  /\ erasing = {} /\ map = << >> /\ programmed = {} /\ dumping = FALSE

ProcessRestart ==
  /\ flashStatus' = OnAllChips([ b \in 0 .. Blocks - 1 |-> "UNINIT" ])
  /\ tag2block' = [ t \in 1 .. EraseTags |-> 0 ]
  /\ eraseTagQ' = [ t \in 1 .. EraseTags |-> t ]
  /\ curFresh' = OnAllChips(0) /\ curUninit' = OnAllChips(0)
  /\ eraseAcks' = 0 /\ dumpAcks' = 0
  /\ erasing' = {} /\ map' = << >> /\ programmed' = {} /\ dumping' = FALSE

FlashInit ==
  /\ ProcessInit
  /\ file = << >> /\ erased = {} /\ bad = {} /\ crashed = FALSE /\ twice = FALSE

-----------------------------------------------------------------------------
RealIndex(chip, block) == block + Blocks * chip

Next1 == script' = Tail(script)

(* formatBlueming: one erase command per exported block, then a wait for   *)
(* the last acknowledgement.                                               *)
EraseAll ==
  [ i \in 1 .. NumVirtual |-> Step("erase", "", i - 1) ] \o << Wait("cond") >>

(* The status file is read, or the flash is formatted. *)
ReadStatusFile ==
  /\ At("readStatus")
  /\ IF file # << >>
     THEN flashStatus' = file /\ script' = Tail(script)
     ELSE script' = EraseAll \o Tail(script) /\ UNCHANGED flashStatus
  /\ UNCHANGED << pc, writer, freeRead, unheard, reader, returnWrite, eomCnt,
                  asked, readQ, rdDoneQ, devOut, tag2block, eraseTagQ,
                  curFresh, curUninit, eraseAcks, dumpAcks, erasing, map,
                  programmed, dumping, disk >>

(* An idle tag, waited for by polling, is bound to the block, and then the *)
(* device is told to erase it: nobody looks the tag up in between.         *)
EraseBlock ==
  LET v     == Head(script).n
      chip  == v \div Real
      block == ((v % Real) + curUninit[chip]) % Blocks
  IN  /\ At("erase") /\ eraseTagQ # << >>
      /\ eraseTagQ' = Tail(eraseTagQ)
      /\ tag2block' = [ tag2block EXCEPT
                          ![Head(eraseTagQ)] = RealIndex(chip, block) ]
      /\ erasing' = erasing \cup
           { [ tag |-> Head(eraseTagQ), chip |-> chip, block |-> block ] }
      /\ Next1
      /\ UNCHANGED << pc, writer, freeRead, unheard, reader, returnWrite,
                      eomCnt, asked, readQ, rdDoneQ, devOut, flashStatus,
                      curFresh, curUninit, eraseAcks, dumpAcks, map,
                      programmed, dumping, disk >>

(* Mutant: the tag is not given back. *)
EraseAckedKeepsTag(e, good) ==
  LET idx == tag2block[e.tag]
  IN  /\ flashStatus' = [ flashStatus EXCEPT ![idx \div Blocks][idx % Blocks] =
                            IF good THEN "FRESH" ELSE "BAD" ]
      /\ eraseAcks' = eraseAcks + 1
      /\ IF eraseAcks' = NumVirtual THEN Signal("cond")
         ELSE UNCHANGED << pc, script, unheard >>
      /\ UNCHANGED eraseTagQ

(* eraseDone finds the block by the tag, gives the tag back and signals    *)
(* the acknowledgement that makes the count complete; the count never      *)
(* starts again.                                                           *)
EraseAcked(e, good) ==
  LET idx == tag2block[e.tag]
  IN  /\ flashStatus' = [ flashStatus EXCEPT ![idx \div Blocks][idx % Blocks] =
                            IF good THEN "FRESH" ELSE "BAD" ]
      /\ eraseTagQ' = Append(eraseTagQ, e.tag)
      /\ eraseAcks' = eraseAcks + 1
      /\ IF eraseAcks' = NumVirtual THEN Signal("cond")
         ELSE UNCHANGED << pc, script, unheard >>

(* The device has erased a block or found it bad. *)
DeviceErase(done(_, _)) ==
  \E e \in erasing, good \in BOOLEAN :
    LET at == << e.chip, e.block >>
    IN  /\ IF good THEN at \notin bad ELSE at \in bad \/ Cardinality(bad) < MaxBad
        /\ bad' = IF good THEN bad ELSE bad \cup { at }
        /\ erased' = IF good THEN erased \cup { at } ELSE erased \ { at }
        /\ erasing' = erasing \ { e }
        /\ done(e, good)
        /\ UNCHANGED << writer, freeRead, reader, returnWrite, eomCnt, asked,
                        readQ, rdDoneQ, devOut, tag2block, curFresh, curUninit,
                        dumpAcks, map, programmed, dumping, file, crashed,
                        twice >>

-----------------------------------------------------------------------------
WithStatus(chip, st) ==
  { b \in 0 .. Blocks - 1 : flashStatus[chip][b] = st }

(* The first block of a chip with this status, 0 if there is none. *)
First(chip, st) ==
  IF WithStatus(chip, st) = {} THEN 0 ELSE Min(WithStatus(chip, st))

(* currFRESHBlockId and currUNINITBlockId after the start or, of the       *)
(* latter only, after another format.                                      *)
FirstBlocks ==
  /\ At("firsts")
  /\ curFresh' = IF Head(script).on = "again" THEN curFresh
                 ELSE [ c \in 0 .. Chips - 1 |-> First(c, "FRESH") ]
  /\ curUninit' = [ c \in 0 .. Chips - 1 |-> First(c, "UNINIT") ]
  /\ Next1
  /\ UNCHANGED << pc, writer, freeRead, unheard, reader, returnWrite, eomCnt,
                  asked, readQ, rdDoneQ, devOut, flashStatus, tag2block,
                  eraseTagQ, eraseAcks, dumpAcks, erasing, map, programmed,
                  dumping, disk >>

(* Mutant: each search starts at the same block. *)
SearchFromStays(chip, k) == curFresh[chip]

(* Every search that finds a block moves currFRESHBlockId by one, wherever *)
(* it found it: the search after k others starts here.                     *)
SearchFrom(chip, k) == curFresh[chip] + k

NextFresh(chip, k) ==
  LET found == { b \in WithStatus(chip, "FRESH") : b >= SearchFrom(chip, k) }
  IN  IF found = {} THEN -1 ELSE Min(found)

(* The block for virtual block v, and how many are found in the order of   *)
(* the virtual blocks before a search fails.                               *)
BlockFor(v) == NextFresh(v \div Real, v % Real)

NumFound ==
  Min({ v \in 0 .. NumVirtual - 1 : BlockFor(v) < 0 } \cup { NumVirtual })

blockMapTable == [ i \in 1 .. NumVirtual |-> BlockFor(i - 1) ]

At2(m, v) == << v \div Real, m[v + 1] >>

Injective(m) ==
  \A v, w \in 0 .. NumVirtual - 1 : At2(m, v) = At2(m, w) => v = w

(* The table is sent to the device, or the flash is formatted again. *)
Populate ==
  /\ At("populate")
  /\ curFresh' = [ c \in 0 .. Chips - 1 |->
       curFresh[c] + Cardinality({ v \in 0 .. NumFound - 1 : v \div Real = c }) ]
  /\ IF NumFound = NumVirtual
     THEN /\ map' = blockMapTable
          /\ twice' = (twice \/ ~ Injective(map'))
          /\ Next1
     ELSE /\ script' = EraseAll \o << Step("firsts", "again", 0) >> \o script
          /\ UNCHANGED << map, twice >>
  /\ UNCHANGED << pc, writer, freeRead, unheard, reader, returnWrite, eomCnt,
                  asked, readQ, rdDoneQ, devOut, flashStatus, tag2block,
                  eraseTagQ, curUninit, eraseAcks, dumpAcks, erasing,
                  programmed, dumping, file, erased, bad, crashed >>

-----------------------------------------------------------------------------
(* The device writes values to the virtual blocks.  Nobody can see when    *)
(* until the map is dumped or the process is gone: it may as well be now.  *)
DeviceProgram ==
  /\ At("dump")
  /\ \E v \in 0 .. NumVirtual - 1 :
       /\ v \notin programmed /\ \A w \in programmed : w < v
       /\ programmed' = programmed \cup { v }
       /\ erased' = erased \ { At2(map, v) }
  /\ UNCHANGED << batch, flashStatus, tag2block, eraseTagQ, curFresh, curUninit,
                  eraseAcks, dumpAcks, erasing, map, dumping, file, bad,
                  crashed, twice >>

AskDump ==
  /\ At("dump")
  /\ dumping' = TRUE
  /\ Next1
  /\ UNCHANGED << pc, writer, freeRead, unheard, reader, returnWrite, eomCnt,
                  asked, readQ, rdDoneQ, devOut, flashStatus, tag2block,
                  eraseTagQ, curFresh, curUninit, eraseAcks, dumpAcks, erasing,
                  map, programmed, disk >>

(* Mutant: a block that was not written keeps the status it had. *)
DumpAnsweredFreshOnly(block, st) ==
  /\ flashStatus' = IF st = 1 THEN [ flashStatus EXCEPT ![dumpAcks \div Real][block] = "FRESH" ]
                    ELSE flashStatus
  /\ dumpAcks' = dumpAcks + 1
  /\ IF dumpAcks' = NumVirtual THEN Signal("cond")
     ELSE UNCHANGED << pc, script, unheard >>

(* dumpMapResp knows the chip by the number of the answer. *)
DumpAnswered(block, st) ==
  /\ flashStatus' = [ flashStatus EXCEPT ![dumpAcks \div Real][block] =
                        IF st = 1 THEN "FRESH" ELSE "WRITTEN" ]
  /\ dumpAcks' = dumpAcks + 1
  /\ IF dumpAcks' = NumVirtual THEN Signal("cond")
     ELSE UNCHANGED << pc, script, unheard >>

(* The device answers for one virtual block after the other. *)
DeviceDump(resp(_, _)) ==
  /\ dumping /\ dumpAcks < NumVirtual
  /\ resp(map[dumpAcks + 1], IF dumpAcks \in programmed THEN 0 ELSE 1)
  /\ UNCHANGED << writer, freeRead, reader, returnWrite, eomCnt, asked, readQ,
                  rdDoneQ, devOut, tag2block, eraseTagQ, curFresh, curUninit,
                  eraseAcks, erasing, map, programmed, dumping, disk >>

(* The rest of StoreSteps writes the file. *)
WriteStatusFile ==
  /\ At("store")
  /\ file' = flashStatus
  /\ Next1
  /\ UNCHANGED << pc, writer, freeRead, unheard, reader, returnWrite, eomCnt,
                  asked, readQ, rdDoneQ, devOut, process, erased, bad,
                  crashed, twice >>

(* The steps of runtest before and after the batches. *)
StartFlash == << Step("readStatus", "", 0), Step("firsts", "", 0),
                 Step("populate", "", 0) >>

StoreSteps == << Step("dump", "", 0), Wait("cond"), Step("store", "", 0) >>

(* The process starts again, with script s, after it has ended or crashed. *)
StartAgain(s) ==
  /\ BatchRestart(s)
  /\ ProcessRestart
  /\ crashed' = (crashed \/ script # << >>)
  /\ UNCHANGED << file, erased, bad, twice >>

-----------------------------------------------------------------------------
(* eraseDone, which knows nothing but a tag, records its status for the    *)
(* block that this erase was for: a tag is never in use twice, although    *)
(* there are fewer tags than blocks and erases finish in any order.        *)
TagsExact ==
  /\ \A e \in erasing :
       /\ tag2block[e.tag] = RealIndex(e.chip, e.block)
       /\ e.tag \notin ToSet(eraseTagQ)
       /\ \A f \in erasing : e.tag = f.tag => e = f
  /\ Len(eraseTagQ) + Cardinality(erasing) = EraseTags

(* A virtual block that has not been written lies on an erased block,      *)
(* whether this process erased that block or an earlier one left it and    *)
(* stored its status, unless a process ended without storing the statuses  *)
(* or a block was mapped twice.                                            *)
UnwrittenIsErased ==
  map # << >> /\ ~ crashed /\ ~ twice =>
    \A v \in 0 .. NumVirtual - 1 : v \notin programmed => At2(map, v) \in erased

(* The table maps two virtual blocks to one real block only if the fresh   *)
(* blocks of that chip, from where the search began, have a gap.           *)
Gap(chip) ==
  \E b \in WithStatus(chip, "FRESH"), h \in curFresh[chip] .. Blocks - 1 :
    h < b /\ h \notin WithStatus(chip, "FRESH")

OneBlockEachUnlessGap ==
  map' # map /\ map' # << >> =>
    \A v, w \in 0 .. NumVirtual - 1 :
      v # w /\ At2(map', v) = At2(map', w) => Gap(v \div Real)

(* The count of acknowledgements has passed the number that signals: the   *)
(* second format of a process is waited for in vain.                       *)
FormattedAgain == eraseAcks > NumVirtual
=============================================================================
