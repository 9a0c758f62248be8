-------------------------- MODULE FlashStoreProofs --------------------------
(***************************************************************************)
(* Proofs about the flash value store, modules FlashStore and FlashServer: *)
(* CoreInv, the part of its invariant about what has been written, to DRAM *)
(* and to flash.                                                           *)
(***************************************************************************)
EXTENDS FlashStore, FiniteSetTheorems, SequenceTheorems, TLAPS

(* The values, and the pages that they have.                               *)
Values == 1 .. Len(wrote)

Addr(v, i) == wrote[v].addr + i - 1

Offset(v) == wrote[v].addr % NumPages

Pages(v) == 1 .. wrote[v].size

(* v is in buffer b.                                                       *)
InBuf(v, b) ==
  \/ b = currBuf /\ SegOf(v) = superPageCnt
  \/ b = 1 - currBuf /\ SegOf(v) = superPageCnt - 1

(* A value lies in one super page, the values follow each other, and the   *)
(* last one is in the super page being filled.                             *)
ValuesInv ==
  /\ superPageCnt \in Nat /\ currBuf \in Bufs /\ used \in [ Bufs -> 0 .. NumPages ]
  /\ writeLocks \in [ Bufs -> BOOLEAN ] /\ clean \in [ Bufs -> BOOLEAN ]
  /\ wrote \in Seq([ addr : Nat, size : 1 .. NumPages ])
  /\ \A v \in Values :
       /\ Offset(v) + wrote[v].size <= NumPages /\ SegOf(v) <= superPageCnt
       /\ SegOf(v) = superPageCnt => Offset(v) + wrote[v].size <= used[currBuf]
       /\ v = Len(wrote) => SegOf(v) = superPageCnt
  /\ \A v, w \in Values : v < w => wrote[v].addr + wrote[v].size <= wrote[w].addr

(* The requests to come read values written before them.                   *)
RequestsInv ==
  \E s \in Requests : \E m \in 0 .. Len(s) :
    /\ Len(wrote) = Cardinality(WritesOf(s, m))
    /\ reqQ = SubSeq(s, m + 1, Len(s))

(* At most the super page before the one being filled is being flushed.    *)
Flushing == [ step : { "tags", "pages" }, seg : Nat, buf : Bufs,
              asked : 0 .. NumPages, read : 0 .. NumPages - 1 ]

FlushInv ==
  LET other == 1 - currBuf
  IN  /\ clean[other] /\ ~ writeLocks[currBuf]
      /\ ~ writeLocks[other] => used[other] = 0
      /\ \/ /\ flushReqQ = << [ seg |-> superPageCnt - 1, buf |-> other ] >>
            /\ flush = NoFlush /\ flushRespQ = << >> /\ writeLocks[other]
            /\ superPageCnt > 0
         \/ /\ flushReqQ = << >> /\ flushRespQ = << >> /\ writeLocks[other]
            /\ flush \in Flushing /\ flush.seg = superPageCnt - 1 /\ flush.buf = other
            /\ flush.step = "tags" => flush.asked = 0 /\ flush.read = 0
         \/ /\ flushReqQ = << >> /\ flush = NoFlush
            /\ flushRespQ = << other >> /\ writeLocks[other]
         \/ /\ flushReqQ = << >> /\ flush = NoFlush
            /\ flushRespQ = << >> /\ ~ writeLocks[other]

-----------------------------------------------------------------------------
(* DRAM.  Pages that the k-th request for it has still to write or read.   *)
Left(k) == (IF k = 1 THEN byteCnt + 1 ELSE 1) .. wrote[dramReqQ[k].value].size

WrittenBy(k, v, i) == ~ dramReqQ[k].rnw /\ dramReqQ[k].value = v /\ i \in Left(k)

Data == { << >> } \cup (Nat \X Nat)

DramRequest == [ rnw : BOOLEAN, value : Nat, buf : Bufs, id : Nat ]

DramTypes ==
  /\ dram \in [ Bufs -> [ 0 .. NumPages - 1 -> Data ] ]
  /\ dramReqQ \in Seq(DramRequest) /\ Len(dramReqQ) <= 2 /\ byteCnt \in Nat
  /\ \A k \in 1 .. Len(dramReqQ) : dramReqQ[k].value \in Values
  /\ IF dramReqQ = << >> THEN byteCnt = 0 ELSE byteCnt < wrote[dramReqQ[1].value].size

(* What is still to be written are the last values, in order.              *)
WritesInOrder ==
  \A k \in 1 .. Len(dramReqQ) : ~ dramReqQ[k].rnw =>
    /\ InBuf(dramReqQ[k].value, dramReqQ[k].buf)
    /\ \A w \in dramReqQ[k].value + 1 .. Len(wrote) :
         \E l \in k + 1 .. Len(dramReqQ) : ~ dramReqQ[l].rnw /\ dramReqQ[l].value = w

(* A buffer holds the pages of its values, or they are still to be written.*)
BuffersHold ==
  \A v \in Values : \A b \in Bufs : \A i \in Pages(v) : InBuf(v, b) =>
    \/ dram[b][Offset(v) + i - 1] = << v, i >>
    \/ \E k \in 1 .. Len(dramReqQ) : WrittenBy(k, v, i)

(* A read finds what it asked for when it is its turn.                     *)
ReadHeld(k, v, b) ==
  /\ \A i \in Left(k) :
       \/ dram[b][Offset(v) + i - 1] = << v, i >>
       \/ \E l \in 1 .. k - 1 : WrittenBy(l, v, i)
  /\ \A l \in 1 .. k - 1 : ~ dramReqQ[l].rnw =>
       /\ dramReqQ[l].value = v => dramReqQ[l].buf = b
       /\ dramReqQ[l].buf = b => SegOf(dramReqQ[l].value) = SegOf(v)

ReadsHeld ==
  \A k \in 1 .. Len(dramReqQ) :
    dramReqQ[k].rnw => ReadHeld(k, dramReqQ[k].value, dramReqQ[k].buf)

DramInv == DramTypes /\ WritesInOrder /\ BuffersHold /\ ReadsHeld

-----------------------------------------------------------------------------
(* Erasing.                                                                *)
(* Blocks that chip c has erased or tried to, and not reported.            *)
ErasingAt(c) ==
  { k \in 1 .. Len(chipQ[c]) : chipQ[c][k].op = "ERASE_BLOCK" }

AckedAt(c) == { k \in 1 .. Len(eraseAcks) : eraseAcks[k].chip = c }

InFlight == { c \in Chips : ErasingAt(c) # {} \/ AckedAt(c) # {} }

WriteCmd ==
  [ op : { "WRITE_PAGE" }, addr : 0 .. NumPages - 1, at : { "queued", "waits", "data" },
    data : Data, block : 0 .. Blocks - 1, page : 0 .. PagesPerBlock - 1 ]

ReadCmd ==
  [ op : { "READ_PAGE" }, id : Nat, i : Nat, block : 0 .. Blocks - 1,
    page : 0 .. PagesPerBlock - 1 ]

EraseCmd == [ op : { "ERASE_BLOCK" }, block : 0 .. Blocks - 1 ]

Cmd == WriteCmd \cup ReadCmd \cup EraseCmd

ServerTypes ==
  /\ bad \in BadBlocks /\ panic = FALSE
  /\ flash \in [ Chips -> [ 0 .. Blocks - 1 -> [ 0 .. PagesPerBlock - 1 -> Data ] ] ]
  /\ chipQ \in [ Chips -> Seq(Cmd) ]
  /\ state \in { "IDLE", "ERASECMD", "ERASEACK" } /\ eraseStatus \in [ Chips -> BOOLEAN ]
  /\ chipCnt \in Chips /\ respMax \in Nat /\ respCnt \in Nat
  /\ eraseAcks \in Seq([ chip : Chips, ok : BOOLEAN ])
  /\ nextPhysPtr \in [ Chips -> 0 .. Blocks - 1 ]
  /\ nextErasePtr \in [ Chips -> 0 .. Blocks - 1 ]
  /\ blockMap \in [ Chips -> [ 0 .. Blocks - 1 -> 0 .. Blocks - 1 ] ]
  /\ pagesWritten \in [ Chips -> Nat ]

(* All chips have as many blocks erased, but for those that have done so   *)
(* in this round, and one round does not reach the last block.             *)
RoundInv ==
  /\ state = "IDLE" =>
       \E n \in 0 .. Blocks - 1 : \A c \in Chips : nextErasePtr[c] = n
  /\ state # "IDLE" =>
       \E n \in 0 .. Blocks - 2 : \A c \in Chips :
         nextErasePtr[c] = IF eraseStatus[c] THEN n + 1 ELSE n
  /\ state # "ERASECMD" => chipCnt = 0
  /\ state # "ERASEACK" => respCnt = 0
  /\ state = "IDLE" => InFlight = {}
  /\ state = "ERASECMD" =>
       InFlight = { c \in Chips : c < chipCnt /\ ~ eraseStatus[c] }
  /\ state # "IDLE" => Cardinality(InFlight) = respMax - respCnt

(* A chip erases the block at its pointer, once.                           *)
ErasingInv ==
  \A c \in Chips :
    /\ c \in InFlight => ~ eraseStatus[c]
    /\ \A k \in ErasingAt(c) : chipQ[c][k].block = nextPhysPtr[c]
    /\ \A k \in AckedAt(c) : eraseAcks[k].ok = (<< c, nextPhysPtr[c] >> \notin bad)
    /\ \A k, l \in ErasingAt(c) : k = l
    /\ \A k, l \in AckedAt(c) : k = l
    /\ ErasingAt(c) = {} \/ AckedAt(c) = {}

(* The blocks of a chip are tried in turn.  The first time round, those    *)
(* from the pointer on are free and the n behind it are in use or bad; when *)
(* all have been tried, there is none left that is neither.                *)
Ahead(c, j) == (nextPhysPtr[c] + j) % Blocks

InUseOrBad(c, b) == b \in Mapped(c) \/ << c, b >> \in bad

Fresh(c, n) ==
  /\ \A j \in 0 .. Blocks - n - 1 : Ahead(c, j) \notin Mapped(c)
  /\ \A j \in Blocks - n .. Blocks - 1 : InUseOrBad(c, Ahead(c, j))
  /\ \A v, w \in 0 .. nextErasePtr[c] - 1 : blockMap[c][v] = blockMap[c][w] => v = w

Tried(c) == \A b \in 0 .. Blocks - 1 : InUseOrBad(c, b)

MapInv ==
  \A c \in Chips :
    /\ \A v \in 0 .. nextErasePtr[c] - 1 : << c, blockMap[c][v] >> \notin bad
    /\ Tried(c) \/ \E n \in 0 .. Blocks - 1 : Fresh(c, n)

EraseInv == RoundInv /\ ErasingInv /\ MapInv

(* A block that has been erased again while in use remains so.             *)
ErasedStays ==
  \A c \in Chips : \A b : ErasedAgain(c, b) => ErasedAgain(c, b)'

-----------------------------------------------------------------------------
(* Programming.  The pages whose command the flash has got so far are the  *)
(* first ones of the virtual flash.                                        *)
Issued ==
  IF flushReqQ # << >> THEN (superPageCnt - 1) * NumPages
  ELSE IF flush.step = "no" THEN superPageCnt * NumPages
  ELSE flush.seg * NumPages + flush.asked

Row(a) == a \div NumChips

VBlock(a) == Row(a) \div PagesPerBlock

Goes(a, c, cmd) ==
  ChipOf(a) = c /\ cmd.block = PhysBlock(a) /\ cmd.page = PageOf(a)

SameVPage(x, y) == x.block = y.block /\ x.page = y.page

(* data is what page a is to hold, as far as its block has not been erased. *)
Ok(a, data) ==
  \/ OnErasedAgain(a)
  \/ \A v \in Values : \A i \in Pages(v) :
       Addr(v, i) = a => data = << v, i >> \/ v \in early

WriteAt(c, k) == k \in 1 .. Len(chipQ[c]) /\ chipQ[c][k].op = "WRITE_PAGE"

ReadAt(c, k) == k \in 1 .. Len(chipQ[c]) /\ chipQ[c][k].op = "READ_PAGE"

(* A page whose data has not been read from DRAM.                          *)
Unread(c, k) ==
  /\ WriteAt(c, k)
  /\ chipQ[c][k].at = "queued" \/ (chipQ[c][k].at = "waits" /\ c \in ToSet(writeTagQ))

UnreadPages ==
  { p \in 0 .. NumPages - 1 : \E c \in Chips : \E k \in 1 .. Len(chipQ[c]) :
      Unread(c, k) /\ chipQ[c][k].addr = p }

PagesIssued ==
  \E q \in Nat, r \in Chips :
    /\ Issued = q * NumChips + r
    /\ \A c \in Chips : pagesWritten[c] = IF c < r THEN q + 1 ELSE q

IssuedMapped ==
  \A a \in 0 .. Issued - 1 : VBlock(a) < nextErasePtr[ChipOf(a)]

DataFor(c) == dataQ # << >> /\ dataQ[1].to = "flash" /\ dataQ[1].id = c

WriteInv(c, k) ==
  /\ \E a \in 0 .. Issued - 1 : Goes(a, c, chipQ[c][k])
  /\ k > 1 => chipQ[c][k].at = "queued"
  /\ chipQ[c][k].at = "waits" => c \in ToSet(writeTagQ) \/ DataFor(c)
  /\ Unread(c, k) =>
       /\ flush.step = "pages" /\ chipQ[c][k].addr < flush.asked
       /\ Goes(flush.seg * NumPages + chipQ[c][k].addr, c, chipQ[c][k])
  /\ chipQ[c][k].at = "data" =>
       \A a \in 0 .. Issued - 1 : Goes(a, c, chipQ[c][k]) => Ok(a, chipQ[c][k].data)

WritesInv ==
  /\ \A c \in Chips : \A k \in Nat \ {0} : WriteAt(c, k) => WriteInv(c, k)
  /\ \A c \in Chips : \A k, l \in Nat \ {0} :
       WriteAt(c, k) /\ WriteAt(c, l) /\ SameVPage(chipQ[c][k], chipQ[c][l]) =>
         k = l \/ ErasedAgain(c, chipQ[c][k].block)
  /\ \A c \in Chips : \A k, l \in Nat \ {0} :
       Unread(c, k) /\ Unread(c, l) /\ chipQ[c][k].addr = chipQ[c][l].addr => k = l
  /\ flush.step = "pages" => Cardinality(UnreadPages) = flush.asked - flush.read

(* Who waits for data.                                                     *)
TagsInv ==
  /\ writeTagQ \in Seq(Chips)
  /\ \A c \in ToSet(writeTagQ) : WriteAt(c, 1) /\ chipQ[c][1].at = "waits"
  /\ \A j, l \in 1 .. Len(writeTagQ) : writeTagQ[j] = writeTagQ[l] => j = l

DataQTypes ==
  /\ dataQ \in Seq([ to : { "dram" }, id : Nat, data : Data ]
                   \cup [ to : { "flash" }, id : Chips, data : Data ])
  /\ Len(dataQ) <= 1

DataToFlash ==
  \A c \in Chips : DataFor(c) =>
    /\ WriteAt(c, 1) /\ chipQ[c][1].at = "waits" /\ c \notin ToSet(writeTagQ)
    /\ \A a \in 0 .. Issued - 1 : Goes(a, c, chipQ[c][1]) => Ok(a, dataQ[1].data)

(* A page of flash that no command is to program holds what it is to hold. *)
Stored ==
  \A c \in Chips : \A a \in 0 .. Issued - 1 : ChipOf(a) = c =>
    \/ \E k \in 1 .. Len(chipQ[c]) : WriteAt(c, k) /\ Goes(a, c, chipQ[c][k])
    \/ Ok(a, flash[c][PhysBlock(a)][PageOf(a)])

(* No page is programmed behind a read of it.                              *)
ReadsBehindWrites ==
  \A c \in Chips : \A k, l \in 1 .. Len(chipQ[c]) :
    k < l /\ ReadAt(c, k) /\ WriteAt(c, l) /\ SameVPage(chipQ[c][k], chipQ[c][l]) =>
      ErasedAgain(c, chipQ[c][k].block)

ProgramInv ==
  /\ PagesIssued /\ IssuedMapped /\ WritesInv /\ TagsInv /\ DataQTypes /\ DataToFlash
  /\ Stored /\ ReadsBehindWrites

-----------------------------------------------------------------------------
(* Reads.                                                                  *)
Reads == 1 .. Len(reads)

SizeOf(r) == wrote[reads[r]].size

Answer == [ from : { "dram", "flash" }, data : Data ]

ReadTypes ==
  /\ reads \in Seq(Values) /\ answers \in Seq(Seq(Answer)) /\ Len(answers) = Len(reads)
  /\ deqQ \in Seq(Reads)
  /\ nextBurst \in Seq([ sel : { "dram", "flash" }, id : Reads ]) /\ Len(nextBurst) <= 2
  /\ byteCntResp \in Nat

(* A value of which all pages have been issued.                            *)
Old(v) == wrote[v].addr + wrote[v].size <= Issued

ReadQInv ==
  /\ readQ \in Seq([ id : Reads, value : Values ])
  /\ \A k \in 1 .. Len(readQ) : readQ[k].value = reads[readQ[k].id] /\ Old(readQ[k].value)

ImmInv ==
  /\ immQ \in Seq([ id : Reads, value : Values, cmdCnt : Nat ])
  /\ \A k \in 1 .. Len(immQ) :
       /\ immQ[k].value = reads[immQ[k].id] /\ Old(immQ[k].value)
       /\ immQ[k].cmdCnt < SizeOf(immQ[k].id)

(* A command reads where a page of its value is to be.                     *)
PageRead(c, x) ==
  /\ x.id \in Reads /\ x.i \in 1 .. SizeOf(x.id) /\ Old(reads[x.id])
  /\ Goes(Addr(reads[x.id], x.i), c, x)

ChipReadsInv ==
  \A c \in Chips : \A k \in Nat \ {0} : ReadAt(c, k) => PageRead(c, chipQ[c][k])

(* A page whose block was erased while in use.                             *)
Lost(a) == a < Issued /\ OnErasedAgain(a)

(* Page i of what read r asks for may be wrong in flash.                   *)
Excused(r, i) == reads[r] \in early \/ Lost(Addr(reads[r], i))

ArrivedInv ==
  \A d \in arrived :
    /\ d.id \in Reads /\ d.i \in 1 .. SizeOf(d.id) /\ d.data \in Data
    /\ d.data = << reads[d.id], d.i >> \/ Excused(d.id, d.i)

ReadersInv == ReadQInv /\ ImmInv /\ ChipReadsInv /\ ArrivedInv

-----------------------------------------------------------------------------
(* What has been written.                                                  *)
WriterInv == ValuesInv /\ RequestsInv /\ FlushInv

ErasePtrsInv == ServerTypes /\ EraseInv

CoreInv == WriterInv /\ DramInv /\ ErasePtrsInv /\ ProgramInv

-----------------------------------------------------------------------------
(* Sequences and sets.                                                     *)
LEMMA AppendIs ==
  ASSUME NEW T, NEW s \in Seq(T), NEW x \in T
  PROVE  /\ Append(s, x) \in Seq(T) /\ Append(s, x) # << >>
         /\ Len(Append(s, x)) = Len(s) + 1 /\ Len(s) \in Nat
         /\ Append(s, x)[Len(s) + 1] = x
         /\ \A k \in 1 .. Len(s) : Append(s, x)[k] = s[k]
BY AppendProperties

LEMMA TailIs ==
  ASSUME NEW T, NEW s \in Seq(T), s # << >>
  PROVE  /\ Tail(s) \in Seq(T) /\ Len(s) \in Nat \ { 0 } /\ Len(Tail(s)) = Len(s) - 1
         /\ Head(s) = s[1] /\ s[1] \in T
         /\ \A k \in 1 .. Len(s) - 1 : Tail(s)[k] = s[k + 1]
<1>1. Len(s) \in Nat \ { 0 }
  BY EmptySeq
<1> QED BY <1>1, HeadTailProperties, ElementOfSeq

LEMMA LenOne ==
  ASSUME NEW T, NEW x \in T
  PROVE  << x >> \in Seq(T) /\ Len(<< x >>) = 1 /\ << x >>[1] = x /\ << x >> # << >>
OBVIOUS

LEMMA LenEmpty ==
  ASSUME NEW T, NEW s \in Seq(T)
  PROVE  /\ Len(s) \in Nat /\ (s = << >> <=> Len(s) = 0)
         /\ \A k \in 1 .. Len(s) : s[k] \in T
BY EmptySeq, LenProperties, ElementOfSeq

-----------------------------------------------------------------------------
(* The requests to come.                                                   *)
LEMMA WritesOfFinite ==
  ASSUME NEW s, NEW m \in Nat
  PROVE  IsFiniteSet(WritesOf(s, m)) /\ Cardinality(WritesOf(s, m)) \in Nat
<1>1. IsFiniteSet(1 .. m)
  BY FS_Interval
<1>2. WritesOf(s, m) \in SUBSET (1 .. m)
  BY DEF WritesOf
<1> QED BY <1>1, <1>2, FS_Subset, FS_CardinalityType

LEMMA WritesOfNext ==
  ASSUME NEW s, NEW m \in Nat
  PROVE  Cardinality(WritesOf(s, m + 1)) = Cardinality(WritesOf(s, m)) + (IF s[m + 1].rnw THEN 0 ELSE 1)
<1>1. CASE s[m + 1].rnw
  <2>1. WritesOf(s, m + 1) = WritesOf(s, m)
    BY <1>1 DEF WritesOf
  <2> QED BY <1>1, <2>1, WritesOfFinite
<1>2. CASE ~ s[m + 1].rnw
  <2>1. WritesOf(s, m + 1) = WritesOf(s, m) \cup { m + 1 } /\ m + 1 \notin WritesOf(s, m)
    BY <1>2 DEF WritesOf
  <2> QED BY <1>2, <2>1, WritesOfFinite, FS_AddElement
<1> QED BY <1>1, <1>2

(* A request to come writes a value that fits into a super page, or reads  *)
(* a value that was written; the requests behind it come next.             *)
LEMMA RequestNow ==
  ASSUME RequestsInv, reqQ # << >>
  PROVE  /\ Head(reqQ).rnw \in BOOLEAN
         /\ Head(reqQ).n \in IF Head(reqQ).rnw THEN Values ELSE 1 .. NumPages
         /\ reqQ' = Tail(reqQ)
              /\ Len(wrote)' = Len(wrote) + (IF Head(reqQ).rnw THEN 0 ELSE 1) => RequestsInv'
<1>0. PICK s \in Requests : \E m \in 0 .. Len(s) :
        Len(wrote) = Cardinality(WritesOf(s, m)) /\ reqQ = SubSeq(s, m + 1, Len(s))
  BY DEF RequestsInv
<1>1. PICK m \in 0 .. Len(s) :
        Len(wrote) = Cardinality(WritesOf(s, m)) /\ reqQ = SubSeq(s, m + 1, Len(s))
  BY <1>0
<1>2. s \in Seq([ rnw : BOOLEAN, n : Nat ]) /\ Len(s) \in Nat /\ m \in Nat
  BY FlashStoreAssumption
<1>3. m + 1 \in 1 .. Len(s)
  <2>1. m # Len(s)
    BY <1>1, <1>2, SubSeqEmpty
  <2> QED BY <1>2, <2>1
<1>4. Head(reqQ) = s[m + 1] /\ Tail(reqQ) = SubSeq(s, m + 1 + 1, Len(s))
  BY <1>1, <1>2, <1>3, HeadTailOfSubSeq
<1>5. s[m + 1] \in [ rnw : BOOLEAN, n : Nat ]
  BY <1>2, <1>3, ElementOfSeq
<1>6. s[m + 1].n \in IF s[m + 1].rnw THEN 1 .. Cardinality(WritesOf(s, m + 1 - 1)) ELSE 1 .. NumPages
  BY <1>2, <1>3, FlashStoreAssumption
<1>7. m + 1 - 1 = m
  BY <1>2
<1>8. ASSUME reqQ' = Tail(reqQ), Len(wrote)' = Len(wrote) + (IF Head(reqQ).rnw THEN 0 ELSE 1)
      PROVE  RequestsInv'
  <2>1. Len(wrote)' = Cardinality(WritesOf(s, m + 1))
    BY <1>1, <1>2, <1>4, <1>8, WritesOfNext
  <2>2. m + 1 \in 0 .. Len(s)
    BY <1>2, <1>3
  <2> QED BY <1>4, <1>8, <2>1, <2>2 DEF RequestsInv
<1> QED BY <1>1, <1>4, <1>5, <1>6, <1>7, <1>8 DEF Values

-----------------------------------------------------------------------------
(* Quotients and remainders.                                               *)
LEMMA Times ==
  ASSUME NEW m \in Nat, NEW p \in Nat, NEW q \in Nat
  PROVE  /\ p * m \in Nat /\ p * m = m * p /\ (p + 1) * m = p * m + m
         /\ p < q => p * m + m <= q * m
         /\ p <= q => p * m <= q * m
<1>1. p * m \in Nat /\ p * m = m * p /\ (p + 1) * m = p * m + m
  OBVIOUS
<1>2. ASSUME p < q PROVE p * m + m <= q * m
  <2>1. PICK d \in Nat : q = (p + 1) + d
    <3>1. q - (p + 1) \in Nat /\ q = (p + 1) + (q - (p + 1))
      BY <1>2
    <3> QED BY <3>1
  <2>2. q * m = (p + 1) * m + d * m /\ d * m \in Nat
    BY <2>1
  <2> QED BY <1>1, <2>2
<1>3. ASSUME p <= q PROVE p * m <= q * m
  <2>1. CASE p = q
    BY <2>1, <1>1
  <2>2. CASE p < q
    BY <2>2, <1>1, <1>2
  <2> QED BY <1>3, <2>1, <2>2
<1> QED BY <1>1, <1>2, <1>3

LEMMA DivIs ==
  ASSUME NEW m \in Nat \ {0}, NEW a \in Nat
  PROVE  /\ a \div m \in Nat /\ a % m \in 0 .. m - 1
         /\ a = (a \div m) * m + (a % m)
OBVIOUS

LEMMA DivUnique ==
  ASSUME NEW m \in Nat \ {0}, NEW q \in Nat, NEW r \in Nat, r < m
  PROVE  (q * m + r) \div m = q /\ (q * m + r) % m = r
<1>1. PICK a \in Nat : a = q * m + r
  <2>1. q * m + r \in Nat
    OBVIOUS
  <2> QED BY <2>1
<1>2. PICK p \in Nat : p = a \div m
  BY <1>1, DivIs
<1>3. PICK s \in Nat : s = a % m /\ s < m
  BY <1>1, DivIs
<1>4. a = p * m + s
  BY <1>1, <1>2, <1>3, DivIs
<1>5. CASE p < q
  <2>1. p * m + m <= q * m /\ p * m \in Nat /\ q * m \in Nat
    BY <1>5, Times
  <2> QED BY <2>1, <1>1, <1>3, <1>4
<1>6. CASE q < p
  <2>1. q * m + m <= p * m /\ p * m \in Nat /\ q * m \in Nat
    BY <1>6, Times
  <2> QED BY <2>1, <1>1, <1>3, <1>4
<1>7. CASE p = q
  <2>1. q * m \in Nat /\ p * m = q * m
    BY <1>7
  <2>2. s = r
    BY <2>1, <1>1, <1>4
  <2> QED BY <1>1, <1>2, <1>3, <1>7, <2>2
<1> QED BY <1>5, <1>6, <1>7

LEMMA DivOrder ==
  ASSUME NEW m \in Nat \ {0}, NEW a \in Nat, NEW b \in Nat
  PROVE  /\ a <= b => a \div m <= b \div m
         /\ (a + 1) \div m <= (a \div m) + 1
<1>1. PICK p \in Nat, r \in 0 .. m - 1 : p = a \div m /\ a = p * m + r
  BY DivIs
<1>2. PICK q \in Nat, s \in 0 .. m - 1 : q = b \div m /\ b = q * m + s
  BY DivIs
<1>3. ASSUME a <= b, q < p PROVE FALSE
  <2>1. q * m + m <= p * m /\ p * m \in Nat /\ q * m \in Nat
    BY <1>3, Times
  <2> QED BY <2>1, <1>1, <1>2, <1>3
<1>4. (a + 1) \div m <= p + 1
  <2>1. CASE r + 1 < m
    <3>1. a + 1 = p * m + (r + 1) /\ r + 1 \in Nat
      BY <1>1
    <3>2. (p * m + (r + 1)) \div m = p
      BY <2>1, <3>1, DivUnique
    <3> QED BY <3>1, <3>2
  <2>2. CASE r + 1 = m
    <3>1. a + 1 = (p + 1) * m + 0
      <4>1. (p + 1) * m = p * m + m /\ p * m \in Nat
        BY Times
      <4> QED BY <4>1, <1>1, <2>2
    <3>2. ((p + 1) * m + 0) \div m = p + 1
      BY DivUnique
    <3> QED BY <3>1, <3>2
  <2> QED BY <2>1, <2>2
<1> QED BY <1>1, <1>2, <1>3, <1>4

LEMMA DivDiv ==
  ASSUME NEW m \in Nat \ {0}, NEW n \in Nat \ {0}, NEW a \in Nat
  PROVE  a \div (m * n) = (a \div m) \div n
<1>1. PICK q \in Nat, r \in 0 .. m - 1 : q = a \div m /\ a = q * m + r
  BY DivIs
<1>2. PICK p \in Nat, s \in 0 .. n - 1 : p = q \div n /\ q = p * n + s
  BY <1>1, DivIs
<1>3. a = p * (m * n) + (s * m + r)
  <2>1. a = (p * n + s) * m + r
    BY <1>1, <1>2
  <2>2. (p * n + s) * m = p * (m * n) + s * m
    OBVIOUS
  <2> QED BY <2>1, <2>2
<1>4. s * m + r \in Nat /\ s * m + r < m * n
  <2>1. s * m + m <= n * m /\ s * m \in Nat /\ n * m = m * n
    BY Times
  <2> QED BY <2>1
<1>5. m * n \in Nat \ {0}
  <2>1. 0 * m + m <= n * m /\ n * m = m * n /\ m * n \in Nat
    BY Times
  <2> QED BY <2>1
<1>6. PICK w \in Nat \ {0} : w = m * n
  BY <1>5
<1>7. PICK t \in Nat : t = s * m + r /\ t < w
  BY <1>4, <1>6
<1>8. a = p * w + t
  BY <1>3, <1>6, <1>7
<1>9. (p * w + t) \div w = p
  BY <1>7, DivUnique
<1> QED BY <1>1, <1>2, <1>6, <1>8, <1>9

-----------------------------------------------------------------------------
(* Values, super pages and the flush.                                      *)
LEMMA PagesNat == NumPages \in Nat \ {0} /\ NumChips \in Nat \ {0} /\ PagesPerBlock \in Nat \ {0}
                  /\ Blocks \in Nat \ {0}
BY FlashServerAssumption

LEMMA WriterFrame ==
  ASSUME WriterInv, UNCHANGED << reqQ, write_vars, flushReqQ, flush, flushRespQ >>
  PROVE  WriterInv'
<1>1. ValuesInv'
  BY DEF WriterInv, ValuesInv, write_vars, Values, Offset, SegOf
<1>2. RequestsInv'
  BY DEF WriterInv, RequestsInv, write_vars
<1>3. FlushInv'
  BY DEF WriterInv, FlushInv, write_vars
<1> QED BY <1>1, <1>2, <1>3 DEF WriterInv

LEMMA ValueIs ==
  ASSUME ValuesInv, NEW v \in Values
  PROVE  /\ wrote[v] \in [ addr : Nat, size : 1 .. NumPages ]
         /\ wrote[v].addr \in Nat /\ wrote[v].size \in Nat /\ wrote[v].size > 0
         /\ SegOf(v) \in Nat /\ Offset(v) \in 0 .. NumPages - 1
         /\ wrote[v].addr = SegOf(v) * NumPages + Offset(v)
         /\ SegOf(v) * NumPages \in Nat
         /\ Offset(v) + wrote[v].size <= NumPages
         /\ wrote[v].addr + wrote[v].size <= SegOf(v) * NumPages + NumPages
<1>1. wrote[v] \in [ addr : Nat, size : 1 .. NumPages ]
  BY ElementOfSeq DEF ValuesInv, Values
<1>2. /\ SegOf(v) \in Nat /\ Offset(v) \in 0 .. NumPages - 1
      /\ wrote[v].addr = SegOf(v) * NumPages + Offset(v)
  BY <1>1, PagesNat, DivIs DEF SegOf, Offset
<1>3. SegOf(v) * NumPages \in Nat
  BY <1>2, PagesNat, Times
<1>4. Offset(v) + wrote[v].size <= NumPages
  BY DEF ValuesInv
<1>5. wrote[v].addr \in Nat /\ wrote[v].size \in Nat /\ wrote[v].size > 0 /\ wrote[v].size <= NumPages
  BY <1>1, PagesNat
<1> QED BY <1>1, <1>2, <1>3, <1>4, <1>5, PagesNat

(* What a new value changes.                                               *)
LEMMA WroteMore ==
  ASSUME ValuesInv, NEW seg \in Nat, NEW off \in Nat, NEW n \in 1 .. NumPages,
         off + n <= NumPages,
         wrote' = Append(wrote, [ addr |-> seg * NumPages + off, size |-> n ])
  PROVE  /\ wrote' \in Seq([ addr : Nat, size : 1 .. NumPages ])
         /\ Len(wrote) \in Nat /\ Len(wrote') = Len(wrote) + 1
         /\ Values' = Values \cup { Len(wrote) + 1 } /\ Len(wrote) + 1 \notin Values
         /\ \A v \in Values : wrote'[v] = wrote[v] /\ SegOf(v)' = SegOf(v) /\ Offset(v)' = Offset(v)
         /\ wrote'[Len(wrote) + 1].addr = seg * NumPages + off
         /\ wrote'[Len(wrote) + 1].size = n
         /\ \A w \in Values' : w = Len(wrote) + 1 => SegOf(w)' = seg /\ Offset(w)' = off
<1> DEFINE x == [ addr |-> seg * NumPages + off, size |-> n ]
<1>1. x \in [ addr : Nat, size : 1 .. NumPages ] /\ x.addr = seg * NumPages + off /\ x.size = n
  <2>1. seg * NumPages + off \in Nat
    BY PagesNat
  <2> QED BY <2>1
<1>2. wrote \in Seq([ addr : Nat, size : 1 .. NumPages ])
  BY DEF ValuesInv
<1> HIDE DEF x
<1>3. /\ wrote' \in Seq([ addr : Nat, size : 1 .. NumPages ])
      /\ Len(wrote) \in Nat /\ Len(wrote') = Len(wrote) + 1 /\ wrote'[Len(wrote) + 1] = x
      /\ \A v \in 1 .. Len(wrote) : wrote'[v] = wrote[v]
  <2>1. wrote' = Append(wrote, x)
    BY DEF x
  <2> QED BY <1>1, <1>2, <2>1, AppendIs
<1>4. x.addr \div NumPages = seg /\ x.addr % NumPages = off
  <2>1. off < NumPages /\ NumPages \in Nat \ {0}
    BY PagesNat
  <2>2. (seg * NumPages + off) \div NumPages = seg /\ (seg * NumPages + off) % NumPages = off
    BY <2>1, DivUnique
  <2> QED BY <1>1, <2>2
<1>5. Values' = Values \cup { Len(wrote) + 1 } /\ Len(wrote) + 1 \notin Values
  <2>1. \A k \in Nat : k + 1 \notin 1 .. k /\ 1 .. k + 1 = (1 .. k) \cup { k + 1 }
    OBVIOUS
  <2> QED BY <1>3, <2>1 DEF Values
<1>6. \A v \in Values : wrote'[v] = wrote[v]
  BY <1>3 DEF Values
<1>7. \A v \in Values : SegOf(v)' = SegOf(v) /\ Offset(v)' = Offset(v)
  <2> TAKE v \in Values
  <2>1. wrote'[v] = wrote[v]
    BY <1>6
  <2> QED BY <2>1 DEF SegOf, Offset
<1>8. \A w \in Values' : w = Len(wrote) + 1 => SegOf(w)' = seg /\ Offset(w)' = off
  BY <1>3, <1>4 DEF SegOf, Offset
<1> QED BY <1>1, <1>3, <1>5, <1>6, <1>7, <1>8

(* A value of n pages is accepted behind off pages of the current buffer,  *)
(* which may be another one than before.                                   *)
Accepts(n, off) ==
  /\ n \in 1 .. NumPages /\ off \in Nat /\ off + n <= NumPages
  /\ wrote' = Append(wrote, [ addr |-> superPageCnt' * NumPages + off, size |-> n ])
  /\ used' = [ used EXCEPT ![currBuf'] = off + n ]
  /\ dramReqQ' = Append(dramReqQ,
       [ rnw |-> FALSE, value |-> Len(wrote) + 1, buf |-> currBuf', id |-> 0 ])
  /\ Len(dramReqQ) < 2 /\ RequestsInv'
  /\ \/ /\ off = used[currBuf]
        /\ UNCHANGED << superPageCnt, currBuf, writeLocks, clean, flushReqQ >>
     \/ /\ off = 0 /\ ~ writeLocks[currBuf] /\ ~ writeLocks[1 - currBuf]
        /\ superPageCnt' = superPageCnt + 1 /\ currBuf' = 1 - currBuf
        /\ writeLocks' = [ writeLocks EXCEPT ![currBuf] = TRUE ]
        /\ clean' = [ clean EXCEPT ![currBuf] = TRUE, ![1 - currBuf] = FALSE ]
        /\ flushReqQ' = Append(flushReqQ, [ seg |-> superPageCnt, buf |-> currBuf ])

LEMMA WriteBufAccepts ==
  ASSUME WriterInv, doWriteBuf
  PROVE  \E n, off \in Nat : Accepts(n, off)
<1>1. /\ superPageCnt \in Nat /\ currBuf \in Bufs /\ used \in [ Bufs -> 0 .. NumPages ]
      /\ wrote \in Seq([ addr : Nat, size : 1 .. NumPages ])
      /\ 1 - currBuf \in Bufs /\ 1 - (1 - currBuf) = currBuf /\ 1 - currBuf # currBuf
  BY DEF WriterInv, ValuesInv, Bufs
<1>2. PICK n : n = Head(reqQ).n
  OBVIOUS
<1>3. reqQ # << >> /\ ~ Head(reqQ).rnw /\ Len(dramReqQ) < 2 /\ reqQ' = Tail(reqQ)
  BY DEF doWriteBuf, Accept_in
<1>4. n \in 1 .. NumPages /\ n \in Nat
  BY <1>2, <1>3, RequestNow, PagesNat DEF WriterInv
<1>5. RequestsInv'
  <2>1. Len(wrote)' = Len(wrote) + 1
    <3>1. \E x : wrote' = Append(wrote, x)
      BY DEF doWriteBuf, Accept_in
    <3> QED BY <1>1, <3>1
  <2> QED BY <1>3, <2>1, RequestNow DEF WriterInv
<1>6. CASE used[currBuf] + n <= NumPages
  <2>1. Accept_in(currBuf, superPageCnt, n)
          /\ UNCHANGED << superPageCnt, currBuf, writeLocks, clean, flushReqQ >>
    BY <1>2, <1>6 DEF doWriteBuf
  <2>2. Accepts(n, used[currBuf])
    BY <1>1, <1>3, <1>4, <1>5, <1>6, <2>1 DEF Accepts, Accept_in
  <2> QED BY <1>1, <1>4, <2>2
<1>7. CASE ~ (used[currBuf] + n <= NumPages)
  <2>1. /\ BuffersFree /\ Accept_in(1 - currBuf, superPageCnt + 1, n)
        /\ superPageCnt' = superPageCnt + 1 /\ currBuf' = 1 - currBuf
        /\ writeLocks' = [ writeLocks EXCEPT ![currBuf] = TRUE ]
        /\ clean' = [ clean EXCEPT ![currBuf] = TRUE, ![1 - currBuf] = FALSE ]
        /\ flushReqQ' = Append(flushReqQ, [ seg |-> superPageCnt, buf |-> currBuf ])
    BY <1>2, <1>7 DEF doWriteBuf
  <2>2. used[1 - currBuf] = 0
    BY <2>1 DEF BuffersFree, WriterInv, FlushInv
  <2>3. /\ wrote' = Append(wrote, [ addr |-> superPageCnt' * NumPages + 0, size |-> n ])
        /\ used' = [ used EXCEPT ![currBuf'] = 0 + n ]
    BY <1>1, <1>4, <2>1, <2>2 DEF Accept_in
  <2>4. /\ dramReqQ' = Append(dramReqQ,
             [ rnw |-> FALSE, value |-> Len(wrote) + 1, buf |-> currBuf', id |-> 0 ])
        /\ ~ writeLocks[currBuf] /\ ~ writeLocks[1 - currBuf]
    BY <2>1 DEF Accept_in, BuffersFree
  <2>5. Accepts(n, 0)
    BY <1>3, <1>4, <1>5, <2>1, <2>3, <2>4 DEF Accepts
  <2> QED BY <1>4, <2>5
<1> QED BY <1>6, <1>7

LEMMA AcceptsMore ==
  ASSUME WriterInv, NEW n \in Nat, NEW off \in Nat, Accepts(n, off)
  PROVE  /\ wrote' \in Seq([ addr : Nat, size : 1 .. NumPages ])
         /\ Len(wrote) \in Nat /\ Len(wrote') = Len(wrote) + 1
         /\ Values' = Values \cup { Len(wrote) + 1 } /\ Len(wrote) + 1 \notin Values
         /\ \A v \in Values : wrote'[v] = wrote[v] /\ SegOf(v)' = SegOf(v) /\ Offset(v)' = Offset(v)
         /\ wrote'[Len(wrote) + 1].addr = superPageCnt' * NumPages + off
         /\ wrote'[Len(wrote) + 1].size = n /\ superPageCnt' \in Nat
         /\ \A w \in Values' : w = Len(wrote) + 1 => SegOf(w)' = superPageCnt' /\ Offset(w)' = off
<1>1. superPageCnt' \in Nat
  BY DEF Accepts, WriterInv, ValuesInv
<1>2. PICK seg \in Nat : seg = superPageCnt'
  BY <1>1
<1>3. n \in 1 .. NumPages /\ off + n <= NumPages
        /\ wrote' = Append(wrote, [ addr |-> seg * NumPages + off, size |-> n ])
  BY <1>2 DEF Accepts
<1> QED BY <1>1, <1>2, <1>3, WroteMore DEF WriterInv

(* A value that was accepted before lies in front of the new one.          *)
LEMMA AcceptsBehind ==
  ASSUME WriterInv, NEW n \in Nat, NEW off \in Nat, Accepts(n, off), NEW v \in Values
  PROVE  /\ wrote[v].addr + wrote[v].size <= superPageCnt' * NumPages + off
         /\ SegOf(v) <= superPageCnt
         /\ SegOf(v) = superPageCnt' => Offset(v) + wrote[v].size <= off
<1>1. /\ superPageCnt \in Nat /\ SegOf(v) <= superPageCnt
      /\ SegOf(v) = superPageCnt => Offset(v) + wrote[v].size <= used[currBuf]
  BY DEF WriterInv, ValuesInv
<1>2. PICK a, z, s, o \in Nat : a = wrote[v].addr /\ z = wrote[v].size /\ s = SegOf(v) /\ o = Offset(v)
  BY ValueIs, PagesNat DEF WriterInv
<1>3. a = s * NumPages + o /\ a + z <= s * NumPages + NumPages /\ s * NumPages \in Nat /\ s <= superPageCnt
  BY <1>1, <1>2, ValueIs DEF WriterInv
<1>4. CASE superPageCnt' = superPageCnt /\ off = used[currBuf]
  <2>1. CASE s = superPageCnt
    BY <1>1, <1>2, <1>3, <1>4, <2>1
  <2>2. CASE s < superPageCnt
    <3>1. s * NumPages + NumPages <= superPageCnt * NumPages
      BY <1>1, <2>2, PagesNat, Times
    <3>2. superPageCnt * NumPages \in Nat
      BY <1>1, PagesNat, Times
    <3> QED BY <1>1, <1>2, <1>3, <1>4, <2>2, <3>1, <3>2, PagesNat
  <2> QED BY <1>1, <1>3, <2>1, <2>2
<1>5. CASE superPageCnt' = superPageCnt + 1 /\ off = 0
  <2>1. s * NumPages + NumPages <= superPageCnt' * NumPages
    BY <1>1, <1>3, <1>5, PagesNat, Times
  <2>2. superPageCnt' * NumPages \in Nat
    BY <1>1, <1>5, PagesNat, Times
  <2> QED BY <1>1, <1>2, <1>3, <1>5, <2>1, <2>2, PagesNat
<1> QED BY <1>4, <1>5 DEF Accepts

LEMMA WriteBufWriter ==
  ASSUME WriterInv, doWriteBuf
  PROVE  WriterInv'
<1>1. PICK n, off \in Nat : Accepts(n, off)
  BY WriteBufAccepts
<1>2. /\ superPageCnt \in Nat /\ currBuf \in Bufs /\ used \in [ Bufs -> 0 .. NumPages ]
      /\ writeLocks \in [ Bufs -> BOOLEAN ] /\ clean \in [ Bufs -> BOOLEAN ]
      /\ 1 - currBuf \in Bufs /\ 1 - (1 - currBuf) = currBuf /\ 1 - currBuf # currBuf
  BY DEF WriterInv, ValuesInv, Bufs
<1>3. UNCHANGED << flush, flushRespQ >>
  BY DEF doWriteBuf
<1>4. ValuesInv'
  <2>1. /\ superPageCnt' \in Nat /\ currBuf' \in Bufs /\ used' \in [ Bufs -> 0 .. NumPages ]
        /\ writeLocks' \in [ Bufs -> BOOLEAN ] /\ clean' \in [ Bufs -> BOOLEAN ]
        /\ used'[currBuf'] = off + n
    <3>1. superPageCnt' \in Nat /\ currBuf' \in Bufs
      BY <1>1, <1>2 DEF Accepts
    <3>2. writeLocks' \in [ Bufs -> BOOLEAN ] /\ clean' \in [ Bufs -> BOOLEAN ]
      BY <1>1, <1>2 DEF Accepts
    <3>3. used' = [ used EXCEPT ![currBuf'] = off + n ] /\ off + n \in 0 .. NumPages
      BY <1>1, PagesNat DEF Accepts
    <3> QED BY <1>2, <3>1, <3>2, <3>3
  <2>2. ASSUME NEW v \in Values'
        PROVE  /\ Offset(v)' + wrote'[v].size <= NumPages /\ SegOf(v)' <= superPageCnt'
               /\ SegOf(v)' = superPageCnt' => Offset(v)' + wrote'[v].size <= used'[currBuf']
               /\ v = Len(wrote') => SegOf(v)' = superPageCnt'
    <3>1. CASE v = Len(wrote) + 1
      <4>1. wrote'[v].size = n /\ SegOf(v)' = superPageCnt' /\ Offset(v)' = off
        BY <1>1, <3>1, AcceptsMore
      <4>2. off + n <= NumPages /\ superPageCnt' <= superPageCnt'
        BY <1>1, <2>1 DEF Accepts
      <4> QED BY <2>1, <4>1, <4>2
    <3>2. CASE v \in Values
      <4>1. wrote'[v] = wrote[v] /\ SegOf(v)' = SegOf(v) /\ Offset(v)' = Offset(v) /\ v # Len(wrote')
        BY <1>1, <3>2, AcceptsMore DEF Values
      <4>2. /\ SegOf(v) = superPageCnt' => Offset(v) + wrote[v].size <= off
            /\ SegOf(v) <= superPageCnt
        BY <1>1, <3>2, AcceptsBehind
      <4>3. /\ wrote[v].size \in Nat /\ Offset(v) \in Nat /\ SegOf(v) \in Nat
            /\ Offset(v) + wrote[v].size <= NumPages
        BY <3>2, ValueIs, PagesNat DEF WriterInv
      <4>4. superPageCnt <= superPageCnt'
        BY <1>1, <1>2 DEF Accepts
      <4>5. used'[currBuf'] = off + n /\ n \in Nat /\ off \in Nat
        BY <1>1, <2>1 DEF Accepts
      <4>6. SegOf(v)' = superPageCnt' => Offset(v)' + wrote'[v].size <= used'[currBuf']
        <5>1. PICK x \in Nat : x = Offset(v) + wrote[v].size
          BY <4>3
        <5>2. SegOf(v) = superPageCnt' => x <= off + n
          BY <4>2, <4>5, <5>1
        <5> QED BY <4>1, <4>5, <5>1, <5>2
      <4>7. SegOf(v)' <= superPageCnt'
        BY <1>2, <2>1, <4>1, <4>2, <4>3, <4>4
      <4> QED BY <4>1, <4>3, <4>6, <4>7
    <3> QED BY <1>1, <3>1, <3>2, AcceptsMore
  <2>3. ASSUME NEW v \in Values', NEW w \in Values', v < w
        PROVE  wrote'[v].addr + wrote'[v].size <= wrote'[w].addr
    <3>1. v \in Values
      <4>1. Len(wrote) \in Nat /\ Len(wrote') = Len(wrote) + 1
        BY <1>1, AcceptsMore
      <4> QED BY <2>3, <4>1 DEF Values
    <3>2. wrote'[v] = wrote[v]
      BY <1>1, <3>1, AcceptsMore
    <3>3. CASE w \in Values
      <4>1. wrote'[w] = wrote[w] /\ wrote[v].addr + wrote[v].size <= wrote[w].addr
        BY <1>1, <2>3, <3>1, <3>3, AcceptsMore DEF WriterInv, ValuesInv
      <4> QED BY <3>2, <4>1
    <3>4. CASE w = Len(wrote) + 1
      <4>1. wrote'[w].addr = superPageCnt' * NumPages + off
        BY <1>1, <3>4, AcceptsMore
      <4>2. wrote[v].addr + wrote[v].size <= superPageCnt' * NumPages + off
        BY <1>1, <3>1, AcceptsBehind
      <4> QED BY <3>2, <4>1, <4>2
    <3> QED BY <1>1, <3>3, <3>4, AcceptsMore
  <2>4. wrote' \in Seq([ addr : Nat, size : 1 .. NumPages ])
    BY <1>1, AcceptsMore
  <2> QED BY <2>1, <2>2, <2>3, <2>4 DEF ValuesInv
<1>5. RequestsInv'
  BY <1>1 DEF Accepts
<1>6. FlushInv'
  <2>1. CASE UNCHANGED << superPageCnt, currBuf, writeLocks, clean, flushReqQ >>
    <3>1. used'[1 - currBuf] = used[1 - currBuf]
      BY <1>1, <1>2, <2>1 DEF Accepts
    <3> QED BY <1>3, <2>1, <3>1 DEF WriterInv, FlushInv
  <2>2. CASE /\ ~ writeLocks[currBuf] /\ ~ writeLocks[1 - currBuf]
             /\ superPageCnt' = superPageCnt + 1 /\ currBuf' = 1 - currBuf
             /\ writeLocks' = [ writeLocks EXCEPT ![currBuf] = TRUE ]
             /\ clean' = [ clean EXCEPT ![currBuf] = TRUE, ![1 - currBuf] = FALSE ]
             /\ flushReqQ' = Append(flushReqQ, [ seg |-> superPageCnt, buf |-> currBuf ])
    <3>1. flushReqQ = << >> /\ flush = NoFlush /\ flushRespQ = << >>
      BY <2>2 DEF WriterInv, FlushInv
    <3>2. /\ clean'[currBuf] /\ writeLocks'[currBuf] /\ ~ writeLocks'[1 - currBuf]
      BY <1>2, <2>2
    <3>3. flushReqQ' = << [ seg |-> superPageCnt' - 1, buf |-> 1 - currBuf' ] >>
      <4>1. superPageCnt' - 1 = superPageCnt /\ 1 - currBuf' = currBuf
        BY <1>2, <2>2
      <4>2. flushReqQ' = << [ seg |-> superPageCnt, buf |-> currBuf ] >>
        BY <2>2, <3>1
      <4> QED BY <4>1, <4>2
    <3>4. 1 - currBuf' = currBuf /\ superPageCnt' > 0 /\ currBuf' = 1 - currBuf
      BY <1>2, <2>2
    <3> QED BY <1>3, <3>1, <3>2, <3>3, <3>4 DEF FlushInv
  <2> QED BY <1>1, <2>1, <2>2 DEF Accepts
<1> QED BY <1>4, <1>5, <1>6 DEF WriterInv

LEMMA ReadCmdWriter ==
  ASSUME WriterInv, doReadCmd
  PROVE  WriterInv'
<1>1. reqQ # << >> /\ Head(reqQ).rnw /\ reqQ' = Tail(reqQ) /\ UNCHANGED << write_vars, flush_vars >>
  BY DEF doReadCmd
<1>2. wrote' = wrote /\ Len(wrote)' = Len(wrote) + 0
  <2>1. Len(wrote) \in Nat
    BY LenEmpty DEF WriterInv, ValuesInv
  <2> QED BY <1>1, <2>1 DEF write_vars
<1>3. RequestsInv'
  BY <1>1, <1>2, RequestNow DEF WriterInv
<1>4. ValuesInv'
  BY <1>1 DEF WriterInv, ValuesInv, write_vars, Values, Offset, SegOf
<1>5. FlushInv'
  BY <1>1 DEF WriterInv, FlushInv, write_vars, flush_vars
<1> QED BY <1>3, <1>4, <1>5 DEF WriterInv

LEMMA UnlockWriter ==
  ASSUME WriterInv, doUnlockBuf
  PROVE  WriterInv'
<1>1. /\ flushRespQ # << >>
      /\ writeLocks' = [ writeLocks EXCEPT ![Head(flushRespQ)] = FALSE ]
      /\ used' = [ used EXCEPT ![Head(flushRespQ)] = 0 ]
      /\ flushRespQ' = Tail(flushRespQ)
      /\ UNCHANGED << reqQ, wrote, superPageCnt, currBuf, clean, flushReqQ, flush >>
  BY DEF doUnlockBuf
<1>2. /\ currBuf \in Bufs /\ used \in [ Bufs -> 0 .. NumPages ] /\ writeLocks \in [ Bufs -> BOOLEAN ]
      /\ 1 - currBuf \in Bufs /\ 1 - currBuf # currBuf
  BY DEF WriterInv, ValuesInv, Bufs
<1>3. /\ flushRespQ = << 1 - currBuf >> /\ flushReqQ = << >> /\ flush = NoFlush /\ clean[1 - currBuf]
      /\ ~ writeLocks[currBuf]
  BY <1>1 DEF WriterInv, FlushInv
<1>4. Head(flushRespQ) = 1 - currBuf /\ flushRespQ' = << >>
  BY <1>1, <1>3
<1>5. /\ used' \in [ Bufs -> 0 .. NumPages ] /\ used'[1 - currBuf] = 0 /\ used'[currBuf] = used[currBuf]
      /\ writeLocks' \in [ Bufs -> BOOLEAN ] /\ ~ writeLocks'[1 - currBuf] /\ ~ writeLocks'[currBuf]
  BY <1>1, <1>2, <1>3, <1>4, PagesNat
<1>6. ValuesInv'
  BY <1>1, <1>5 DEF WriterInv, ValuesInv, Values, Offset, SegOf
<1>7. RequestsInv'
  BY <1>1 DEF WriterInv, RequestsInv
<1>8. FlushInv'
  BY <1>1, <1>3, <1>4, <1>5 DEF FlushInv
<1> QED BY <1>6, <1>7, <1>8 DEF WriterInv

LEMMA FlushWriter ==
  ASSUME WriterInv,
         UNCHANGED << reqQ, wrote, superPageCnt, currBuf, used, writeLocks, clean >>,
         \/ FlushReserve \/ FlushTags \/ doFlashCmds
         \/ doFlashWriteReq /\ flush.step = "pages"
  PROVE  WriterInv'
<1>1. ValuesInv'
  BY DEF WriterInv, ValuesInv, Values, Offset, SegOf
<1>2. RequestsInv'
  BY DEF WriterInv, RequestsInv
<1> DEFINE other == 1 - currBuf
<1>3. superPageCnt \in Nat /\ currBuf \in Bufs /\ other \in Bufs
  BY DEF WriterInv, ValuesInv, Bufs
<1>4. /\ clean[other] /\ ~ writeLocks[currBuf] /\ (~ writeLocks[other] => used[other] = 0)
      /\ clean'[other] /\ ~ writeLocks'[currBuf] /\ (~ writeLocks'[other] => used'[other] = 0)
  BY DEF WriterInv, FlushInv
<1>5. CASE FlushReserve
  <2>1. flush.step = "no" /\ flushReqQ # << >>
    BY <1>5 DEF FlushReserve
  <2>2. /\ flushReqQ = << [ seg |-> superPageCnt - 1, buf |-> other ] >>
        /\ flush = NoFlush /\ flushRespQ = << >> /\ writeLocks[other] /\ superPageCnt > 0
    BY <2>1 DEF WriterInv, FlushInv
  <2>3. /\ flush' = [ NoFlush EXCEPT !.step = "tags", !.seg = superPageCnt - 1, !.buf = other ]
        /\ flushReqQ' = << >> /\ flushRespQ' = << >>
    <3>1. Head(flushReqQ).seg = superPageCnt - 1 /\ Head(flushReqQ).buf = other /\ Tail(flushReqQ) = << >>
      BY <2>2
    <3>2. /\ flush' = [ NoFlush EXCEPT !.step = "tags", !.seg = Head(flushReqQ).seg,
                                      !.buf = Head(flushReqQ).buf ]
          /\ flushReqQ' = Tail(flushReqQ) /\ flushRespQ' = flushRespQ
      BY <1>5 DEF FlushReserve
    <3> QED BY <2>2, <3>1, <3>2
  <2>4. /\ flush' \in Flushing /\ flush'.seg = superPageCnt - 1 /\ flush'.buf = other
        /\ flush'.asked = 0 /\ flush'.read = 0
    <3>1. flush' = [ step |-> "tags", seg |-> superPageCnt - 1, buf |-> other, asked |-> 0, read |-> 0 ]
      BY <2>3 DEF NoFlush
    <3>2. superPageCnt - 1 \in Nat /\ 0 \in 0 .. NumPages /\ 0 \in 0 .. NumPages - 1
      BY <1>3, <2>2, PagesNat
    <3> QED BY <1>3, <3>1, <3>2 DEF Flushing
  <2>5. FlushInv'
    BY <1>3, <1>4, <2>2, <2>3, <2>4 DEF FlushInv
  <2> QED BY <1>1, <1>2, <2>5 DEF WriterInv
<1>6. CASE flush.step # "no" /\ UNCHANGED << flushReqQ, flushRespQ >>
           /\ flush' \in Flushing /\ flush'.step = "pages" /\ flush'.seg = flush.seg /\ flush'.buf = flush.buf
  <2>1. /\ flushReqQ = << >> /\ flushRespQ = << >> /\ writeLocks[other]
        /\ flush.seg = superPageCnt - 1 /\ flush.buf = other
    BY <1>6 DEF WriterInv, FlushInv, NoFlush
  <2>2. FlushInv'
    BY <1>4, <1>6, <2>1 DEF FlushInv
  <2> QED BY <1>1, <1>2, <2>2 DEF WriterInv
<1>7. flush.step # "no" => flush \in Flushing /\ flush.buf = other /\ flush.seg = superPageCnt - 1
        /\ flushReqQ = << >> /\ flushRespQ = << >> /\ writeLocks[other]
  BY DEF WriterInv, FlushInv, NoFlush
<1>8. CASE FlushTags
  <2>1. flush.step = "tags" /\ flush' = [ flush EXCEPT !.step = "pages" ] /\ UNCHANGED << flushReqQ, flushRespQ >>
    BY <1>8 DEF FlushTags
  <2>2. flush' \in Flushing /\ flush'.step = "pages" /\ flush'.seg = flush.seg /\ flush'.buf = flush.buf
    BY <1>7, <2>1 DEF Flushing
  <2> QED BY <1>6, <2>1, <2>2
<1>9. CASE doFlashCmds
  <2>1. flush.step = "pages" /\ flush.asked < NumPages /\ flush' = [ flush EXCEPT !.asked = @ + 1 ]
          /\ UNCHANGED << flushReqQ, flushRespQ >>
    BY <1>9 DEF doFlashCmds
  <2>2. flush' \in Flushing /\ flush'.step = "pages" /\ flush'.seg = flush.seg /\ flush'.buf = flush.buf
    BY <1>7, <2>1, PagesNat DEF Flushing
  <2> QED BY <1>6, <2>1, <2>2
<1>10. CASE doFlashWriteReq /\ flush.step = "pages"
  <2>1. CASE flush.read + 1 = NumPages
    <3>1. flush' = NoFlush /\ flushRespQ' = << other >> /\ flushReqQ' = << >>
      BY <1>7, <1>10, <2>1 DEF doFlashWriteReq
    <3>2. FlushInv'
      BY <1>4, <1>7, <1>10, <3>1 DEF FlushInv
    <3> QED BY <1>1, <1>2, <3>2 DEF WriterInv
  <2>2. CASE flush.read + 1 # NumPages
    <3>1. flush' = [ flush EXCEPT !.read = @ + 1 ] /\ UNCHANGED << flushReqQ, flushRespQ >>
      BY <1>10, <2>2 DEF doFlashWriteReq
    <3>2. flush' \in Flushing /\ flush'.step = "pages" /\ flush'.seg = flush.seg /\ flush'.buf = flush.buf
      BY <1>7, <1>10, <2>2, <3>1, PagesNat DEF Flushing
    <3> QED BY <1>6, <1>10, <3>1, <3>2
  <2> QED BY <2>1, <2>2
<1> QED BY <1>5, <1>8, <1>9, <1>10

-----------------------------------------------------------------------------
(* DRAM.                                                                   *)
LEMMA DramFrame ==
  ASSUME DramInv, UNCHANGED << wrote, superPageCnt, currBuf, dram, dramReqQ, byteCnt >>
  PROVE  DramInv'
<1>a. \A v, b : SegOf(v)' = SegOf(v) /\ Offset(v)' = Offset(v) /\ Pages(v)' = Pages(v)
  BY DEF SegOf, Offset, Pages
<1>b. \A v, b : InBuf(v, b)' = InBuf(v, b)
  BY <1>a DEF InBuf
<1>c. \A k : Left(k)' = Left(k)
  BY DEF Left
<1>d. \A k, v, i : WrittenBy(k, v, i)' = WrittenBy(k, v, i)
  BY <1>c DEF WrittenBy
<1>1. DramTypes'
  BY DEF DramInv, DramTypes, Values
<1>2. WritesInOrder'
  BY DEF DramInv, WritesInOrder, InBuf, SegOf
<1>3. BuffersHold'
  BY <1>a, <1>b, <1>d DEF DramInv, BuffersHold, Values
<1>4. ReadsHeld'
  <2>1. ASSUME NEW k, NEW v, NEW b PROVE ReadHeld(k, v, b)' = ReadHeld(k, v, b)
    <3>1. \A l : SegOf(dramReqQ[l].value)' = SegOf(dramReqQ[l].value)
      BY DEF SegOf
    <3> QED BY <1>a, <1>c, <1>d, <3>1 DEF ReadHeld
  <2> QED BY <2>1 DEF DramInv, ReadsHeld
<1> QED BY <1>1, <1>2, <1>3, <1>4 DEF DramInv

LEMMA DramReqIs ==
  ASSUME DramTypes, NEW k \in 1 .. Len(dramReqQ)
  PROVE  /\ dramReqQ[k].rnw \in BOOLEAN /\ dramReqQ[k].value \in Values /\ dramReqQ[k].buf \in Bufs
         /\ dramReqQ[k].id \in Nat
<1>1. dramReqQ[k] \in DramRequest
  BY ElementOfSeq DEF DramTypes
<1> QED BY <1>1 DEF DramTypes, DramRequest

(* A request is appended.                                                  *)
LEMMA DramAppend ==
  ASSUME DramTypes, NEW x \in DramRequest, dramReqQ' = Append(dramReqQ, x), Len(dramReqQ) < 2,
         byteCnt' = byteCnt
  PROVE  /\ dramReqQ' \in Seq(DramRequest) /\ Len(dramReqQ) \in Nat
         /\ Len(dramReqQ') = Len(dramReqQ) + 1 /\ Len(dramReqQ') <= 2
         /\ dramReqQ'[Len(dramReqQ) + 1] = x
         /\ \A k \in 1 .. Len(dramReqQ) : dramReqQ'[k] = dramReqQ[k]
         /\ IF dramReqQ = << >> THEN byteCnt' = 0 ELSE byteCnt' < wrote[dramReqQ'[1].value].size
         /\ dramReqQ = << >> => Len(dramReqQ) = 0
         /\ dramReqQ' # << >>
<1>1. dramReqQ \in Seq(DramRequest)
  BY DEF DramTypes
<1>2. /\ dramReqQ' \in Seq(DramRequest) /\ Len(dramReqQ) \in Nat
      /\ Len(dramReqQ') = Len(dramReqQ) + 1
      /\ dramReqQ'[Len(dramReqQ) + 1] = x /\ dramReqQ' # << >>
      /\ \A k \in 1 .. Len(dramReqQ) : dramReqQ'[k] = dramReqQ[k]
  BY <1>1, AppendIs
<1>3. CASE dramReqQ = << >>
  BY <1>2, <1>3 DEF DramTypes
<1>4. CASE dramReqQ # << >>
  <2>1. 1 \in 1 .. Len(dramReqQ)
    BY <1>1, <1>4, LenEmpty
  <2>2. dramReqQ'[1] = dramReqQ[1] /\ byteCnt < wrote[dramReqQ[1].value].size
    BY <1>2, <1>4, <2>1 DEF DramTypes
  <2> QED BY <1>2, <1>4, <2>2
<1> QED BY <1>3, <1>4

LEMMA InOneBuf ==
  ASSUME ValuesInv, NEW v \in Values, NEW w \in Values, NEW b \in Bufs, NEW d \in Bufs,
         InBuf(v, b), InBuf(w, d)
  PROVE  /\ v = w => b = d
         /\ b = d => SegOf(v) = SegOf(w)
<1>1. superPageCnt \in Nat /\ currBuf \in Bufs /\ SegOf(v) \in Nat /\ SegOf(w) \in Nat
  BY ValueIs DEF ValuesInv
<1> QED BY <1>1 DEF InBuf, Bufs

(* A switch of the buffers keeps what is in the current one.               *)
LEMMA AcceptsInBuf ==
  ASSUME WriterInv, NEW n \in Nat, NEW off \in Nat, Accepts(n, off),
         NEW v \in Values, NEW b \in Bufs
  PROVE  /\ InBuf(v, b)' => InBuf(v, b)
         /\ InBuf(v, b) /\ SegOf(v) = superPageCnt => InBuf(v, b)'
         /\ \A w \in Values' : w = Len(wrote) + 1 /\ b = currBuf' => InBuf(w, b)'
<1>1. superPageCnt \in Nat /\ currBuf \in Bufs /\ SegOf(v) \in Nat /\ SegOf(v) <= superPageCnt
  BY ValueIs DEF WriterInv, ValuesInv
<1>2. /\ SegOf(v)' = SegOf(v)
      /\ \A w \in Values' : w = Len(wrote) + 1 => SegOf(w)' = superPageCnt'
  BY AcceptsMore
<1>3. \/ superPageCnt' = superPageCnt /\ currBuf' = currBuf
      \/ superPageCnt' = superPageCnt + 1 /\ currBuf' = 1 - currBuf
  BY DEF Accepts
<1>4. \A w \in Values' : w = Len(wrote) + 1 /\ b = currBuf' => InBuf(w, b)'
  BY <1>2 DEF InBuf
<1>5. CASE superPageCnt' = superPageCnt /\ currBuf' = currBuf
  BY <1>2, <1>4, <1>5 DEF InBuf
<1>6. CASE superPageCnt' = superPageCnt + 1 /\ currBuf' = 1 - currBuf
  BY <1>1, <1>2, <1>4, <1>6 DEF InBuf, Bufs
<1> QED BY <1>3, <1>5, <1>6

LEMMA WriteBufDram ==
  ASSUME WriterInv, DramInv, doWriteBuf
  PROVE  DramInv'
<1>1. PICK n, off \in Nat : Accepts(n, off)
  BY WriteBufAccepts
<1>2. dram' = dram /\ byteCnt' = byteCnt
  BY DEF doWriteBuf
<1> DEFINE x == [ rnw |-> FALSE, value |-> Len(wrote) + 1, buf |-> currBuf', id |-> 0 ]
           N == Len(wrote) + 1
           L == Len(dramReqQ)
<1>3. /\ Len(wrote) \in Nat /\ Len(wrote') = N /\ Values' = Values \cup { N } /\ N \notin Values
      /\ \A v \in Values : wrote'[v] = wrote[v] /\ SegOf(v)' = SegOf(v) /\ Offset(v)' = Offset(v)
      /\ wrote'[N].size = n /\ n \in 1 .. NumPages
  BY <1>1, AcceptsMore DEF Accepts
<1>4. /\ x \in DramRequest /\ ~ x.rnw /\ x.value = N /\ x.buf = currBuf'
      /\ dramReqQ' = Append(dramReqQ, x) /\ L < 2 /\ currBuf' \in Bufs
  <2>1. currBuf' \in Bufs
    BY <1>1 DEF Accepts, WriterInv, ValuesInv, Bufs
  <2> QED BY <1>1, <1>3, <2>1 DEF Accepts, DramRequest
<1>5. DramTypes /\ WritesInOrder /\ BuffersHold /\ ReadsHeld
  BY DEF DramInv
<1> HIDE DEF x
<1>6. /\ dramReqQ' \in Seq(DramRequest) /\ L \in Nat
      /\ Len(dramReqQ') = L + 1 /\ Len(dramReqQ') <= 2
      /\ dramReqQ'[L + 1] = x
      /\ \A k \in 1 .. L : dramReqQ'[k] = dramReqQ[k]
      /\ IF dramReqQ = << >> THEN byteCnt' = 0 ELSE byteCnt' < wrote[dramReqQ'[1].value].size
      /\ dramReqQ = << >> => L = 0
      /\ dramReqQ' # << >>
  BY <1>2, <1>4, <1>5, DramAppend
<1>7. \A k \in 1 .. L : dramReqQ[k].value \in Values /\ dramReqQ[k].buf \in Bufs
  BY <1>5, DramReqIs
<1>8. 1 .. L + 1 = (1 .. L) \cup { L + 1 } /\ L + 1 \in 1 .. L + 1
  BY <1>6
<1>9. \A k \in 1 .. L : Left(k)' = Left(k)
  BY <1>2, <1>3, <1>6, <1>7 DEF Left
<1>10. \A k \in 1 .. L + 1 : k = L + 1 => Left(k)' = 1 .. n
  <2> SUFFICES ASSUME NEW k \in 1 .. L + 1, k = L + 1 PROVE Left(k)' = 1 .. n
    OBVIOUS
  <2>1. wrote'[dramReqQ'[k].value].size = n
    BY <1>3, <1>4, <1>6
  <2>2. k = 1 => byteCnt' = 0
    BY <1>5, <1>6, LenEmpty DEF DramTypes
  <2> QED BY <2>1, <2>2 DEF Left
<1>11. \A k \in 1 .. L : \A v, i : WrittenBy(k, v, i)' = WrittenBy(k, v, i)
  BY <1>6, <1>9 DEF WrittenBy
<1>12. DramTypes'
  <2>1. \A k \in 1 .. Len(dramReqQ') : dramReqQ'[k].value \in Values'
    BY <1>3, <1>4, <1>6, <1>7, <1>8
  <2>2. byteCnt' < wrote'[dramReqQ'[1].value].size
    <3>1. CASE dramReqQ = << >>
      BY <1>3, <1>4, <1>6, <3>1
    <3>2. CASE dramReqQ # << >>
      <4>1. 1 \in 1 .. L
        BY <1>5, <1>6, <3>2, LenEmpty DEF DramTypes
      <4>2. wrote'[dramReqQ'[1].value] = wrote[dramReqQ'[1].value]
        BY <1>3, <1>6, <1>7, <4>1
      <4> QED BY <1>6, <3>2, <4>2
    <3> QED BY <3>1, <3>2
  <2> QED BY <1>2, <1>5, <1>6, <2>1, <2>2 DEF DramTypes
<1>13. WritesInOrder'
  <2> SUFFICES ASSUME NEW k \in 1 .. L + 1, ~ dramReqQ'[k].rnw
               PROVE  /\ InBuf(dramReqQ[k].value, dramReqQ[k].buf)'
                      /\ \A w \in dramReqQ'[k].value + 1 .. Len(wrote') :
                           \E l \in k + 1 .. Len(dramReqQ') : ~ dramReqQ'[l].rnw /\ dramReqQ'[l].value = w
    BY <1>6 DEF WritesInOrder
  <2>1. CASE k = L + 1
    <3>1. dramReqQ'[k].value = N /\ dramReqQ'[k].buf = currBuf'
      BY <1>4, <1>6, <2>1
    <3>2. N \in Values' /\ Values # {} => InBuf(dramReqQ[k].value, dramReqQ[k].buf)'
      BY <1>1, <1>3, <1>4, <3>1, AcceptsInBuf
    <3>3. InBuf(dramReqQ[k].value, dramReqQ[k].buf)'
      <4>1. SegOf(dramReqQ[k].value)' = superPageCnt'
        BY <1>1, <1>3, <3>1, AcceptsMore
      <4> QED BY <3>1, <4>1 DEF InBuf
    <3> QED BY <1>3, <3>1, <3>3
  <2>2. CASE k \in 1 .. L
    <3>1. PICK v \in Values, b \in Bufs : v = dramReqQ[k].value /\ b = dramReqQ[k].buf
      BY <1>7, <2>2
    <3>2. /\ InBuf(v, b)
          /\ \A w \in v + 1 .. Len(wrote) :
               \E l \in k + 1 .. L : ~ dramReqQ[l].rnw /\ dramReqQ[l].value = w
      BY <1>5, <1>6, <2>2, <3>1 DEF WritesInOrder
    <3>3. v = Len(wrote)
      <4>1. k + 1 .. L = {}
        BY <1>4, <1>6, <2>2
      <4>2. \A w \in v + 1 .. Len(wrote) : FALSE
        BY <3>2, <4>1
      <4>3. v \in Nat /\ v <= Len(wrote)
        BY <1>3 DEF Values
      <4>4. ~ (Len(wrote) \in v + 1 .. Len(wrote))
        BY <4>2
      <4> QED BY <1>3, <4>3, <4>4
    <3>4. InBuf(v, b)'
      <4>1. SegOf(v) = superPageCnt
        BY <3>3 DEF WriterInv, ValuesInv
      <4> QED BY <1>1, <3>2, <4>1, AcceptsInBuf
    <3>5. dramReqQ'[k] = dramReqQ[k]
      BY <1>6, <2>2
    <3>6. \A w \in v + 1 .. Len(wrote') :
            \E l \in k + 1 .. Len(dramReqQ') : ~ dramReqQ'[l].rnw /\ dramReqQ'[l].value = w
      <4>1. \A w \in v + 1 .. Len(wrote') : w = N
        BY <1>3, <3>3
      <4>2. L + 1 \in k + 1 .. Len(dramReqQ')
        BY <1>6, <2>2
      <4> QED BY <1>4, <1>6, <4>1, <4>2
    <3> QED BY <3>1, <3>4, <3>5, <3>6
  <2> QED BY <1>8, <2>1, <2>2
<1>14. BuffersHold'
  <2> SUFFICES ASSUME NEW v \in Values', NEW b \in Bufs, NEW i \in Pages(v)', InBuf(v, b)'
               PROVE  \/ dram'[b][Offset(v)' + i - 1] = << v, i >>
                      \/ \E k \in 1 .. Len(dramReqQ') : WrittenBy(k, v, i)'
    BY DEF BuffersHold
  <2>1. CASE v = N
    <3>1. L + 1 \in 1 .. Len(dramReqQ')
      BY <1>6
    <3>2. i \in 1 .. n
      BY <1>3, <2>1 DEF Pages
    <3>3. PICK k \in 1 .. L + 1 : k = L + 1
      BY <1>8
    <3>4. WrittenBy(k, v, i)'
      BY <1>4, <1>6, <1>10, <2>1, <3>2, <3>3 DEF WrittenBy
    <3> QED BY <1>6, <3>3, <3>4
  <2>2. CASE v \in Values
    <3>1. InBuf(v, b) /\ Offset(v)' = Offset(v) /\ i \in Pages(v)
      BY <1>1, <1>3, <2>2, AcceptsInBuf DEF Pages
    <3>2. \/ dram[b][Offset(v) + i - 1] = << v, i >>
          \/ \E k \in 1 .. L : WrittenBy(k, v, i)
      BY <1>5, <2>2, <3>1 DEF BuffersHold
    <3> QED BY <1>2, <1>6, <1>8, <1>11, <3>1, <3>2
  <2> QED BY <1>3, <2>1, <2>2
<1>15. ReadsHeld'
  <2> SUFFICES ASSUME NEW k \in 1 .. L + 1, dramReqQ'[k].rnw, NEW v, NEW b,
                      v = dramReqQ'[k].value, b = dramReqQ'[k].buf
               PROVE  ReadHeld(k, v, b)'
    <3>1. ASSUME NEW k \in 1 .. L + 1, dramReqQ'[k].rnw
          PROVE  ReadHeld(k, dramReqQ[k].value, dramReqQ[k].buf)'
      <4>1. PICK v, b : v = dramReqQ'[k].value /\ b = dramReqQ'[k].buf
        OBVIOUS
      <4>2. ReadHeld(k, v, b)'
        BY <3>1, <4>1
      <4> QED BY <4>1, <4>2 DEF ReadHeld
    <3> QED BY <1>6, <3>1 DEF ReadsHeld
  <2>1. k \in 1 .. L
    BY <1>4, <1>6, <1>8
  <2>2. dramReqQ'[k] = dramReqQ[k] /\ Left(k)' = Left(k) /\ v \in Values /\ Offset(v)' = Offset(v)
          /\ SegOf(v)' = SegOf(v)
    BY <1>3, <1>6, <1>7, <1>9, <2>1
  <2>3. 1 .. k - 1 \subseteq 1 .. L
    BY <2>1, <1>6
  <2>4. /\ \A i \in Left(k) :
             \/ dram[b][Offset(v) + i - 1] = << v, i >>
             \/ \E l \in 1 .. k - 1 : WrittenBy(l, v, i)
        /\ \A l \in 1 .. k - 1 : ~ dramReqQ[l].rnw =>
             /\ dramReqQ[l].value = v => dramReqQ[l].buf = b
             /\ dramReqQ[l].buf = b => SegOf(dramReqQ[l].value) = SegOf(v)
    BY <1>5, <2>1, <2>2 DEF ReadsHeld, ReadHeld
  <2>5. \A i \in Left(k)' :
          \/ dram'[b][Offset(v)' + i - 1] = << v, i >>
          \/ \E l \in 1 .. k - 1 : WrittenBy(l, v, i)'
    BY <1>2, <1>11, <2>2, <2>3, <2>4
  <2>6. ASSUME NEW l \in 1 .. k - 1
        PROVE  SegOf(dramReqQ[l].value)' = SegOf(dramReqQ[l].value) /\ dramReqQ'[l] = dramReqQ[l]
    <3>1. dramReqQ'[l] = dramReqQ[l] /\ dramReqQ[l].value \in Values
      BY <1>6, <1>7, <2>3
    <3>2. PICK u \in Values : u = dramReqQ[l].value
      BY <3>1
    <3>3. SegOf(u)' = SegOf(u)
      BY <1>3
    <3> QED BY <3>1, <3>2, <3>3 DEF SegOf
  <2> QED BY <2>2, <2>4, <2>5, <2>6 DEF ReadHeld
<1> QED BY <1>12, <1>13, <1>14, <1>15 DEF DramInv

LEMMA ReadCmdDram ==
  ASSUME WriterInv, DramInv, Len(reads) \in Nat, doReadCmd
  PROVE  DramInv'
<1>1. /\ UNCHANGED << wrote, superPageCnt, currBuf, dram, byteCnt >>
      /\ reqQ # << >> /\ Head(reqQ).rnw
  BY DEF doReadCmd, write_vars
<1>2. CASE dramReqQ' = dramReqQ
  BY <1>1, <1>2, DramFrame
<1>3. CASE dramReqQ' # dramReqQ
  <2>1. PICK u \in Values : u = Head(reqQ).n
    BY <1>1, RequestNow DEF WriterInv
  <2>2. /\ currBuf \in Bufs /\ superPageCnt \in Nat /\ DramTypes /\ WritesInOrder /\ BuffersHold /\ ReadsHeld
        /\ ValuesInv /\ Len(wrote) \in Nat /\ u \in Nat
    <3>1. Len(wrote) \in Nat
      BY LenEmpty DEF WriterInv, ValuesInv
    <3> QED BY <3>1 DEF WriterInv, ValuesInv, DramInv, Values
  <2>3. PICK d \in Bufs : /\ Len(dramReqQ) < 2 /\ InBuf(u, d)
           /\ dramReqQ' = Append(dramReqQ, [ rnw |-> TRUE, value |-> u, buf |-> d, id |-> Len(reads) + 1 ])
    <3> DEFINE v == Head(reqQ).n
               inBuf == { b \in Bufs : \/ b = currBuf /\ SegOf(v) = superPageCnt
                                       \/ b # currBuf /\ SegOf(v) = superPageCnt - 1 /\ clean[b] }
    <3>1. /\ Len(dramReqQ) < 2
          /\ \E b \in inBuf : dramReqQ' = Append(dramReqQ,
               [ rnw |-> TRUE, value |-> v, buf |-> b, id |-> Len(reads) + 1 ])
      BY <1>3 DEF doReadCmd
    <3>2. ASSUME NEW b \in inBuf PROVE b \in Bufs /\ InBuf(v, b)
      BY <2>2 DEF InBuf, Bufs
    <3> HIDE DEF inBuf
    <3> QED BY <2>1, <3>1, <3>2
  <2> DEFINE x == [ rnw |-> TRUE, value |-> u, buf |-> d, id |-> Len(reads) + 1 ]
             L == Len(dramReqQ)
  <2>4. x \in DramRequest /\ x.rnw /\ x.value = u /\ x.buf = d
    <3>1. Len(reads) + 1 \in Nat
      OBVIOUS
    <3> QED BY <2>2, <3>1 DEF DramRequest
  <2> HIDE DEF x
  <2>5. dramReqQ' = Append(dramReqQ, x)
    BY <2>3 DEF x
  <2>6. /\ dramReqQ' \in Seq(DramRequest) /\ L \in Nat
        /\ Len(dramReqQ') = L + 1 /\ Len(dramReqQ') <= 2
        /\ dramReqQ'[L + 1] = x
        /\ \A k \in 1 .. L : dramReqQ'[k] = dramReqQ[k]
        /\ IF dramReqQ = << >> THEN byteCnt' = 0 ELSE byteCnt' < wrote[dramReqQ'[1].value].size
        /\ dramReqQ = << >> => L = 0
        /\ dramReqQ' # << >>
    BY <1>1, <2>2, <2>3, <2>4, <2>5, DramAppend
  <2>7. \A k \in 1 .. L : dramReqQ[k].value \in Values /\ dramReqQ[k].buf \in Bufs
    BY <2>2, DramReqIs
  <2>8. 1 .. L + 1 = (1 .. L) \cup { L + 1 } /\ L + 1 \in 1 .. L + 1
    BY <2>6
  <2>a. \A v, b : SegOf(v)' = SegOf(v) /\ Offset(v)' = Offset(v) /\ Pages(v)' = Pages(v)
    BY <1>1 DEF SegOf, Offset, Pages
  <2>b. \A v, b : InBuf(v, b)' = InBuf(v, b)
    BY <1>1, <2>a DEF InBuf
  <2>c. \A k \in 1 .. L : Left(k)' = Left(k)
    BY <1>1, <2>6 DEF Left
  <2>d. \A k \in 1 .. L : \A v, i : WrittenBy(k, v, i)' = WrittenBy(k, v, i)
    BY <2>6, <2>c DEF WrittenBy
  <2>e. \A k \in 1 .. L + 1 : k = L + 1 => Left(k)' \subseteq 1 .. wrote[u].size
    <3> SUFFICES ASSUME NEW k \in 1 .. L + 1, k = L + 1 PROVE Left(k)' \subseteq 1 .. wrote[u].size
      OBVIOUS
    <3>1. dramReqQ'[k].value = u
      BY <2>4, <2>6
    <3>2. byteCnt \in Nat
      BY <2>2 DEF DramTypes
    <3>3. wrote[u].size \in Nat
      BY <2>2, ValueIs, PagesNat
    <3> QED BY <1>1, <3>1, <3>2, <3>3 DEF Left
  <2>9. DramTypes'
    <3>1. \A k \in 1 .. Len(dramReqQ') : dramReqQ'[k].value \in Values'
      BY <1>1, <2>4, <2>6, <2>7, <2>8 DEF Values
    <3>2. byteCnt' < wrote'[dramReqQ'[1].value].size
      <4>1. CASE dramReqQ = << >>
        <5>1. wrote[u].size \in Nat /\ wrote[u].size > 0
          <6>1. wrote[u] \in [ addr : Nat, size : 1 .. NumPages ]
            BY <2>2, ValueIs
          <6> QED BY <6>1, PagesNat
        <5> QED BY <1>1, <2>4, <2>6, <4>1, <5>1
      <4>2. CASE dramReqQ # << >>
        BY <1>1, <2>6, <4>2
      <4> QED BY <4>1, <4>2
    <3> QED BY <1>1, <2>2, <2>6, <3>1, <3>2 DEF DramTypes
  <2>10. WritesInOrder'
    <3> SUFFICES ASSUME NEW k \in 1 .. L + 1, ~ dramReqQ'[k].rnw
                 PROVE  /\ InBuf(dramReqQ'[k].value, dramReqQ'[k].buf)
                        /\ \A w \in dramReqQ'[k].value + 1 .. Len(wrote) :
                             \E l \in k + 1 .. L + 1 : ~ dramReqQ'[l].rnw /\ dramReqQ'[l].value = w
      BY <1>1, <2>6, <2>a DEF WritesInOrder, InBuf, SegOf
    <3>1. k \in 1 .. L
      BY <2>4, <2>6, <2>8
    <3>2. dramReqQ'[k] = dramReqQ[k]
      BY <2>6, <3>1
    <3>3. /\ InBuf(dramReqQ[k].value, dramReqQ[k].buf)
          /\ \A w \in dramReqQ[k].value + 1 .. Len(wrote) :
               \E l \in k + 1 .. L : ~ dramReqQ[l].rnw /\ dramReqQ[l].value = w
      BY <2>2, <3>1, <3>2 DEF WritesInOrder
    <3>4. \A l \in k + 1 .. L : l \in k + 1 .. L + 1 /\ dramReqQ'[l] = dramReqQ[l]
      BY <2>6, <3>1
    <3> QED BY <3>2, <3>3, <3>4
  <2>11. BuffersHold'
    <3> SUFFICES ASSUME NEW v \in Values, NEW b \in Bufs, NEW i \in Pages(v), InBuf(v, b)
                 PROVE  \/ dram'[b][Offset(v)' + i - 1] = << v, i >>
                        \/ \E k \in 1 .. Len(dramReqQ') : WrittenBy(k, v, i)'
      BY <1>1, <2>a, <2>b DEF BuffersHold, Values
    <3>1. \/ dram[b][Offset(v) + i - 1] = << v, i >>
          \/ \E k \in 1 .. L : WrittenBy(k, v, i)
      BY <2>2 DEF BuffersHold
    <3> QED BY <1>1, <2>6, <2>8, <2>a, <2>d, <3>1
  <2>12. ReadsHeld'
    <3> SUFFICES ASSUME NEW k \in 1 .. L + 1, dramReqQ'[k].rnw, NEW v, NEW b,
                        v = dramReqQ'[k].value, b = dramReqQ'[k].buf
                 PROVE  ReadHeld(k, v, b)'
      <4>1. ASSUME NEW k \in 1 .. L + 1, dramReqQ'[k].rnw
            PROVE  ReadHeld(k, dramReqQ[k].value, dramReqQ[k].buf)'
        <5>1. PICK v, b : v = dramReqQ'[k].value /\ b = dramReqQ'[k].buf
          OBVIOUS
        <5>2. ReadHeld(k, v, b)'
          BY <4>1, <5>1
        <5> QED BY <5>1, <5>2 DEF ReadHeld
      <4> QED BY <2>6, <4>1 DEF ReadsHeld
    <3>1. 1 .. k - 1 \subseteq 1 .. L
      BY <2>6
    <3>2. \A l \in 1 .. k - 1 : dramReqQ'[l] = dramReqQ[l]
      BY <2>6, <3>1
    <3>3. \A l \in 1 .. k - 1 : SegOf(dramReqQ[l].value)' = SegOf(dramReqQ[l].value)
      BY <1>1, <3>2 DEF SegOf
    <3>4. /\ \A i \in Left(k)' :
               \/ dram[b][Offset(v) + i - 1] = << v, i >>
               \/ \E l \in 1 .. k - 1 : WrittenBy(l, v, i)
          /\ \A l \in 1 .. k - 1 : ~ dramReqQ[l].rnw =>
               /\ dramReqQ[l].value = v => dramReqQ[l].buf = b
               /\ dramReqQ[l].buf = b => SegOf(dramReqQ[l].value) = SegOf(v)
      <4>1. CASE k \in 1 .. L
        <5>1. dramReqQ'[k] = dramReqQ[k] /\ Left(k)' = Left(k)
          BY <2>6, <2>c, <4>1
        <5> QED BY <2>2, <4>1, <5>1 DEF ReadsHeld, ReadHeld
      <4>2. CASE k = L + 1
        <5>1. v = u /\ b = d /\ 1 .. k - 1 = 1 .. L /\ Left(k)' \subseteq Pages(u)
          BY <2>4, <2>6, <2>e, <4>2 DEF Pages
        <5>2. \A i \in Left(k)' :
                \/ dram[b][Offset(v) + i - 1] = << v, i >>
                \/ \E l \in 1 .. k - 1 : WrittenBy(l, v, i)
          BY <2>2, <2>3, <5>1 DEF BuffersHold
        <5>3. ASSUME NEW l \in 1 .. k - 1, ~ dramReqQ[l].rnw
              PROVE  /\ dramReqQ[l].value = v => dramReqQ[l].buf = b
                     /\ dramReqQ[l].buf = b => SegOf(dramReqQ[l].value) = SegOf(v)
          <6>1. InBuf(dramReqQ[l].value, dramReqQ[l].buf) /\ dramReqQ[l].value \in Values
                  /\ dramReqQ[l].buf \in Bufs
            <7>1. l \in 1 .. L
              BY <5>1, <5>3
            <7>2. InBuf(dramReqQ[l].value, dramReqQ[l].buf)
              BY <2>2, <5>3, <7>1 DEF WritesInOrder
            <7> QED BY <2>7, <7>1, <7>2
          <6>2. PICK w \in Values, e \in Bufs : w = dramReqQ[l].value /\ e = dramReqQ[l].buf
            BY <6>1
          <6>3. /\ w = v => e = b
                /\ e = b => SegOf(w) = SegOf(v)
            <7>1. ValuesInv /\ InBuf(w, e) /\ InBuf(u, d)
              BY <2>2, <2>3, <6>1, <6>2
            <7>2. /\ w = u => e = d
                  /\ e = d => SegOf(w) = SegOf(u)
              BY <7>1, InOneBuf
            <7> QED BY <5>1, <7>2
          <6> QED BY <6>2, <6>3
        <5> QED BY <5>2, <5>3
      <4> QED BY <2>8, <4>1, <4>2
    <3>5. \A i \in Left(k)' :
            \/ dram'[b][Offset(v)' + i - 1] = << v, i >>
            \/ \E l \in 1 .. k - 1 : WrittenBy(l, v, i)'
      BY <1>1, <2>a, <2>d, <3>1, <3>4
    <3>6. \A l \in 1 .. k - 1 : ~ dramReqQ'[l].rnw =>
            /\ dramReqQ'[l].value = v => dramReqQ'[l].buf = b
            /\ dramReqQ'[l].buf = b => SegOf(dramReqQ[l].value)' = SegOf(v)'
      BY <2>a, <3>2, <3>3, <3>4
    <3> QED BY <3>5, <3>6 DEF ReadHeld
  <2> QED BY <2>9, <2>10, <2>11, <2>12 DEF DramInv
<1> QED BY <1>2, <1>3

(* A page of the first request is done, and perhaps the request.           *)
Moves(m) ==
  /\ m \in 0 .. 1 /\ dramReqQ' \in Seq(DramRequest) /\ Len(dramReqQ') = Len(dramReqQ) - m
  /\ \A k \in 1 .. Len(dramReqQ') : dramReqQ'[k] = dramReqQ[k + m]
  /\ \A k \in 1 .. Len(dramReqQ') :
       Left(k)' = Left(k + m) \ (IF k + m = 1 THEN { byteCnt + 1 } ELSE {})
  /\ m = 1 => Left(1) = { byteCnt + 1 }
  /\ byteCnt + 1 \in Left(1)
  /\ IF m = 1 THEN byteCnt' = 0 ELSE byteCnt' = byteCnt + 1
  /\ DramTypes'

LEMMA DramMoves ==
  ASSUME ValuesInv, DramTypes, dramReqQ # << >>, NextDramPage, wrote' = wrote,
         dram' \in [ Bufs -> [ 0 .. NumPages - 1 -> Data ] ]
  PROVE  \E m \in 0 .. 1 : Moves(m)
<1>1. /\ dramReqQ \in Seq(DramRequest) /\ Len(dramReqQ) \in Nat /\ 1 \in 1 .. Len(dramReqQ)
      /\ Len(dramReqQ) <= 2 /\ byteCnt \in Nat
  BY LenEmpty DEF DramTypes
<1>2. PICK v \in Values : v = dramReqQ[1].value
  BY <1>1, DramReqIs
<1>3. PICK z \in Nat : z = wrote[v].size /\ z > 0
  <2>1. wrote[v] \in [ addr : Nat, size : 1 .. NumPages ]
    BY ValueIs
  <2> QED BY <2>1, PagesNat
<1>4. byteCnt < z
  BY <1>2, <1>3 DEF DramTypes
<1>5. Head(dramReqQ) = dramReqQ[1]
  BY <1>1, TailIs
<1>6. Left(1) = byteCnt + 1 .. z
  BY <1>2, <1>3 DEF Left
<1>7. \A k \in 1 .. Len(dramReqQ) : dramReqQ[k].value \in Values
  BY DEF DramTypes
<1>8. CASE byteCnt + 1 < z
  <2>1. byteCnt' = byteCnt + 1 /\ dramReqQ' = dramReqQ
    BY <1>2, <1>3, <1>5, <1>8 DEF NextDramPage, DramReq
  <2>2. \A k \in 1 .. Len(dramReqQ') :
          Left(k)' = Left(k + 0) \ (IF k + 0 = 1 THEN { byteCnt + 1 } ELSE {})
    <3> TAKE k \in 1 .. Len(dramReqQ')
    <3>1. CASE k = 1
      <4>1. Left(k)' = byteCnt + 2 .. z
        BY <1>1, <1>2, <1>3, <2>1, <3>1 DEF Left
      <4> QED BY <1>1, <1>6, <3>1, <4>1
    <3>2. CASE k # 1
      <4>1. Left(k)' = Left(k)
        BY <2>1, <3>2 DEF Left
      <4> QED BY <1>1, <2>1, <3>2, <4>1
    <3> QED BY <3>1, <3>2
  <2>3. \A k \in 1 .. Len(dramReqQ') : dramReqQ'[k] = dramReqQ[k + 0]
    BY <1>1, <2>1
  <2>4. DramTypes'
    BY <1>1, <1>2, <1>3, <1>7, <1>8, <2>1 DEF DramTypes, Values
  <2>5. Moves(0)
    BY <1>1, <1>4, <1>6, <2>1, <2>2, <2>3, <2>4 DEF Moves
  <2> QED BY <2>5
<1>9. CASE ~ (byteCnt + 1 < z)
  <2>1. byteCnt' = 0 /\ dramReqQ' = Tail(dramReqQ)
    BY <1>2, <1>3, <1>5, <1>9 DEF NextDramPage, DramReq
  <2>2. /\ dramReqQ' \in Seq(DramRequest) /\ Len(dramReqQ') = Len(dramReqQ) - 1
        /\ \A k \in 1 .. Len(dramReqQ) - 1 : dramReqQ'[k] = dramReqQ[k + 1]
    BY <1>1, <2>1, TailIs
  <2>3. \A k \in 1 .. Len(dramReqQ') :
          Left(k)' = Left(k + 1) \ (IF k + 1 = 1 THEN { byteCnt + 1 } ELSE {})
    <3> TAKE k \in 1 .. Len(dramReqQ')
    <3>1. k + 1 # 1 /\ k \in 1 .. Len(dramReqQ) - 1 /\ dramReqQ'[k] = dramReqQ[k + 1]
      BY <1>1, <2>2
    <3>2. Left(k)' = 1 .. wrote[dramReqQ[k + 1].value].size
      BY <2>1, <3>1 DEF Left
    <3>3. Left(k + 1) = 1 .. wrote[dramReqQ[k + 1].value].size
      BY <3>1 DEF Left
    <3> QED BY <3>1, <3>2, <3>3
  <2>4. byteCnt + 1 = z
    BY <1>1, <1>4, <1>9
  <2>5. Left(1) = { byteCnt + 1 }
    BY <1>1, <1>6, <2>4
  <2>6. DramTypes'
    <3>1. \A k \in 1 .. Len(dramReqQ') : dramReqQ'[k].value \in Values'
      BY <1>1, <1>7, <2>2 DEF Values
    <3>2. dramReqQ' # << >> => byteCnt' < wrote'[dramReqQ'[1].value].size
      <4> SUFFICES ASSUME dramReqQ' # << >> PROVE byteCnt' < wrote'[dramReqQ'[1].value].size
        OBVIOUS
      <4>1. 1 \in 1 .. Len(dramReqQ')
        BY <1>1, <2>2, LenEmpty
      <4>2. PICK w \in Values : w = dramReqQ'[1].value
        BY <3>1, <4>1 DEF Values
      <4>3. wrote[w] \in [ addr : Nat, size : 1 .. NumPages ]
        BY ValueIs
      <4> QED BY <2>1, <4>2, <4>3, PagesNat
    <3> QED BY <1>1, <2>1, <2>2, <3>1, <3>2 DEF DramTypes
  <2>7. Moves(1)
    <3>1. \A k \in 1 .. Len(dramReqQ') : dramReqQ'[k] = dramReqQ[k + 1]
      BY <2>2
    <3> QED BY <2>1, <2>2, <2>3, <2>5, <2>6, <3>1 DEF Moves
  <2> QED BY <2>7
<1> QED BY <1>8, <1>9

LEMMA MovesKeep ==
  ASSUME NEW m \in 0 .. 1, Moves(m), Len(dramReqQ) \in Nat, wrote' = wrote
  PROVE  /\ \A k \in 1 .. Len(dramReqQ') : k + m \in 1 .. Len(dramReqQ)
         /\ \A k \in m + 1 .. Len(dramReqQ) : k - m \in 1 .. Len(dramReqQ')
         /\ \A k \in m + 1 .. Len(dramReqQ) : dramReqQ'[k - m] = dramReqQ[k]
         /\ \A k \in 1 .. Len(dramReqQ) : \A v, i :
              WrittenBy(k, v, i) =>
                \/ k = 1 /\ i = byteCnt + 1
                \/ k - m \in 1 .. Len(dramReqQ') /\ WrittenBy(k - m, v, i)'
<1>1. m \in Nat /\ Len(dramReqQ') = Len(dramReqQ) - m
  BY DEF Moves
<1>2. \A k \in 1 .. Len(dramReqQ') : k + m \in 1 .. Len(dramReqQ)
  BY <1>1
<1>3. \A k \in m + 1 .. Len(dramReqQ) : k - m \in 1 .. Len(dramReqQ') /\ k - m + m = k
  BY <1>1
<1>4. \A k \in m + 1 .. Len(dramReqQ) : dramReqQ'[k - m] = dramReqQ[k]
  BY <1>3 DEF Moves
<1>5. ASSUME NEW k \in 1 .. Len(dramReqQ), NEW v, NEW i, WrittenBy(k, v, i), ~ (k = 1 /\ i = byteCnt + 1)
      PROVE  k - m \in 1 .. Len(dramReqQ') /\ WrittenBy(k - m, v, i)'
  <2>1. k \in m + 1 .. Len(dramReqQ)
    <3>1. CASE k = 1
      <4>1. m # 1
        BY <1>5, <3>1 DEF Moves, WrittenBy
      <4> QED BY <1>1, <3>1, <4>1
    <3>2. CASE k # 1
      BY <1>1, <3>2
    <3> QED BY <3>1, <3>2
  <2>2. PICK j \in 1 .. Len(dramReqQ') : j = k - m /\ j + m = k
    BY <1>3, <2>1
  <2>3. dramReqQ'[j] = dramReqQ[k]
    BY <1>4, <2>1, <2>2
  <2>4. i \in Left(j)'
    <3>1. Left(j)' = Left(k) \ (IF k = 1 THEN { byteCnt + 1 } ELSE {})
      BY <2>2 DEF Moves
    <3> QED BY <1>5, <3>1 DEF WrittenBy
  <2>5. WrittenBy(j, v, i)'
    BY <1>5, <2>3, <2>4 DEF WrittenBy
  <2> QED BY <1>1, <2>2, <2>5 DEF WrittenBy, Left
<1> QED BY <1>2, <1>3, <1>4, <1>5

(* The writes to come stay in order when the requests move on.             *)
LEMMA MovesInOrder ==
  ASSUME WritesInOrder, DramTypes, NEW m \in 0 .. 1, Moves(m),
         UNCHANGED << wrote, superPageCnt, currBuf >>
  PROVE  WritesInOrder'
<1>1. Len(dramReqQ) \in Nat /\ Len(dramReqQ') = Len(dramReqQ) - m
  BY LenEmpty DEF DramTypes, Moves
<1>2. /\ \A k \in 1 .. Len(dramReqQ') : k + m \in 1 .. Len(dramReqQ)
      /\ \A k \in m + 1 .. Len(dramReqQ) : k - m \in 1 .. Len(dramReqQ')
      /\ \A k \in m + 1 .. Len(dramReqQ) : dramReqQ'[k - m] = dramReqQ[k]
  BY <1>1, MovesKeep
<1> SUFFICES ASSUME NEW k \in 1 .. Len(dramReqQ'), ~ dramReqQ'[k].rnw
             PROVE  /\ InBuf(dramReqQ'[k].value, dramReqQ'[k].buf)
                    /\ \A w \in dramReqQ'[k].value + 1 .. Len(wrote) :
                         \E l \in k + 1 .. Len(dramReqQ') : ~ dramReqQ'[l].rnw /\ dramReqQ'[l].value = w
  BY DEF WritesInOrder, InBuf, SegOf
<1>3. PICK j \in 1 .. Len(dramReqQ) : j = k + m
  BY <1>2
<1>4. dramReqQ'[k] = dramReqQ[j]
  BY <1>3 DEF Moves
<1>5. /\ InBuf(dramReqQ[j].value, dramReqQ[j].buf)
      /\ \A w \in dramReqQ[j].value + 1 .. Len(wrote) :
           \E l \in j + 1 .. Len(dramReqQ) : ~ dramReqQ[l].rnw /\ dramReqQ[l].value = w
  BY <1>4 DEF WritesInOrder
<1>6. ASSUME NEW l \in j + 1 .. Len(dramReqQ)
      PROVE  l - m \in k + 1 .. Len(dramReqQ') /\ dramReqQ'[l - m] = dramReqQ[l]
  <2>1. l \in m + 1 .. Len(dramReqQ)
    BY <1>1, <1>3
  <2>2. l - m \in k + 1 .. Len(dramReqQ')
    BY <1>1, <1>3
  <2>3. dramReqQ'[l - m] = dramReqQ[l]
    BY <1>2, <2>1
  <2> QED BY <2>2, <2>3
<1>7. ASSUME NEW w \in dramReqQ'[k].value + 1 .. Len(wrote)
      PROVE  \E l \in k + 1 .. Len(dramReqQ') : ~ dramReqQ'[l].rnw /\ dramReqQ'[l].value = w
  <2>1. PICK l \in j + 1 .. Len(dramReqQ) : ~ dramReqQ[l].rnw /\ dramReqQ[l].value = w
    BY <1>4, <1>5, <1>7
  <2>2. PICK h \in k + 1 .. Len(dramReqQ') : h = l - m
    BY <1>6
  <2>3. dramReqQ'[h] = dramReqQ[l]
    BY <1>6, <2>2
  <2> QED BY <2>1, <2>3
<1> QED BY <1>4, <1>5, <1>7

(* What the pages keep holding when one is written, or none.               *)
LEMMA MovesHold ==
  ASSUME ValuesInv, DramInv, NEW m \in 0 .. 1, Moves(m), dramReqQ # << >>,
         UNCHANGED << wrote, superPageCnt, currBuf >>,
         \A v \in Values, b \in Bufs : \A i \in Pages(v) :
           /\ dramReqQ[1].value = v => dramReqQ[1].rnw \/ dramReqQ[1].buf = b
           /\ dramReqQ[1].buf = b => dramReqQ[1].rnw \/ SegOf(dramReqQ[1].value) = SegOf(v)
           => /\ dram[b][Offset(v) + i - 1] = << v, i >> => dram'[b][Offset(v) + i - 1] = << v, i >>
              /\ WrittenBy(1, v, i) /\ i = byteCnt + 1 => dram'[b][Offset(v) + i - 1] = << v, i >>
  PROVE  DramInv'
<1>1. DramTypes /\ WritesInOrder /\ BuffersHold /\ ReadsHeld
  BY DEF DramInv
<1>2. Len(dramReqQ) \in Nat /\ Len(dramReqQ') = Len(dramReqQ) - m /\ 1 \in 1 .. Len(dramReqQ)
  BY <1>1, LenEmpty DEF DramTypes, Moves
<1>3. /\ \A k \in 1 .. Len(dramReqQ') : k + m \in 1 .. Len(dramReqQ)
      /\ \A k \in m + 1 .. Len(dramReqQ) : k - m \in 1 .. Len(dramReqQ')
      /\ \A k \in m + 1 .. Len(dramReqQ) : dramReqQ'[k - m] = dramReqQ[k]
      /\ \A k \in 1 .. Len(dramReqQ) : \A v, i :
           WrittenBy(k, v, i) =>
             \/ k = 1 /\ i = byteCnt + 1
             \/ k - m \in 1 .. Len(dramReqQ') /\ WrittenBy(k - m, v, i)'
  BY <1>2, MovesKeep
<1>4. \A v, b : SegOf(v)' = SegOf(v) /\ Offset(v)' = Offset(v) /\ Pages(v)' = Pages(v)
  BY DEF SegOf, Offset, Pages
<1>5. \A v, b : InBuf(v, b)' = InBuf(v, b)
  BY <1>4 DEF InBuf
<1>6. DramTypes' /\ WritesInOrder'
  BY <1>1, MovesInOrder DEF Moves
<1>7. \A k \in 1 .. Len(dramReqQ) : dramReqQ[k].value \in Values /\ dramReqQ[k].buf \in Bufs
  BY <1>1, DramReqIs
<1>8. BuffersHold'
  <2> SUFFICES ASSUME NEW v \in Values, NEW b \in Bufs, NEW i \in Pages(v), InBuf(v, b)
               PROVE  \/ dram'[b][Offset(v) + i - 1] = << v, i >>
                      \/ \E k \in 1 .. Len(dramReqQ') : WrittenBy(k, v, i)'
    BY <1>4, <1>5 DEF BuffersHold, Values
  <2>1. /\ dramReqQ[1].value = v => dramReqQ[1].rnw \/ dramReqQ[1].buf = b
        /\ dramReqQ[1].buf = b => dramReqQ[1].rnw \/ SegOf(dramReqQ[1].value) = SegOf(v)
    <3> SUFFICES ASSUME ~ dramReqQ[1].rnw
                 PROVE  /\ dramReqQ[1].value = v => dramReqQ[1].buf = b
                        /\ dramReqQ[1].buf = b => SegOf(dramReqQ[1].value) = SegOf(v)
      OBVIOUS
    <3>1. PICK w \in Values, d \in Bufs : w = dramReqQ[1].value /\ d = dramReqQ[1].buf
      BY <1>2, <1>7
    <3>2. InBuf(w, d)
      BY <1>1, <1>2, <3>1 DEF WritesInOrder
    <3>3. /\ w = v => d = b
          /\ d = b => SegOf(w) = SegOf(v)
      BY <3>2, InOneBuf
    <3> QED BY <3>1, <3>3
  <2>2. CASE dram[b][Offset(v) + i - 1] = << v, i >>
    BY <2>1, <2>2
  <2>3. ASSUME NEW k \in 1 .. Len(dramReqQ), WrittenBy(k, v, i)
        PROVE  \/ dram'[b][Offset(v) + i - 1] = << v, i >>
               \/ \E j \in 1 .. Len(dramReqQ') : WrittenBy(j, v, i)'
    <3>1. CASE k = 1 /\ i = byteCnt + 1
      BY <2>1, <2>3, <3>1
    <3>2. CASE k - m \in 1 .. Len(dramReqQ') /\ WrittenBy(k - m, v, i)'
      <4>1. PICK j \in 1 .. Len(dramReqQ') : j = k - m
        BY <3>2
      <4>2. WrittenBy(j, v, i)'
        BY <3>2, <4>1 DEF WrittenBy, Left
      <4> QED BY <4>2
    <3> QED BY <1>3, <2>3, <3>1, <3>2
  <2> QED BY <1>1, <2>2, <2>3 DEF BuffersHold
<1>9. ReadsHeld'
  <2> SUFFICES ASSUME NEW k \in 1 .. Len(dramReqQ'), dramReqQ'[k].rnw, NEW v, NEW b,
                      v = dramReqQ'[k].value, b = dramReqQ'[k].buf
               PROVE  ReadHeld(k, v, b)'
    <3>1. ASSUME NEW k \in 1 .. Len(dramReqQ'), dramReqQ'[k].rnw
          PROVE  ReadHeld(k, dramReqQ[k].value, dramReqQ[k].buf)'
      <4>1. PICK v, b : v = dramReqQ'[k].value /\ b = dramReqQ'[k].buf
        OBVIOUS
      <4>2. ReadHeld(k, v, b)'
        BY <3>1, <4>1
      <4> QED BY <4>1, <4>2 DEF ReadHeld
    <3> QED BY <3>1 DEF ReadsHeld
  <2>1. PICK j \in 1 .. Len(dramReqQ) : j = k + m
    BY <1>3
  <2>2. dramReqQ'[k] = dramReqQ[j] /\ v \in Values /\ b \in Bufs
    <3>1. dramReqQ'[k] = dramReqQ[j]
      BY <2>1 DEF Moves
    <3> QED BY <1>7, <3>1
  <2>3. ReadHeld(j, v, b)
    BY <1>1, <2>2 DEF ReadsHeld
  <2>4. /\ dramReqQ[1].value = v => dramReqQ[1].rnw \/ dramReqQ[1].buf = b
        /\ dramReqQ[1].buf = b => dramReqQ[1].rnw \/ SegOf(dramReqQ[1].value) = SegOf(v)
    <3>1. CASE j = 1
      BY <2>2, <3>1
    <3>2. CASE j # 1
      <4>1. 1 \in 1 .. j - 1
        BY <1>2, <3>2
      <4> QED BY <2>3, <4>1 DEF ReadHeld
    <3> QED BY <3>1, <3>2
  <2>5. ASSUME NEW i \in Left(k)'
        PROVE  \/ dram'[b][Offset(v) + i - 1] = << v, i >>
               \/ \E l \in 1 .. k - 1 : WrittenBy(l, v, i)'
    <3>1. i \in Left(j) /\ i \in Pages(v)
      <4>1. i \in Left(j)
        BY <2>1 DEF Moves
      <4>2. Left(j) \subseteq 1 .. wrote[v].size
        <5>1. byteCnt \in Nat /\ wrote[v].size \in Nat
          BY <1>1, <2>2, ValueIs DEF DramTypes
        <5> QED BY <2>2, <5>1 DEF Left
      <4> QED BY <4>1, <4>2 DEF Pages
    <3>2. CASE dram[b][Offset(v) + i - 1] = << v, i >>
      BY <2>2, <2>4, <3>1, <3>2
    <3>3. ASSUME NEW l \in 1 .. j - 1, WrittenBy(l, v, i)
          PROVE  \/ dram'[b][Offset(v) + i - 1] = << v, i >>
                 \/ \E h \in 1 .. k - 1 : WrittenBy(h, v, i)'
      <4>1. CASE l = 1 /\ i = byteCnt + 1
        BY <2>2, <2>4, <3>1, <3>3, <4>1
      <4>2. CASE l - m \in 1 .. Len(dramReqQ') /\ WrittenBy(l - m, v, i)'
        <5>1. PICK h \in 1 .. k - 1 : h = l - m
          <6>1. l - m \in 1 .. k - 1
            BY <1>2, <2>1, <4>2, SMTT(30)
          <6> QED BY <6>1
        <5>2. WrittenBy(h, v, i)'
          BY <4>2, <5>1 DEF WrittenBy, Left
        <5> QED BY <5>2
      <4>3. l \in 1 .. Len(dramReqQ)
        BY <1>2
      <4> QED BY <1>3, <3>3, <4>1, <4>2, <4>3
    <3> QED BY <2>3, <3>1, <3>2, <3>3 DEF ReadHeld
  <2>6. ASSUME NEW l \in 1 .. k - 1, ~ dramReqQ'[l].rnw
        PROVE  /\ dramReqQ'[l].value = v => dramReqQ'[l].buf = b
               /\ dramReqQ'[l].buf = b => SegOf(dramReqQ[l].value)' = SegOf(v)'
    <3>1. l \in 1 .. Len(dramReqQ') /\ l + m \in 1 .. j - 1
      BY <1>2, <2>1
    <3>2. PICK h \in 1 .. j - 1 : h = l + m
      BY <3>1
    <3>3. dramReqQ'[l] = dramReqQ[h]
      BY <3>1, <3>2 DEF Moves
    <3>4. /\ dramReqQ[h].value = v => dramReqQ[h].buf = b
          /\ dramReqQ[h].buf = b => SegOf(dramReqQ[h].value) = SegOf(v)
      BY <2>3, <2>6, <3>3 DEF ReadHeld
    <3>5. SegOf(dramReqQ[l].value)' = SegOf(dramReqQ[h].value)
      BY <3>3 DEF SegOf
    <3> QED BY <1>4, <3>3, <3>4, <3>5
  <2>7. \A i \in Left(k)' :
          \/ dram'[b][Offset(v)' + i - 1] = << v, i >>
          \/ \E l \in 1 .. k - 1 : WrittenBy(l, v, i)'
    BY <1>4, <2>5
  <2> QED BY <2>6, <2>7 DEF ReadHeld
<1> QED BY <1>6, <1>8, <1>9 DEF DramInv

LEMMA DramReadDram ==
  ASSUME ValuesInv, DramInv, driveDRAMReadCmd
  PROVE  DramInv' /\ \E m \in 0 .. 1 : Moves(m)
<1>1. /\ dramReqQ # << >> /\ DramReq.rnw /\ NextDramPage
      /\ UNCHANGED << wrote, superPageCnt, currBuf, dram >>
  BY DEF driveDRAMReadCmd, write_vars
<1>2. DramTypes /\ dramReqQ \in Seq(DramRequest) /\ dram' \in [ Bufs -> [ 0 .. NumPages - 1 -> Data ] ]
  BY <1>1 DEF DramInv, DramTypes
<1>3. PICK m \in 0 .. 1 : Moves(m)
  BY <1>1, <1>2, DramMoves
<1>4. dramReqQ[1].rnw
  BY <1>1, <1>2, TailIs DEF DramReq
<1>5. \A v, i : ~ WrittenBy(1, v, i)
  BY <1>4 DEF WrittenBy
<1> QED BY <1>1, <1>3, <1>4, <1>5, MovesHold

LEMMA DramWriteDram ==
  ASSUME ValuesInv, DramInv, driveDRAMWriteCmd
  PROVE  DramInv' /\ \E m \in 0 .. 1 : Moves(m)
<1>1. /\ dramReqQ # << >> /\ ~ DramReq.rnw /\ NextDramPage
      /\ dram' = [ dram EXCEPT ![DramReq.buf][DramPage] = << DramReq.value, byteCnt + 1 >> ]
      /\ UNCHANGED << wrote, superPageCnt, currBuf >>
  BY DEF driveDRAMWriteCmd, write_vars
<1>2. /\ DramTypes /\ dramReqQ \in Seq(DramRequest) /\ dram \in [ Bufs -> [ 0 .. NumPages - 1 -> Data ] ]
      /\ byteCnt \in Nat /\ 1 \in 1 .. Len(dramReqQ)
  BY <1>1, LenEmpty DEF DramInv, DramTypes
<1>3. DramReq = dramReqQ[1]
  BY <1>1, <1>2, TailIs DEF DramReq
<1>4. PICK w \in Values, d \in Bufs : w = dramReqQ[1].value /\ d = dramReqQ[1].buf
  BY <1>2, DramReqIs
<1>5. byteCnt < wrote[w].size
  BY <1>1, <1>2, <1>4 DEF DramTypes
<1>6. PICK p \in 0 .. NumPages - 1 : p = Offset(w) + byteCnt /\ p = DramPage
  <2>1. DramPage = Offset(w) + byteCnt
    BY <1>3, <1>4 DEF DramPage, Offset
  <2>2. /\ Offset(w) \in Nat /\ wrote[w].size \in Nat
        /\ Offset(w) + wrote[w].size <= NumPages
    BY ValueIs
  <2>3. Offset(w) + byteCnt \in 0 .. NumPages - 1
    BY <1>2, <1>5, <2>2, PagesNat
  <2> QED BY <2>1, <2>3
<1>7. w \in Nat /\ << w, byteCnt + 1 >> \in Data
  <2>1. w \in Nat
    BY LenEmpty DEF ValuesInv, Values
  <2> QED BY <1>2, <2>1 DEF Data
<1>8. dram' = [ dram EXCEPT ![d][p] = << w, byteCnt + 1 >> ]
  BY <1>1, <1>3, <1>4, <1>6
<1>9. dram' \in [ Bufs -> [ 0 .. NumPages - 1 -> Data ] ]
  BY <1>2, <1>7, <1>8
<1>10. PICK m \in 0 .. 1 : Moves(m)
  BY <1>1, <1>2, <1>9, DramMoves
<1>11. \A b \in Bufs : \A q \in 0 .. NumPages - 1 :
         dram'[b][q] = IF b = d /\ q = p THEN << w, byteCnt + 1 >> ELSE dram[b][q]
  BY <1>2, <1>8
<1>12. ASSUME NEW v \in Values, NEW b \in Bufs, NEW i \in Pages(v),
              w = v => d = b, d = b => SegOf(w) = SegOf(v)
       PROVE  /\ dram[b][Offset(v) + i - 1] = << v, i >> => dram'[b][Offset(v) + i - 1] = << v, i >>
              /\ WrittenBy(1, v, i) /\ i = byteCnt + 1 => dram'[b][Offset(v) + i - 1] = << v, i >>
  <2>1. PICK o, z, a \in Nat : /\ o = Offset(v) /\ z = wrote[v].size /\ a = wrote[v].addr
                               /\ o + z <= NumPages /\ a = SegOf(v) * NumPages + o
                               /\ SegOf(v) * NumPages \in Nat
    BY ValueIs
  <2>2. PICK ow, zw, aw \in Nat : /\ ow = Offset(w) /\ zw = wrote[w].size /\ aw = wrote[w].addr
                               /\ ow + zw <= NumPages /\ aw = SegOf(w) * NumPages + ow
                               /\ SegOf(w) * NumPages \in Nat
    BY ValueIs
  <2>3. i \in 1 .. z /\ o + i - 1 \in 0 .. NumPages - 1
    <3>1. i \in 1 .. z
      BY <2>1 DEF Pages
    <3> QED BY <2>1, <3>1, PagesNat
  <2>4. /\ v < w => a + z <= aw
        /\ w < v => aw + zw <= a
        /\ v \in Nat /\ w \in Nat
    <3>1. v \in Nat /\ w \in Nat
      BY LenEmpty DEF ValuesInv, Values
    <3> QED BY <2>1, <2>2, <3>1 DEF ValuesInv
  <2>5. ASSUME b = d, o + i - 1 = p PROVE v = w /\ i = byteCnt + 1
    <3>1. SegOf(w) = SegOf(v)
      BY <1>12, <2>5
    <3>2. a - o = aw - ow
      BY <2>1, <2>2, <3>1
    <3>3. o + i - 1 = ow + byteCnt /\ byteCnt < zw
      BY <1>5, <1>6, <2>2, <2>5
    <3>4. v = w
      <4>1. PICK h \in Nat : h = i /\ h >= 1 /\ h <= z
        BY <2>3
      <4>2. o + h = ow + byteCnt + 1 /\ a - o = aw - ow /\ byteCnt \in Nat /\ byteCnt < zw
        BY <1>2, <3>2, <3>3, <4>1
      <4>3. ~ (a + z <= aw)
        BY <4>1, <4>2
      <4>4. ~ (aw + zw <= a)
        BY <4>1, <4>2
      <4> QED BY <2>4, <4>3, <4>4
    <3>5. o = ow
      BY <2>1, <2>2, <3>4
    <3> QED BY <1>2, <2>3, <3>3, <3>4, <3>5
  <2>6. dram'[b][o + i - 1] =
          IF b = d /\ o + i - 1 = p THEN << w, byteCnt + 1 >> ELSE dram[b][o + i - 1]
    BY <1>11, <2>3
  <2>7. ASSUME WrittenBy(1, v, i), i = byteCnt + 1 PROVE dram'[b][o + i - 1] = << v, i >>
    <3>1. v = w /\ b = d
      BY <1>4, <1>12, <2>7 DEF WrittenBy
    <3>2. o + i - 1 = p
      BY <1>2, <1>6, <2>1, <2>7, <3>1
    <3> QED BY <2>6, <2>7, <3>1, <3>2
  <2> QED BY <2>1, <2>5, <2>6, <2>7
<1>13. ~ dramReqQ[1].rnw
  BY <1>1, <1>3
<1>14. \A v \in Values, b \in Bufs : \A i \in Pages(v) :
           /\ dramReqQ[1].value = v => dramReqQ[1].rnw \/ dramReqQ[1].buf = b
           /\ dramReqQ[1].buf = b => dramReqQ[1].rnw \/ SegOf(dramReqQ[1].value) = SegOf(v)
           => /\ dram[b][Offset(v) + i - 1] = << v, i >> => dram'[b][Offset(v) + i - 1] = << v, i >>
              /\ WrittenBy(1, v, i) /\ i = byteCnt + 1 => dram'[b][Offset(v) + i - 1] = << v, i >>
  BY <1>4, <1>12, <1>13
<1> QED BY <1>1, <1>10, <1>14, MovesHold

-----------------------------------------------------------------------------
(* The queues of commands.                                                 *)
Queues == chipQ \in [ Chips -> Seq(Cmd) ]

Sent(c, cmd) == cmd \in Cmd /\ chipQ' = [ chipQ EXCEPT ![c] = Append(@, cmd) ]

Done(c) == chipQ[c] # << >> /\ chipQ' = [ chipQ EXCEPT ![c] = Tail(@) ]

Turned(c, cmd) ==
  chipQ[c] # << >> /\ cmd \in Cmd /\ chipQ' = [ chipQ EXCEPT ![c] = [ @ EXCEPT ![1] = cmd ] ]

LEMMA QueueIs ==
  ASSUME Queues, NEW c \in Chips
  PROVE  /\ chipQ[c] \in Seq(Cmd) /\ Len(chipQ[c]) \in Nat
         /\ \A k \in 1 .. Len(chipQ[c]) : chipQ[c][k] \in Cmd
         /\ chipQ[c] # << >> => /\ 1 \in 1 .. Len(chipQ[c]) /\ Head(chipQ[c]) = chipQ[c][1]
<1>1. chipQ[c] \in Seq(Cmd)
  BY DEF Queues
<1> QED BY <1>1, LenEmpty, TailIs

LEMMA CmdIs ==
  ASSUME NEW cmd \in Cmd
  PROVE  /\ cmd.op \in { "WRITE_PAGE", "READ_PAGE", "ERASE_BLOCK" }
         /\ cmd.op = "WRITE_PAGE" => cmd \in WriteCmd
         /\ cmd.op = "READ_PAGE" => cmd \in ReadCmd
         /\ cmd.op = "ERASE_BLOCK" => cmd \in EraseCmd
         /\ cmd.block \in 0 .. Blocks - 1
BY DEF Cmd, WriteCmd, ReadCmd, EraseCmd

LEMMA SentIs ==
  ASSUME Queues, NEW c \in Chips, NEW cmd, Sent(c, cmd)
  PROVE  /\ Queues' /\ Len(chipQ'[c]) = Len(chipQ[c]) + 1 /\ Len(chipQ[c]) \in Nat
         /\ \A d \in Chips : d # c => chipQ'[d] = chipQ[d]
         /\ \A d \in Chips : \A k \in 1 .. Len(chipQ[d]) :
              k \in 1 .. Len(chipQ'[d]) /\ chipQ'[d][k] = chipQ[d][k]
         /\ \A d \in Chips : \A k \in 1 .. Len(chipQ'[d]) :
              k \in 1 .. Len(chipQ[d]) \/ (d = c /\ k = Len(chipQ[c]) + 1)
         /\ chipQ'[c][Len(chipQ[c]) + 1] = cmd
<1>1. cmd \in Cmd /\ chipQ[c] \in Seq(Cmd) /\ Len(chipQ[c]) \in Nat
  BY QueueIs DEF Sent
<1>2. chipQ'[c] = Append(chipQ[c], cmd) /\ \A d \in Chips : d # c => chipQ'[d] = chipQ[d]
  BY DEF Sent, Queues
<1>3. /\ chipQ'[c] \in Seq(Cmd) /\ Len(chipQ'[c]) = Len(chipQ[c]) + 1
      /\ chipQ'[c][Len(chipQ[c]) + 1] = cmd
      /\ \A k \in 1 .. Len(chipQ[c]) : chipQ'[c][k] = chipQ[c][k]
  BY <1>1, <1>2, AppendIs
<1>4. Queues'
  BY <1>1, <1>3 DEF Queues, Sent
<1>5. \A d \in Chips : \A k \in 1 .. Len(chipQ[d]) :
        k \in 1 .. Len(chipQ'[d]) /\ chipQ'[d][k] = chipQ[d][k]
  <2> TAKE d \in Chips
  <2> TAKE k \in 1 .. Len(chipQ[d])
  <2>1. CASE d = c
    BY <1>1, <1>3, <2>1
  <2>2. CASE d # c
    BY <1>2, <2>2
  <2> QED BY <2>1, <2>2
<1>6. ASSUME NEW d \in Chips, NEW k \in 1 .. Len(chipQ'[d])
      PROVE  k \in 1 .. Len(chipQ[d]) \/ (d = c /\ k = Len(chipQ[c]) + 1)
  <2>1. CASE d = c
    <3>1. k \in 1 .. Len(chipQ[c]) + 1
      BY <1>3, <2>1
    <3> QED BY <1>1, <2>1, <3>1
  <2>2. CASE d # c
    BY <1>2, <2>2
  <2> QED BY <2>1, <2>2
<1> QED BY <1>1, <1>2, <1>3, <1>4, <1>5, <1>6

LEMMA DoneIs ==
  ASSUME Queues, NEW c \in Chips, Done(c)
  PROVE  /\ Queues' /\ Len(chipQ'[c]) = Len(chipQ[c]) - 1 /\ Len(chipQ[c]) \in Nat \ { 0 }
         /\ \A d \in Chips : d # c => chipQ'[d] = chipQ[d]
         /\ \A k \in 1 .. Len(chipQ'[c]) : k + 1 \in 1 .. Len(chipQ[c]) /\ chipQ'[c][k] = chipQ[c][k + 1]
         /\ \A k \in 2 .. Len(chipQ[c]) : k - 1 \in 1 .. Len(chipQ'[c]) /\ chipQ'[c][k - 1] = chipQ[c][k]
         /\ 1 \in 1 .. Len(chipQ[c]) /\ Head(chipQ[c]) = chipQ[c][1]
<1>1. chipQ[c] \in Seq(Cmd) /\ chipQ[c] # << >>
  BY QueueIs DEF Done
<1>2. chipQ'[c] = Tail(chipQ[c]) /\ \A d \in Chips : d # c => chipQ'[d] = chipQ[d]
  BY DEF Done, Queues
<1>3. /\ chipQ'[c] \in Seq(Cmd) /\ Len(chipQ[c]) \in Nat \ { 0 } /\ Len(chipQ'[c]) = Len(chipQ[c]) - 1
      /\ Head(chipQ[c]) = chipQ[c][1]
      /\ \A k \in 1 .. Len(chipQ[c]) - 1 : chipQ'[c][k] = chipQ[c][k + 1]
  BY <1>1, <1>2, TailIs
<1>4. Queues'
  BY <1>1, <1>3 DEF Queues, Done
<1>5. \A k \in 1 .. Len(chipQ'[c]) : k + 1 \in 1 .. Len(chipQ[c]) /\ chipQ'[c][k] = chipQ[c][k + 1]
  BY <1>3
<1>6. \A k \in 2 .. Len(chipQ[c]) : k - 1 \in 1 .. Len(chipQ'[c]) /\ chipQ'[c][k - 1] = chipQ[c][k]
  <2> TAKE k \in 2 .. Len(chipQ[c])
  <2>1. PICK j \in 1 .. Len(chipQ'[c]) : j = k - 1 /\ j + 1 = k
    BY <1>3
  <2> QED BY <1>5, <2>1
<1> QED BY <1>2, <1>3, <1>4, <1>5, <1>6

LEMMA TurnedIs ==
  ASSUME Queues, NEW c \in Chips, NEW cmd, Turned(c, cmd)
  PROVE  /\ Queues' /\ \A d \in Chips : Len(chipQ'[d]) = Len(chipQ[d])
         /\ \A d \in Chips : d # c => chipQ'[d] = chipQ[d]
         /\ \A d \in Chips : \A k \in 1 .. Len(chipQ[d]) : d # c \/ k # 1 => chipQ'[d][k] = chipQ[d][k]
         /\ 1 \in 1 .. Len(chipQ[c]) /\ chipQ'[c][1] = cmd /\ Head(chipQ[c]) = chipQ[c][1]
<1>1. chipQ[c] \in Seq(Cmd) /\ chipQ[c] # << >> /\ cmd \in Cmd /\ 1 \in 1 .. Len(chipQ[c])
      /\ Head(chipQ[c]) = chipQ[c][1]
  BY QueueIs DEF Turned
<1>2. chipQ'[c] = [ chipQ[c] EXCEPT ![1] = cmd ] /\ \A d \in Chips : d # c => chipQ'[d] = chipQ[d]
  BY DEF Turned, Queues
<1>3. /\ chipQ'[c] \in Seq(Cmd) /\ Len(chipQ'[c]) = Len(chipQ[c])
      /\ \A k \in 1 .. Len(chipQ[c]) : chipQ'[c][k] = IF k = 1 THEN cmd ELSE chipQ[c][k]
  BY <1>1, <1>2, ExceptSeq
<1>4. Queues'
  BY <1>1, <1>2, <1>3 DEF Queues, Turned
<1>5. chipQ'[c][1] = cmd
  BY <1>1, <1>3
<1>6. ASSUME NEW d \in Chips, NEW k \in 1 .. Len(chipQ[d]), d # c \/ k # 1
      PROVE  chipQ'[d][k] = chipQ[d][k]
  BY <1>2, <1>3, <1>6
<1> QED BY <1>1, <1>2, <1>3, <1>4, <1>5, <1>6

-----------------------------------------------------------------------------
(* Erasing.                                                                *)
LEMMA InFlightFinite == IsFiniteSet(InFlight) /\ Cardinality(InFlight) \in Nat /\ InFlight \subseteq Chips
<1>1. IsFiniteSet(Chips)
  BY FS_Interval, PagesNat DEF Chips
<1>2. InFlight \in SUBSET Chips
  BY DEF InFlight
<1> QED BY <1>1, <1>2, FS_Subset, FS_CardinalityType

(* Mapping is left alone.                                                  *)
LEMMA MapSame ==
  ASSUME MapInv, UNCHANGED << bad, nextPhysPtr, nextErasePtr, blockMap >>
  PROVE  MapInv'
<1>1. \A c, j : Mapped(c)' = Mapped(c) /\ Ahead(c, j)' = Ahead(c, j)
  BY DEF Mapped, Ahead
<1>2. \A c, b : InUseOrBad(c, b)' = InUseOrBad(c, b)
  BY <1>1 DEF InUseOrBad
<1>3. \A c, n : Fresh(c, n)' = Fresh(c, n) /\ Tried(c)' = Tried(c)
  BY <1>1, <1>2 DEF Fresh, Tried
<1> QED BY <1>3 DEF MapInv

(* Which blocks are in use, and which have been erased again meanwhile.    *)
map_view == << nextPhysPtr, nextErasePtr, blockMap, eraseAcks >>

LEMMA StaysSame ==
  ASSUME UNCHANGED map_view
  PROVE  ErasedStays /\ \A c, b : ErasedAgain(c, b)' = ErasedAgain(c, b)
<1>1. \A c, b : ErasedAgain(c, b)' = ErasedAgain(c, b)
  BY DEF ErasedAgain, Mapped, map_view
<1> QED BY <1>1 DEF ErasedStays

(* The commands that erase move in the queue, or do not, by m places.      *)
SameErasing(c, m) ==
  \A k \in Int : /\ (k \in ErasingAt(c)') = (k + m \in ErasingAt(c))
                 /\ k \in ErasingAt(c)' => chipQ'[c][k] = chipQ[c][k + m]

LEMMA EraseFrame ==
  ASSUME EraseInv, UNCHANGED << bad, eraser, eraseAcks >>,
         \A c \in Chips : \E m \in 0 .. 1 : SameErasing(c, m)
  PROVE  EraseInv'
<1>1. \A c \in Chips : AckedAt(c)' = AckedAt(c)
  BY DEF AckedAt
<1>2. ASSUME NEW c \in Chips
      PROVE  /\ ErasingAt(c)' = {} <=> ErasingAt(c) = {}
             /\ (\A k \in ErasingAt(c) : chipQ[c][k].block = nextPhysPtr[c])
                  => \A k \in ErasingAt(c)' : chipQ'[c][k].block = nextPhysPtr[c]
             /\ (\A k, l \in ErasingAt(c) : k = l) => \A k, l \in ErasingAt(c)' : k = l
  <2>1. PICK m \in 0 .. 1 : SameErasing(c, m)
    OBVIOUS
  <2>2. ErasingAt(c) \subseteq Int /\ ErasingAt(c)' \subseteq Int /\ m \in Int
    BY DEF ErasingAt
  <2>3. \A k \in ErasingAt(c)' : k + m \in ErasingAt(c) /\ chipQ'[c][k] = chipQ[c][k + m]
    BY <2>1, <2>2 DEF SameErasing
  <2>4. \A k \in ErasingAt(c) : k - m \in ErasingAt(c)'
    <3> TAKE k \in ErasingAt(c)
    <3>1. PICK j \in Int : j = k - m /\ j + m = k
      BY <2>2
    <3> QED BY <2>1, <3>1 DEF SameErasing
  <2>5. (\A k, l \in ErasingAt(c) : k = l) => \A k, l \in ErasingAt(c)' : k = l
    <3> SUFFICES ASSUME \A k, l \in ErasingAt(c) : k = l, NEW k \in ErasingAt(c)', NEW l \in ErasingAt(c)'
                 PROVE  k = l
      OBVIOUS
    <3>1. k + m = l + m
      BY <2>3
    <3>2. k \in Int /\ l \in Int
      BY <2>2
    <3> QED BY <2>2, <3>1, <3>2
  <2> QED BY <2>3, <2>4, <2>5
<1>3. InFlight' = InFlight
  BY <1>1, <1>2 DEF InFlight
<1>4. RoundInv'
  BY <1>3 DEF EraseInv, RoundInv, eraser
<1>5. ErasingInv'
  <2> SUFFICES ASSUME NEW c \in Chips
               PROVE  /\ c \in InFlight' => ~ eraseStatus'[c]
                      /\ \A k \in ErasingAt(c)' : chipQ'[c][k].block = nextPhysPtr'[c]
                      /\ \A k \in AckedAt(c)' : eraseAcks'[k].ok = (<< c, nextPhysPtr'[c] >> \notin bad')
                      /\ \A k, l \in ErasingAt(c)' : k = l
                      /\ \A k, l \in AckedAt(c)' : k = l
                      /\ ErasingAt(c)' = {} \/ AckedAt(c)' = {}
    BY DEF ErasingInv
  <2>1. /\ c \in InFlight => ~ eraseStatus[c]
        /\ \A k \in ErasingAt(c) : chipQ[c][k].block = nextPhysPtr[c]
        /\ \A k \in AckedAt(c) : eraseAcks[k].ok = (<< c, nextPhysPtr[c] >> \notin bad)
        /\ \A k, l \in ErasingAt(c) : k = l
        /\ \A k, l \in AckedAt(c) : k = l
        /\ ErasingAt(c) = {} \/ AckedAt(c) = {}
    BY DEF EraseInv, ErasingInv
  <2> QED BY <1>1, <1>2, <1>3, <2>1 DEF eraser
<1>6. MapInv'
  BY MapSame DEF EraseInv, eraser
<1> QED BY <1>4, <1>5, <1>6 DEF EraseInv

LEMMA SameErasingIs ==
  ASSUME Queues, NEW d \in Chips, chipQ'[d] = chipQ[d]
  PROVE  SameErasing(d, 0)
<1>1. ErasingAt(d)' = ErasingAt(d)
  BY DEF ErasingAt
<1> QED BY <1>1 DEF SameErasing

LEMMA EraseSent ==
  ASSUME ErasePtrsInv, NEW c \in Chips, NEW cmd, Sent(c, cmd), cmd.op # "ERASE_BLOCK",
         UNCHANGED << bad, eraser, eraseAcks >>
  PROVE  EraseInv'
<1>1. Queues
  BY DEF ErasePtrsInv, ServerTypes, Queues
<1>2. ASSUME NEW d \in Chips PROVE SameErasing(d, 0)
  <2>1. ErasingAt(d) \subseteq Int /\ ErasingAt(d)' \subseteq Int
    BY DEF ErasingAt
  <2>2. \A k \in 1 .. Len(chipQ[d]) : k \in 1 .. Len(chipQ'[d]) /\ chipQ'[d][k] = chipQ[d][k]
    BY <1>1, SentIs
  <2>3. \A k \in 1 .. Len(chipQ'[d]) :
          k \in 1 .. Len(chipQ[d]) \/ (d = c /\ k = Len(chipQ[c]) + 1)
    BY <1>1, SentIs
  <2>4. chipQ'[c][Len(chipQ[c]) + 1] = cmd
    BY <1>1, SentIs
  <2>5. \A k : k \in ErasingAt(d)' <=> k \in ErasingAt(d)
    BY <2>2, <2>3, <2>4 DEF ErasingAt
  <2>6. \A k \in ErasingAt(d)' : chipQ'[d][k] = chipQ[d][k]
    <3>1. \A k \in ErasingAt(d) : chipQ'[d][k] = chipQ[d][k]
      BY <2>2 DEF ErasingAt
    <3> QED BY <2>5, <3>1
  <2>7. \A k \in Int : k + 0 = k
    OBVIOUS
  <2> QED BY <2>5, <2>6, <2>7 DEF SameErasing
<1> QED BY <1>2, EraseFrame DEF ErasePtrsInv

LEMMA EraseDone ==
  ASSUME ErasePtrsInv, NEW c \in Chips, Done(c), chipQ[c][1].op # "ERASE_BLOCK",
         UNCHANGED << bad, eraser, eraseAcks >>
  PROVE  EraseInv'
<1>1. Queues
  BY DEF ErasePtrsInv, ServerTypes, Queues
<1>2. ASSUME NEW d \in Chips PROVE \E m \in 0 .. 1 : SameErasing(d, m)
  <2>1. CASE d # c
    <3>1. SameErasing(d, 0)
      BY <1>1, <2>1, DoneIs, SameErasingIs
    <3> QED BY <3>1
  <2>2. CASE d = c
    <3>1. /\ \A k \in 1 .. Len(chipQ'[c]) : k + 1 \in 1 .. Len(chipQ[c]) /\ chipQ'[c][k] = chipQ[c][k + 1]
          /\ \A k \in 2 .. Len(chipQ[c]) : k - 1 \in 1 .. Len(chipQ'[c]) /\ chipQ'[c][k - 1] = chipQ[c][k]
          /\ Len(chipQ'[c]) = Len(chipQ[c]) - 1 /\ Len(chipQ[c]) \in Nat
      BY <1>1, DoneIs
    <3>2. ASSUME NEW k \in Int
          PROVE  /\ (k \in ErasingAt(c)') = (k + 1 \in ErasingAt(c))
                 /\ k \in ErasingAt(c)' => chipQ'[c][k] = chipQ[c][k + 1]
      <4>1. CASE k \in 1 .. Len(chipQ'[c])
        BY <3>1, <4>1 DEF ErasingAt
      <4>2. CASE k \notin 1 .. Len(chipQ'[c])
        <5>1. k + 1 \in 1 .. Len(chipQ[c]) => k + 1 = 1
          BY <3>1, <4>2
        <5>2. k \notin ErasingAt(c)' /\ k + 1 \notin ErasingAt(c)
          BY <4>2, <5>1 DEF ErasingAt
        <5> QED BY <5>2
      <4> QED BY <4>1, <4>2
    <3>3. SameErasing(c, 1)
      BY <3>2 DEF SameErasing
    <3> QED BY <2>2, <3>3
  <2> QED BY <2>1, <2>2
<1> QED BY <1>2, EraseFrame DEF ErasePtrsInv

LEMMA EraseTurned ==
  ASSUME ErasePtrsInv, NEW c \in Chips, NEW cmd, Turned(c, cmd), chipQ[c][1].op # "ERASE_BLOCK",
         cmd.op # "ERASE_BLOCK", UNCHANGED << bad, eraser, eraseAcks >>
  PROVE  EraseInv'
<1>1. Queues
  BY DEF ErasePtrsInv, ServerTypes, Queues
<1>2. ASSUME NEW d \in Chips PROVE SameErasing(d, 0)
  <2>1. CASE d # c
    BY <1>1, <2>1, TurnedIs, SameErasingIs
  <2>2. CASE d = c
    <3>1. /\ Len(chipQ'[c]) = Len(chipQ[c]) /\ chipQ'[c][1] = cmd
          /\ \A k \in 1 .. Len(chipQ[c]) : k # 1 => chipQ'[c][k] = chipQ[c][k]
      BY <1>1, TurnedIs
    <3>2. \A k : (k \in ErasingAt(c)') <=> (k \in ErasingAt(c))
      BY <3>1 DEF ErasingAt
    <3>3. \A k \in ErasingAt(c)' : chipQ'[c][k] = chipQ[c][k]
      BY <3>1, <3>2 DEF ErasingAt
    <3>4. \A k \in Int : k + 0 = k
      OBVIOUS
    <3> QED BY <2>2, <3>2, <3>3, <3>4 DEF SameErasing
  <2> QED BY <2>1, <2>2
<1> QED BY <1>2, EraseFrame DEF ErasePtrsInv

LEMMA EraseIdle ==
  ASSUME ErasePtrsInv, doEraseIdle
  PROVE  ErasePtrsInv'
<1>1. /\ state = "IDLE" /\ (nextWritePtr(0) + 1) % Blocks > nextErasePtr[0]
      /\ state' = "ERASECMD" /\ respMax' = 0 /\ eraseStatus' = [ c \in Chips |-> FALSE ]
      /\ UNCHANGED << bad, flash, chipQ, pagesWritten, panic, chipCnt, respCnt, nextPhysPtr,
                      nextErasePtr, blockMap, eraseAcks >>
  BY DEF doEraseIdle, chips
<1>2. 0 \in Chips
  BY PagesNat DEF Chips
<1>3. ServerTypes /\ RoundInv /\ ErasingInv /\ MapInv
  BY DEF ErasePtrsInv, EraseInv
<1>4. ServerTypes'
  BY <1>1, <1>3 DEF ServerTypes
<1>5. /\ \A c \in Chips : ErasingAt(c)' = ErasingAt(c) /\ AckedAt(c)' = AckedAt(c)
      /\ InFlight' = InFlight /\ InFlight = {}
  BY <1>1, <1>3 DEF InFlight, ErasingAt, AckedAt, RoundInv
<1>6. RoundInv'
  <2>1. PICK n \in 0 .. Blocks - 1 : \A c \in Chips : nextErasePtr[c] = n
    BY <1>1, <1>3 DEF RoundInv
  <2>2. n \in 0 .. Blocks - 2
    <3>1. nextWritePtr(0) + 1 \in Nat
      <4>1. pagesWritten[0] \in Nat
        BY <1>2, <1>3 DEF ServerTypes
      <4> QED BY <4>1, PagesNat, DivIs DEF nextWritePtr
    <3>2. (nextWritePtr(0) + 1) % Blocks \in 0 .. Blocks - 1
      BY <3>1, PagesNat, DivIs
    <3> QED BY <1>1, <1>2, <2>1, <3>2, PagesNat
  <2>3. \A c \in Chips : nextErasePtr'[c] = IF eraseStatus'[c] THEN n + 1 ELSE n
    BY <1>1, <2>1
  <2>4. chipCnt = 0 /\ respCnt = 0
    BY <1>1, <1>3 DEF RoundInv
  <2>5. \A c \in Chips : ~ (c < 0)
    BY PagesNat DEF Chips
  <2>6. Cardinality(InFlight') = respMax' - respCnt'
    BY <1>1, <1>5, <2>4, FS_EmptySet
  <2>7. InFlight' = { c \in Chips : c < chipCnt' /\ ~ eraseStatus'[c] }
    BY <1>1, <1>5, <2>4, <2>5
  <2> QED BY <1>1, <2>2, <2>3, <2>4, <2>6, <2>7 DEF RoundInv
<1>7. ErasingInv'
  <2>1. \A c \in Chips : eraseStatus'[c] = FALSE
    BY <1>1
  <2> QED BY <1>1, <1>3, <1>5, <2>1 DEF ErasingInv
<1>8. MapInv'
  BY <1>1, <1>3, MapSame
<1> QED BY <1>4, <1>6, <1>7, <1>8 DEF ErasePtrsInv, EraseInv

LEMMA EraseBlockErase ==
  ASSUME ErasePtrsInv, NEW c \in Chips, EraseBlock(c)
  PROVE  /\ ErasePtrsInv' /\ Done(c) /\ chipQ[c][1] \in EraseCmd
         /\ chipQ[c][1].block = nextPhysPtr[c] /\ c \in InFlight
         /\ ErasedStays
         /\ \A b : b = nextPhysPtr[c] /\ b \in Mapped(c) => ErasedAgain(c, b)'
<1>1. ServerTypes /\ RoundInv /\ ErasingInv /\ MapInv /\ Queues
  BY DEF ErasePtrsInv, EraseInv, ServerTypes, Queues
<1>2. /\ chipQ[c] # << >> /\ Head(chipQ[c]).op = "ERASE_BLOCK"
      /\ chipQ' = [ chipQ EXCEPT ![c] = Tail(@) ]
      /\ flash' = [ flash EXCEPT ![c][Head(chipQ[c]).block] = [ p \in DOMAIN @ |-> << >> ] ]
      /\ eraseAcks' = Append(eraseAcks,
           [ chip |-> c, ok |-> << c, Head(chipQ[c]).block >> \notin bad ])
      /\ UNCHANGED << bad, state, eraseStatus, chipCnt, respMax, respCnt, nextPhysPtr,
                      nextErasePtr, blockMap, panic, pagesWritten >>
  BY DEF EraseBlock, Current, eraser
<1>3. Done(c)
  BY <1>2 DEF Done
<1>4. /\ 1 \in 1 .. Len(chipQ[c]) /\ Head(chipQ[c]) = chipQ[c][1] /\ chipQ[c][1] \in EraseCmd
      /\ 1 \in ErasingAt(c)
  <2>1. 1 \in 1 .. Len(chipQ[c]) /\ Head(chipQ[c]) = chipQ[c][1] /\ chipQ[c][1] \in Cmd
    BY <1>1, <1>2, QueueIs
  <2> QED BY <1>2, <2>1, CmdIs DEF ErasingAt
<1>5. PICK b \in 0 .. Blocks - 1 : b = Head(chipQ[c]).block /\ b = nextPhysPtr[c]
  <2>1. chipQ[c][1].block = nextPhysPtr[c]
    BY <1>1, <1>4 DEF ErasingInv
  <2>2. nextPhysPtr[c] \in 0 .. Blocks - 1
    BY <1>1 DEF ServerTypes
  <2> QED BY <1>4, <2>1, <2>2
<1> DEFINE ack == [ chip |-> c, ok |-> << c, b >> \notin bad ]
           L == Len(eraseAcks)
<1>6. ack \in [ chip : Chips, ok : BOOLEAN ] /\ ack.chip = c /\ ack.ok = (<< c, b >> \notin bad)
  OBVIOUS
<1>7. eraseAcks' = Append(eraseAcks, ack)
  BY <1>2, <1>5
<1> HIDE DEF ack
<1>8. /\ eraseAcks' \in Seq([ chip : Chips, ok : BOOLEAN ]) /\ L \in Nat
      /\ Len(eraseAcks') = L + 1 /\ eraseAcks'[L + 1] = ack
      /\ \A k \in 1 .. L : eraseAcks'[k] = eraseAcks[k]
  BY <1>1, <1>6, <1>7, AppendIs DEF ServerTypes
<1>9. ServerTypes'
  <2>1. chipQ' \in [ Chips -> Seq(Cmd) ]
    BY <1>1, <1>3, DoneIs DEF Queues
  <2>2. flash' \in [ Chips -> [ 0 .. Blocks - 1 -> [ 0 .. PagesPerBlock - 1 -> Data ] ] ]
    <3>1. flash \in [ Chips -> [ 0 .. Blocks - 1 -> [ 0 .. PagesPerBlock - 1 -> Data ] ] ]
      BY <1>1 DEF ServerTypes
    <3>2. [ p \in DOMAIN flash[c][b] |-> << >> ] \in [ 0 .. PagesPerBlock - 1 -> Data ]
      <4>1. flash[c][b] \in [ 0 .. PagesPerBlock - 1 -> Data ]
        BY <3>1
      <4>2. DOMAIN flash[c][b] = 0 .. PagesPerBlock - 1
        BY <4>1
      <4>3. << >> \in Data
        BY DEF Data
      <4> QED BY <4>2, <4>3
    <3>3. flash' = [ flash EXCEPT ![c][b] = [ p \in DOMAIN flash[c][b] |-> << >> ] ]
      BY <1>2, <1>5
    <3> QED BY <3>1, <3>2, <3>3
  <2> QED BY <1>1, <1>2, <1>8, <2>1, <2>2 DEF ServerTypes
<1>10. /\ AckedAt(c) = {} /\ ErasingAt(c)' = {}
       /\ \A k \in AckedAt(c)' : k = L + 1
       /\ L + 1 \in AckedAt(c)'
  <2>1. AckedAt(c) = {} /\ \A k \in ErasingAt(c) : k = 1
    BY <1>1, <1>4 DEF ErasingInv
  <2>2. ErasingAt(c)' = {}
    <3> SUFFICES ASSUME NEW k \in ErasingAt(c)' PROVE FALSE
      OBVIOUS
    <3>1. k \in 1 .. Len(chipQ'[c]) /\ chipQ'[c][k].op = "ERASE_BLOCK"
      BY DEF ErasingAt
    <3>2. k + 1 \in 1 .. Len(chipQ[c]) /\ chipQ'[c][k] = chipQ[c][k + 1]
      BY <1>1, <1>3, <3>1, DoneIs
    <3>3. k + 1 \in ErasingAt(c)
      BY <3>1, <3>2 DEF ErasingAt
    <3>4. k + 1 # 1
      BY <3>1
    <3> QED BY <2>1, <3>3, <3>4
  <2>3. \A k \in 1 .. L : eraseAcks[k].chip # c
    BY <2>1 DEF AckedAt
  <2>4. \A k \in 1 .. L + 1 : k \in 1 .. L \/ k = L + 1
    BY <1>8
  <2>5. \A k \in AckedAt(c)' : k = L + 1
    BY <1>8, <2>3, <2>4 DEF AckedAt
  <2>6. L + 1 \in AckedAt(c)'
    BY <1>6, <1>8 DEF AckedAt
  <2> QED BY <2>1, <2>2, <2>5, <2>6
<1>11. \A d \in Chips : d # c => ErasingAt(d)' = ErasingAt(d) /\ AckedAt(d)' = AckedAt(d)
  <2> SUFFICES ASSUME NEW d \in Chips, d # c
               PROVE  ErasingAt(d)' = ErasingAt(d) /\ AckedAt(d)' = AckedAt(d)
    OBVIOUS
  <2>1. ErasingAt(d)' = ErasingAt(d)
    <3>1. chipQ'[d] = chipQ[d]
      BY <1>1, <1>3, DoneIs
    <3> QED BY <3>1 DEF ErasingAt
  <2>2. 1 .. L + 1 = (1 .. L) \cup { L + 1 }
    BY <1>8
  <2>3. AckedAt(d)' = AckedAt(d)
    BY <1>6, <1>8, <2>2 DEF AckedAt
  <2> QED BY <2>1, <2>3
<1>12. InFlight' = InFlight /\ c \in InFlight
  <2>1. c \in InFlight /\ c \in InFlight'
    BY <1>4, <1>10 DEF InFlight
  <2> QED BY <1>11, <2>1 DEF InFlight
<1>13. RoundInv'
  BY <1>1, <1>2, <1>12 DEF RoundInv
<1>14. ErasingInv'
  <2> SUFFICES ASSUME NEW d \in Chips
               PROVE  /\ d \in InFlight' => ~ eraseStatus'[d]
                      /\ \A k \in ErasingAt(d)' : chipQ'[d][k].block = nextPhysPtr'[d]
                      /\ \A k \in AckedAt(d)' : eraseAcks'[k].ok = (<< d, nextPhysPtr'[d] >> \notin bad')
                      /\ \A k, l \in ErasingAt(d)' : k = l
                      /\ \A k, l \in AckedAt(d)' : k = l
                      /\ ErasingAt(d)' = {} \/ AckedAt(d)' = {}
    BY DEF ErasingInv
  <2>1. /\ d \in InFlight => ~ eraseStatus[d]
        /\ \A k \in ErasingAt(d) : chipQ[d][k].block = nextPhysPtr[d]
        /\ \A k \in AckedAt(d) : eraseAcks[k].ok = (<< d, nextPhysPtr[d] >> \notin bad)
        /\ \A k, l \in ErasingAt(d) : k = l
        /\ \A k, l \in AckedAt(d) : k = l
        /\ ErasingAt(d) = {} \/ AckedAt(d) = {}
    BY <1>1 DEF ErasingInv
  <2>2. CASE d # c
    <3>1. chipQ'[d] = chipQ[d] /\ ErasingAt(d)' = ErasingAt(d) /\ AckedAt(d)' = AckedAt(d)
      BY <1>1, <1>3, <1>11, <2>2, DoneIs
    <3>2. \A k \in AckedAt(d) : eraseAcks'[k] = eraseAcks[k]
      BY <1>8 DEF AckedAt
    <3> QED BY <1>2, <1>12, <2>1, <3>1, <3>2
  <2>3. CASE d = c
    <3>1. \A k \in AckedAt(c)' : eraseAcks'[k].ok = (<< c, nextPhysPtr'[c] >> \notin bad')
      BY <1>2, <1>5, <1>6, <1>8, <1>10
    <3> QED BY <1>2, <1>10, <1>12, <2>1, <2>3, <3>1
  <2> QED BY <2>2, <2>3
<1>15. MapInv'
  BY <1>1, <1>2, MapSame
<1>16. ASSUME NEW d \in Chips, NEW e, ErasedAgain(d, e) PROVE ErasedAgain(d, e)'
  <2>1. Mapped(d)' = Mapped(d)
    BY <1>2 DEF Mapped
  <2>2. CASE \E k \in 1 .. L : eraseAcks[k].chip = d
    <3>1. \E k \in 1 .. Len(eraseAcks') : eraseAcks'[k].chip = d
      BY <1>8, <2>2
    <3> QED BY <1>2, <1>16, <2>1, <3>1 DEF ErasedAgain
  <2>3. CASE ~ \E k \in 1 .. L : eraseAcks[k].chip = d
    BY <1>2, <1>16, <2>3 DEF ErasedAgain
  <2> QED BY <2>2, <2>3
<1>17. ASSUME b \in Mapped(c) PROVE ErasedAgain(c, b)'
  <2>1. L + 1 \in 1 .. Len(eraseAcks') /\ eraseAcks'[L + 1].chip = c
    BY <1>6, <1>8
  <2>2. b \in Mapped(c)' /\ b = nextPhysPtr'[c]
    BY <1>2, <1>5, <1>17 DEF Mapped
  <2> QED BY <2>1, <2>2 DEF ErasedAgain
<1>18. \A e : e = nextPhysPtr[c] /\ e \in Mapped(c) => ErasedAgain(c, e)'
  BY <1>5, <1>17
<1> QED BY <1>3, <1>4, <1>5, <1>9, <1>12, <1>13, <1>14, <1>15, <1>16, <1>17, <1>18
        DEF ErasePtrsInv, EraseInv, ErasedStays

LEMMA EraseCmdErase ==
  ASSUME ErasePtrsInv, doEraseCmd
  PROVE  /\ ErasePtrsInv'
         /\ \/ chipQ' = chipQ /\ UNCHANGED << pool >>
            \/ \E cmd \in EraseCmd : Sent(chipCnt, cmd)
<1>1. ServerTypes /\ RoundInv /\ ErasingInv /\ MapInv /\ Queues
  BY DEF ErasePtrsInv, EraseInv, ServerTypes, Queues
<1>2. /\ state = "ERASECMD" /\ chipCnt' = (chipCnt + 1) % NumChips
      /\ state' = IF chipCnt' = 0 THEN "ERASEACK" ELSE state
      /\ UNCHANGED << bad, flash, panic, eraseStatus, respCnt, nextPhysPtr, nextErasePtr,
                      blockMap, eraseAcks, pagesWritten >>
  BY DEF doEraseCmd
<1>3. chipCnt \in 0 .. NumChips - 1 /\ chipCnt \in Chips /\ respMax \in Nat
  BY <1>1 DEF ServerTypes, Chips
<1>4. /\ chipCnt' \in 0 .. NumChips - 1
      /\ IF chipCnt + 1 = NumChips THEN chipCnt' = 0 ELSE chipCnt' = chipCnt + 1
  <2>1. CASE chipCnt + 1 = NumChips
    <3>1. chipCnt + 1 = 1 * NumChips + 0
      BY <1>3, <2>1, PagesNat
    <3>2. (1 * NumChips + 0) % NumChips = 0
      BY PagesNat, DivUnique
    <3> QED BY <1>2, <2>1, <3>1, <3>2, PagesNat
  <2>2. CASE chipCnt + 1 # NumChips
    <3>1. chipCnt + 1 = 0 * NumChips + (chipCnt + 1) /\ chipCnt + 1 \in Nat /\ chipCnt + 1 < NumChips
      BY <1>3, <2>2, PagesNat
    <3>2. (0 * NumChips + (chipCnt + 1)) % NumChips = chipCnt + 1
      BY <3>1, PagesNat, DivUnique
    <3> QED BY <1>2, <1>3, <2>2, <3>1, <3>2, PagesNat
  <2> QED BY <2>1, <2>2
<1>5. /\ InFlight = { c \in Chips : c < chipCnt /\ ~ eraseStatus[c] }
      /\ Cardinality(InFlight) = respMax - respCnt /\ respCnt = 0
  BY <1>1, <1>2 DEF RoundInv
<1>6. MapInv'
  BY <1>1, <1>2, MapSame
<1>7. \A c \in Chips : AckedAt(c)' = AckedAt(c)
  BY <1>2 DEF AckedAt
<1>8. ASSUME Queues', respMax' \in Nat,
             InFlight' = { c \in Chips : (c < chipCnt \/ c = chipCnt) /\ ~ eraseStatus[c] },
             Cardinality(InFlight') = respMax' - respCnt, ErasingInv'
      PROVE  ErasePtrsInv'
  <2>1. ServerTypes'
    <3>1. state' \in { "IDLE", "ERASECMD", "ERASEACK" } /\ chipCnt' \in Chips
      BY <1>2, <1>4 DEF Chips
    <3> QED BY <1>1, <1>2, <1>8, <3>1 DEF ServerTypes, Queues
  <2>2. RoundInv'
    <3>1. state' # "IDLE" /\ (state' # "ERASECMD" => chipCnt' = 0) /\ respCnt' = 0
      BY <1>2, <1>5
    <3>2. state' = "ERASECMD" => InFlight' = { c \in Chips : c < chipCnt' /\ ~ eraseStatus'[c] }
      <4> SUFFICES ASSUME state' = "ERASECMD"
                   PROVE  InFlight' = { c \in Chips : c < chipCnt' /\ ~ eraseStatus'[c] }
        OBVIOUS
      <4>1. chipCnt' = chipCnt + 1
        BY <1>2, <1>4
      <4>2. \A c \in Chips : (c < chipCnt \/ c = chipCnt) <=> c < chipCnt + 1
        BY <1>3 DEF Chips
      <4> QED BY <1>2, <1>8, <4>1, <4>2
    <3>3. PICK n \in 0 .. Blocks - 2 : \A c \in Chips :
            nextErasePtr[c] = IF eraseStatus[c] THEN n + 1 ELSE n
      BY <1>1, <1>2 DEF RoundInv
    <3>4. \A c \in Chips : nextErasePtr'[c] = IF eraseStatus'[c] THEN n + 1 ELSE n
      BY <1>2, <3>3
    <3>5. Cardinality(InFlight') = respMax' - respCnt'
      BY <1>2, <1>8
    <3> QED BY <3>1, <3>2, <3>4, <3>5 DEF RoundInv
  <2> QED BY <1>6, <1>8, <2>1, <2>2 DEF ErasePtrsInv, EraseInv
<1>9. CASE eraseStatus[chipCnt]
  <2>1. UNCHANGED << pool, chipQ, respMax >>
    BY <1>9 DEF doEraseCmd
  <2>2. \A c \in Chips : ErasingAt(c)' = ErasingAt(c)
    BY <2>1 DEF ErasingAt
  <2>3. InFlight' = InFlight
    BY <1>7, <2>2 DEF InFlight
  <2>4. InFlight' = { c \in Chips : (c < chipCnt \/ c = chipCnt) /\ ~ eraseStatus[c] }
    BY <1>5, <1>9, <2>3
  <2>5. ErasingInv'
    BY <1>1, <1>2, <1>7, <2>1, <2>2, <2>3 DEF ErasingInv
  <2> QED BY <1>1, <1>3, <1>5, <1>8, <2>1, <2>3, <2>4, <2>5 DEF Queues
<1>10. CASE ~ eraseStatus[chipCnt]
  <2>0. PICK c \in Chips : c = chipCnt
    BY <1>3
  <2> DEFINE cmd == [ op |-> "ERASE_BLOCK", block |-> nextPhysPtr[c] ]
             L == Len(chipQ[c])
  <2>1. chipQ' = [ chipQ EXCEPT ![c] = Append(@, cmd) ] /\ respMax' = respMax + 1
    BY <1>10, <2>0 DEF doEraseCmd
  <2>2. cmd \in EraseCmd /\ cmd.op = "ERASE_BLOCK" /\ cmd.block = nextPhysPtr[c]
    <3>1. nextPhysPtr[c] \in 0 .. Blocks - 1
      BY <1>1 DEF ServerTypes
    <3> QED BY <3>1 DEF EraseCmd
  <2> HIDE DEF cmd
  <2>3. Sent(c, cmd)
    BY <2>1, <2>2 DEF Sent, Cmd
  <2>4. /\ Queues' /\ Len(chipQ'[c]) = L + 1 /\ L \in Nat
        /\ \A d \in Chips : d # c => chipQ'[d] = chipQ[d]
        /\ \A d \in Chips : \A k \in 1 .. Len(chipQ[d]) :
             k \in 1 .. Len(chipQ'[d]) /\ chipQ'[d][k] = chipQ[d][k]
        /\ \A d \in Chips : \A k \in 1 .. Len(chipQ'[d]) :
             k \in 1 .. Len(chipQ[d]) \/ (d = c /\ k = L + 1)
        /\ chipQ'[c][L + 1] = cmd
    BY <1>1, <2>3, SentIs
  <2>5. c \notin InFlight
    BY <1>3, <1>5, <2>0
  <2>6. ErasingAt(c) = {} /\ AckedAt(c) = {}
    BY <2>5 DEF InFlight
  <2>7. L + 1 \in ErasingAt(c)' /\ \A k \in ErasingAt(c)' : k = L + 1
    <3>1. \A k \in 1 .. L : chipQ'[c][k].op # "ERASE_BLOCK"
      BY <2>4, <2>6 DEF ErasingAt
    <3>2. \A k \in 1 .. L + 1 : k \in 1 .. L \/ k = L + 1
      BY <2>4
    <3>3. L + 1 \in 1 .. L + 1
      BY <2>4
    <3> QED BY <2>2, <2>4, <3>1, <3>2, <3>3 DEF ErasingAt
  <2>8. \A d \in Chips : d # c => ErasingAt(d)' = ErasingAt(d)
    BY <2>4 DEF ErasingAt
  <2>9. InFlight' = InFlight \cup { c }
    BY <1>7, <2>7, <2>8 DEF InFlight
  <2>10. InFlight' = { d \in Chips : (d < chipCnt \/ d = chipCnt) /\ ~ eraseStatus[d] }
    BY <1>5, <1>10, <2>0, <2>9
  <2>11. Cardinality(InFlight') = respMax' - respCnt
    <3>1. Cardinality(InFlight') = Cardinality(InFlight) + 1
      BY <2>5, <2>9, InFlightFinite, FS_AddElement
    <3> QED BY <1>3, <1>5, <2>1, <3>1
  <2>12. ErasingInv'
    <3> SUFFICES ASSUME NEW d \in Chips
                 PROVE  /\ d \in InFlight' => ~ eraseStatus'[d]
                        /\ \A k \in ErasingAt(d)' : chipQ'[d][k].block = nextPhysPtr'[d]
                        /\ \A k \in AckedAt(d)' : eraseAcks'[k].ok = (<< d, nextPhysPtr'[d] >> \notin bad')
                        /\ \A k, l \in ErasingAt(d)' : k = l
                        /\ \A k, l \in AckedAt(d)' : k = l
                        /\ ErasingAt(d)' = {} \/ AckedAt(d)' = {}
      BY DEF ErasingInv
    <3>1. /\ d \in InFlight => ~ eraseStatus[d]
          /\ \A k \in ErasingAt(d) : chipQ[d][k].block = nextPhysPtr[d]
          /\ \A k \in AckedAt(d) : eraseAcks[k].ok = (<< d, nextPhysPtr[d] >> \notin bad)
          /\ \A k, l \in ErasingAt(d) : k = l
          /\ \A k, l \in AckedAt(d) : k = l
          /\ ErasingAt(d) = {} \/ AckedAt(d) = {}
      BY <1>1 DEF ErasingInv
    <3>2. d \in InFlight' => ~ eraseStatus'[d]
      BY <1>2, <2>10
    <3>3. CASE d # c
      BY <1>2, <1>7, <2>4, <2>8, <3>1, <3>2, <3>3
    <3>4. CASE d = c
      <4>1. \A k \in ErasingAt(c)' : chipQ'[c][k].block = nextPhysPtr'[c]
        BY <1>2, <2>2, <2>4, <2>7
      <4> QED BY <1>2, <1>7, <2>6, <2>7, <3>2, <3>4, <4>1
    <3> QED BY <3>3, <3>4
  <2> QED BY <1>3, <1>8, <2>0, <2>1, <2>2, <2>3, <2>4, <2>10, <2>11, <2>12
<1> QED BY <1>9, <1>10

(* The pointers to physical blocks go round.                               *)
LEMMA RoundNext ==
  ASSUME NEW m \in Nat \ {0}, NEW p \in 0 .. m - 1, NEW j \in Nat
  PROVE  /\ (p + 1) % m \in 0 .. m - 1
         /\ (((p + 1) % m) + j) % m = (p + (j + 1)) % m
         /\ p % m = p
         /\ 0 < j /\ j < m => (p + j) % m # p
<1>1. ASSUME NEW x \in 0 .. m - 1 PROVE x % m = x /\ (x + m) % m = x
  <2>1. x = 0 * m + x /\ x + m = 1 * m + x /\ x \in Nat /\ x < m
    OBVIOUS
  <2>2. (0 * m + x) % m = x /\ (1 * m + x) % m = x
    BY <2>1, DivUnique
  <2> QED BY <2>1, <2>2
<1>2. CASE p + 1 < m
  <2>1. (p + 1) % m = p + 1
    BY <1>1, <1>2
  <2> QED BY <1>2, <2>1
<1>3. CASE p + 1 = m
  <2>1. (p + 1) % m = 0
    <3>1. 0 \in 0 .. m - 1 /\ p + 1 = 0 + m
      BY <1>3
    <3> QED BY <1>1, <3>1
  <2>2. PICK q \in Nat, r \in 0 .. m - 1 : j = q * m + r
    BY DivIs
  <2>3. j % m = r
    BY <2>2, DivUnique
  <2>4. p + (j + 1) = (q + 1) * m + r
    <3>1. (q + 1) * m = q * m + m /\ q * m \in Nat
      BY Times
    <3> QED BY <1>3, <2>2, <3>1
  <2>5. ((q + 1) * m + r) % m = r
    BY <2>2, DivUnique
  <2> QED BY <2>1, <2>3, <2>4, <2>5
<1>4. (((p + 1) % m) + j) % m = (p + (j + 1)) % m /\ (p + 1) % m \in 0 .. m - 1
  <2>1. (p + 1) % m \in 0 .. m - 1
    BY DivIs
  <2> QED BY <1>2, <1>3, <2>1
<1>5. ASSUME 0 < j, j < m PROVE (p + j) % m # p
  <2>1. CASE p + j < m
    <3>1. (p + j) % m = p + j
      BY <1>1, <2>1
    <3> QED BY <1>5, <3>1
  <2>2. CASE ~ (p + j < m)
    <3>1. PICK x \in 0 .. m - 1 : x = p + j - m /\ x # p /\ p + j = x + m
      BY <1>5, <2>2
    <3> QED BY <1>1, <3>1
  <2> QED BY <2>1, <2>2
<1> QED BY <1>1, <1>4, <1>5

(* Going round all of them, a pointer comes to every block.                *)
LEMMA RoundAll ==
  ASSUME NEW m \in Nat \ {0}, NEW p \in 0 .. m - 1, NEW y \in 0 .. m - 1
  PROVE  \E j \in 0 .. m - 1 : y = (p + j) % m
<1>1. CASE p <= y
  <2>1. PICK j \in 0 .. m - 1 : j = y - p /\ p + j = 0 * m + y
    BY <1>1
  <2>2. (0 * m + y) % m = y
    BY DivUnique
  <2> QED BY <2>1, <2>2
<1>2. CASE ~ (p <= y)
  <2>1. PICK j \in 0 .. m - 1 : j = y + m - p /\ p + j = 1 * m + y
    BY <1>2
  <2>2. (1 * m + y) % m = y
    BY DivUnique
  <2> QED BY <2>1, <2>2
<1> QED BY <1>1, <1>2

(* The block that a chip erased is in use now, or bad: it has been tried.  *)
LEMMA FreeBehind ==
  ASSUME ServerTypes, MapInv, NEW c \in Chips, nextErasePtr[c] <= Blocks - 2, bad' = bad,
         nextPhysPtr' = [ nextPhysPtr EXCEPT ![c] = NextPhys(@) ],
         IF << c, nextPhysPtr[c] >> \in bad THEN UNCHANGED << blockMap, nextErasePtr >>
         ELSE /\ blockMap' = [ blockMap EXCEPT ![c][nextErasePtr[c]] = nextPhysPtr[c] ]
              /\ nextErasePtr' = [ nextErasePtr EXCEPT ![c] = (@ + 1) % Blocks ]
  PROVE  /\ << c, nextPhysPtr[c] >> \notin bad =>
              /\ nextErasePtr'[c] = nextErasePtr[c] + 1
              /\ blockMap'[c][nextErasePtr[c]] = nextPhysPtr[c]
         /\ MapInv'
         /\ nextPhysPtr' \in [ Chips -> 0 .. Blocks - 1 ]
         /\ nextErasePtr' \in [ Chips -> 0 .. Blocks - 1 ]
         /\ blockMap' \in [ Chips -> [ 0 .. Blocks - 1 -> 0 .. Blocks - 1 ] ]
         /\ \A d \in Chips : \A b \in 0 .. nextErasePtr[d] - 1 : blockMap'[d][b] = blockMap[d][b]
         /\ \A d \in Chips : nextErasePtr[d] <= nextErasePtr'[d]
<1>1. /\ nextPhysPtr \in [ Chips -> 0 .. Blocks - 1 ]
      /\ nextErasePtr \in [ Chips -> 0 .. Blocks - 1 ]
      /\ blockMap \in [ Chips -> [ 0 .. Blocks - 1 -> 0 .. Blocks - 1 ] ]
  BY DEF ServerTypes
<1>2. PICK p \in 0 .. Blocks - 1, n \in 0 .. Blocks - 2 : p = nextPhysPtr[c] /\ n = nextErasePtr[c]
  BY <1>1, PagesNat
<1>3. PICK x \in 0 .. Blocks - 1 : x = (p + 1) % Blocks
  BY PagesNat, RoundNext
<1>4. \A j \in Nat : /\ (x + j) % Blocks = (p + (j + 1)) % Blocks
                     /\ j + 1 < Blocks => (p + (j + 1)) % Blocks # p
  <2> TAKE j \in Nat
  <2>1. (x + j) % Blocks = (p + (j + 1)) % Blocks
    BY <1>3, PagesNat, RoundNext
  <2>2. j + 1 \in Nat /\ 0 < j + 1
    OBVIOUS
  <2>3. j + 1 < Blocks => (p + (j + 1)) % Blocks # p
    BY <2>2, PagesNat, RoundNext
  <2> QED BY <2>1, <2>3
<1>5. nextPhysPtr' = [ nextPhysPtr EXCEPT ![c] = x ]
  BY <1>2, <1>3 DEF NextPhys
<1>6. /\ nextPhysPtr' \in [ Chips -> 0 .. Blocks - 1 ] /\ nextPhysPtr'[c] = x
      /\ nextErasePtr' \in [ Chips -> 0 .. Blocks - 1 ]
      /\ blockMap' \in [ Chips -> [ 0 .. Blocks - 1 -> 0 .. Blocks - 1 ] ]
      /\ \A d \in Chips : d # c =>
           /\ nextErasePtr'[d] = nextErasePtr[d] /\ nextPhysPtr'[d] = nextPhysPtr[d]
           /\ blockMap'[d] = blockMap[d]
      /\ IF << c, p >> \in bad THEN nextErasePtr'[c] = n
         ELSE nextErasePtr'[c] = n + 1 /\ blockMap'[c][n] = p
      /\ \A b \in 0 .. n - 1 : blockMap'[c][b] = blockMap[c][b]
  <2>1. CASE << c, p >> \in bad
    BY <1>1, <1>2, <1>5, <2>1
  <2>2. CASE << c, p >> \notin bad
    <3>1. n \in 0 .. Blocks - 1 /\ n + 1 \in 0 .. Blocks - 1
      BY PagesNat
    <3>2. (n + 1) % Blocks = n + 1
      BY <3>1, PagesNat, RoundNext
    <3>3. /\ blockMap' = [ blockMap EXCEPT ![c][n] = p ]
          /\ nextErasePtr' = [ nextErasePtr EXCEPT ![c] = n + 1 ]
      BY <1>2, <2>2, <3>2
    <3>4. /\ nextPhysPtr' \in [ Chips -> 0 .. Blocks - 1 ] /\ nextPhysPtr'[c] = x
          /\ nextErasePtr' \in [ Chips -> 0 .. Blocks - 1 ] /\ nextErasePtr'[c] = n + 1
          /\ blockMap' \in [ Chips -> [ 0 .. Blocks - 1 -> 0 .. Blocks - 1 ] ]
      BY <1>1, <1>5, <3>1, <3>3
    <3>5. \A d \in Chips : d # c =>
            /\ nextErasePtr'[d] = nextErasePtr[d] /\ nextPhysPtr'[d] = nextPhysPtr[d]
            /\ blockMap'[d] = blockMap[d]
      BY <1>1, <1>5, <3>3
    <3>6. blockMap'[c] = [ blockMap[c] EXCEPT ![n] = p ] /\ blockMap[c] \in [ 0 .. Blocks - 1 -> 0 .. Blocks - 1 ]
      BY <1>1, <3>3
    <3>7. \A b \in 0 .. n - 1 : b \in 0 .. Blocks - 1 /\ b # n
      BY PagesNat
    <3>8. blockMap'[c][n] = p /\ \A b \in 0 .. n - 1 : blockMap'[c][b] = blockMap[c][b]
      BY <3>1, <3>6, <3>7
    <3> QED BY <2>2, <3>4, <3>5, <3>8
  <2> QED BY <2>1, <2>2
<1>7. ASSUME NEW v \in 0 .. nextErasePtr'[c] - 1
      PROVE  \/ v \in 0 .. n - 1 /\ blockMap'[c][v] = blockMap[c][v] /\ blockMap[c][v] \in Mapped(c)
             \/ v = n /\ blockMap'[c][v] = p /\ << c, p >> \notin bad
  <2>1. CASE v \in 0 .. n - 1
    BY <1>2, <1>6, <2>1 DEF Mapped
  <2>2. CASE v \notin 0 .. n - 1
    <3>1. << c, p >> \notin bad /\ v = n
      BY <1>6, <2>2
    <3> QED BY <1>6, <3>1
  <2> QED BY <2>1, <2>2
<1>8. /\ \A y \in Mapped(c) : y \in Mapped(c)'
      /\ \A y \in Mapped(c)' : y \in Mapped(c) \/ y = p
      /\ InUseOrBad(c, p)'
  <2>1. ASSUME NEW v \in 0 .. n - 1 PROVE blockMap[c][v] \in Mapped(c)'
    <3>1. v \in 0 .. nextErasePtr'[c] - 1 /\ blockMap'[c][v] = blockMap[c][v]
      BY <1>6
    <3> QED BY <3>1 DEF Mapped
  <2>2. ASSUME << c, p >> \notin bad PROVE p \in Mapped(c)'
    <3>1. n \in 0 .. nextErasePtr'[c] - 1 /\ blockMap'[c][n] = p
      BY <1>6, <2>2
    <3> QED BY <3>1 DEF Mapped
  <2>3. \A y \in Mapped(c) : y \in Mapped(c)'
    BY <1>2, <2>1 DEF Mapped
  <2>4. \A y \in Mapped(c)' : y \in Mapped(c) \/ y = p
    BY <1>7 DEF Mapped
  <2> QED BY <2>2, <2>3, <2>4 DEF InUseOrBad
<1>9. \A y : InUseOrBad(c, y) \/ y = p => InUseOrBad(c, y)'
  BY <1>8 DEF InUseOrBad
<1>10. Tried(c) => Tried(c)'
  BY <1>9 DEF Tried
<1>11. ASSUME NEW m \in 0 .. Blocks - 1, Fresh(c, m)
       PROVE  Tried(c)' \/ \E k \in 0 .. Blocks - 1 : Fresh(c, k)'
  <2>1. /\ \A j \in 0 .. Blocks - m - 1 : (p + j) % Blocks \notin Mapped(c)
        /\ \A j \in Blocks - m .. Blocks - 1 : InUseOrBad(c, (p + j) % Blocks)
        /\ \A v, w \in 0 .. n - 1 : blockMap[c][v] = blockMap[c][w] => v = w
    BY <1>2, <1>11 DEF Fresh, Ahead
  <2>2. p \notin Mapped(c)
    <3>1. p % Blocks = p /\ p + 0 = p /\ 0 \in 0 .. Blocks - m - 1
      BY PagesNat, RoundNext
    <3> QED BY <2>1, <3>1
  <2>3. ASSUME NEW j \in 0 .. Blocks - (m + 1) - 1 PROVE (x + j) % Blocks \notin Mapped(c)'
    <3>1. j \in Nat /\ j + 1 < Blocks /\ j + 1 \in 0 .. Blocks - m - 1
      BY PagesNat
    <3>2. PICK y : y = (x + j) % Blocks /\ y = (p + (j + 1)) % Blocks /\ y # p
      BY <1>4, <3>1
    <3> QED BY <1>8, <2>1, <3>1, <3>2
  <2>4. ASSUME NEW j \in Blocks - (m + 1) .. Blocks - 1 PROVE InUseOrBad(c, (x + j) % Blocks)'
    <3>1. j \in Nat /\ (x + j) % Blocks = (p + (j + 1)) % Blocks
      BY <1>4, PagesNat
    <3>2. CASE j = Blocks - 1
      <4>1. (p + (j + 1)) % Blocks = p
        <5>1. p + (j + 1) = 1 * Blocks + p /\ p \in Nat /\ p < Blocks
          BY <3>2, PagesNat
        <5>2. (1 * Blocks + p) % Blocks = p
          BY <5>1, PagesNat, DivUnique
        <5> QED BY <5>1, <5>2
      <4> QED BY <1>9, <3>1, <4>1
    <3>3. CASE j # Blocks - 1
      <4>1. j + 1 \in Blocks - m .. Blocks - 1
        BY <3>3, PagesNat
      <4> QED BY <1>9, <2>1, <3>1, <4>1
    <3> QED BY <3>2, <3>3
  <2>5. \A v, w \in 0 .. nextErasePtr'[c] - 1 : blockMap'[c][v] = blockMap'[c][w] => v = w
    BY <1>7, <2>1, <2>2
  <2>6. CASE m + 1 < Blocks
    <3>1. m + 1 \in 0 .. Blocks - 1
      BY <2>6, PagesNat
    <3>2. Fresh(c, m + 1)'
      BY <1>6, <2>3, <2>4, <2>5 DEF Fresh, Ahead
    <3> QED BY <3>1, <3>2
  <2>7. CASE m + 1 = Blocks
    <3> SUFFICES ASSUME NEW y \in 0 .. Blocks - 1 PROVE InUseOrBad(c, y)'
      BY DEF Tried
    <3>1. PICK j \in 0 .. Blocks - 1 : y = (x + j) % Blocks
      BY PagesNat, RoundAll
    <3>2. j \in Blocks - (m + 1) .. Blocks - 1
      BY <2>7, PagesNat
    <3> QED BY <2>4, <3>1, <3>2
  <2> QED BY <2>6, <2>7, PagesNat
<1>12. MapInv'
  <2> SUFFICES ASSUME NEW d \in Chips
               PROVE  /\ \A v \in 0 .. nextErasePtr'[d] - 1 : << d, blockMap'[d][v] >> \notin bad
                      /\ Tried(d)' \/ \E m \in 0 .. Blocks - 1 : Fresh(d, m)'
    BY DEF MapInv
  <2>1. /\ \A v \in 0 .. nextErasePtr[d] - 1 : << d, blockMap[d][v] >> \notin bad
        /\ Tried(d) \/ \E m \in 0 .. Blocks - 1 : Fresh(d, m)
    BY DEF MapInv
  <2>2. CASE d = c
    <3>1. Tried(d)' \/ \E m \in 0 .. Blocks - 1 : Fresh(d, m)'
      BY <1>10, <1>11, <2>1, <2>2
    <3>2. \A v \in 0 .. nextErasePtr'[d] - 1 : << d, blockMap'[d][v] >> \notin bad
      BY <1>2, <1>7, <2>1, <2>2
    <3> QED BY <3>1, <3>2
  <2>3. CASE d # c
    <3>1. nextErasePtr'[d] = nextErasePtr[d] /\ nextPhysPtr'[d] = nextPhysPtr[d] /\ blockMap'[d] = blockMap[d]
      BY <1>6, <2>3
    <3>2. Mapped(d)' = Mapped(d) /\ \A j : Ahead(d, j)' = Ahead(d, j)
      BY <3>1 DEF Mapped, Ahead
    <3>3. \A b : InUseOrBad(d, b)' = InUseOrBad(d, b)
      BY <3>2 DEF InUseOrBad
    <3>4. Tried(d)' = Tried(d) /\ \A m : Fresh(d, m)' = Fresh(d, m)
      BY <3>1, <3>2, <3>3 DEF Fresh, Tried
    <3> QED BY <2>1, <3>1, <3>4
  <2> QED BY <2>2, <2>3
<1>13. \A d \in Chips : \A b \in 0 .. nextErasePtr[d] - 1 : blockMap'[d][b] = blockMap[d][b]
  BY <1>2, <1>6
<1>14. ASSUME NEW d \in Chips PROVE nextErasePtr[d] <= nextErasePtr'[d]
  <2>1. nextErasePtr[d] \in Int /\ n <= n + 1 /\ n <= n
    BY <1>1, PagesNat
  <2>2. CASE d = c
    BY <1>2, <1>6, <2>1, <2>2
  <2>3. CASE d # c
    <3>1. nextErasePtr'[d] = nextErasePtr[d]
      BY <1>6, <2>3
    <3> QED BY <2>1, <3>1
  <2> QED BY <2>2, <2>3
<1> QED BY <1>2, <1>6, <1>12, <1>13, <1>14

(* The answer of a chip: the block is mapped, or the next one is tried.    *)
LEMMA EraseAck ==
  ASSUME ErasePtrsInv, doEraseAck
  PROVE  /\ ErasePtrsInv'
         /\ \A d \in Chips : \A b \in 0 .. nextErasePtr[d] - 1 : blockMap'[d][b] = blockMap[d][b]
         /\ \A d \in Chips : nextErasePtr[d] <= nextErasePtr'[d]
         /\ ErasedStays
<1>1. ServerTypes /\ RoundInv /\ ErasingInv /\ MapInv
  BY DEF ErasePtrsInv, EraseInv
<1>2. /\ state = "ERASEACK" /\ eraseAcks # << >> /\ eraseAcks' = Tail(eraseAcks)
      /\ UNCHANGED << bad, flash, chipQ, pagesWritten, panic, chipCnt >>
  BY DEF doEraseAck, chips
<1>3. /\ eraseAcks \in Seq([ chip : Chips, ok : BOOLEAN ]) /\ eraseStatus \in [ Chips -> BOOLEAN ]
      /\ respMax \in Nat /\ respCnt \in Nat /\ nextErasePtr \in [ Chips -> 0 .. Blocks - 1 ]
      /\ nextPhysPtr \in [ Chips -> 0 .. Blocks - 1 ]
  BY <1>1 DEF ServerTypes
<1>4. /\ eraseAcks' \in Seq([ chip : Chips, ok : BOOLEAN ]) /\ Len(eraseAcks) \in Nat \ { 0 }
      /\ Len(eraseAcks') = Len(eraseAcks) - 1 /\ Head(eraseAcks) = eraseAcks[1]
      /\ eraseAcks[1] \in [ chip : Chips, ok : BOOLEAN ]
      /\ \A k \in 1 .. Len(eraseAcks) - 1 : eraseAcks'[k] = eraseAcks[k + 1]
  BY <1>2, <1>3, TailIs
<1>5. PICK c \in Chips, ok \in BOOLEAN : c = eraseAcks[1].chip /\ ok = eraseAcks[1].ok
  BY <1>4
<1>6. 1 \in AckedAt(c) /\ c \in InFlight
  <2>1. 1 \in 1 .. Len(eraseAcks)
    BY <1>4
  <2> QED BY <1>5, <2>1 DEF AckedAt, InFlight
<1>7. /\ ~ eraseStatus[c] /\ ok = (<< c, nextPhysPtr[c] >> \notin bad)
      /\ ErasingAt(c) = {} /\ \A k \in AckedAt(c) : k = 1
  BY <1>1, <1>5, <1>6 DEF ErasingInv
<1>8. PICK n \in 0 .. Blocks - 2 : \A d \in Chips :
        nextErasePtr[d] = IF eraseStatus[d] THEN n + 1 ELSE n
  BY <1>1, <1>2 DEF RoundInv
<1>9. nextErasePtr[c] = n /\ nextErasePtr[c] <= Blocks - 2
  BY <1>7, <1>8, PagesNat
<1>10. PICK done : done = [ eraseStatus EXCEPT ![c] = ok ]
  OBVIOUS
<1>11. PICK left : left = { d \in Chips : ~ done[d] }
  OBVIOUS
<1>12. [ eraseStatus EXCEPT ![c] = @ \/ ok ] = done
  BY <1>3, <1>7, <1>10
<1>13. /\ nextPhysPtr' = [ nextPhysPtr EXCEPT ![c] = NextPhys(@) ]
       /\ eraseStatus' = done
       /\ IF ok
          THEN /\ blockMap' = [ blockMap EXCEPT ![c][nextErasePtr[c]] = nextPhysPtr[c] ]
               /\ nextErasePtr' = [ nextErasePtr EXCEPT ![c] = (@ + 1) % Blocks ]
          ELSE UNCHANGED << blockMap, nextErasePtr >>
       /\ IF respCnt + 1 < respMax
          THEN respCnt' = respCnt + 1 /\ UNCHANGED << state, respMax >>
          ELSE /\ respCnt' = 0
               /\ IF left = {}
                  THEN state' = "IDLE" /\ UNCHANGED respMax
                  ELSE state' = "ERASECMD" /\ respMax' = 0
  BY <1>4, <1>5, <1>11, <1>12 DEF doEraseAck
<1>14. /\ ~ ok => UNCHANGED << blockMap, nextErasePtr >>
       /\ ok => nextErasePtr'[c] = nextErasePtr[c] + 1 /\ blockMap'[c][nextErasePtr[c]] = nextPhysPtr[c]
       /\ MapInv'
       /\ nextPhysPtr' \in [ Chips -> 0 .. Blocks - 1 ]
       /\ nextErasePtr' \in [ Chips -> 0 .. Blocks - 1 ]
       /\ blockMap' \in [ Chips -> [ 0 .. Blocks - 1 -> 0 .. Blocks - 1 ] ]
       /\ \A d \in Chips : \A b \in 0 .. nextErasePtr[d] - 1 : blockMap'[d][b] = blockMap[d][b]
       /\ \A d \in Chips : nextErasePtr[d] <= nextErasePtr'[d]
  <2>1. IF << c, nextPhysPtr[c] >> \in bad THEN UNCHANGED << blockMap, nextErasePtr >>
        ELSE /\ blockMap' = [ blockMap EXCEPT ![c][nextErasePtr[c]] = nextPhysPtr[c] ]
             /\ nextErasePtr' = [ nextErasePtr EXCEPT ![c] = (@ + 1) % Blocks ]
    BY <1>7, <1>13
  <2> QED BY <1>1, <1>2, <1>7, <1>9, <1>13, <2>1, FreeBehind
<1>15. ASSUME NEW d \in Chips, d # c
       PROVE  /\ nextErasePtr'[d] = nextErasePtr[d] /\ nextPhysPtr'[d] = nextPhysPtr[d]
              /\ eraseStatus'[d] = eraseStatus[d]
  BY <1>3, <1>10, <1>13, <1>15
<1>16. eraseStatus' \in [ Chips -> BOOLEAN ] /\ eraseStatus'[c] = ok
  BY <1>3, <1>10, <1>13
<1>17. \A d \in Chips : nextErasePtr'[d] = IF eraseStatus'[d] THEN n + 1 ELSE n
  <2> TAKE d \in Chips
  <2>1. CASE d = c
    BY <1>9, <1>14, <1>16, <2>1
  <2>2. CASE d # c
    BY <1>8, <1>15, <2>2
  <2> QED BY <2>1, <2>2
<1>18. \A d \in Chips : ErasingAt(d)' = ErasingAt(d)
  BY <1>2 DEF ErasingAt
<1>19. ASSUME NEW d \in Chips, NEW k \in AckedAt(d)'
       PROVE  k \in Int /\ k + 1 \in AckedAt(d) /\ eraseAcks'[k] = eraseAcks[k + 1]
  BY <1>4 DEF AckedAt
<1>20. AckedAt(c)' = {}
  <2> SUFFICES ASSUME NEW k \in AckedAt(c)' PROVE FALSE
    OBVIOUS
  <2>1. k + 1 \in AckedAt(c) /\ k \in 1 .. Len(eraseAcks')
    BY <1>19 DEF AckedAt
  <2>2. k + 1 = 1
    BY <1>7, <2>1
  <2> QED BY <2>1, <2>2
<1>21. ASSUME NEW d \in Chips, d # c, NEW k \in AckedAt(d) PROVE k - 1 \in AckedAt(d)'
  <2>1. k \in 1 .. Len(eraseAcks) /\ eraseAcks[k].chip = d
    BY DEF AckedAt
  <2>2. k # 1
    BY <1>5, <1>21, <2>1
  <2>3. PICK j \in 1 .. Len(eraseAcks) - 1 : j + 1 = k /\ j = k - 1
    BY <1>4, <2>1, <2>2
  <2> QED BY <1>4, <2>1, <2>3 DEF AckedAt
<1>22. InFlight' = InFlight \ { c }
  <2>1. c \notin InFlight'
    BY <1>7, <1>18, <1>20 DEF InFlight
  <2>2. ASSUME NEW d \in Chips, d # c PROVE d \in InFlight' <=> d \in InFlight
    <3>1. AckedAt(d)' # {} <=> AckedAt(d) # {}
      BY <1>19, <1>21, <2>2
    <3> QED BY <1>18, <3>1 DEF InFlight
  <2>3. InFlight \subseteq Chips /\ InFlight' \subseteq Chips
    BY DEF InFlight
  <2> QED BY <2>1, <2>2, <2>3
<1>23. /\ Cardinality(InFlight) = respMax - respCnt
       /\ Cardinality(InFlight') = respMax - respCnt - 1 /\ Cardinality(InFlight') \in Nat
  <2>1. Cardinality(InFlight) = respMax - respCnt
    BY <1>1, <1>2 DEF RoundInv
  <2>2. Cardinality(InFlight \ { c }) = Cardinality(InFlight) - 1 /\ IsFiniteSet(InFlight \ { c })
    BY <1>6, InFlightFinite, FS_RemoveElement
  <2>3. Cardinality(InFlight \ { c }) \in Nat
    BY <2>2, FS_CardinalityType
  <2> QED BY <1>22, <2>1, <2>2, <2>3
<1>24. chipCnt = 0 /\ chipCnt' = 0
  BY <1>1, <1>2 DEF RoundInv
<1>25. ErasingInv'
  <2> SUFFICES ASSUME NEW d \in Chips
               PROVE  /\ d \in InFlight' => ~ eraseStatus'[d]
                      /\ \A k \in ErasingAt(d)' : chipQ'[d][k].block = nextPhysPtr'[d]
                      /\ \A k \in AckedAt(d)' : eraseAcks'[k].ok = (<< d, nextPhysPtr'[d] >> \notin bad')
                      /\ \A k, l \in ErasingAt(d)' : k = l
                      /\ \A k, l \in AckedAt(d)' : k = l
                      /\ ErasingAt(d)' = {} \/ AckedAt(d)' = {}
    BY DEF ErasingInv
  <2>1. CASE d = c
    BY <1>7, <1>18, <1>20, <1>22, <2>1
  <2>2. CASE d # c
    <3>1. /\ d \in InFlight => ~ eraseStatus[d]
          /\ \A k \in ErasingAt(d) : chipQ[d][k].block = nextPhysPtr[d]
          /\ \A k \in AckedAt(d) : eraseAcks[k].ok = (<< d, nextPhysPtr[d] >> \notin bad)
          /\ \A k, l \in ErasingAt(d) : k = l
          /\ \A k, l \in AckedAt(d) : k = l
          /\ ErasingAt(d) = {} \/ AckedAt(d) = {}
      BY <1>1 DEF ErasingInv
    <3>2. nextPhysPtr'[d] = nextPhysPtr[d] /\ eraseStatus'[d] = eraseStatus[d]
      BY <1>15, <2>2
    <3>3. ASSUME NEW k \in AckedAt(d)'
          PROVE  eraseAcks'[k].ok = (<< d, nextPhysPtr'[d] >> \notin bad')
      <4>1. k + 1 \in AckedAt(d) /\ eraseAcks'[k] = eraseAcks[k + 1]
        BY <1>19
      <4>2. eraseAcks[k + 1].ok = (<< d, nextPhysPtr[d] >> \notin bad)
        BY <3>1, <4>1
      <4>3. bad' = bad
        BY <1>2
      <4> QED BY <3>2, <4>1, <4>2, <4>3
    <3>4. ASSUME NEW k \in AckedAt(d)', NEW l \in AckedAt(d)' PROVE k = l
      <4>1. k + 1 = l + 1 /\ k \in Int /\ l \in Int
        BY <1>19, <3>1
      <4> QED BY <4>1
    <3>5. ErasingAt(d)' = {} \/ AckedAt(d)' = {}
      BY <1>18, <1>19, <3>1
    <3> QED BY <1>2, <1>18, <1>22, <3>1, <3>2, <3>3, <3>4, <3>5
  <2> QED BY <2>1, <2>2
<1>26. ErasedStays
  <2> SUFFICES ASSUME NEW d \in Chips, NEW b, ErasedAgain(d, b)
               PROVE  ErasedAgain(d, b)'
    BY DEF ErasedStays
  <2>1. nextErasePtr[d] \in Int /\ nextErasePtr'[d] \in Int /\ nextErasePtr[d] <= nextErasePtr'[d]
    BY <1>3, <1>14
  <2>2. \A v \in 0 .. nextErasePtr[d] - 1 :
          v \in 0 .. nextErasePtr'[d] - 1 /\ blockMap'[d][v] = blockMap[d][v]
    BY <1>14, <2>1
  <2>3. CASE \E v, w \in 0 .. nextErasePtr[d] - 1 : v # w /\ blockMap[d][v] = b /\ blockMap[d][w] = b
    BY <2>2, <2>3 DEF ErasedAgain
  <2>4. CASE /\ b \in Mapped(d) /\ b = nextPhysPtr[d]
             /\ \E k \in 1 .. Len(eraseAcks) : eraseAcks[k].chip = d
    <3>1. PICK v \in 0 .. nextErasePtr[d] - 1 : blockMap[d][v] = b
      BY <2>4 DEF Mapped
    <3>2. CASE d = c
      <4>1. << c, b >> \notin bad
        BY <1>1, <3>1, <3>2 DEF MapInv
      <4>2. ok /\ nextErasePtr'[c] = n + 1 /\ blockMap'[c][n] = b
        BY <1>7, <1>9, <1>14, <2>4, <3>2, <4>1
      <4>3. n \in 0 .. nextErasePtr'[c] - 1 /\ v # n
        BY <1>9, <3>1, <3>2, <4>2
      <4> QED BY <2>2, <3>1, <3>2, <4>2, <4>3 DEF ErasedAgain
    <3>3. CASE d # c
      <4>1. PICK k \in AckedAt(d) : TRUE
        BY <2>4 DEF AckedAt
      <4>2. k - 1 \in AckedAt(d)'
        BY <1>21, <3>3
      <4>3. b \in Mapped(d)' /\ b = nextPhysPtr'[d]
        BY <1>15, <2>2, <2>4, <3>1, <3>3 DEF Mapped
      <4> QED BY <4>2, <4>3 DEF AckedAt, ErasedAgain
    <3> QED BY <3>2, <3>3
  <2> QED BY <2>3, <2>4 DEF ErasedAgain
<1>27. CASE respCnt + 1 < respMax
  <2>1. state' = "ERASEACK" /\ respCnt' = respCnt + 1 /\ respMax' = respMax
    BY <1>2, <1>13, <1>27
  <2>2. Cardinality(InFlight') = respMax' - respCnt' /\ respCnt' \in Nat /\ respMax' \in Nat
    BY <1>3, <1>23, <2>1
  <2>3. RoundInv'
    BY <1>17, <1>24, <2>1, <2>2 DEF RoundInv
  <2>4. ServerTypes'
    BY <1>1, <1>2, <1>4, <1>14, <1>16, <2>1, <2>2 DEF ServerTypes
  <2> QED BY <1>14, <1>25, <1>26, <2>3, <2>4 DEF ErasePtrsInv, EraseInv
<1>28. CASE ~ (respCnt + 1 < respMax)
  <2>1. InFlight' = {} /\ Cardinality(InFlight') = 0
    <3>1. Cardinality(InFlight') = 0
      BY <1>3, <1>23, <1>28
    <3>2. IsFiniteSet(InFlight')
      BY <1>22, InFlightFinite, FS_RemoveElement
    <3> QED BY <3>1, <3>2, FS_EmptySet
  <2>2. /\ respCnt' = 0
        /\ IF left = {} THEN state' = "IDLE" /\ respMax' = respMax
           ELSE state' = "ERASECMD" /\ respMax' = 0
    BY <1>13, <1>28
  <2>3. RoundInv'
    <3>1. CASE left = {}
      <4>1. \A d \in Chips : nextErasePtr'[d] = n + 1
        BY <1>11, <1>13, <1>17, <3>1
      <4>2. n + 1 \in 0 .. Blocks - 1
        BY PagesNat
      <4> QED BY <1>24, <2>1, <2>2, <3>1, <4>1, <4>2 DEF RoundInv
    <3>2. CASE left # {}
      <4>1. \A d \in Chips : ~ (d < chipCnt')
        BY <1>24 DEF Chips
      <4>2. InFlight' = { d \in Chips : d < chipCnt' /\ ~ eraseStatus'[d] }
        BY <2>1, <4>1
      <4> QED BY <1>17, <1>24, <2>1, <2>2, <3>2, <4>2 DEF RoundInv
    <3> QED BY <3>1, <3>2
  <2>4. ServerTypes'
    <3>1. state' \in { "IDLE", "ERASECMD", "ERASEACK" } /\ respMax' \in Nat /\ respCnt' \in Nat
      BY <1>3, <2>2
    <3> QED BY <1>1, <1>2, <1>4, <1>14, <1>16, <3>1 DEF ServerTypes
  <2> QED BY <1>14, <1>25, <1>26, <2>3, <2>4 DEF ErasePtrsInv, EraseInv
<1> QED BY <1>27, <1>28

-----------------------------------------------------------------------------
(* The pages issued.                                                       *)
LEMMA FlushIs ==
  ASSUME WriterInv
  PROVE  /\ superPageCnt \in Nat /\ currBuf \in Bufs /\ 1 - currBuf \in Bufs
         /\ flush.step = "no" => flush = NoFlush
         /\ flush.step # "no" =>
              /\ flush \in Flushing /\ flush.seg = superPageCnt - 1 /\ flush.buf = 1 - currBuf
              /\ flushReqQ = << >> /\ writeLocks[1 - currBuf] /\ flush.seg \in Nat
              /\ flush.asked \in 0 .. NumPages /\ flush.read \in 0 .. NumPages - 1
         /\ flush.step = "tags" => flush.asked = 0 /\ flush.read = 0
         /\ flushReqQ # << >> =>
              /\ flushReqQ = << [ seg |-> superPageCnt - 1, buf |-> 1 - currBuf ] >>
              /\ flush = NoFlush /\ superPageCnt > 0 /\ writeLocks[1 - currBuf]
<1>1. superPageCnt \in Nat /\ currBuf \in Bufs /\ 1 - currBuf \in Bufs
  BY DEF WriterInv, ValuesInv, Bufs
<1>2. flush.step = "no" => flush = NoFlush
  BY DEF WriterInv, FlushInv, Flushing
<1>3. flush.step # "no" =>
        /\ flush \in Flushing /\ flush.seg = superPageCnt - 1 /\ flush.buf = 1 - currBuf
        /\ flushReqQ = << >> /\ writeLocks[1 - currBuf]
  BY DEF WriterInv, FlushInv, NoFlush
<1>4. flush.step = "tags" => flush.asked = 0 /\ flush.read = 0
  BY DEF WriterInv, FlushInv, NoFlush
<1>5. flushReqQ # << >> =>
        /\ flushReqQ = << [ seg |-> superPageCnt - 1, buf |-> 1 - currBuf ] >>
        /\ flush = NoFlush /\ superPageCnt > 0 /\ writeLocks[1 - currBuf]
  BY DEF WriterInv, FlushInv
<1>6. flush \in Flushing => /\ flush.seg \in Nat /\ flush.asked \in 0 .. NumPages
                            /\ flush.read \in 0 .. NumPages - 1
  BY DEF Flushing
<1> QED BY <1>1, <1>2, <1>3, <1>4, <1>5, <1>6

LEMMA IssuedIs ==
  ASSUME WriterInv
  PROVE  /\ Issued \in Nat /\ Issued <= superPageCnt * NumPages /\ superPageCnt * NumPages \in Nat
         /\ flush.step # "no" =>
              /\ Issued = flush.seg * NumPages + flush.asked
              /\ superPageCnt * NumPages = flush.seg * NumPages + NumPages
              /\ flush.seg * NumPages \in Nat
         /\ flush.step = "no" /\ flushReqQ = << >> => Issued = superPageCnt * NumPages
         /\ flushReqQ # << >> => Issued = (superPageCnt - 1) * NumPages
<1>1. superPageCnt \in Nat /\ superPageCnt * NumPages \in Nat
  BY FlushIs, PagesNat, Times
<1>2. CASE flushReqQ # << >>
  <2>1. PICK n \in Nat : n = superPageCnt - 1 /\ superPageCnt = n + 1
    BY <1>1, <1>2, FlushIs
  <2>2. n * NumPages \in Nat /\ (n + 1) * NumPages = n * NumPages + NumPages
    BY PagesNat, Times
  <2>3. Issued = n * NumPages
    BY <1>2, <2>1 DEF Issued
  <2>4. Issued \in Nat /\ Issued <= superPageCnt * NumPages
    BY <2>1, <2>2, <2>3, PagesNat
  <2>5. flush.step = "no"
    BY <1>2, FlushIs DEF NoFlush
  <2> QED BY <1>1, <1>2, <2>1, <2>3, <2>4, <2>5
<1>3. CASE flushReqQ = << >> /\ flush.step = "no"
  <2>1. Issued = superPageCnt * NumPages
    BY <1>3 DEF Issued
  <2> QED BY <1>1, <1>3, <2>1
<1>4. CASE flush.step # "no"
  <2>1. PICK n \in Nat, k \in 0 .. NumPages :
          n = flush.seg /\ k = flush.asked /\ superPageCnt = n + 1 /\ flushReqQ = << >>
    BY <1>1, <1>4, FlushIs
  <2>2. PICK x \in Nat : x = n * NumPages /\ (n + 1) * NumPages = x + NumPages
    BY PagesNat, Times
  <2>3. Issued = x + k
    BY <1>4, <2>1, <2>2 DEF Issued
  <2>4. superPageCnt * NumPages = x + NumPages
    BY <2>1, <2>2
  <2>5. Issued \in Nat /\ Issued <= superPageCnt * NumPages
    BY <2>3, <2>4, PagesNat
  <2> QED BY <1>1, <1>4, <2>1, <2>2, <2>3, <2>4, <2>5
<1> QED BY <1>2, <1>3, <1>4

(* Where a page is.                                                        *)
LEMMA PlaceIs ==
  ASSUME NEW a \in Nat
  PROVE  /\ ChipOf(a) \in Chips /\ Row(a) \in Nat /\ VBlock(a) \in Nat
         /\ PageOf(a) \in 0 .. PagesPerBlock - 1
         /\ a = Row(a) * NumChips + ChipOf(a)
         /\ Row(a) = VBlock(a) * PagesPerBlock + PageOf(a)
         /\ BlockOf(a) = VBlock(a) % Blocks
         /\ VBlock(a) < Blocks => BlockOf(a) = VBlock(a)
<1>1. Row(a) \in Nat /\ ChipOf(a) \in 0 .. NumChips - 1 /\ a = Row(a) * NumChips + ChipOf(a)
  BY PagesNat, DivIs DEF Row, ChipOf
<1>2. PICK q \in Nat : q = Row(a)
  BY <1>1
<1>3. /\ q \div PagesPerBlock \in Nat /\ q % PagesPerBlock \in 0 .. PagesPerBlock - 1
      /\ q = (q \div PagesPerBlock) * PagesPerBlock + (q % PagesPerBlock)
  BY PagesNat, DivIs
<1>4. VBlock(a) = q \div PagesPerBlock /\ PageOf(a) = q % PagesPerBlock
  BY <1>2 DEF VBlock, PageOf, Row
<1>5. a \div (NumChips * PagesPerBlock) = VBlock(a)
  BY PagesNat, DivDiv DEF VBlock, Row
<1>6. BlockOf(a) = VBlock(a) % Blocks
  BY <1>5 DEF BlockOf
<1>7. ASSUME VBlock(a) < Blocks PROVE BlockOf(a) = VBlock(a)
  <2>1. VBlock(a) \in 0 .. Blocks - 1
    BY <1>3, <1>4, <1>7, PagesNat
  <2>2. VBlock(a) % Blocks = VBlock(a)
    BY <2>1, PagesNat, RoundNext
  <2> QED BY <1>6, <2>2
<1> QED BY <1>1, <1>2, <1>3, <1>4, <1>6, <1>7 DEF Chips

(* Pages of mapped blocks share a place only if it was erased again.       *)
LEMMA SamePlace ==
  ASSUME ServerTypes, NEW a \in Nat, NEW b \in Nat, NEW c \in Chips, NEW x, NEW y,
         Goes(a, c, x), Goes(b, c, y), SameVPage(x, y),
         VBlock(a) < nextErasePtr[c], VBlock(b) < nextErasePtr[c]
  PROVE  a = b \/ OnErasedAgain(a)
<1>1. nextErasePtr[c] \in 0 .. Blocks - 1
  BY DEF ServerTypes
<1>2. VBlock(a) \in Nat /\ VBlock(b) \in Nat /\ VBlock(a) < Blocks /\ VBlock(b) < Blocks
  <2>1. VBlock(a) \in Nat /\ VBlock(b) \in Nat
    BY PlaceIs
  <2> QED BY <1>1, <2>1, PagesNat
<1>3. BlockOf(a) = VBlock(a) /\ BlockOf(b) = VBlock(b)
  BY <1>2, PlaceIs
<1>4. blockMap[c][VBlock(a)] = blockMap[c][VBlock(b)] /\ PageOf(a) = PageOf(b)
      /\ ChipOf(a) = ChipOf(b)
  BY <1>3 DEF Goes, SameVPage, PhysBlock
<1>5. VBlock(a) \in 0 .. nextErasePtr[c] - 1 /\ VBlock(b) \in 0 .. nextErasePtr[c] - 1
  BY <1>1, <1>2
<1>6. CASE VBlock(a) = VBlock(b)
  <2>1. Row(a) = Row(b)
    BY <1>4, <1>6, PlaceIs
  <2> QED BY <1>4, <2>1, PlaceIs
<1>7. CASE VBlock(a) # VBlock(b)
  <2>1. c = ChipOf(a) /\ PhysBlock(a) = blockMap[c][VBlock(a)]
    BY <1>3 DEF Goes, PhysBlock
  <2>2. ErasedAgain(c, PhysBlock(a))
    BY <1>4, <1>5, <1>7, <2>1 DEF ErasedAgain
  <2> QED BY <2>1, <2>2 DEF OnErasedAgain
<1> QED BY <1>6, <1>7

(* What a page is to hold stays, when values are appended behind it.       *)
LEMMA OkSame ==
  ASSUME UNCHANGED << wrote, early, map_view >>
  PROVE  \A a, data : Ok(a, data)' = Ok(a, data)
<1>1. \A a : OnErasedAgain(a)' = OnErasedAgain(a)
  BY DEF OnErasedAgain, ErasedAgain, Mapped, PhysBlock, map_view
<1> QED BY <1>1 DEF Ok, Values, Pages, Addr

LEMMA OnErasedStays ==
  ASSUME NEW a \in Nat, ErasedStays, PhysBlock(a)' = PhysBlock(a), OnErasedAgain(a)
  PROVE  OnErasedAgain(a)'
<1>1. PICK c \in Chips : c = ChipOf(a)
  BY PlaceIs
<1>2. PICK b : b = PhysBlock(a) /\ b = PhysBlock(a)'
  OBVIOUS
<1>3. ErasedAgain(c, b)'
  BY <1>1, <1>2 DEF OnErasedAgain, ErasedStays
<1> QED BY <1>1, <1>2, <1>3 DEF OnErasedAgain

LEMMA OkEarlier ==
  ASSUME wrote' = wrote, early \subseteq early', Issued \in Nat, ErasedStays,
         \A a \in 0 .. Issued - 1 : PhysBlock(a)' = PhysBlock(a)
  PROVE  \A a \in 0 .. Issued - 1 : \A data : Ok(a, data) => Ok(a, data)'
<1>1. Values' = Values /\ \A v, i : Pages(v)' = Pages(v) /\ Addr(v, i)' = Addr(v, i)
  BY DEF Values, Pages, Addr
<1>2. \A a \in 0 .. Issued - 1 : OnErasedAgain(a) => OnErasedAgain(a)'
  BY OnErasedStays
<1> QED BY <1>1, <1>2 DEF Ok

LEMMA OkAccepts ==
  ASSUME WriterInv, NEW n \in Nat, NEW off \in Nat, Accepts(n, off), early' = early,
         ErasedStays, \A a \in 0 .. Issued - 1 : PhysBlock(a)' = PhysBlock(a)
  PROVE  \A a \in 0 .. Issued - 1 : \A data : Ok(a, data) => Ok(a, data)'
<1>0. \A a \in 0 .. Issued - 1 : OnErasedAgain(a) => OnErasedAgain(a)'
  BY OnErasedStays, IssuedIs
<1> SUFFICES ASSUME NEW a \in 0 .. Issued - 1, NEW data, Ok(a, data), ~ OnErasedAgain(a),
                    NEW v \in Values', NEW i \in Pages(v)', Addr(v, i)' = a
             PROVE  data = << v, i >> \/ v \in early
  BY <1>0 DEF Ok
<1>1. /\ Values' = Values \cup { Len(wrote) + 1 }
      /\ \A w \in Values : wrote'[w] = wrote[w]
      /\ wrote'[Len(wrote) + 1].addr = superPageCnt' * NumPages + off
      /\ wrote'[Len(wrote) + 1].size = n
  BY AcceptsMore
<1>2. CASE v \in Values
  BY <1>1, <1>2 DEF Ok, Pages, Addr
<1>3. CASE v = Len(wrote) + 1
  <2>1. superPageCnt \in Nat /\ superPageCnt' \in Nat /\ superPageCnt <= superPageCnt'
    <3>1. superPageCnt \in Nat
      BY DEF WriterInv, ValuesInv
    <3> QED BY <3>1 DEF Accepts
  <2>2. superPageCnt * NumPages <= superPageCnt' * NumPages /\ superPageCnt' * NumPages \in Nat
    BY <2>1, PagesNat, Times
  <2>3. i \in 1 .. n /\ a = superPageCnt' * NumPages + off + i - 1
    BY <1>1, <1>3 DEF Pages, Addr
  <2>4. PICK j \in Nat : j = i /\ j >= 1
    BY <2>3
  <2> QED BY <2>2, <2>3, <2>4, IssuedIs
<1> QED BY <1>1, <1>2, <1>3

(* The commands that write move in the queue of c by m places, and what is *)
(* dropped has got its data.                                               *)
SameWrites(c, m) ==
  /\ \A k \in Nat \ {0} : /\ WriteAt(c, k)' = WriteAt(c, k + m)
                          /\ WriteAt(c, k)' => chipQ'[c][k] = chipQ[c][k + m]
  /\ m = 1 /\ WriteAt(c, 1) => chipQ[c][1].at = "data"

LEMMA WritesStay ==
  ASSUME WritesInv, TagsInv, DataToFlash,
         Issued' = Issued, writeTagQ' = writeTagQ, ErasedStays,
         \/ flush' = flush
         \/ flush.step # "pages" /\ flush'.asked = 0 /\ flush'.read = 0,
         dataQ' = dataQ \/ \A c \in Chips : ~ DataFor(c) /\ ~ DataFor(c)',
         \A a \in 0 .. Issued - 1 : PhysBlock(a)' = PhysBlock(a),
         \A a \in 0 .. Issued - 1 : \A data : Ok(a, data) => Ok(a, data)',
         flush.step = "pages" => flush.asked \in Nat /\ \A p \in 0 .. flush.asked - 1 :
                                    flush.seg * NumPages + p \in 0 .. Issued - 1,
         \A c \in Chips : \E m \in 0 .. 1 : SameWrites(c, m),
         \A c \in Chips : \A k \in Nat \ {0} : WriteAt(c, k) => chipQ[c][k] \in WriteCmd
  PROVE  WritesInv' /\ TagsInv' /\ DataToFlash'
<1>1. \A a \in 0 .. Issued - 1 : \A c, cmd : Goes(a, c, cmd)' = Goes(a, c, cmd)
  BY DEF Goes
<1>2. \A c \in Chips : DataFor(c)' = DataFor(c) /\ (DataFor(c) => dataQ' = dataQ)
  BY DEF DataFor
<1>3. ASSUME NEW c \in Chips, NEW m \in 0 .. 1, SameWrites(c, m), NEW k \in Nat \ {0}
      PROVE  Unread(c, k)' = Unread(c, k + m)
  <2>1. /\ WriteAt(c, k)' = WriteAt(c, k + m)
        /\ WriteAt(c, k)' => chipQ'[c][k] = chipQ[c][k + m]
    BY <1>3 DEF SameWrites
  <2> QED BY <2>1 DEF Unread
<1>4. ASSUME NEW c \in Chips, NEW k \in Nat \ {0}, WriteAt(c, k)' PROVE WriteInv(c, k)'
  <2>1. PICK m \in 0 .. 1 : SameWrites(c, m)
    OBVIOUS
  <2>a. PICK x : x = chipQ'[c][k]
    OBVIOUS
  <2>b. PICK j \in Nat \ {0} : j = k + m
    OBVIOUS
  <2>2. j = k + m /\ WriteAt(c, j) /\ chipQ'[c][k] = x /\ chipQ[c][j] = x
    BY <1>4, <2>1, <2>a, <2>b DEF SameWrites
  <2>3. WriteInv(c, j) /\ Unread(c, k)' = Unread(c, j) /\ x \in WriteCmd
    BY <1>3, <2>1, <2>b, <2>2 DEF WritesInv
  <2>4. \E a \in 0 .. Issued' - 1 : Goes(a, c, x)'
    BY <1>1, <2>2, <2>3 DEF WriteInv
  <2>5. k > 1 => x.at = "queued"
    BY <2>2, <2>3 DEF WriteInv
  <2>6. x.at = "waits" => c \in ToSet(writeTagQ') \/ DataFor(c)'
    BY <1>2, <2>2, <2>3 DEF WriteInv
  <2>7. ASSUME Unread(c, k)'
        PROVE  /\ flush'.step = "pages" /\ x.addr < flush'.asked
               /\ \A a : a = flush'.seg * NumPages + x.addr => Goes(a, c, x)'
    <3>1. flush.step = "pages" /\ x.addr < flush.asked /\ Goes(flush.seg * NumPages + x.addr, c, x)
      BY <2>2, <2>3, <2>7 DEF WriteInv
    <3>2. flush' = flush
      BY <3>1
    <3>3. x.addr \in Nat
      BY <2>3 DEF WriteCmd
    <3>4. PICK a \in 0 .. Issued - 1 : a = flush.seg * NumPages + x.addr
      <4>1. x.addr \in 0 .. flush.asked - 1
        BY <3>1, <3>3
      <4> QED BY <3>1, <4>1
    <3>5. Goes(a, c, x)'
      BY <1>1, <3>1, <3>4
    <3> QED BY <3>1, <3>2, <3>4, <3>5
  <2>8. x.at = "data" => \A a \in 0 .. Issued' - 1 : Goes(a, c, x)' => Ok(a, x.data)'
    BY <1>1, <2>2, <2>3 DEF WriteInv
  <2>9. \A a : Goes(a, c, chipQ[c][k])' = Goes(a, c, x)'
    BY <2>2 DEF Goes
  <2>10. Unread(c, k)' => Goes(flush.seg * NumPages + chipQ[c][k].addr, c, chipQ[c][k])'
    BY <2>2, <2>7, <2>9
  <2> QED BY <2>2, <2>4, <2>5, <2>6, <2>7, <2>8, <2>9, <2>10 DEF WriteInv
<1>5. ASSUME NEW c \in Chips, NEW k \in Nat \ {0}, NEW l \in Nat \ {0}, WriteAt(c, k)', WriteAt(c, l)',
             SameVPage(chipQ'[c][k], chipQ'[c][l])
      PROVE  k = l \/ ErasedAgain(c, chipQ[c][k].block)'
  <2>1. PICK m \in 0 .. 1 : SameWrites(c, m)
    OBVIOUS
  <2>2. PICK i, j \in Nat \ {0} : i = k + m /\ j = l + m
    OBVIOUS
  <2>3. /\ WriteAt(c, i) /\ chipQ'[c][k] = chipQ[c][i]
        /\ WriteAt(c, j) /\ chipQ'[c][l] = chipQ[c][j]
    BY <1>5, <2>1, <2>2 DEF SameWrites
  <2>4. PICK b : b = chipQ[c][i].block /\ b = chipQ'[c][k].block
    BY <2>3
  <2>5. i = j \/ ErasedAgain(c, b)
    BY <1>5, <2>3, <2>4 DEF WritesInv
  <2>6. ErasedAgain(c, b) => ErasedAgain(c, b)'
    BY DEF ErasedStays
  <2>7. ErasedAgain(c, b)' => ErasedAgain(c, chipQ[c][k].block)'
    BY <2>4 DEF ErasedAgain
  <2> QED BY <2>2, <2>5, <2>6, <2>7
<1>12. ASSUME NEW c \in Chips, NEW k \in Nat \ {0}, NEW l \in Nat \ {0}, Unread(c, k)', Unread(c, l)',
              chipQ'[c][k].addr = chipQ'[c][l].addr
       PROVE  k = l
  <2>1. PICK m \in 0 .. 1 : SameWrites(c, m)
    OBVIOUS
  <2>2. PICK i, j \in Nat \ {0} : i = k + m /\ j = l + m
    OBVIOUS
  <2>3. /\ Unread(c, i) /\ chipQ'[c][k] = chipQ[c][i]
        /\ Unread(c, j) /\ chipQ'[c][l] = chipQ[c][j]
    <3>1. WriteAt(c, k)' /\ WriteAt(c, l)'
      BY <1>12 DEF Unread
    <3> QED BY <1>3, <1>12, <2>1, <2>2, <3>1 DEF SameWrites
  <2>4. i = j
    BY <1>12, <2>3 DEF WritesInv
  <2> QED BY <2>2, <2>4
<1>6. UnreadPages' = UnreadPages
  <2>1. ASSUME NEW c \in Chips, NEW k \in Nat \ {0}, Unread(c, k)'
        PROVE  \E j \in Nat \ {0} : Unread(c, j) /\ chipQ[c][j].addr = chipQ'[c][k].addr
    <3>1. PICK m \in 0 .. 1 : SameWrites(c, m)
      OBVIOUS
    <3>2. Unread(c, k + m) /\ WriteAt(c, k)' /\ k + m \in Nat \ {0}
      BY <1>3, <2>1, <3>1 DEF Unread
    <3> QED BY <3>1, <3>2 DEF SameWrites
  <2>2. ASSUME NEW c \in Chips, NEW j \in Nat \ {0}, Unread(c, j)
        PROVE  \E k \in Nat \ {0} : Unread(c, k)' /\ chipQ[c][j].addr = chipQ'[c][k].addr
    <3>1. PICK m \in 0 .. 1 : SameWrites(c, m)
      OBVIOUS
    <3>2. WriteAt(c, j) /\ j >= 1 /\ chipQ[c][j].at # "data"
      BY <2>2 DEF Unread, WriteAt
    <3>3. m = 1 => j # 1
      BY <3>1, <3>2 DEF SameWrites
    <3>4. PICK k \in Nat \ {0} : k + m = j
      <4>1. j - m \in Nat \ {0} /\ (j - m) + m = j
        BY <3>2, <3>3
      <4> QED BY <4>1
    <3>5. Unread(c, k)' /\ WriteAt(c, k)'
      BY <1>3, <2>2, <3>1, <3>2, <3>4 DEF SameWrites
    <3> QED BY <3>1, <3>4, <3>5 DEF SameWrites
  <2>3. \A c \in Chips : \A k : /\ Unread(c, k) => k \in 1 .. Len(chipQ[c]) /\ k \in Nat \ {0}
                                /\ Unread(c, k)' => k \in 1 .. Len(chipQ'[c]) /\ k \in Nat \ {0}
    BY DEF Unread, WriteAt
  <2>4. ASSUME NEW p PROVE p \in UnreadPages' => p \in UnreadPages
    BY <2>1, <2>3 DEF UnreadPages
  <2>5. ASSUME NEW p PROVE p \in UnreadPages => p \in UnreadPages'
    BY <2>2, <2>3 DEF UnreadPages
  <2> QED BY <2>4, <2>5
<1>7. flush'.step = "pages" => Cardinality(UnreadPages') = flush'.asked - flush'.read
  <2>1. CASE flush' = flush
    BY <1>6, <2>1 DEF WritesInv
  <2>2. CASE flush.step # "pages" /\ flush'.asked = 0 /\ flush'.read = 0
    <3>1. UnreadPages = {}
      <4> SUFFICES ASSUME NEW c \in Chips, NEW k \in 1 .. Len(chipQ[c]), Unread(c, k) PROVE FALSE
        BY DEF UnreadPages
      <4>1. WriteAt(c, k) /\ k \in Nat \ {0}
        BY DEF Unread
      <4>2. WriteInv(c, k)
        BY <4>1 DEF WritesInv
      <4> QED BY <2>2, <4>2 DEF WriteInv
    <3> QED BY <1>6, <2>2, <3>1, FS_EmptySet
  <2> QED BY <2>1, <2>2
<1>8. WritesInv'
  BY <1>4, <1>5, <1>7, <1>12 DEF WritesInv
<1>9. ASSUME NEW c \in Chips, WriteAt(c, 1), chipQ[c][1].at = "waits"
      PROVE  WriteAt(c, 1)' /\ chipQ'[c][1] = chipQ[c][1]
  <2>1. PICK m \in 0 .. 1 : SameWrites(c, m)
    OBVIOUS
  <2>2. m = 0
    BY <1>9, <2>1 DEF SameWrites
  <2>3. 1 \in Nat \ {0} /\ 1 + 0 = 1
    OBVIOUS
  <2> QED BY <1>9, <2>1, <2>2, <2>3 DEF SameWrites
<1>10. TagsInv'
  <2>1. ToSet(writeTagQ) \subseteq Chips
    BY ElementOfSeq DEF TagsInv, ToSet
  <2> QED BY <1>9, <2>1 DEF TagsInv
<1>11. DataToFlash'
  BY <1>1, <1>2, <1>9 DEF DataToFlash
<1> QED BY <1>8, <1>10, <1>11

(* What flash holds stays, but for the page of a dropped command and those *)
(* that are erased again.                                                  *)
FlashKept(c, m) ==
  \A a \in 0 .. Issued - 1 : ChipOf(a) = c =>
    \/ OnErasedAgain(a)'
    \/ flash'[c][PhysBlock(a)][PageOf(a)] =
         IF m = 1 /\ WriteAt(c, 1) /\ Goes(a, c, chipQ[c][1]) THEN chipQ[c][1].data
         ELSE flash[c][PhysBlock(a)][PageOf(a)]

LEMMA StoredStays ==
  ASSUME Stored, WritesInv, Issued' = Issued,
         \A a \in 0 .. Issued - 1 : PhysBlock(a)' = PhysBlock(a),
         \A a \in 0 .. Issued - 1 : \A data : Ok(a, data) => Ok(a, data)',
         \A c \in Chips : \E m \in 0 .. 1 : SameWrites(c, m) /\ FlashKept(c, m)
  PROVE  Stored'
<1> SUFFICES ASSUME NEW c \in Chips, NEW a \in 0 .. Issued - 1, ChipOf(a) = c,
                    ~ \E k \in 1 .. Len(chipQ'[c]) : WriteAt(c, k)' /\ Goes(a, c, chipQ[c][k])'
             PROVE  Ok(a, flash[c][PhysBlock(a)][PageOf(a)])'
  BY DEF Stored
<1>1. PICK m \in 0 .. 1 : SameWrites(c, m) /\ FlashKept(c, m)
  OBVIOUS
<1>2. PICK data : data = flash'[c][PhysBlock(a)'][PageOf(a)]
  OBVIOUS
<1> SUFFICES ASSUME ~ OnErasedAgain(a)' PROVE Ok(a, flash[c][PhysBlock(a)][PageOf(a)])'
  BY DEF Ok
<1>3. data = IF m = 1 /\ WriteAt(c, 1) /\ Goes(a, c, chipQ[c][1]) THEN chipQ[c][1].data
             ELSE flash[c][PhysBlock(a)][PageOf(a)]
  BY <1>1, <1>2 DEF FlashKept
<1>4. ASSUME NEW k \in 1 .. Len(chipQ[c]), WriteAt(c, k), Goes(a, c, chipQ[c][k])
      PROVE  m = 1 /\ k = 1
  <2> SUFFICES ASSUME m = 0 \/ k # 1 PROVE FALSE
    OBVIOUS
  <2>1. PICK j \in Nat \ {0} : j + m = k
    <3>1. k - m \in Nat \ {0} /\ (k - m) + m = k
      OBVIOUS
    <3> QED BY <3>1
  <2>2. WriteAt(c, j)' /\ chipQ'[c][j] = chipQ[c][k]
    BY <1>1, <1>4, <2>1 DEF SameWrites
  <2>3. j \in 1 .. Len(chipQ'[c]) /\ Goes(a, c, chipQ[c][j])'
    BY <1>4, <2>2 DEF WriteAt, Goes
  <2> QED BY <2>2, <2>3
<1>5. Ok(a, data)
  <2>1. CASE \E k \in 1 .. Len(chipQ[c]) : WriteAt(c, k) /\ Goes(a, c, chipQ[c][k])
    <3>1. m = 1 /\ WriteAt(c, 1) /\ Goes(a, c, chipQ[c][1])
      BY <1>4, <2>1
    <3>2. chipQ[c][1].at = "data"
      BY <1>1, <3>1 DEF SameWrites
    <3>3. WriteInv(c, 1)
      BY <3>1 DEF WritesInv
    <3> QED BY <1>3, <3>1, <3>2, <3>3 DEF WriteInv
  <2>2. CASE ~ \E k \in 1 .. Len(chipQ[c]) : WriteAt(c, k) /\ Goes(a, c, chipQ[c][k])
    <3>1. Ok(a, flash[c][PhysBlock(a)][PageOf(a)])
      BY <2>2 DEF Stored
    <3>2. ~ (WriteAt(c, 1) /\ Goes(a, c, chipQ[c][1]))
      BY <2>2 DEF WriteAt
    <3> QED BY <1>3, <3>1, <3>2
  <2> QED BY <2>1, <2>2
<1>6. Ok(a, data)'
  BY <1>5
<1>7. data = (flash[c][PhysBlock(a)][PageOf(a)])'
  BY <1>2
<1> QED BY <1>6, <1>7 DEF Ok

LEMMA PagesStay ==
  ASSUME ServerTypes, PagesIssued, IssuedMapped, Issued \in Nat, UNCHANGED << Issued, pagesWritten >>,
         nextErasePtr' \in [ Chips -> 0 .. Blocks - 1 ],
         \A c \in Chips : nextErasePtr[c] <= nextErasePtr'[c]
  PROVE  PagesIssued' /\ IssuedMapped'
<1>1. PagesIssued'
  BY DEF PagesIssued
<1>2. ASSUME NEW a \in 0 .. Issued' - 1 PROVE VBlock(a) < nextErasePtr'[ChipOf(a)]
  <2>1. a \in 0 .. Issued - 1 /\ a \in Nat
    OBVIOUS
  <2>2. VBlock(a) \in Nat /\ ChipOf(a) \in Chips
    BY <2>1, PlaceIs
  <2>3. PICK c \in Chips : c = ChipOf(a)
    BY <2>2
  <2>4. VBlock(a) < nextErasePtr[c] /\ nextErasePtr[c] <= nextErasePtr'[c]
    BY <2>1, <2>3 DEF IssuedMapped
  <2>5. nextErasePtr[c] \in Int /\ nextErasePtr'[c] \in Int
    BY DEF ServerTypes
  <2> QED BY <2>2, <2>3, <2>4, <2>5
<1> QED BY <1>1, <1>2 DEF IssuedMapped

(* The steps that issue no page and keep the places of those issued.       *)
LEMMA ProgramStays ==
  ASSUME WriterInv, ServerTypes, ProgramInv,
         UNCHANGED << Issued, pagesWritten, writeTagQ >>, ErasedStays,
         nextErasePtr' \in [ Chips -> 0 .. Blocks - 1 ],
         \A c \in Chips : nextErasePtr[c] <= nextErasePtr'[c],
         \/ flush' = flush
         \/ flush.step # "pages" /\ flush'.asked = 0 /\ flush'.read = 0,
         dataQ' = dataQ \/ \A c \in Chips : ~ DataFor(c) /\ ~ DataFor(c)',
         \A a \in 0 .. Issued - 1 : PhysBlock(a)' = PhysBlock(a),
         \A a \in 0 .. Issued - 1 : \A data : Ok(a, data) => Ok(a, data)',
         \A c \in Chips : \E m \in 0 .. 1 : SameWrites(c, m) /\ FlashKept(c, m),
         DataQTypes', ReadsBehindWrites'
  PROVE  ProgramInv'
<1>1. /\ PagesIssued /\ IssuedMapped /\ WritesInv /\ TagsInv /\ DataQTypes /\ DataToFlash
      /\ Stored /\ ReadsBehindWrites
  BY DEF ProgramInv
<1>2. PagesIssued' /\ IssuedMapped'
  BY <1>1, IssuedIs, PagesStay
<1>3. \A c \in Chips : \E m \in 0 .. 1 : SameWrites(c, m)
  OBVIOUS
<1>4. flush.step = "pages" => flush.asked \in Nat /\ \A p \in 0 .. flush.asked - 1 :
                                flush.seg * NumPages + p \in 0 .. Issued - 1
  <2> SUFFICES ASSUME flush.step = "pages"
               PROVE  flush.asked \in Nat /\ \A p \in 0 .. flush.asked - 1 :
                        flush.seg * NumPages + p \in 0 .. Issued - 1
    OBVIOUS
  <2>1. flush.step # "no"
    OBVIOUS
  <2>2. /\ flush.seg * NumPages \in Nat /\ Issued = flush.seg * NumPages + flush.asked
        /\ flush.asked \in 0 .. NumPages
    BY <2>1, IssuedIs, FlushIs
  <2>3. PICK x, k \in Nat : x = flush.seg * NumPages /\ k = flush.asked
    BY <2>2, PagesNat
  <2>4. Issued = x + k
    BY <2>2, <2>3
  <2> QED BY <2>3, <2>4
<1>5. \A c \in Chips : \A k \in Nat \ {0} : WriteAt(c, k) => chipQ[c][k] \in WriteCmd
  <2> SUFFICES ASSUME NEW c \in Chips, NEW k \in Nat \ {0}, WriteAt(c, k) PROVE chipQ[c][k] \in WriteCmd
    OBVIOUS
  <2>1. Queues
    BY DEF ServerTypes, Queues
  <2>2. chipQ[c][k] \in Cmd /\ chipQ[c][k].op = "WRITE_PAGE"
    BY <2>1, QueueIs DEF WriteAt
  <2> QED BY <2>2, CmdIs
<1>6. WritesInv' /\ TagsInv' /\ DataToFlash'
  <2>1. Issued' = Issued /\ writeTagQ' = writeTagQ
    OBVIOUS
  <2> QED BY <1>1, <1>3, <1>4, <1>5, <2>1, WritesStay
<1>7. Stored'
  BY <1>1, StoredStays
<1> QED BY <1>2, <1>6, <1>7 DEF ProgramInv

LEMMA ProgramFrame ==
  ASSUME WriterInv, ServerTypes, ProgramInv,
         UNCHANGED << Issued, chipQ, flash, pagesWritten, writeTagQ >>, ErasedStays,
         nextErasePtr' \in [ Chips -> 0 .. Blocks - 1 ],
         \A c \in Chips : nextErasePtr[c] <= nextErasePtr'[c],
         \/ flush' = flush
         \/ flush.step # "pages" /\ flush'.asked = 0 /\ flush'.read = 0,
         dataQ' = dataQ \/ \A c \in Chips : ~ DataFor(c) /\ ~ DataFor(c)',
         \A a \in 0 .. Issued - 1 : PhysBlock(a)' = PhysBlock(a),
         \A a \in 0 .. Issued - 1 : \A data : Ok(a, data) => Ok(a, data)',
         DataQTypes'
  PROVE  ProgramInv'
<1>1. ASSUME NEW c \in Chips PROVE SameWrites(c, 0) /\ FlashKept(c, 0)
  <2>1. \A k : WriteAt(c, k)' = WriteAt(c, k)
    BY DEF WriteAt
  <2>2. \A k \in Nat \ {0} : k + 0 = k
    OBVIOUS
  <2> QED BY <2>1, <2>2 DEF SameWrites, FlashKept
<1>2. \A c \in Chips : \E m \in 0 .. 1 : SameWrites(c, m) /\ FlashKept(c, m)
  <2>1. 0 \in 0 .. 1
    OBVIOUS
  <2> QED BY <1>1, <2>1
<1>3. ReadsBehindWrites'
  <2>1. ReadsBehindWrites
    BY DEF ProgramInv
  <2>2. ASSUME NEW c \in Chips, NEW k, ErasedAgain(c, chipQ[c][k].block)
        PROVE  ErasedAgain(c, chipQ[c][k].block)'
    <3>1. PICK b : b = chipQ[c][k].block /\ b = chipQ'[c][k].block
      OBVIOUS
    <3>2. ErasedAgain(c, b)'
      BY <2>2, <3>1 DEF ErasedStays
    <3> QED BY <3>1, <3>2 DEF ErasedAgain
  <2> QED BY <2>1, <2>2 DEF ReadsBehindWrites, WriteAt, ReadAt, SameVPage
<1>4. UNCHANGED << Issued, pagesWritten, writeTagQ >>
  OBVIOUS
<1> QED BY <1>2, <1>3, <1>4, ProgramStays

-----------------------------------------------------------------------------
(* The queues of commands again.                                           *)
LEMMA WriteCmdIs ==
  ASSUME ServerTypes, NEW c \in Chips, NEW k, WriteAt(c, k)
  PROVE  chipQ[c][k] \in WriteCmd /\ k \in 1 .. Len(chipQ[c]) /\ k \in Nat
<1>1. Queues
  BY DEF ServerTypes, Queues
<1>2. k \in 1 .. Len(chipQ[c]) /\ chipQ[c][k] \in Cmd /\ chipQ[c][k].op = "WRITE_PAGE"
  BY <1>1, QueueIs DEF WriteAt
<1> QED BY <1>2, CmdIs

LEMMA SameWritesIs ==
  ASSUME NEW d \in Chips, chipQ'[d] = chipQ[d]
  PROVE  SameWrites(d, 0)
<1>1. \A k : WriteAt(d, k)' = WriteAt(d, k)
  BY DEF WriteAt
<1>2. \A k \in Nat \ {0} : k + 0 = k
  OBVIOUS
<1> QED BY <1>1, <1>2 DEF SameWrites

LEMMA SentWrites ==
  ASSUME Queues, NEW c \in Chips, NEW cmd, Sent(c, cmd), cmd.op # "WRITE_PAGE", NEW d \in Chips
  PROVE  SameWrites(d, 0)
<1>1. \A k \in 1 .. Len(chipQ[d]) : k \in 1 .. Len(chipQ'[d]) /\ chipQ'[d][k] = chipQ[d][k]
  BY SentIs
<1>2. \A k \in 1 .. Len(chipQ'[d]) : k \in 1 .. Len(chipQ[d]) \/ (d = c /\ k = Len(chipQ[c]) + 1)
  BY SentIs
<1>3. chipQ'[c][Len(chipQ[c]) + 1] = cmd
  BY SentIs
<1>4. \A k : WriteAt(d, k)' = WriteAt(d, k)
  BY <1>1, <1>2, <1>3 DEF WriteAt
<1>5. \A k \in Nat \ {0} : k + 0 = k
  OBVIOUS
<1> QED BY <1>1, <1>4, <1>5 DEF SameWrites, WriteAt

LEMMA DoneWrites ==
  ASSUME Queues, NEW c \in Chips, Done(c), chipQ[c][1].op = "WRITE_PAGE" => chipQ[c][1].at = "data"
  PROVE  /\ SameWrites(c, 1)
         /\ \A d \in Chips : d # c => SameWrites(d, 0)
<1>1. /\ \A k \in 1 .. Len(chipQ'[c]) : k + 1 \in 1 .. Len(chipQ[c]) /\ chipQ'[c][k] = chipQ[c][k + 1]
      /\ Len(chipQ'[c]) = Len(chipQ[c]) - 1 /\ Len(chipQ[c]) \in Nat
      /\ \A d \in Chips : d # c => chipQ'[d] = chipQ[d]
  BY DoneIs
<1>2. ASSUME NEW k \in Nat \ {0}
      PROVE  /\ WriteAt(c, k)' = WriteAt(c, k + 1)
             /\ WriteAt(c, k)' => chipQ'[c][k] = chipQ[c][k + 1]
  <2>1. CASE k \in 1 .. Len(chipQ'[c])
    BY <1>1, <2>1 DEF WriteAt
  <2>2. CASE k \notin 1 .. Len(chipQ'[c])
    <3>1. k + 1 \in 1 .. Len(chipQ[c]) => k + 1 = 1
      BY <1>1, <2>2
    <3> QED BY <2>2, <3>1 DEF WriteAt
  <2> QED BY <2>1, <2>2
<1> QED BY <1>1, <1>2, SameWritesIs DEF SameWrites, WriteAt

(* What is on a block that was erased again is afterwards.                 *)
LEMMA ErasedKept ==
  ASSUME ErasedStays, NEW c \in Chips, NEW j
  PROVE  ErasedAgain(c, chipQ'[c][j].block) => ErasedAgain(c, chipQ[c][j].block)'
<1>1. PICK b : b = chipQ'[c][j].block
  OBVIOUS
<1>2. ErasedAgain(c, b) => ErasedAgain(c, b)'
  BY DEF ErasedStays
<1> QED BY <1>1, <1>2 DEF ErasedAgain

LEMMA ReadsBehindSent ==
  ASSUME Queues, ReadsBehindWrites, ErasedStays, NEW c \in Chips, NEW cmd, Sent(c, cmd),
         cmd.op = "WRITE_PAGE" =>
           \A k \in 1 .. Len(chipQ[c]) : ReadAt(c, k) /\ SameVPage(chipQ[c][k], cmd) =>
             ErasedAgain(c, cmd.block)
  PROVE  ReadsBehindWrites'
<1> SUFFICES ASSUME NEW d \in Chips, NEW k \in 1 .. Len(chipQ'[d]), NEW l \in 1 .. Len(chipQ'[d]),
                    k < l, ReadAt(d, k)', WriteAt(d, l)', SameVPage(chipQ'[d][k], chipQ'[d][l])
             PROVE  ErasedAgain(d, chipQ'[d][k].block)
  <2>1. \A d \in Chips : \A j :
          ErasedAgain(d, chipQ'[d][j].block) => ErasedAgain(d, chipQ[d][j].block)'
    BY ErasedKept
  <2> QED BY <2>1 DEF ReadsBehindWrites, SameVPage
<1>1. /\ \A j \in 1 .. Len(chipQ[d]) : chipQ'[d][j] = chipQ[d][j]
      /\ \A j \in 1 .. Len(chipQ'[d]) : j \in 1 .. Len(chipQ[d]) \/ (d = c /\ j = Len(chipQ[c]) + 1)
      /\ chipQ'[c][Len(chipQ[c]) + 1] = cmd /\ Len(chipQ[c]) \in Nat
      /\ Len(chipQ'[c]) = Len(chipQ[c]) + 1
  BY SentIs
<1>2. k \in 1 .. Len(chipQ[d])
  BY <1>1
<1>3. ReadAt(d, k) /\ chipQ'[d][k] = chipQ[d][k]
  BY <1>1, <1>2 DEF ReadAt
<1>4. CASE l \in 1 .. Len(chipQ[d])
  BY <1>1, <1>2, <1>3, <1>4 DEF ReadsBehindWrites, WriteAt
<1>5. CASE d = c /\ l = Len(chipQ[c]) + 1
  BY <1>1, <1>2, <1>3, <1>5 DEF WriteAt, SameVPage
<1> QED BY <1>1, <1>4, <1>5

LEMMA ReadsBehindDone ==
  ASSUME Queues, ReadsBehindWrites, ErasedStays, NEW c \in Chips, Done(c)
  PROVE  ReadsBehindWrites'
<1> SUFFICES ASSUME NEW d \in Chips, NEW k \in 1 .. Len(chipQ'[d]), NEW l \in 1 .. Len(chipQ'[d]),
                    k < l, ReadAt(d, k)', WriteAt(d, l)', SameVPage(chipQ'[d][k], chipQ'[d][l])
             PROVE  ErasedAgain(d, chipQ'[d][k].block)
  <2>1. \A d \in Chips : \A j :
          ErasedAgain(d, chipQ'[d][j].block) => ErasedAgain(d, chipQ[d][j].block)'
    BY ErasedKept
  <2> QED BY <2>1 DEF ReadsBehindWrites, SameVPage
<1>1. CASE d # c
  <2>1. chipQ'[d] = chipQ[d]
    BY <1>1, DoneIs
  <2> QED BY <2>1 DEF ReadsBehindWrites, ReadAt, WriteAt
<1>2. CASE d = c
  <2>1. \A j \in 1 .. Len(chipQ'[c]) : j + 1 \in 1 .. Len(chipQ[c]) /\ chipQ'[c][j] = chipQ[c][j + 1]
    BY DoneIs
  <2>2. PICK i, j \in 1 .. Len(chipQ[c]) : i = k + 1 /\ j = l + 1 /\ i < j
    BY <1>2, <2>1
  <2>3. chipQ'[d][k] = chipQ[c][i] /\ chipQ'[d][l] = chipQ[c][j]
    BY <1>2, <2>1, <2>2
  <2> QED BY <1>2, <2>2, <2>3 DEF ReadsBehindWrites, ReadAt, WriteAt
<1> QED BY <1>1, <1>2

LEMMA ReadsBehindTurned ==
  ASSUME Queues, ReadsBehindWrites, ErasedStays, NEW c \in Chips, NEW cmd, Turned(c, cmd),
         chipQ[c][1].op = "WRITE_PAGE", cmd.op = "WRITE_PAGE"
  PROVE  ReadsBehindWrites'
<1> SUFFICES ASSUME NEW d \in Chips, NEW k \in 1 .. Len(chipQ'[d]), NEW l \in 1 .. Len(chipQ'[d]),
                    k < l, ReadAt(d, k)', WriteAt(d, l)', SameVPage(chipQ'[d][k], chipQ'[d][l])
             PROVE  ErasedAgain(d, chipQ'[d][k].block)
  <2>1. \A d \in Chips : \A j :
          ErasedAgain(d, chipQ'[d][j].block) => ErasedAgain(d, chipQ[d][j].block)'
    BY ErasedKept
  <2> QED BY <2>1 DEF ReadsBehindWrites, SameVPage
<1>1. /\ Len(chipQ'[d]) = Len(chipQ[d]) /\ chipQ'[c][1] = cmd
      /\ \A j \in 1 .. Len(chipQ[d]) : d # c \/ j # 1 => chipQ'[d][j] = chipQ[d][j]
  BY TurnedIs
<1>2. ~ (d = c /\ k = 1)
  BY <1>1 DEF ReadAt
<1>3. ~ (d = c /\ l = 1)
  OBVIOUS
<1>4. chipQ'[d][k] = chipQ[d][k] /\ chipQ'[d][l] = chipQ[d][l]
  BY <1>1, <1>2, <1>3
<1> QED BY <1>1, <1>4 DEF ReadsBehindWrites, ReadAt, WriteAt

(* Commands that do not write come and go.                                 *)
writer_view == << flushReqQ, flush, superPageCnt, wrote, early, dataQ, writeTagQ >>

LEMMA ProgramSent ==
  ASSUME WriterInv, ServerTypes, ProgramInv, NEW c \in Chips, NEW cmd, Sent(c, cmd),
         cmd.op # "WRITE_PAGE",
         UNCHANGED << writer_view, flash, pagesWritten, map_view >>
  PROVE  ProgramInv'
<1>1. Queues
  BY DEF ServerTypes, Queues
<1>2. ASSUME NEW d \in Chips PROVE SameWrites(d, 0) /\ FlashKept(d, 0)
  BY <1>1, SentWrites DEF FlashKept
<1>3. \A d \in Chips : \E m \in 0 .. 1 : SameWrites(d, m) /\ FlashKept(d, m)
  <2>1. 0 \in 0 .. 1
    OBVIOUS
  <2> QED BY <1>2, <2>1
<1>0. ErasedStays
  BY StaysSame
<1>4. ReadsBehindWrites'
  BY <1>0, <1>1, ReadsBehindSent DEF ProgramInv
<1>5. UNCHANGED << Issued, pagesWritten, writeTagQ >> /\ flush' = flush /\ dataQ' = dataQ
  BY DEF writer_view, Issued
<1>6. \A a : PhysBlock(a)' = PhysBlock(a) /\ \A data : Ok(a, data)' = Ok(a, data)
  BY OkSame DEF writer_view, PhysBlock, map_view
<1>7. DataQTypes'
  BY <1>5 DEF ProgramInv, DataQTypes
<1>8. /\ nextErasePtr' \in [ Chips -> 0 .. Blocks - 1 ]
      /\ \A d \in Chips : nextErasePtr[d] <= nextErasePtr'[d]
  BY DEF ServerTypes, map_view
<1> QED BY <1>0, <1>3, <1>4, <1>5, <1>6, <1>7, <1>8, ProgramStays

LEMMA ProgramDone ==
  ASSUME WriterInv, ServerTypes, ProgramInv, NEW c \in Chips, Done(c),
         chipQ[c][1].op = "WRITE_PAGE" => chipQ[c][1].at = "data",
         UNCHANGED << writer_view, pagesWritten, nextErasePtr, blockMap >>, ErasedStays,
         FlashKept(c, 1), \A d \in Chips : d # c => FlashKept(d, 0)
  PROVE  ProgramInv'
<1>1. Queues
  BY DEF ServerTypes, Queues
<1>2. SameWrites(c, 1) /\ \A d \in Chips : d # c => SameWrites(d, 0)
  BY <1>1, DoneWrites
<1>3. ASSUME NEW d \in Chips PROVE \E m \in 0 .. 1 : SameWrites(d, m) /\ FlashKept(d, m)
  <2>1. 0 \in 0 .. 1 /\ 1 \in 0 .. 1
    OBVIOUS
  <2>2. CASE d = c
    BY <1>2, <2>1, <2>2
  <2>3. CASE d # c
    BY <1>2, <2>1, <2>3
  <2> QED BY <2>2, <2>3
<1>4. ReadsBehindWrites'
  BY <1>1, ReadsBehindDone DEF ProgramInv
<1>5. UNCHANGED << Issued, pagesWritten, writeTagQ >> /\ flush' = flush /\ dataQ' = dataQ
  BY DEF writer_view, Issued
<1>6. \A a \in 0 .. Issued - 1 :
        PhysBlock(a)' = PhysBlock(a) /\ \A data : Ok(a, data) => Ok(a, data)'
  <2>1. \A a : PhysBlock(a)' = PhysBlock(a)
    BY DEF PhysBlock
  <2> QED BY <2>1, IssuedIs, OkEarlier DEF writer_view
<1>7. DataQTypes'
  BY <1>5 DEF ProgramInv, DataQTypes
<1>8. /\ nextErasePtr' \in [ Chips -> 0 .. Blocks - 1 ]
      /\ \A d \in Chips : nextErasePtr[d] <= nextErasePtr'[d]
  BY DEF ServerTypes
<1> QED BY <1>3, <1>4, <1>5, <1>6, <1>7, <1>8, ProgramStays

LEMMA IssuedIsMapped ==
  ASSUME ServerTypes, IssuedMapped, Issued \in Nat, NEW a \in 0 .. Issued - 1
  PROVE  /\ a \in Nat /\ VBlock(a) < nextErasePtr[ChipOf(a)] /\ VBlock(a) \in Nat
         /\ BlockOf(a) = VBlock(a) /\ BlockOf(a) \in 0 .. nextErasePtr[ChipOf(a)] - 1
         /\ PhysBlock(a) \in Mapped(ChipOf(a)) /\ PhysBlock(a) \in 0 .. Blocks - 1
         /\ ChipOf(a) \in Chips /\ PageOf(a) \in 0 .. PagesPerBlock - 1
<1>1. a \in Nat /\ VBlock(a) < nextErasePtr[ChipOf(a)] /\ VBlock(a) \in Nat /\ ChipOf(a) \in Chips
      /\ PageOf(a) \in 0 .. PagesPerBlock - 1
  BY PlaceIs DEF IssuedMapped
<1>2. nextErasePtr[ChipOf(a)] \in 0 .. Blocks - 1
  BY <1>1 DEF ServerTypes
<1>3. VBlock(a) < Blocks
  BY <1>1, <1>2, PagesNat
<1>4. BlockOf(a) = VBlock(a) /\ BlockOf(a) \in 0 .. nextErasePtr[ChipOf(a)] - 1
  BY <1>1, <1>2, <1>3, PlaceIs
<1>5. PhysBlock(a) \in Mapped(ChipOf(a))
  BY <1>4 DEF PhysBlock, Mapped
<1>6. BlockOf(a) \in 0 .. Blocks - 1
  BY <1>1, <1>3, <1>4, PagesNat
<1>7. PhysBlock(a) \in 0 .. Blocks - 1
  <2>1. blockMap \in [ Chips -> [ 0 .. Blocks - 1 -> 0 .. Blocks - 1 ] ]
    BY DEF ServerTypes
  <2> QED BY <1>1, <1>6, <2>1 DEF PhysBlock
<1> QED BY <1>1, <1>4, <1>5, <1>7

LEMMA EraseBlockProgram ==
  ASSUME WriterInv, ErasePtrsInv, ProgramInv, NEW c \in Chips, EraseBlock(c), UNCHANGED store_vars
  PROVE  ProgramInv'
<1>1. /\ Done(c) /\ chipQ[c][1] \in EraseCmd /\ chipQ[c][1].block = nextPhysPtr[c]
      /\ ErasedStays /\ \A b : b = nextPhysPtr[c] /\ b \in Mapped(c) => ErasedAgain(c, b)'
  BY EraseBlockErase
<1>2. PICK b : b = nextPhysPtr[c]
  OBVIOUS
<1>3. Queues /\ ServerTypes
  BY DEF ErasePtrsInv, ServerTypes, Queues
<1>4. chipQ[c][1].op = "ERASE_BLOCK" /\ Head(chipQ[c]) = chipQ[c][1]
  BY <1>1, <1>3, DoneIs DEF EraseCmd
<1>5. flash' = [ flash EXCEPT ![c][b] = [ p \in DOMAIN @ |-> << >> ] ]
  BY <1>1, <1>2, <1>4 DEF EraseBlock
<1>6. b \in Mapped(c) => ErasedAgain(c, b)'
  BY <1>1, <1>2
<1>10. UNCHANGED << writer_view, pagesWritten, nextErasePtr, blockMap >>
  BY DEF EraseBlock, store_vars, write_vars, flush_vars, eraser, writer_view
<1>7. ASSUME NEW a \in 0 .. Issued - 1, ~ OnErasedAgain(a)'
      PROVE  flash'[ChipOf(a)][PhysBlock(a)] = flash[ChipOf(a)][PhysBlock(a)]
  <2>1. /\ ChipOf(a) \in Chips /\ PhysBlock(a) \in 0 .. Blocks - 1
        /\ PhysBlock(a) \in Mapped(ChipOf(a))
    BY <1>3, IssuedIs, IssuedIsMapped DEF ProgramInv
  <2>2. flash \in [ Chips -> [ 0 .. Blocks - 1 -> [ 0 .. PagesPerBlock - 1 -> Data ] ] ]
    BY <1>3 DEF ServerTypes
  <2>3. ~ (ChipOf(a) = c /\ PhysBlock(a) = b)
    <3> SUFFICES ASSUME ChipOf(a) = c, PhysBlock(a) = b PROVE FALSE
      OBVIOUS
    <3>1. ErasedAgain(c, b)' /\ PhysBlock(a)' = b
      BY <1>6, <1>10, <2>1 DEF PhysBlock
    <3>2. OnErasedAgain(a)'
      BY <3>1 DEF OnErasedAgain
    <3> QED BY <1>7, <3>2
  <2> QED BY <1>5, <2>1, <2>2, <2>3
<1>8. ~ WriteAt(c, 1)
  BY <1>4 DEF WriteAt
<1>9. FlashKept(c, 1) /\ \A d \in Chips : d # c => FlashKept(d, 0)
  BY <1>7, <1>8 DEF FlashKept
<1> QED BY <1>1, <1>3, <1>4, <1>9, <1>10, ProgramDone

LEMMA WriteAckProgram ==
  ASSUME WriterInv, ErasePtrsInv, ProgramInv, NEW c \in Chips, doWriteAck(c)
  PROVE  ProgramInv' /\ Done(c) /\ chipQ[c][1] \in WriteCmd
<1>1. Queues /\ ServerTypes
  BY DEF ErasePtrsInv, ServerTypes, Queues
<1>2. chipQ[c] # << >> /\ Head(chipQ[c]) = chipQ[c][1] /\ 1 \in 1 .. Len(chipQ[c])
  BY <1>1, QueueIs DEF doWriteAck, Current
<1>3. PICK x : x = chipQ[c][1]
  OBVIOUS
<1>4. /\ x.op = "WRITE_PAGE" /\ x.at = "data" /\ Done(c)
      /\ flash' = [ flash EXCEPT ![c][x.block][x.page] = x.data ]
  BY <1>2, <1>3 DEF doWriteAck, Current, Done
<1>5. WriteAt(c, 1) /\ x \in WriteCmd
  BY <1>1, <1>2, <1>3, <1>4, WriteCmdIs DEF WriteAt
<1>6. x.block \in 0 .. Blocks - 1 /\ x.page \in 0 .. PagesPerBlock - 1
  BY <1>5 DEF WriteCmd
<1>7. flash \in [ Chips -> [ 0 .. Blocks - 1 -> [ 0 .. PagesPerBlock - 1 -> Data ] ] ]
  BY <1>1 DEF ServerTypes
<1>8. ASSUME NEW d \in Chips, NEW a \in 0 .. Issued - 1, ChipOf(a) = d
      PROVE  flash'[d][PhysBlock(a)][PageOf(a)] =
               IF d = c /\ PhysBlock(a) = x.block /\ PageOf(a) = x.page THEN x.data
               ELSE flash[d][PhysBlock(a)][PageOf(a)]
  <2>1. PhysBlock(a) \in 0 .. Blocks - 1 /\ PageOf(a) \in 0 .. PagesPerBlock - 1
    BY <1>1, IssuedIs, IssuedIsMapped DEF ProgramInv
  <2> QED BY <1>4, <1>6, <1>7, <2>1
<1>9. FlashKept(c, 1)
  BY <1>3, <1>5, <1>8 DEF FlashKept, Goes
<1>10. \A d \in Chips : d # c => FlashKept(d, 0)
  BY <1>8 DEF FlashKept
<1>11. UNCHANGED << writer_view, pagesWritten, nextErasePtr, blockMap >>
  BY DEF doWriteAck, store_vars, write_vars, flush_vars, eraser, writer_view
<1>13. ErasedStays
  BY StaysSame DEF doWriteAck, eraser, map_view
<1>12. chipQ[c][1].op = "WRITE_PAGE" => chipQ[c][1].at = "data"
  BY <1>3, <1>4
<1> QED BY <1>1, <1>3, <1>4, <1>5, <1>9, <1>10, <1>11, <1>12, <1>13, ProgramDone

(* A command at the head of its queue gets on.                             *)
LEMMA TurnedSame ==
  ASSUME ServerTypes, NEW c \in Chips, chipQ[c][1] \in WriteCmd, NEW y \in WriteCmd, Turned(c, y),
         y.addr = chipQ[c][1].addr, y.block = chipQ[c][1].block, y.page = chipQ[c][1].page
  PROVE  \A d \in Chips : \A k :
           /\ WriteAt(d, k)' = WriteAt(d, k)
           /\ WriteAt(d, k) => /\ chipQ'[d][k].addr = chipQ[d][k].addr
                               /\ chipQ'[d][k].block = chipQ[d][k].block
                               /\ chipQ'[d][k].page = chipQ[d][k].page
                               /\ d # c \/ k # 1 => chipQ'[d][k] = chipQ[d][k]
<1>1. Queues
  BY DEF ServerTypes, Queues
<1>2. chipQ[c][1].op = "WRITE_PAGE" /\ y.op = "WRITE_PAGE"
  BY DEF WriteCmd
<1> SUFFICES ASSUME NEW d \in Chips, NEW k
             PROVE  /\ WriteAt(d, k)' = WriteAt(d, k)
                    /\ WriteAt(d, k) => /\ chipQ'[d][k].addr = chipQ[d][k].addr
                                        /\ chipQ'[d][k].block = chipQ[d][k].block
                                        /\ chipQ'[d][k].page = chipQ[d][k].page
                                        /\ d # c \/ k # 1 => chipQ'[d][k] = chipQ[d][k]
  OBVIOUS
<1>3. /\ Len(chipQ'[d]) = Len(chipQ[d]) /\ chipQ'[c][1] = y
      /\ \A j \in 1 .. Len(chipQ[d]) : d # c \/ j # 1 => chipQ'[d][j] = chipQ[d][j]
  BY <1>1, TurnedIs
<1>4. CASE d = c /\ k = 1
  BY <1>2, <1>3, <1>4 DEF WriteAt
<1>5. CASE d # c \/ k # 1
  BY <1>3, <1>5 DEF WriteAt
<1> QED BY <1>4, <1>5

LEMMA ProgramTurned ==
  ASSUME WriterInv, ServerTypes, ProgramInv, NEW c \in Chips, WriteAt(c, 1),
         NEW y \in WriteCmd, Turned(c, y),
         y.addr = chipQ[c][1].addr, y.block = chipQ[c][1].block, y.page = chipQ[c][1].page,
         UNCHANGED << flushReqQ, flush, superPageCnt, wrote, early, flash, pagesWritten,
                      map_view >>,
         TagsInv', DataQTypes', DataToFlash',
         y.at = "waits" => c \in ToSet(writeTagQ') \/ DataFor(c)',
         \A d \in Chips : \A k : Unread(d, k)' = Unread(d, k),
         \A d \in Chips : d # c /\ (d \in ToSet(writeTagQ) \/ DataFor(d)) =>
                            d \in ToSet(writeTagQ') \/ DataFor(d)',
         y.at = "data" => \A a \in 0 .. Issued - 1 : Goes(a, c, chipQ[c][1]) => Ok(a, y.data)
  PROVE  ProgramInv'
<1>0. ErasedStays
  BY StaysSame
<1>1. /\ PagesIssued /\ IssuedMapped /\ WritesInv /\ TagsInv /\ DataQTypes /\ DataToFlash
      /\ Stored /\ ReadsBehindWrites
  BY DEF ProgramInv
<1>2. Issued' = Issued /\ Issued \in Nat /\ UNCHANGED << flush, pagesWritten >>
  BY IssuedIs DEF Issued
<1>3. \A a : PhysBlock(a)' = PhysBlock(a) /\ \A data : Ok(a, data)' = Ok(a, data)
  BY OkSame DEF PhysBlock, map_view
<1>4. PagesIssued' /\ IssuedMapped'
  BY <1>1, <1>2 DEF PagesIssued, IssuedMapped, map_view
<1>5. chipQ[c][1] \in WriteCmd /\ Queues
  BY WriteCmdIs DEF ServerTypes, Queues
<1>6. \A d \in Chips : \A k :
        /\ WriteAt(d, k)' = WriteAt(d, k)
        /\ WriteAt(d, k) => /\ chipQ'[d][k].addr = chipQ[d][k].addr
                            /\ chipQ'[d][k].block = chipQ[d][k].block
                            /\ chipQ'[d][k].page = chipQ[d][k].page
                            /\ d # c \/ k # 1 => chipQ'[d][k] = chipQ[d][k]
  BY <1>5, TurnedSame
<1>7. \A a : \A d \in Chips : \A k : WriteAt(d, k) => Goes(a, d, chipQ[d][k])' = Goes(a, d, chipQ[d][k])
  <2> TAKE a
  <2> TAKE d \in Chips
  <2> TAKE k
  <2> QED BY <1>3, <1>6 DEF Goes
<1>8. ASSUME NEW d \in Chips, NEW k \in Nat \ {0}, WriteAt(d, k)' PROVE WriteInv(d, k)'
  <2>1. WriteAt(d, k) /\ WriteInv(d, k)
    BY <1>1, <1>6, <1>8 DEF WritesInv
  <2>2. \E a \in 0 .. Issued' - 1 : Goes(a, d, chipQ[d][k])'
    BY <1>2, <1>7, <2>1 DEF WriteInv
  <2>3. ASSUME k > 1 PROVE chipQ'[d][k].at = "queued"
    BY <1>6, <2>1, <2>3 DEF WriteInv
  <2>4. ASSUME chipQ'[d][k].at = "waits" PROVE d \in ToSet(writeTagQ') \/ DataFor(d)'
    <3>1. CASE d = c
      <4>1. k = 1
        BY <2>3, <2>4
      <4>2. chipQ'[d][k] = y
        BY <1>5, <3>1, <4>1, TurnedIs
      <4> QED BY <2>4, <3>1, <4>2
    <3>2. CASE d # c
      BY <1>6, <2>1, <2>4, <3>2 DEF WriteInv
    <3> QED BY <3>1, <3>2
  <2>5. ASSUME Unread(d, k)'
        PROVE  /\ flush'.step = "pages" /\ chipQ'[d][k].addr < flush'.asked
               /\ Goes(flush.seg * NumPages + chipQ[d][k].addr, d, chipQ[d][k])'
    <3>1. Unread(d, k)
      BY <2>5
    <3>2. PICK a : a = flush.seg * NumPages + chipQ[d][k].addr
      OBVIOUS
    <3>3. flush.step = "pages" /\ chipQ[d][k].addr < flush.asked /\ Goes(a, d, chipQ[d][k])
      BY <2>1, <3>1, <3>2 DEF WriteInv
    <3>4. Goes(a, d, chipQ[d][k])'
      BY <1>7, <2>1, <3>3
    <3>5. a = (flush.seg * NumPages + chipQ[d][k].addr)'
      BY <1>2, <1>6, <2>1, <3>2
    <3> QED BY <1>2, <1>6, <2>1, <3>3, <3>4, <3>5 DEF Goes
  <2>6. ASSUME chipQ'[d][k].at = "data", NEW a \in 0 .. Issued' - 1, Goes(a, d, chipQ[d][k])'
        PROVE  Ok(a, chipQ[d][k].data)'
    <3>0. a \in 0 .. Issued - 1 /\ Goes(a, d, chipQ[d][k])
      BY <1>2, <1>7, <2>1, <2>6
    <3>a. PICK data : data = chipQ'[d][k].data
      OBVIOUS
    <3>1. Ok(a, data)
      <4>1. CASE d = c /\ k = 1
        <5>1. chipQ'[d][k] = y
          BY <1>5, <4>1, TurnedIs
        <5> QED BY <2>6, <3>0, <3>a, <4>1, <5>1
      <4>2. CASE d # c \/ k # 1
        <5>1. chipQ'[d][k] = chipQ[d][k]
          BY <1>6, <2>1, <4>2
        <5> QED BY <2>1, <2>6, <3>0, <3>a, <5>1 DEF WriteInv
      <4> QED BY <4>1, <4>2
    <3>2. Ok(a, data)'
      BY <1>3, <3>1
    <3> QED BY <3>a, <3>2 DEF Ok
  <2> QED BY <2>2, <2>3, <2>4, <2>5, <2>6 DEF WriteInv
<1>9. ASSUME NEW d \in Chips, NEW k \in Nat \ {0}, NEW l \in Nat \ {0}, WriteAt(d, k)', WriteAt(d, l)',
             SameVPage(chipQ'[d][k], chipQ'[d][l])
      PROVE  k = l \/ ErasedAgain(d, chipQ[d][k].block)'
  <2>1. WriteAt(d, k) /\ WriteAt(d, l) /\ SameVPage(chipQ[d][k], chipQ[d][l])
    BY <1>6, <1>9 DEF SameVPage
  <2>2. k = l \/ ErasedAgain(d, chipQ[d][k].block)
    BY <1>1, <2>1 DEF WritesInv
  <2>3. chipQ'[d][k].block = chipQ[d][k].block
    BY <1>6, <2>1
  <2>4. ErasedAgain(d, chipQ[d][k].block) => ErasedAgain(d, chipQ[d][k].block)'
    BY <1>0, <2>3, ErasedKept
  <2> QED BY <2>2, <2>4
<1>14. ASSUME NEW d \in Chips, NEW k \in Nat \ {0}, NEW l \in Nat \ {0}, Unread(d, k)', Unread(d, l)',
              chipQ'[d][k].addr = chipQ'[d][l].addr
       PROVE  k = l
  <2>1. Unread(d, k) /\ Unread(d, l) /\ WriteAt(d, k) /\ WriteAt(d, l)
    BY <1>14 DEF Unread
  <2>2. chipQ[d][k].addr = chipQ[d][l].addr
    BY <1>6, <1>14, <2>1
  <2> QED BY <1>1, <2>1, <2>2 DEF WritesInv
<1>10. UnreadPages' = UnreadPages
  <2>1. \A d \in Chips : \A k : Unread(d, k) => /\ chipQ'[d][k].addr = chipQ[d][k].addr
                                                /\ k \in 1 .. Len(chipQ[d])
    BY <1>6 DEF Unread, WriteAt
  <2>2. \A d \in Chips : Len(chipQ'[d]) = Len(chipQ[d])
    BY <1>5, TurnedIs
  <2> QED BY <2>1, <2>2 DEF UnreadPages
<1>11. WritesInv'
  BY <1>1, <1>2, <1>8, <1>9, <1>10, <1>14 DEF WritesInv
<1>12. Stored'
  <2> SUFFICES ASSUME NEW d \in Chips, NEW a \in 0 .. Issued - 1, ChipOf(a) = d
               PROVE  \/ \E k \in 1 .. Len(chipQ'[d]) : WriteAt(d, k)' /\ Goes(a, d, chipQ[d][k])'
                      \/ Ok(a, flash[d][PhysBlock(a)][PageOf(a)])'
    BY <1>2 DEF Stored
  <2>1. Len(chipQ'[d]) = Len(chipQ[d])
    BY <1>5, TurnedIs
  <2>2. CASE \E k \in 1 .. Len(chipQ[d]) : WriteAt(d, k) /\ Goes(a, d, chipQ[d][k])
    <3>1. PICK k \in 1 .. Len(chipQ[d]) : WriteAt(d, k) /\ Goes(a, d, chipQ[d][k])
      BY <2>2
    <3>2. WriteAt(d, k)'
      BY <1>6, <3>1
    <3>3. Goes(a, d, chipQ[d][k])' = Goes(a, d, chipQ[d][k])
      BY <1>7, <3>1
    <3> QED BY <2>1, <3>1, <3>2, <3>3
  <2>3. CASE Ok(a, flash[d][PhysBlock(a)][PageOf(a)])
    <3>1. PICK data : data = flash[d][PhysBlock(a)][PageOf(a)]
      OBVIOUS
    <3>2. Ok(a, data)'
      BY <1>3, <2>3, <3>1
    <3>3. data = (flash[d][PhysBlock(a)][PageOf(a)])'
      BY <1>3, <3>1
    <3> QED BY <3>2, <3>3 DEF Ok
  <2> QED BY <1>1, <2>2, <2>3 DEF Stored
<1>13. ReadsBehindWrites'
  BY <1>0, <1>1, <1>5, ReadsBehindTurned DEF WriteCmd
<1> QED BY <1>4, <1>11, <1>12, <1>13 DEF ProgramInv

LEMMA TagsProgram ==
  ASSUME WriterInv, ErasePtrsInv, ProgramInv, NEW c \in Chips, writeTags(c)
  PROVE  /\ ProgramInv'
         /\ \E y \in WriteCmd : Turned(c, y) /\ chipQ[c][1] \in WriteCmd
<1>1. Queues /\ ServerTypes /\ WritesInv /\ TagsInv /\ DataQTypes /\ DataToFlash
  BY DEF ErasePtrsInv, ServerTypes, Queues, ProgramInv
<1>2. chipQ[c] # << >> /\ Head(chipQ[c]) = chipQ[c][1] /\ 1 \in 1 .. Len(chipQ[c])
  BY <1>1, QueueIs DEF writeTags, Current
<1>3. PICK x : x = chipQ[c][1]
  OBVIOUS
<1>4. /\ x.op = "WRITE_PAGE" /\ x.at = "queued"
      /\ chipQ' = [ chipQ EXCEPT ![c][1].at = "waits" ]
      /\ writeTagQ' = Append(writeTagQ, c)
  BY <1>2, <1>3 DEF writeTags, Current
<1>5. WriteAt(c, 1) /\ x \in WriteCmd
  BY <1>1, <1>2, <1>3, <1>4, WriteCmdIs DEF WriteAt
<1>6. PICK y : y = [ x EXCEPT !.at = "waits" ]
  OBVIOUS
<1>7. /\ y \in WriteCmd /\ y.at = "waits" /\ y.op = x.op
      /\ y.addr = x.addr /\ y.block = x.block /\ y.page = x.page
  BY <1>5, <1>6 DEF WriteCmd
<1>8. chipQ' = [ chipQ EXCEPT ![c] = [ @ EXCEPT ![1] = y ] ]
  BY <1>3, <1>4, <1>6
<1>9. Turned(c, y)
  BY <1>2, <1>7, <1>8 DEF Turned, Cmd
<1>10. \A d \in Chips : \A k :
         /\ WriteAt(d, k)' = WriteAt(d, k)
         /\ WriteAt(d, k) /\ (d # c \/ k # 1) => chipQ'[d][k] = chipQ[d][k]
  BY <1>1, <1>3, <1>5, <1>7, <1>9, TurnedSame
<1>11. chipQ'[c][1] = y
  BY <1>1, <1>9, TurnedIs
<1>12. /\ writeTagQ' \in Seq(Chips) /\ Len(writeTagQ') = Len(writeTagQ) + 1 /\ Len(writeTagQ) \in Nat
       /\ writeTagQ'[Len(writeTagQ) + 1] = c
       /\ \A k \in 1 .. Len(writeTagQ) : writeTagQ'[k] = writeTagQ[k]
  BY <1>1, <1>4, AppendIs DEF TagsInv
<1>13. \A d : d \in ToSet(writeTagQ') <=> (d \in ToSet(writeTagQ) \/ d = c)
  <2>1. \A k \in 1 .. Len(writeTagQ) + 1 : k \in 1 .. Len(writeTagQ) \/ k = Len(writeTagQ) + 1
    BY <1>12
  <2>2. ToSet(writeTagQ') = { writeTagQ'[k] : k \in 1 .. Len(writeTagQ) + 1 }
    BY <1>12 DEF ToSet
  <2>3. ToSet(writeTagQ) = { writeTagQ[k] : k \in 1 .. Len(writeTagQ) }
    BY <1>1 DEF ToSet, TagsInv
  <2>4. \A k \in 1 .. Len(writeTagQ) : k \in 1 .. Len(writeTagQ) + 1
    BY <1>12
  <2>5. Len(writeTagQ) + 1 \in 1 .. Len(writeTagQ) + 1
    BY <1>12
  <2> QED BY <1>12, <2>1, <2>2, <2>3, <2>4, <2>5
<1>14. c \notin ToSet(writeTagQ) /\ ~ DataFor(c)
  BY <1>1, <1>3, <1>4 DEF TagsInv, DataToFlash
<1>15. UNCHANGED << flushReqQ, flush, superPageCnt, wrote, early, flash, pagesWritten,
                    map_view, dataQ >>
  BY DEF writeTags, write_vars, eraser, map_view
<1>16. TagsInv'
  <2>1. ASSUME NEW d \in ToSet(writeTagQ') PROVE WriteAt(d, 1)' /\ chipQ'[d][1].at = "waits"
    <3>1. CASE d = c
      BY <1>5, <1>7, <1>10, <1>11, <3>1
    <3>2. CASE d # c
      <4>1. d \in ToSet(writeTagQ) /\ d \in Chips
        <5>1. ToSet(writeTagQ) \subseteq Chips
          BY <1>1, ElementOfSeq DEF TagsInv, ToSet
        <5> QED BY <1>13, <3>2, <5>1
      <4> QED BY <1>1, <1>10, <3>2, <4>1 DEF TagsInv
    <3> QED BY <3>1, <3>2
  <2>2. ASSUME NEW j \in 1 .. Len(writeTagQ'), NEW l \in 1 .. Len(writeTagQ'),
               writeTagQ'[j] = writeTagQ'[l]
        PROVE  j = l
    <3>1. \A k \in 1 .. Len(writeTagQ) + 1 : k \in 1 .. Len(writeTagQ) \/ k = Len(writeTagQ) + 1
      BY <1>12
    <3>2. \A k \in 1 .. Len(writeTagQ) : writeTagQ'[k] # c
      <4>1. \A k \in 1 .. Len(writeTagQ) : writeTagQ[k] \in ToSet(writeTagQ)
        BY <1>1 DEF ToSet, TagsInv
      <4> QED BY <1>12, <1>14, <4>1
    <3>3. CASE j \in 1 .. Len(writeTagQ) /\ l \in 1 .. Len(writeTagQ)
      BY <1>1, <1>12, <2>2, <3>3 DEF TagsInv
    <3> QED BY <1>12, <2>2, <3>1, <3>2, <3>3
  <2> QED BY <1>12, <2>1, <2>2 DEF TagsInv
<1>17. DataQTypes'
  BY <1>1, <1>15 DEF DataQTypes
<1>18. \A d \in Chips : DataFor(d)' = DataFor(d)
  BY <1>15 DEF DataFor
<1>19. DataToFlash'
  <2> SUFFICES ASSUME NEW d \in Chips, DataFor(d)
               PROVE  /\ WriteAt(d, 1)' /\ chipQ'[d][1].at = "waits" /\ d \notin ToSet(writeTagQ')
                      /\ \A a \in 0 .. Issued' - 1 : Goes(a, d, chipQ[d][1])' => Ok(a, dataQ[1].data)'
    BY <1>18 DEF DataToFlash
  <2>1. d # c
    BY <1>14
  <2>2. /\ WriteAt(d, 1) /\ chipQ[d][1].at = "waits" /\ d \notin ToSet(writeTagQ)
        /\ \A a \in 0 .. Issued - 1 : Goes(a, d, chipQ[d][1]) => Ok(a, dataQ[1].data)
    BY <1>1 DEF DataToFlash
  <2>3. WriteAt(d, 1)' /\ chipQ'[d][1] = chipQ[d][1]
    BY <1>10, <2>1, <2>2
  <2>4. Issued' = Issued /\ \A a : PhysBlock(a)' = PhysBlock(a)
    BY <1>15 DEF Issued, PhysBlock, map_view
  <2>5. \A a : Goes(a, d, chipQ[d][1])' = Goes(a, d, chipQ[d][1])
    BY <2>3, <2>4 DEF Goes
  <2>6. \A a, data : Ok(a, data)' = Ok(a, data)
    BY <1>15, OkSame
  <2>7. PICK data : data = dataQ[1].data /\ data = dataQ'[1].data
    BY <1>15
  <2>8. \A a \in 0 .. Issued' - 1 : Goes(a, d, chipQ[d][1])' => Ok(a, data)'
    BY <2>2, <2>4, <2>5, <2>6, <2>7
  <2>9. \A a \in 0 .. Issued' - 1 : Goes(a, d, chipQ[d][1])' => Ok(a, dataQ[1].data)'
    BY <2>7, <2>8 DEF Ok
  <2> QED BY <1>13, <2>1, <2>2, <2>3, <2>9
<1>20. \A d \in Chips : \A k : Unread(d, k)' = Unread(d, k)
  <2> SUFFICES ASSUME NEW d \in Chips, NEW k, WriteAt(d, k) PROVE Unread(d, k)' = Unread(d, k)
    BY <1>10 DEF Unread
  <2>1. CASE d = c /\ k = 1
    BY <1>3, <1>4, <1>5, <1>7, <1>10, <1>11, <1>13, <2>1 DEF Unread
  <2>2. CASE d # c
    BY <1>10, <1>13, <2>2 DEF Unread
  <2>3. CASE d = c /\ k # 1
    <3>1. k \in Nat \ {0} /\ k > 1
      BY <1>1, <2>3, WriteCmdIs DEF WriteAt
    <3>2. WriteInv(d, k)
      BY <1>1, <3>1 DEF WritesInv
    <3>3. chipQ[d][k].at = "queued"
      BY <3>1, <3>2 DEF WriteInv
    <3> QED BY <1>10, <2>3, <3>3 DEF Unread
  <2> QED BY <2>1, <2>2, <2>3
<1>21. ProgramInv'
  <2>1. UNCHANGED << flushReqQ, flush, superPageCnt, wrote, early, flash, pagesWritten,
                      map_view >>
    BY <1>15
  <2>2. /\ y.addr = chipQ[c][1].addr /\ y.block = chipQ[c][1].block /\ y.page = chipQ[c][1].page
        /\ y.at # "data" /\ y \in WriteCmd
    BY <1>3, <1>7
  <2>3. \A d \in Chips : d # c /\ (d \in ToSet(writeTagQ) \/ DataFor(d)) =>
                            d \in ToSet(writeTagQ') \/ DataFor(d)'
    BY <1>13, <1>18
  <2>4. c \in ToSet(writeTagQ')
    BY <1>13
  <2> QED BY <1>1, <1>5, <1>9, <1>16, <1>17, <1>19, <1>20, <2>1, <2>2, <2>3, <2>4, ProgramTurned
<1> QED BY <1>3, <1>5, <1>7, <1>9, <1>21

LEMMA WriteDtaProgram ==
  ASSUME WriterInv, ErasePtrsInv, ProgramInv, doWriteDta
  PROVE  /\ ProgramInv'
         /\ \E c \in Chips : \E y \in WriteCmd : Turned(c, y) /\ chipQ[c][1] \in WriteCmd
<1>1. Queues /\ ServerTypes /\ WritesInv /\ TagsInv /\ DataQTypes /\ DataToFlash
  BY DEF ErasePtrsInv, ServerTypes, Queues, ProgramInv
<1>2. /\ dataQ # << >> /\ Head(dataQ) = dataQ[1] /\ dataQ[1].to = "flash" /\ dataQ' = << >>
      /\ dataQ[1].id \in Chips /\ dataQ[1].data \in Data
  <2>1. dataQ # << >> /\ Head(dataQ).to = "flash" /\ dataQ' = << >>
    BY DEF doWriteDta
  <2>2. Head(dataQ) = dataQ[1] /\ dataQ[1] \in [ to : { "dram" }, id : Nat, data : Data ]
                                              \cup [ to : { "flash" }, id : Chips, data : Data ]
    BY <1>1, <2>1, TailIs DEF DataQTypes
  <2> QED BY <2>1, <2>2
<1>3. PICK c \in Chips, e \in Data : c = dataQ[1].id /\ e = dataQ[1].data
  BY <1>2
<1>4. DataFor(c) /\ \A d : DataFor(d) => d = c
  BY <1>2, <1>3 DEF DataFor
<1>5. /\ WriteAt(c, 1) /\ chipQ[c][1].at = "waits" /\ c \notin ToSet(writeTagQ)
      /\ \A a \in 0 .. Issued - 1 : Goes(a, c, chipQ[c][1]) => Ok(a, e)
  BY <1>1, <1>3, <1>4 DEF DataToFlash
<1>6. PICK x : x = chipQ[c][1] /\ x \in WriteCmd
  BY <1>1, <1>5, WriteCmdIs
<1>7. PICK y : y = [ x EXCEPT !.at = "data", !.data = e ]
  OBVIOUS
<1>8. /\ y \in WriteCmd /\ y.at = "data" /\ y.data = e
      /\ y.addr = x.addr /\ y.block = x.block /\ y.page = x.page
  BY <1>6, <1>7 DEF WriteCmd
<1>9. chipQ' = [ chipQ EXCEPT ![c] = [ @ EXCEPT ![1] = y ] ] /\ chipQ[c] # << >>
  <2>1. chipQ' = [ chipQ EXCEPT ![c][1].at = "data", ![c][1].data = e ]
    BY <1>2, <1>3 DEF doWriteDta
  <2>2. chipQ[c] \in Seq(Cmd) /\ 1 \in 1 .. Len(chipQ[c])
    BY <1>1, <1>5, QueueIs, WriteCmdIs
  <2>3. chipQ \in [ Chips -> Seq(Cmd) ]
    BY <1>1 DEF Queues
  <2>4. chipQ' = [ chipQ EXCEPT ![c] = [ @ EXCEPT ![1] = y ] ]
    BY <1>6, <1>7, <2>1, <2>2, <2>3
  <2> QED BY <2>2, <2>4, EmptySeq
<1>10. Turned(c, y)
  BY <1>8, <1>9 DEF Turned, Cmd
<1>11. \A d \in Chips : \A k :
         /\ WriteAt(d, k)' = WriteAt(d, k)
         /\ WriteAt(d, k) /\ (d # c \/ k # 1) => chipQ'[d][k] = chipQ[d][k]
  BY <1>1, <1>6, <1>8, <1>10, TurnedSame
<1>12. chipQ'[c][1] = y
  BY <1>1, <1>10, TurnedIs
<1>13. UNCHANGED << flushReqQ, flush, superPageCnt, wrote, early, flash, pagesWritten,
                    map_view, writeTagQ >>
  BY DEF doWriteDta, write_vars, eraser, flush_vars, map_view
<1>14. TagsInv'
  <2>1. ASSUME NEW d \in ToSet(writeTagQ) PROVE WriteAt(d, 1)' /\ chipQ'[d][1].at = "waits"
    <3>1. ToSet(writeTagQ) \subseteq Chips
      BY <1>1, ElementOfSeq DEF TagsInv, ToSet
    <3>2. d \in Chips /\ d # c /\ WriteAt(d, 1) /\ chipQ[d][1].at = "waits"
      BY <1>1, <1>5, <3>1 DEF TagsInv
    <3> QED BY <1>11, <3>2
  <2> QED BY <1>1, <1>13, <2>1 DEF TagsInv
<1>15. \A d : ~ DataFor(d)'
  BY <1>2 DEF DataFor
<1>16. DataQTypes'
  <2>1. Len(<< >>) = 0 /\ << >> \in Seq([ to : { "dram" }, id : Nat, data : Data ]
                                        \cup [ to : { "flash" }, id : Chips, data : Data ])
    BY EmptySeq
  <2> QED BY <1>2, <2>1 DEF DataQTypes
<1>17. DataToFlash'
  BY <1>15 DEF DataToFlash
<1>18. \A d \in Chips : \A k : Unread(d, k)' = Unread(d, k)
  <2> SUFFICES ASSUME NEW d \in Chips, NEW k, WriteAt(d, k) PROVE Unread(d, k)' = Unread(d, k)
    BY <1>11 DEF Unread
  <2>1. CASE d = c /\ k = 1
    BY <1>5, <1>8, <1>12, <2>1 DEF Unread
  <2>2. CASE d # c \/ k # 1
    BY <1>11, <1>13, <2>2 DEF Unread
  <2> QED BY <2>1, <2>2
<1>19. ProgramInv'
  <2>1. UNCHANGED << flushReqQ, flush, superPageCnt, wrote, early, flash, pagesWritten,
                      map_view >>
    BY <1>13
  <2>2. /\ y.addr = chipQ[c][1].addr /\ y.block = chipQ[c][1].block /\ y.page = chipQ[c][1].page
        /\ y.at # "waits" /\ y \in WriteCmd
        /\ \A a \in 0 .. Issued - 1 : Goes(a, c, chipQ[c][1]) => Ok(a, y.data)
    BY <1>5, <1>6, <1>8
  <2>3. \A d \in Chips : d # c /\ (d \in ToSet(writeTagQ) \/ DataFor(d)) =>
                            d \in ToSet(writeTagQ') \/ DataFor(d)'
    BY <1>4, <1>13
  <2> QED BY <1>1, <1>5, <1>10, <1>14, <1>16, <1>17, <1>18, <2>1, <2>2, <2>3, ProgramTurned
<1> QED BY <1>6, <1>8, <1>10, <1>19

(* A page that DRAM gives to the flash is what it is to hold, or its value *)
(* is still being written.                                                 *)
LEMMA FlushedIsOk ==
  ASSUME WriterInv, DramInv, flush.step = "pages", NEW p \in 0 .. NumPages - 1,
         NEW a \in Nat, a = flush.seg * NumPages + p,
         NEW data, data = dram[flush.buf][p],
         wrote' = wrote, early' = early \cup Coming(flush.buf, p)
  PROVE  Ok(a, data)'
<1> SUFFICES ASSUME NEW v \in Values, NEW i \in Pages(v), Addr(v, i) = a, data # << v, i >>
             PROVE  v \in Coming(flush.buf, p)
  BY DEF Ok, Values, Pages, Addr
<1>1. PICK b \in Bufs, g \in Nat : /\ b = flush.buf /\ b = 1 - currBuf
                                   /\ g = flush.seg /\ g = superPageCnt - 1
  <2>1. flush.step # "no"
    OBVIOUS
  <2>2. /\ flush.buf = 1 - currBuf /\ 1 - currBuf \in Bufs
        /\ flush.seg = superPageCnt - 1 /\ flush.seg \in Nat
    BY <2>1, FlushIs
  <2> QED BY <2>2
<1>2. PICK s, o, z \in Nat :
        /\ s = SegOf(v) /\ o = Offset(v) /\ z = wrote[v].size /\ o + z <= NumPages
        /\ wrote[v].addr = s * NumPages + o
  BY ValueIs, PagesNat DEF WriterInv
<1>3. PICK j \in Nat : j = i /\ j >= 1 /\ j <= z
  BY <1>2 DEF Pages
<1>4. PICK e \in 0 .. NumPages - 1 : e = o + j - 1
  BY <1>2, <1>3, PagesNat
<1>5. PICK x \in Nat : x = s * NumPages
  BY PagesNat, Times
<1>6. a = x + e
  BY <1>2, <1>3, <1>4, <1>5 DEF Addr
<1>7. s * NumPages + e = g * NumPages + p
  BY <1>1, <1>5, <1>6
<1>8. s = g /\ e = p
  <2>1. /\ (s * NumPages + e) \div NumPages = s /\ (s * NumPages + e) % NumPages = e
        /\ (g * NumPages + p) \div NumPages = g /\ (g * NumPages + p) % NumPages = p
    <3>1. e \in Nat /\ e < NumPages /\ p \in Nat /\ p < NumPages
      BY PagesNat
    <3> QED BY <3>1, PagesNat, DivUnique
  <2> QED BY <1>7, <2>1
<1>9. InBuf(v, b)
  BY <1>1, <1>2, <1>8 DEF InBuf
<1>10. dram[b][Offset(v) + i - 1] = data
  BY <1>1, <1>2, <1>3, <1>4, <1>8
<1>11. PICK k \in 1 .. Len(dramReqQ) : WrittenBy(k, v, i)
  BY <1>9, <1>10 DEF DramInv, BuffersHold
<1>12. ~ dramReqQ[k].rnw /\ dramReqQ[k].value = v /\ dramReqQ[k].buf = b
  <2>1. /\ ~ dramReqQ[k].rnw /\ dramReqQ[k].value = v /\ dramReqQ[k].buf \in Bufs
        /\ InBuf(v, dramReqQ[k].buf)
    BY <1>11, DramReqIs DEF WrittenBy, DramInv, WritesInOrder
  <2> QED BY <1>9, <2>1, InOneBuf DEF WriterInv
<1>13. p - (wrote[v].addr % NumPages) \in (IF k = 1 THEN byteCnt ELSE 0) .. wrote[v].size - 1
  <2>1. wrote[v].addr % NumPages = o
    BY <1>2 DEF Offset
  <2>2. p - o = j - 1
    BY <1>3, <1>4, <1>8
  <2>3. byteCnt \in Nat
    BY DEF DramInv, DramTypes
  <2>4. i \in Left(k)
    BY <1>11 DEF WrittenBy
  <2>5. PICK n \in Nat : n = (IF k = 1 THEN byteCnt ELSE 0) /\ j >= n + 1
    <3>1. CASE k = 1
      BY <1>3, <1>12, <2>3, <2>4, <3>1 DEF Left
    <3>2. CASE k # 1
      BY <1>3, <3>2
    <3> QED BY <3>1, <3>2
  <2>6. PICK m \in Nat : m = wrote[v].size /\ j <= m
    BY <1>2, <1>3
  <2>7. j \in Nat /\ j >= n + 1 /\ j <= m
    BY <1>3, <2>5, <2>6
  <2>8. j - 1 \in n .. m - 1
    BY <2>7
  <2> QED BY <2>1, <2>2, <2>5, <2>6, <2>8
<1> QED BY <1>1, <1>11, <1>12, <1>13 DEF Coming, Values

LEMMA WriteReqProgram ==
  ASSUME WriterInv, DramInv, ErasePtrsInv, ProgramInv, doFlashWriteReq
  PROVE  ProgramInv' /\ flush.step = "pages" /\ UNCHANGED server_vars /\ Issued' = Issued
<1>1. /\ ServerTypes /\ MapInv /\ Queues /\ PagesIssued /\ IssuedMapped /\ WritesInv /\ TagsInv
      /\ DataQTypes /\ Stored /\ ReadsBehindWrites
  BY DEF ErasePtrsInv, EraseInv, ServerTypes, Queues, ProgramInv
<1>2. /\ writeTagQ \in Seq(Chips) /\ writeTagQ # << >> /\ dataQ = << >>
      /\ writeTagQ' = Tail(writeTagQ) /\ Len(writeTagQ) \in Nat \ {0}
      /\ writeTagQ' \in Seq(Chips) /\ Len(writeTagQ') = Len(writeTagQ) - 1
      /\ Head(writeTagQ) = writeTagQ[1] /\ writeTagQ[1] \in Chips
      /\ \A k \in 1 .. Len(writeTagQ) - 1 : writeTagQ'[k] = writeTagQ[k + 1]
  <2>1. writeTagQ \in Seq(Chips) /\ writeTagQ # << >> /\ dataQ = << >> /\ writeTagQ' = Tail(writeTagQ)
    BY <1>1 DEF doFlashWriteReq, TagsInv
  <2> QED BY <2>1, TailIs
<1>3. PICK c \in Chips : c = writeTagQ[1]
  BY <1>2
<1>4. ToSet(writeTagQ') = ToSet(writeTagQ) \ { c } /\ c \in ToSet(writeTagQ)
      /\ \A j, l \in 1 .. Len(writeTagQ') : writeTagQ'[j] = writeTagQ'[l] => j = l
  <2>1. \A j, l \in 1 .. Len(writeTagQ) : writeTagQ[j] = writeTagQ[l] => j = l
    BY <1>1 DEF TagsInv
  <2>2. \A k \in 1 .. Len(writeTagQ') : k + 1 \in 1 .. Len(writeTagQ) /\ writeTagQ'[k] = writeTagQ[k + 1]
    BY <1>2
  <2>3. ASSUME NEW j \in 1 .. Len(writeTagQ'), NEW l \in 1 .. Len(writeTagQ'), writeTagQ'[j] = writeTagQ'[l]
        PROVE  j = l
    <3>1. j + 1 = l + 1
      BY <2>1, <2>2, <2>3
    <3> QED BY <3>1
  <2>4. \A k \in 1 .. Len(writeTagQ') : writeTagQ'[k] # c
    <3> TAKE k \in 1 .. Len(writeTagQ')
    <3>1. k + 1 # 1 /\ 1 \in 1 .. Len(writeTagQ)
      BY <1>2
    <3> QED BY <1>3, <2>1, <2>2, <3>1
  <2>5. \A k \in 1 .. Len(writeTagQ) : writeTagQ[k] = c \/ \E j \in 1 .. Len(writeTagQ') : writeTagQ'[j] = writeTagQ[k]
    <3> TAKE k \in 1 .. Len(writeTagQ)
    <3>1. CASE k = 1
      BY <1>3, <3>1
    <3>2. CASE k # 1
      <4>1. PICK j \in 1 .. Len(writeTagQ) - 1 : k = j + 1
        <5>1. k - 1 \in 1 .. Len(writeTagQ) - 1 /\ k = (k - 1) + 1
          BY <1>2, <3>2
        <5> QED BY <5>1
      <4> QED BY <1>2, <4>1
    <3> QED BY <3>1, <3>2
  <2>6. 1 \in 1 .. Len(writeTagQ)
    BY <1>2
  <2>7. ToSet(writeTagQ) = { writeTagQ[k] : k \in 1 .. Len(writeTagQ) }
        /\ ToSet(writeTagQ') = { writeTagQ'[k] : k \in 1 .. Len(writeTagQ') }
    <3>1. \A s \in Seq(Chips) : ToSet(s) = { s[k] : k \in 1 .. Len(s) }
      BY DEF ToSet
    <3>2. PICK s \in Seq(Chips) : s = writeTagQ'
      BY <1>2
    <3> QED BY <1>2, <3>1, <3>2
  <2>8. \A d : d \in ToSet(writeTagQ') => d \in ToSet(writeTagQ) /\ d # c
    BY <2>2, <2>4, <2>7
  <2>9. \A d : d \in ToSet(writeTagQ) /\ d # c => d \in ToSet(writeTagQ')
    BY <2>5, <2>7
  <2> QED BY <1>3, <2>3, <2>6, <2>7, <2>8, <2>9
<1>5. WriteAt(c, 1) /\ chipQ[c][1].at = "waits"
  BY <1>1, <1>4 DEF TagsInv
<1>6. PICK x : x = chipQ[c][1] /\ x \in WriteCmd /\ x.at = "waits" /\ Head(chipQ[c]) = x
  <2>1. chipQ[c][1] \in WriteCmd /\ 1 \in 1 .. Len(chipQ[c])
    BY <1>1, <1>5, WriteCmdIs
  <2>2. Head(chipQ[c]) = chipQ[c][1]
    BY <1>1, <2>1, QueueIs, EmptySeq
  <2> QED BY <1>5, <2>1, <2>2
<1>7. PICK p \in 0 .. NumPages - 1 : p = x.addr
  BY <1>6 DEF WriteCmd
<1>8. /\ dataQ' = << [ to |-> "flash", id |-> c, data |-> dram[flush.buf][p] ] >>
      /\ early' = early \cup Coming(flush.buf, p)
      /\ IF flush.read + 1 = NumPages THEN flush' = NoFlush
         ELSE flush' = [ flush EXCEPT !.read = @ + 1 ]
      /\ UNCHANGED << flushReqQ, superPageCnt, wrote >> /\ UNCHANGED server_vars
  BY <1>2, <1>3, <1>6, <1>7 DEF doFlashWriteReq, write_vars
<1>9. UNCHANGED << chipQ, flash, pagesWritten, nextErasePtr, blockMap >> /\ ErasedStays
      /\ \A d, b : ErasedAgain(d, b)' = ErasedAgain(d, b)
  BY <1>8, StaysSame DEF server_vars, eraser, chips, map_view
<1>10. Unread(c, 1)
  BY <1>4, <1>5 DEF Unread
<1>11. flush.step = "pages" /\ p < flush.asked /\ Goes(flush.seg * NumPages + p, c, x)
  <2>1. WriteInv(c, 1)
    BY <1>1, <1>5 DEF WritesInv
  <2> QED BY <1>6, <1>7, <1>10, <2>1 DEF WriteInv
<1>12. /\ flush \in Flushing /\ flush.asked \in 0 .. NumPages /\ flush.read \in 0 .. NumPages - 1
       /\ flush.seg \in Nat /\ flush.buf \in Bufs /\ flushReqQ = << >>
       /\ Issued \in Nat /\ Issued = flush.seg * NumPages + flush.asked
       /\ superPageCnt * NumPages = flush.seg * NumPages + NumPages
       /\ flush.seg * NumPages \in Nat
  <2>1. flush.step # "no"
    BY <1>11
  <2>2. flush.buf \in Bufs
    BY <2>1, FlushIs
  <2> QED BY <2>1, <2>2, FlushIs, IssuedIs
<1>13. PICK a0 \in 0 .. Issued - 1 : a0 = flush.seg * NumPages + p /\ Goes(a0, c, x)
  <2>0. PICK z \in Nat : z = flush.seg * NumPages
    BY <1>12
  <2>1. PICK y, k \in Nat : y = flush.seg * NumPages /\ k = flush.asked /\ Issued = y + k /\ p < k
    <3>1. flush.asked \in Nat /\ Issued = z + flush.asked /\ p < flush.asked
      BY <1>11, <1>12, <2>0
    <3> QED BY <2>0, <3>1
  <2>2. y + p \in 0 .. Issued - 1
    BY <2>1
  <2> QED BY <1>11, <2>1, <2>2
<1>14. PICK data : data = dram[flush.buf][p]
  OBVIOUS
<1>15. Ok(a0, data)'
  <2>1. a0 \in Nat
    BY <1>12, <1>13
  <2> QED BY <1>8, <1>11, <1>13, <1>14, <2>1, FlushedIsOk
<1>16. ASSUME NEW a \in 0 .. Issued - 1, Goes(a, c, x) PROVE a = a0 \/ OnErasedAgain(a)
  <2>1. a \in Nat /\ a0 \in Nat /\ SameVPage(x, x)
    BY <1>12 DEF SameVPage
  <2>2. VBlock(a) < nextErasePtr[c] /\ VBlock(a0) < nextErasePtr[c]
    <3>1. ChipOf(a) = c /\ ChipOf(a0) = c
      BY <1>13, <1>16 DEF Goes
    <3> QED BY <1>1, <1>16, <3>1 DEF IssuedMapped
  <2> QED BY <1>1, <1>13, <1>16, <2>1, <2>2, SamePlace
<1>17. ASSUME NEW d \in Chips, NEW k PROVE Unread(d, k)' <=> Unread(d, k) /\ ~ (d = c /\ k = 1)
  <2>1. WriteAt(d, k)' = WriteAt(d, k)
    BY <1>9 DEF WriteAt
  <2>2. CASE d # c
    BY <1>4, <1>9, <2>1, <2>2 DEF Unread
  <2>3. CASE d = c /\ k = 1
    BY <1>4, <1>6, <1>9, <2>1, <2>3 DEF Unread
  <2>4. CASE d = c /\ k # 1
    <3> SUFFICES ASSUME WriteAt(c, k) PROVE Unread(c, k)' <=> Unread(c, k)
      BY <2>1, <2>4 DEF Unread
    <3>1. k \in Nat \ {0} /\ k > 1
      BY <1>1, <2>4, WriteCmdIs DEF WriteAt
    <3>2. WriteInv(c, k)
      BY <1>1, <3>1 DEF WritesInv
    <3>3. chipQ[c][k].at = "queued"
      BY <3>1, <3>2 DEF WriteInv
    <3> QED BY <1>9, <2>1, <2>4, <3>3 DEF Unread
  <2> QED BY <2>2, <2>3, <2>4
<1>18. UnreadPages' = UnreadPages \ { p } /\ p \in UnreadPages
  <2>1. p \in UnreadPages
    BY <1>1, <1>6, <1>7, <1>10, WriteCmdIs, <1>5 DEF UnreadPages
  <2>2. ASSUME NEW d \in Chips, NEW k \in 1 .. Len(chipQ[d]), Unread(d, k), chipQ[d][k].addr = p
        PROVE  d = c /\ k = 1
    <3>1. k \in Nat \ {0} /\ WriteAt(d, k)
      BY <2>2 DEF Unread
    <3>2. WriteInv(d, k)
      BY <1>1, <3>1 DEF WritesInv
    <3>3. Goes(a0, d, chipQ[d][k])
      BY <1>13, <2>2, <3>2 DEF WriteInv
    <3>4. d = c
      BY <1>13, <3>3 DEF Goes
    <3>5. Unread(c, k) /\ chipQ[c][k].addr = chipQ[c][1].addr /\ 1 \in Nat \ {0}
      BY <1>6, <1>7, <2>2, <3>4
    <3>6. k = 1
      BY <1>1, <1>10, <3>1, <3>5 DEF WritesInv
    <3> QED BY <3>4, <3>6
  <2>3. ASSUME NEW q PROVE q \in UnreadPages' <=> q \in UnreadPages /\ q # p
    <3>1. q \in UnreadPages' => q \in UnreadPages /\ q # p
      BY <1>9, <1>17, <2>2 DEF UnreadPages
    <3>2. q \in UnreadPages /\ q # p => q \in UnreadPages'
      <4> SUFFICES ASSUME q \in UnreadPages, q # p PROVE q \in UnreadPages'
        OBVIOUS
      <4>1. PICK d \in Chips : \E k \in 1 .. Len(chipQ[d]) : Unread(d, k) /\ chipQ[d][k].addr = q
        BY DEF UnreadPages
      <4>2. PICK k \in 1 .. Len(chipQ[d]) : Unread(d, k) /\ chipQ[d][k].addr = q
        BY <4>1
      <4>3. ~ (d = c /\ k = 1)
        BY <1>6, <1>7, <4>2
      <4>4. Unread(d, k)'
        BY <1>17, <4>2, <4>3
      <4>5. q \in 0 .. NumPages - 1
        BY DEF UnreadPages
      <4> QED BY <1>9, <4>2, <4>4, <4>5 DEF UnreadPages
    <3> QED BY <3>1, <3>2
  <2> QED BY <2>1, <2>3
<1>19. /\ IsFiniteSet(UnreadPages) /\ Cardinality(UnreadPages) = flush.asked - flush.read
       /\ Cardinality(UnreadPages') = flush.asked - flush.read - 1
       /\ Cardinality(UnreadPages') \in Nat /\ IsFiniteSet(UnreadPages')
  <2>1. IsFiniteSet(0 .. NumPages - 1)
    BY FS_Interval, PagesNat
  <2>2. UnreadPages \in SUBSET (0 .. NumPages - 1)
    BY DEF UnreadPages
  <2>3. IsFiniteSet(UnreadPages)
    BY <2>1, <2>2, FS_Subset
  <2>4. Cardinality(UnreadPages) = flush.asked - flush.read
    BY <1>1, <1>11 DEF WritesInv
  <2>5. IsFiniteSet(UnreadPages \ { p }) /\ Cardinality(UnreadPages \ { p }) = Cardinality(UnreadPages) - 1
    BY <1>18, <2>3, FS_RemoveElement
  <2>6. Cardinality(UnreadPages \ { p }) \in Nat
    BY <2>5, FS_CardinalityType
  <2> QED BY <1>18, <2>3, <2>4, <2>5, <2>6
<1>20. /\ Issued' = Issued
       /\ \/ UnreadPages' = {} /\ flush' = NoFlush
          \/ /\ flush'.step = "pages" /\ flush'.seg = flush.seg /\ flush'.asked = flush.asked
             /\ flush'.read = flush.read + 1
  <2>1. CASE flush.read + 1 = NumPages
    <3>0. flush.asked \in 0 .. NumPages /\ flush.read \in 0 .. NumPages - 1
      BY <1>12
    <3>1. PICK k, r \in Nat : k = flush.asked /\ r = flush.read /\ k <= NumPages /\ r + 1 = NumPages
      BY <2>1, <3>0, PagesNat
    <3>2. k - r - 1 >= 0
      BY <1>19, <3>1
    <3>3. k = NumPages /\ k - r - 1 = 0
      BY <3>1, <3>2, PagesNat
    <3>4. UnreadPages' = {}
      BY <1>19, <3>1, <3>3, FS_EmptySet
    <3>5. flush' = NoFlush /\ flushReqQ' = << >>
      BY <1>8, <1>12, <2>1
    <3>6. Issued' = superPageCnt * NumPages
      BY <1>8, <3>5 DEF Issued, NoFlush
    <3> QED BY <1>12, <3>1, <3>3, <3>4, <3>5, <3>6
  <2>2. CASE flush.read + 1 # NumPages
    <3>1. flush' = [ flush EXCEPT !.read = @ + 1 ]
      BY <1>8, <2>2
    <3>2. /\ flush'.step = "pages" /\ flush'.seg = flush.seg /\ flush'.asked = flush.asked
          /\ flush'.read = flush.read + 1
      BY <1>11, <1>12, <3>1 DEF Flushing
    <3>3. Issued' = Issued
      BY <1>8, <1>11, <1>12, <3>2 DEF Issued
    <3> QED BY <3>2, <3>3
  <2> QED BY <2>1, <2>2
<1>21. /\ \A a, d, cmd : Goes(a, d, cmd)' = Goes(a, d, cmd)
       /\ \A a \in 0 .. Issued - 1 : \A e : Ok(a, e) => Ok(a, e)'
       /\ \A d, k : WriteAt(d, k)' = WriteAt(d, k)
  <2>1. \A a : PhysBlock(a)' = PhysBlock(a)
    BY <1>9 DEF PhysBlock
  <2>2. early \subseteq early'
    BY <1>8
  <2> QED BY <1>8, <1>9, <1>12, <2>1, <2>2, OkEarlier DEF Goes, WriteAt
<1>22. \A d : DataFor(d)' <=> d = c
  BY <1>8 DEF DataFor
<1>23. ASSUME NEW d \in Chips, NEW k \in Nat \ {0}, WriteAt(d, k)' PROVE WriteInv(d, k)'
  <2>1. WriteAt(d, k) /\ WriteInv(d, k)
    BY <1>1, <1>21, <1>23 DEF WritesInv
  <2>2. PICK y : y = chipQ[d][k] /\ y = chipQ'[d][k]
    BY <1>9
  <2>3. \E a \in 0 .. Issued' - 1 : Goes(a, d, y)'
    BY <1>20, <1>21, <2>1, <2>2 DEF WriteInv
  <2>4. k > 1 => y.at = "queued"
    BY <2>1, <2>2 DEF WriteInv
  <2>5. y.at = "waits" => d \in ToSet(writeTagQ') \/ DataFor(d)'
    <3>1. ~ DataFor(d)
      BY <1>2 DEF DataFor
    <3> QED BY <1>4, <1>22, <2>1, <2>2, <3>1 DEF WriteInv
  <2>6. ASSUME Unread(d, k)'
        PROVE  flush'.step = "pages" /\ y.addr < flush'.asked /\ Goes(flush.seg * NumPages + y.addr, d, y)
               /\ flush'.seg = flush.seg
    <3>1. Unread(d, k) /\ k \in 1 .. Len(chipQ'[d])
      BY <1>17, <2>6 DEF Unread, WriteAt
    <3>2. /\ flush.step = "pages" /\ y.addr < flush.asked
          /\ Goes(flush.seg * NumPages + y.addr, d, y)
      BY <2>1, <2>2, <3>1 DEF WriteInv
    <3>3. y.addr \in 0 .. NumPages - 1
      <4>1. y \in WriteCmd
        BY <1>1, <2>1, <2>2, WriteCmdIs
      <4> QED BY <4>1 DEF WriteCmd
    <3>4. UnreadPages' # {}
      BY <2>2, <2>6, <3>1, <3>3 DEF UnreadPages
    <3> QED BY <1>20, <3>2, <3>4
  <2>7. Unread(d, k)' => Goes(flush.seg * NumPages + chipQ[d][k].addr, d, chipQ[d][k])'
    <3> SUFFICES ASSUME Unread(d, k)' PROVE Goes(flush.seg * NumPages + chipQ[d][k].addr, d, chipQ[d][k])'
      OBVIOUS
    <3>1. PICK a : a = flush.seg * NumPages + y.addr
      OBVIOUS
    <3>2. Goes(a, d, y)' /\ flush'.seg = flush.seg
      BY <1>21, <2>6, <3>1
    <3>3. a = (flush.seg * NumPages + chipQ[d][k].addr)'
      BY <2>2, <3>1, <3>2
    <3> QED BY <2>2, <3>2, <3>3 DEF Goes
  <2>8. ASSUME y.at = "data", NEW a \in 0 .. Issued' - 1, Goes(a, d, y)' PROVE Ok(a, y.data)'
    <3>1. a \in 0 .. Issued - 1 /\ Goes(a, d, y)
      BY <1>20, <1>21, <2>8
    <3>2. Ok(a, y.data)
      BY <2>1, <2>2, <2>8, <3>1 DEF WriteInv
    <3> QED BY <1>21, <3>1, <3>2
  <2>9. \A a : Goes(a, d, chipQ[d][k])' = Goes(a, d, y)'
    BY <2>2 DEF Goes
  <2>10. \A a : Ok(a, y.data)' => Ok(a, chipQ[d][k].data)'
    BY <2>2 DEF Ok
  <2> QED BY <2>2, <2>3, <2>4, <2>5, <2>6, <2>7, <2>8, <2>9, <2>10 DEF WriteInv
<1>24. WritesInv'
  <2>1. flush'.step = "pages" => Cardinality(UnreadPages') = flush'.asked - flush'.read
    <3> SUFFICES ASSUME flush'.step = "pages" PROVE Cardinality(UnreadPages') = flush'.asked - flush'.read
      OBVIOUS
    <3>1. flush'.asked = flush.asked /\ flush'.read = flush.read + 1
      BY <1>20 DEF NoFlush
    <3> QED BY <1>12, <1>19, <3>1
  <2>2. \A d \in Chips : \A k, l \in Nat \ {0} :
          WriteAt(d, k)' /\ WriteAt(d, l)' /\ SameVPage(chipQ'[d][k], chipQ'[d][l]) =>
            k = l \/ ErasedAgain(d, chipQ[d][k].block)'
    <3>1. \A d \in Chips : \A k :
            ErasedAgain(d, chipQ'[d][k].block) => ErasedAgain(d, chipQ[d][k].block)'
      BY <1>9, ErasedKept
    <3> QED BY <1>1, <1>9, <1>21, <3>1 DEF WritesInv
  <2>3. \A d \in Chips : \A k, l \in Nat \ {0} :
          Unread(d, k)' /\ Unread(d, l)' /\ chipQ'[d][k].addr = chipQ'[d][l].addr => k = l
    BY <1>1, <1>9, <1>17 DEF WritesInv
  <2> QED BY <1>23, <2>1, <2>2, <2>3 DEF WritesInv
<1>25. TagsInv'
  <2>1. ASSUME NEW d \in ToSet(writeTagQ') PROVE WriteAt(d, 1)' /\ chipQ'[d][1].at = "waits"
    BY <1>1, <1>4, <1>9, <1>21 DEF TagsInv
  <2> QED BY <1>2, <1>4, <2>1 DEF TagsInv
<1>26. DataToFlash' /\ DataQTypes'
  <2>1. dataQ'[1] = [ to |-> "flash", id |-> c, data |-> data ] /\ dataQ'[1].data = data
        /\ dataQ' = << [ to |-> "flash", id |-> c, data |-> data ] >>
    BY <1>8, <1>14
  <2>2. data \in Data
    BY <1>12, <1>14 DEF DramInv, DramTypes
  <2>3. DataQTypes'
    <3>1. [ to |-> "flash", id |-> c, data |-> data ] \in [ to : { "flash" }, id : Chips, data : Data ]
      BY <2>2
    <3>2. [ to |-> "flash", id |-> c, data |-> data ] \in
            [ to : { "dram" }, id : Nat, data : Data ] \cup [ to : { "flash" }, id : Chips, data : Data ]
      BY <3>1
    <3> QED BY <2>1, <3>2, LenOne DEF DataQTypes
  <2>4. \A a \in 0 .. Issued' - 1 : Goes(a, c, chipQ[c][1])' => Ok(a, dataQ[1].data)'
    <3> SUFFICES ASSUME NEW a \in 0 .. Issued' - 1, Goes(a, c, chipQ[c][1])' PROVE Ok(a, dataQ[1].data)'
      OBVIOUS
    <3>1. Goes(a, c, x)'
      BY <1>6, <1>9 DEF Goes
    <3>2. a \in 0 .. Issued - 1 /\ (a = a0 \/ OnErasedAgain(a))
      BY <1>16, <1>20, <1>21, <3>1
    <3>3. Ok(a, data) => Ok(a, data)'
      BY <1>21, <3>2
    <3>4. Ok(a, data)'
      BY <1>15, <3>2, <3>3 DEF Ok
    <3> QED BY <2>1, <3>4 DEF Ok
  <2>5. WriteAt(c, 1)' /\ chipQ'[c][1].at = "waits" /\ c \notin ToSet(writeTagQ')
    BY <1>4, <1>5, <1>9, <1>21
  <2> QED BY <1>22, <2>3, <2>4, <2>5 DEF DataToFlash
<1>27. Stored'
  <2> SUFFICES ASSUME NEW d \in Chips, NEW a \in 0 .. Issued - 1, ChipOf(a) = d
               PROVE  \/ \E k \in 1 .. Len(chipQ'[d]) : WriteAt(d, k)' /\ Goes(a, d, chipQ[d][k])'
                      \/ Ok(a, flash[d][PhysBlock(a)][PageOf(a)])'
    BY <1>20 DEF Stored
  <2>1. CASE \E k \in 1 .. Len(chipQ[d]) : WriteAt(d, k) /\ Goes(a, d, chipQ[d][k])
    <3>1. PICK k \in 1 .. Len(chipQ[d]) : WriteAt(d, k) /\ Goes(a, d, chipQ[d][k])
      BY <2>1
    <3>2. WriteAt(d, k)' /\ Goes(a, d, chipQ[d][k])' /\ k \in 1 .. Len(chipQ'[d])
      BY <1>9, <1>21, <3>1 DEF Goes, PhysBlock
    <3> QED BY <3>2
  <2>2. CASE Ok(a, flash[d][PhysBlock(a)][PageOf(a)])
    <3>1. PICK e : e = flash[d][PhysBlock(a)][PageOf(a)] /\ e = (flash[d][PhysBlock(a)][PageOf(a)])'
      BY <1>9 DEF PhysBlock
    <3>2. Ok(a, e)'
      BY <1>21, <2>2, <3>1
    <3> QED BY <3>1, <3>2 DEF Ok
  <2> QED BY <1>1, <2>1, <2>2 DEF Stored
<1>28. PagesIssued' /\ IssuedMapped' /\ ReadsBehindWrites'
  <2>1. PagesIssued' /\ IssuedMapped'
    BY <1>1, <1>9, <1>20 DEF PagesIssued, IssuedMapped
  <2>2. \A d \in Chips : \A k :
          ErasedAgain(d, chipQ'[d][k].block) => ErasedAgain(d, chipQ[d][k].block)'
    BY <1>9, ErasedKept
  <2>3. ReadsBehindWrites'
    BY <1>1, <1>9, <2>2 DEF ReadsBehindWrites, ReadAt, WriteAt
  <2> QED BY <2>1, <2>3
<1> QED BY <1>8, <1>11, <1>20, <1>24, <1>25, <1>26, <1>27, <1>28 DEF ProgramInv

-----------------------------------------------------------------------------
(* The next page is issued.                                                *)
LEMMA NextRow ==
  ASSUME NEW a \in Nat
  PROVE  VBlock(a + 1) <= VBlock(a) + 1 /\ VBlock(0) = 0
<1>1. PICK q, r \in Nat : q = Row(a) /\ r = Row(a + 1) /\ r <= q + 1
  <2>1. a + 1 \in Nat
    OBVIOUS
  <2>2. Row(a) \in Nat /\ Row(a + 1) \in Nat
    BY <2>1, PlaceIs
  <2>3. (a + 1) \div NumChips <= (a \div NumChips) + 1
    BY PagesNat, DivOrder
  <2> QED BY <2>2, <2>3 DEF Row
<1>2. r \div PagesPerBlock <= (q + 1) \div PagesPerBlock
      /\ (q + 1) \div PagesPerBlock <= (q \div PagesPerBlock) + 1
  BY <1>1, PagesNat, DivOrder
<1>3. /\ r \div PagesPerBlock \in Nat /\ (q + 1) \div PagesPerBlock \in Nat
      /\ q \div PagesPerBlock \in Nat
  BY PagesNat, DivIs
<1>4. VBlock(a + 1) = r \div PagesPerBlock /\ VBlock(a) = q \div PagesPerBlock
  BY <1>1 DEF VBlock
<1>5. VBlock(a + 1) <= VBlock(a) + 1
  BY <1>2, <1>3, <1>4
<1>6. VBlock(0) = 0
  <2>1. (0 * NumChips + 0) \div NumChips = 0 /\ (0 * PagesPerBlock + 0) \div PagesPerBlock = 0
    BY PagesNat, DivUnique
  <2>2. 0 * NumChips + 0 = 0 /\ 0 * PagesPerBlock + 0 = 0
    BY PagesNat
  <2> QED BY <2>1, <2>2 DEF VBlock, Row
<1> QED BY <1>5, <1>6

(* It goes to an erased block behind the pages issued before.              *)
LEMMA NextPlace ==
  ASSUME WriterInv, ErasePtrsInv, ProgramInv, NEW a \in Nat, a = Issued, NEW c, c = ChipOf(a),
         nextWritePtr(c) % Blocks < nextErasePtr[c],
         pagesWritten' = [ pagesWritten EXCEPT ![c] = @ + 1 ], Issued' = a + 1,
         nextErasePtr' = nextErasePtr
  PROVE  /\ c \in Chips /\ VBlock(a) < nextErasePtr[c] /\ nextWritePtr(c) = BlockOf(a)
         /\ PhysBlock(a) \in 0 .. Blocks - 1 /\ PageOf(a) \in 0 .. PagesPerBlock - 1
         /\ PagesIssued' /\ IssuedMapped'
<1>1. /\ ServerTypes /\ PagesIssued /\ IssuedMapped /\ pagesWritten \in [ Chips -> Nat ]
      /\ nextErasePtr \in [ Chips -> 0 .. Blocks - 1 ]
      /\ blockMap \in [ Chips -> [ 0 .. Blocks - 1 -> 0 .. Blocks - 1 ] ]
  BY DEF ErasePtrsInv, ServerTypes, ProgramInv
<1>2. c \in Chips /\ VBlock(a) \in Nat /\ PageOf(a) \in 0 .. PagesPerBlock - 1
  BY PlaceIs
<1>3. PICK q \in Nat : \E r \in Chips :
        /\ a = q * NumChips + r
        /\ \A d \in Chips : pagesWritten[d] = IF d < r THEN q + 1 ELSE q
  BY <1>1 DEF PagesIssued
<1>4. PICK r \in Chips :
        /\ a = q * NumChips + r
        /\ \A d \in Chips : pagesWritten[d] = IF d < r THEN q + 1 ELSE q
  BY <1>3
<1>5. Row(a) = q /\ c = r
  <2>1. r \in Nat /\ r < NumChips
    BY PagesNat DEF Chips
  <2>2. (q * NumChips + r) \div NumChips = q /\ (q * NumChips + r) % NumChips = r
    BY <2>1, PagesNat, DivUnique
  <2> QED BY <1>4, <2>2 DEF Row, ChipOf
<1>6. nextWritePtr(c) = VBlock(a) /\ pagesWritten[c] = q
  <2>1. ~ (r < r)
    BY DEF Chips
  <2> QED BY <1>2, <1>4, <1>5, <2>1 DEF nextWritePtr, VBlock
<1>7. VBlock(a) < Blocks
  <2>1. CASE a = 0
    BY <2>1, NextRow, PagesNat
  <2>2. CASE a # 0
    <3>1. PICK b \in Nat : b + 1 = a
      <4>1. a - 1 \in Nat /\ (a - 1) + 1 = a
        BY <2>2
      <4> QED BY <4>1
    <3>2. b \in 0 .. Issued - 1
      BY <3>1
    <3>3. VBlock(b) < nextErasePtr[ChipOf(b)] /\ ChipOf(b) \in Chips /\ VBlock(b) \in Nat
      BY <1>1, <3>2, PlaceIs DEF IssuedMapped
    <3>4. PICK e \in 0 .. Blocks - 1 : e = nextErasePtr[ChipOf(b)]
      BY <1>1, <3>3
    <3>5. VBlock(a) <= VBlock(b) + 1
      BY <3>1, NextRow
    <3> QED BY <1>2, <3>3, <3>4, <3>5, PagesNat
  <2> QED BY <2>1, <2>2
<1>8. BlockOf(a) = VBlock(a) /\ VBlock(a) % Blocks = VBlock(a)
  BY <1>7, PlaceIs
<1>9. VBlock(a) < nextErasePtr[c]
  BY <1>6, <1>8
<1>10. PhysBlock(a) \in 0 .. Blocks - 1
  <2>1. BlockOf(a) \in 0 .. Blocks - 1
    BY <1>2, <1>7, <1>8, PagesNat
  <2> QED BY <1>1, <1>2, <2>1 DEF PhysBlock
<1>11. IssuedMapped'
  <2>1. ASSUME NEW b \in 0 .. Issued' - 1 PROVE VBlock(b) < nextErasePtr'[ChipOf(b)]
    <3>1. b \in 0 .. Issued - 1 \/ b = a
      OBVIOUS
    <3> QED BY <1>1, <1>9, <3>1 DEF IssuedMapped
  <2> QED BY <2>1 DEF IssuedMapped
<1>12. PagesIssued'
  <2>1. \A d \in Chips : pagesWritten'[d] = IF d < r \/ d = r THEN q + 1 ELSE q
    <3>1. ASSUME NEW d \in Chips PROVE pagesWritten'[d] = IF d < r \/ d = r THEN q + 1 ELSE q
      <4>1. CASE d = r
        BY <1>1, <1>5, <1>6, <4>1
      <4>2. CASE d # r
        BY <1>4, <1>5, <4>2
      <4> QED BY <4>1, <4>2
    <3> QED BY <3>1
  <2>2. CASE r + 1 < NumChips
    <3>1. r + 1 \in Chips /\ \A d \in Chips : (d < r \/ d = r) <=> d < r + 1
      BY <2>2, PagesNat DEF Chips
    <3>2. Issued' = q * NumChips + (r + 1)
      BY <1>4, PagesNat DEF Chips
    <3>3. \A d \in Chips : pagesWritten'[d] = IF d < r + 1 THEN q + 1 ELSE q
      BY <2>1, <3>1
    <3> QED BY <3>1, <3>2, <3>3 DEF PagesIssued
  <2>3. CASE ~ (r + 1 < NumChips)
    <3>1. r + 1 = NumChips /\ 0 \in Chips /\ \A d \in Chips : (d < r \/ d = r) /\ ~ (d < 0)
      BY <2>3, PagesNat DEF Chips
    <3>2. (q + 1) * NumChips = q * NumChips + NumChips /\ q * NumChips \in Nat
      BY PagesNat, Times
    <3>3. Issued' = (q + 1) * NumChips + 0
      BY <1>4, <3>1, <3>2, PagesNat DEF Chips
    <3>4. \A d \in Chips : pagesWritten'[d] = IF d < 0 THEN (q + 1) + 1 ELSE q + 1
      BY <2>1, <3>1
    <3>5. q + 1 \in Nat
      OBVIOUS
    <3> QED BY <3>1, <3>3, <3>4, <3>5 DEF PagesIssued
  <2> QED BY <2>2, <2>3
<1> QED BY <1>2, <1>6, <1>8, <1>9, <1>10, <1>11, <1>12

LEMMA FlashCmdsProgram ==
  ASSUME WriterInv, ErasePtrsInv, ProgramInv, doFlashCmds,
         \A c \in Chips : \A k : ReadAt(c, k) => \E b \in 0 .. Issued - 1 : Goes(b, c, chipQ[c][k])
  PROVE  /\ ProgramInv' /\ panic' = FALSE /\ pagesWritten' \in [ Chips -> Nat ]
         /\ \E c \in Chips : \E x \in WriteCmd : Sent(c, x)
<1>1. /\ ServerTypes /\ MapInv /\ Queues /\ PagesIssued /\ IssuedMapped /\ WritesInv /\ TagsInv
      /\ DataQTypes /\ DataToFlash /\ Stored /\ ReadsBehindWrites
      /\ pagesWritten \in [ Chips -> Nat ] /\ nextErasePtr \in [ Chips -> 0 .. Blocks - 1 ]
  BY DEF ErasePtrsInv, EraseInv, ServerTypes, Queues, ProgramInv
<1>2. /\ flush.step = "pages" /\ flush \in Flushing /\ flushReqQ = << >>
      /\ flush.asked \in 0 .. NumPages - 1 /\ flush.read \in 0 .. NumPages - 1 /\ flush.seg \in Nat
      /\ Issued = flush.seg * NumPages + flush.asked /\ Issued \in Nat
  <2>1. flush.step = "pages" /\ flush.step # "no" /\ flush.asked < NumPages
    BY DEF doFlashCmds
  <2>2. /\ flush \in Flushing /\ flush.asked \in 0 .. NumPages /\ flush.seg \in Nat
        /\ flush.read \in 0 .. NumPages - 1 /\ flushReqQ = << >>
    BY <2>1, FlushIs
  <2>3. Issued = flush.seg * NumPages + flush.asked /\ Issued \in Nat
    BY <2>1, IssuedIs
  <2> QED BY <2>1, <2>2, <2>3, PagesNat
<1>3. PICK a \in Nat : a = Issued /\ a = flush.seg * NumPages + flush.asked
  BY <1>2
<1>4. PICK m \in 0 .. NumPages - 1 : m = flush.asked
  BY <1>2
<1>5. PICK c \in Chips : c = ChipOf(a)
  BY PlaceIs
<1>6. PICK x : x = WritePage(a, m)
  OBVIOUS
<1>7. /\ x.op = "WRITE_PAGE" /\ x.addr = m /\ x.at = "queued" /\ x.data = << >>
      /\ x.block = PhysBlock(a) /\ x.page = PageOf(a)
  BY <1>6 DEF WritePage
<1>8. /\ chipQ' = [ chipQ EXCEPT ![c] = Append(@, x) ]
      /\ nextWritePtr(c) % Blocks < nextErasePtr[c]
      /\ pagesWritten' = [ pagesWritten EXCEPT ![c] = @ + 1 ]
      /\ panic' = (nextWritePtr(c) # BlockOf(a)) /\ flush' = [ flush EXCEPT !.asked = @ + 1 ]
      /\ UNCHANGED << flash, map_view, nextErasePtr, blockMap, flushReqQ, superPageCnt, wrote, early,
                      dataQ, writeTagQ >>
  <2>1. doReq(a, x)
    BY <1>3, <1>4, <1>6 DEF doFlashCmds
  <2>2. UNCHANGED << map_view, nextErasePtr, blockMap, flushReqQ, superPageCnt, wrote, early,
                     dataQ, writeTagQ >>
        /\ flush' = [ flush EXCEPT !.asked = @ + 1 ]
    BY DEF doFlashCmds, write_vars, eraser, map_view
  <2> QED BY <1>5, <1>7, <2>1, <2>2 DEF doReq, Send
<1>9. /\ flush'.step = "pages" /\ flush'.seg = flush.seg /\ flush'.asked = m + 1
      /\ flush'.read = flush.read /\ Issued' = a + 1
  <2>1. /\ flush'.step = "pages" /\ flush'.seg = flush.seg /\ flush'.asked = m + 1
        /\ flush'.read = flush.read
    BY <1>2, <1>4, <1>8 DEF Flushing
  <2>2. Issued' = flush.seg * NumPages + (m + 1)
    BY <1>2, <1>8, <2>1 DEF Issued
  <2>3. PICK z \in Nat : z = flush.seg * NumPages
    BY <1>2, PagesNat, Times
  <2>4. a = z + m /\ Issued' = z + (m + 1)
    BY <1>3, <1>4, <2>2, <2>3
  <2> QED BY <2>1, <2>4
<1>10. /\ VBlock(a) < nextErasePtr[c] /\ nextWritePtr(c) = BlockOf(a)
       /\ PhysBlock(a) \in 0 .. Blocks - 1 /\ PageOf(a) \in 0 .. PagesPerBlock - 1
       /\ PagesIssued' /\ IssuedMapped'
  BY <1>3, <1>5, <1>8, <1>9, NextPlace
<1>11. x \in WriteCmd /\ Sent(c, x)
  <2>1. << >> \in Data
    BY DEF Data
  <2>2. x \in WriteCmd
    BY <1>6, <1>10, <2>1 DEF WritePage, WriteCmd
  <2> QED BY <1>8, <2>2 DEF Sent, Cmd
<1>12. PICK n \in Nat : n = Len(chipQ[c])
  BY <1>1, QueueIs
<1>13. /\ \A d \in Chips : \A k \in 1 .. Len(chipQ[d]) :
            k \in 1 .. Len(chipQ'[d]) /\ chipQ'[d][k] = chipQ[d][k]
       /\ \A d \in Chips : \A k \in 1 .. Len(chipQ'[d]) :
            k \in 1 .. Len(chipQ[d]) \/ (d = c /\ k = n + 1)
       /\ chipQ'[c][n + 1] = x /\ n + 1 \in 1 .. Len(chipQ'[c])
  <2>1. /\ \A d \in Chips : \A k \in 1 .. Len(chipQ[d]) :
             k \in 1 .. Len(chipQ'[d]) /\ chipQ'[d][k] = chipQ[d][k]
        /\ \A d \in Chips : \A k \in 1 .. Len(chipQ'[d]) :
             k \in 1 .. Len(chipQ[d]) \/ (d = c /\ k = Len(chipQ[c]) + 1)
        /\ chipQ'[c][Len(chipQ[c]) + 1] = x /\ Len(chipQ'[c]) = Len(chipQ[c]) + 1
    BY <1>1, <1>11, SentIs
  <2>2. n + 1 \in 1 .. n + 1
    OBVIOUS
  <2> QED BY <1>12, <2>1, <2>2
<1>14. /\ \A d \in Chips : \A k : WriteAt(d, k) => WriteAt(d, k)' /\ chipQ'[d][k] = chipQ[d][k]
       /\ \A d \in Chips : \A k : WriteAt(d, k)' => WriteAt(d, k) \/ (d = c /\ k = n + 1)
       /\ WriteAt(c, n + 1)'
  BY <1>7, <1>13 DEF WriteAt
<1>15. /\ \A b, d, cmd : Goes(b, d, cmd)' = Goes(b, d, cmd)
       /\ \A b, e : Ok(b, e)' = Ok(b, e)
  BY <1>8, OkSame DEF Goes, PhysBlock
<1>16. Goes(a, c, x)
  BY <1>5, <1>7 DEF Goes
<1>17. ASSUME NEW d \in Chips, NEW y, NEW b \in 0 .. Issued - 1, Goes(b, d, y),
              (d = c /\ SameVPage(y, x)) \/ Goes(a, d, y)
       PROVE  ErasedAgain(c, x.block)
  <2>1. b \in Nat /\ b # a /\ ChipOf(b) = d /\ y.block = PhysBlock(b)
    BY <1>3, <1>17 DEF Goes
  <2>2. VBlock(b) < nextErasePtr[d]
    BY <1>1, <2>1 DEF IssuedMapped
  <2>3. d = c /\ SameVPage(y, x) /\ y.block = x.block
    BY <1>16, <1>17 DEF Goes, SameVPage
  <2>4. OnErasedAgain(b)
    BY <1>1, <1>10, <1>16, <1>17, <2>1, <2>2, <2>3, SamePlace
  <2> QED BY <2>1, <2>3, <2>4 DEF OnErasedAgain
<1>18. ASSUME NEW d \in Chips, NEW k, WriteAt(d, k),
              (d = c /\ SameVPage(chipQ[d][k], x)) \/ Goes(a, d, chipQ[d][k])
       PROVE  ErasedAgain(c, x.block)
  <2>1. k \in Nat \ {0}
    BY <1>18 DEF WriteAt
  <2>2. PICK b \in 0 .. Issued - 1 : Goes(b, d, chipQ[d][k])
    BY <1>1, <1>18, <2>1 DEF WritesInv, WriteInv
  <2> QED BY <1>17, <1>18, <2>2
<1>19. /\ ErasedAgain(c, x.block) => \A e : Ok(a, e)'
       /\ \A d, y : ErasedAgain(d, y)' = ErasedAgain(d, y)
  <2>1. ErasedAgain(c, x.block) => \A e : Ok(a, e)
    BY <1>5, <1>7 DEF Ok, OnErasedAgain
  <2> QED BY <1>8, <1>15, <2>1, StaysSame
<1>20. /\ \A d \in Chips : \A k : Unread(d, k) => Unread(d, k)'
       /\ \A d \in Chips : \A k : Unread(d, k)' => Unread(d, k) \/ (d = c /\ k = n + 1)
       /\ Unread(c, n + 1)'
  <2>1. \A d \in Chips : \A k : Unread(d, k) => Unread(d, k)'
    BY <1>8, <1>14 DEF Unread
  <2>2. ASSUME NEW d \in Chips, NEW k, Unread(d, k)', ~ (d = c /\ k = n + 1) PROVE Unread(d, k)
    <3>1. WriteAt(d, k)'
      BY <2>2 DEF Unread
    <3>2. WriteAt(d, k) /\ chipQ'[d][k] = chipQ[d][k]
      BY <1>14, <2>2, <3>1
    <3> QED BY <1>8, <2>2, <3>2 DEF Unread
  <2>3. Unread(c, n + 1)'
    BY <1>7, <1>13, <1>14 DEF Unread
  <2> QED BY <2>1, <2>2, <2>3
<1>21. ASSUME NEW d \in Chips, NEW k, Unread(d, k)
       PROVE  /\ WriteInv(d, k) /\ chipQ[d][k].addr \in 0 .. NumPages - 1 /\ chipQ[d][k].addr < m
  <2>1. k \in Nat \ {0} /\ WriteAt(d, k)
    BY <1>21 DEF Unread, WriteAt
  <2>2. WriteInv(d, k) /\ chipQ[d][k] \in WriteCmd
    BY <1>1, <2>1, WriteCmdIs DEF WritesInv
  <2>3. chipQ[d][k].addr < m
    BY <1>4, <1>21, <2>2 DEF WriteInv
  <2> QED BY <2>2, <2>3 DEF WriteCmd
<1>22. Cardinality(UnreadPages') = flush'.asked - flush'.read
  <2>1. m \notin UnreadPages
    BY <1>21 DEF UnreadPages
  <2>2. UnreadPages' = UnreadPages \cup { m }
    <3>1. ASSUME NEW p, p \in UnreadPages' PROVE p \in UnreadPages \cup { m }
      <4>1. PICK d \in Chips : \E k \in 1 .. Len(chipQ'[d]) : Unread(d, k)' /\ chipQ'[d][k].addr = p
        BY <3>1 DEF UnreadPages
      <4>2. PICK k \in 1 .. Len(chipQ'[d]) : Unread(d, k)' /\ chipQ'[d][k].addr = p
        BY <4>1
      <4>3. CASE Unread(d, k)
        <5>1. k \in 1 .. Len(chipQ[d]) /\ chipQ[d][k].addr = p /\ p \in 0 .. NumPages - 1
          BY <1>13, <1>21, <4>2, <4>3 DEF Unread, WriteAt
        <5> QED BY <4>3, <5>1 DEF UnreadPages
      <4>4. CASE d = c /\ k = n + 1
        BY <1>7, <1>13, <4>2, <4>4
      <4> QED BY <1>20, <4>2, <4>3, <4>4
    <3>2. ASSUME NEW p, p \in UnreadPages PROVE p \in UnreadPages'
      BY <1>13, <1>20, <3>2 DEF UnreadPages
    <3>3. m \in UnreadPages'
      BY <1>7, <1>13, <1>20 DEF UnreadPages
    <3> QED BY <3>1, <3>2, <3>3
  <2>3. IsFiniteSet(0 .. NumPages - 1)
    BY FS_Interval, PagesNat
  <2>4. UnreadPages \in SUBSET (0 .. NumPages - 1)
    BY DEF UnreadPages
  <2>5. IsFiniteSet(UnreadPages) /\ Cardinality(UnreadPages) \in Nat
    BY <2>3, <2>4, FS_Subset, FS_CardinalityType
  <2>6. Cardinality(UnreadPages) = m - flush.read
    BY <1>1, <1>2, <1>4 DEF WritesInv
  <2>7. Cardinality(UnreadPages') = Cardinality(UnreadPages) + 1
    BY <2>1, <2>2, <2>5, FS_AddElement
  <2> QED BY <1>2, <1>9, <2>6, <2>7
<1>23. ASSUME NEW d \in Chips, NEW k \in Nat \ {0}, WriteAt(d, k)' PROVE WriteInv(d, k)'
  <2>1. CASE WriteAt(d, k)
    <3>1. WriteInv(d, k) /\ chipQ'[d][k] = chipQ[d][k]
      BY <1>1, <1>14, <2>1 DEF WritesInv
    <3>2. PICK y : y = chipQ[d][k] /\ y = chipQ'[d][k]
      BY <3>1
    <3>3. \E b \in 0 .. Issued' - 1 : Goes(b, d, y)'
      <4>1. PICK b \in 0 .. Issued - 1 : Goes(b, d, y)
        BY <3>1, <3>2 DEF WriteInv
      <4>2. b \in 0 .. Issued' - 1
        BY <1>3, <1>9
      <4> QED BY <1>15, <4>1, <4>2
    <3>4. k > 1 => y.at = "queued"
      BY <3>1, <3>2 DEF WriteInv
    <3>5. y.at = "waits" => d \in ToSet(writeTagQ') \/ DataFor(d)'
      BY <1>8, <3>1, <3>2 DEF WriteInv, DataFor
    <3>6. ASSUME Unread(d, k)'
          PROVE  flush'.step = "pages" /\ y.addr < flush'.asked /\ Goes(flush.seg * NumPages + y.addr, d, y)
      <4>1. Unread(d, k)
        BY <1>8, <2>1, <3>2, <3>6 DEF Unread
      <4>2. y.addr \in 0 .. NumPages - 1 /\ y.addr < m
        BY <1>21, <3>2, <4>1
      <4>3. Goes(flush.seg * NumPages + y.addr, d, y)
        BY <3>1, <3>2, <4>1 DEF WriteInv
      <4>4. y.addr < m + 1
        BY <4>2
      <4> QED BY <1>9, <4>3, <4>4
    <3>7. Unread(d, k)' => Goes(flush.seg * NumPages + chipQ[d][k].addr, d, chipQ[d][k])'
      <4> SUFFICES ASSUME Unread(d, k)' PROVE Goes(flush.seg * NumPages + chipQ[d][k].addr, d, chipQ[d][k])'
        OBVIOUS
      <4>1. PICK b : b = flush.seg * NumPages + y.addr
        OBVIOUS
      <4>2. Goes(b, d, y)'
        BY <1>15, <3>6, <4>1
      <4>3. b = (flush.seg * NumPages + chipQ[d][k].addr)'
        BY <1>9, <3>2, <4>1
      <4> QED BY <3>2, <4>2, <4>3 DEF Goes
    <3>8. ASSUME y.at = "data", NEW b \in 0 .. Issued' - 1, Goes(b, d, y)' PROVE Ok(b, y.data)'
      <4>1. Goes(b, d, y)
        BY <1>15, <3>8
      <4>2. CASE b = a
        BY <1>18, <1>19, <2>1, <3>2, <4>1, <4>2
      <4>3. CASE b # a
        <5>1. b \in 0 .. Issued - 1
          BY <1>3, <1>9, <4>3
        <5>2. Ok(b, y.data)
          BY <3>1, <3>2, <3>8, <4>1, <5>1 DEF WriteInv
        <5> QED BY <1>15, <5>2
      <4> QED BY <4>2, <4>3
    <3>9. \A b : Goes(b, d, chipQ[d][k])' = Goes(b, d, y)'
      BY <3>2 DEF Goes
    <3>10. \A b : Ok(b, y.data)' => Ok(b, chipQ[d][k].data)'
      BY <3>2 DEF Ok
    <3> QED BY <3>2, <3>3, <3>4, <3>5, <3>6, <3>7, <3>8, <3>9, <3>10 DEF WriteInv
  <2>2. CASE d = c /\ k = n + 1
    <3>1. chipQ'[d][k] = x
      BY <1>13, <2>2
    <3>2. \A b : Goes(b, d, chipQ[d][k])' = Goes(b, c, x)
      BY <1>15, <2>2, <3>1 DEF Goes, PhysBlock
    <3>3. \E b \in 0 .. Issued' - 1 : Goes(b, d, chipQ[d][k])'
      <4>1. a \in 0 .. Issued' - 1
        BY <1>9
      <4> QED BY <1>16, <3>2, <4>1
    <3>4. Goes(flush.seg * NumPages + chipQ[d][k].addr, d, chipQ[d][k])'
      <4>1. a = (flush.seg * NumPages + chipQ[d][k].addr)'
        BY <1>3, <1>4, <1>7, <1>9, <3>1
      <4>2. Goes(a, d, x)'
        BY <1>15, <1>16, <2>2
      <4> QED BY <3>1, <4>1, <4>2 DEF Goes
    <3>5. chipQ'[d][k].at = "queued" /\ chipQ'[d][k].addr < flush'.asked
      BY <1>7, <1>9, <3>1
    <3> QED BY <1>9, <3>3, <3>4, <3>5 DEF WriteInv
  <2> QED BY <1>14, <1>23, <2>1, <2>2
<1>24. WritesInv'
  <2>1. ASSUME NEW d \in Chips, NEW k \in Nat \ {0}, NEW l \in Nat \ {0},
               WriteAt(d, k)', WriteAt(d, l)', SameVPage(chipQ'[d][k], chipQ'[d][l])
        PROVE  k = l \/ ErasedAgain(d, chipQ'[d][k].block)
    <3>1. CASE WriteAt(d, k) /\ WriteAt(d, l)
      BY <1>1, <1>14, <2>1, <3>1 DEF WritesInv
    <3>2. CASE WriteAt(d, k) /\ d = c /\ l = n + 1
      <4>1. ErasedAgain(c, x.block)
        BY <1>13, <1>14, <1>18, <2>1, <3>2
      <4> QED BY <1>13, <2>1, <3>2, <4>1 DEF SameVPage
    <3>3. CASE WriteAt(d, l) /\ d = c /\ k = n + 1
      <4>1. ErasedAgain(c, x.block)
        BY <1>13, <1>14, <1>18, <2>1, <3>3 DEF SameVPage
      <4> QED BY <1>13, <3>3, <4>1
    <3> QED BY <1>14, <2>1, <3>1, <3>2, <3>3
  <2>2. ASSUME NEW d \in Chips, NEW k \in Nat \ {0}, NEW l \in Nat \ {0},
               Unread(d, k)', Unread(d, l)', chipQ'[d][k].addr = chipQ'[d][l].addr
        PROVE  k = l
    <3>1. \A j : Unread(d, j) => chipQ'[d][j] = chipQ[d][j] /\ chipQ'[d][j].addr # m
      BY <1>14, <1>21 DEF Unread
    <3>2. d = c => chipQ'[d][n + 1].addr = m
      BY <1>7, <1>13
    <3>3. CASE Unread(d, k) /\ Unread(d, l)
      BY <1>1, <2>2, <3>1, <3>3 DEF WritesInv
    <3> QED BY <1>20, <2>2, <3>1, <3>2, <3>3
  <2>3. \A d \in Chips : \A k : ErasedAgain(d, chipQ'[d][k].block) => ErasedAgain(d, chipQ[d][k].block)'
    BY <1>8, StaysSame, ErasedKept
  <2>4. \A d \in Chips : \A k, l \in Nat \ {0} :
          WriteAt(d, k)' /\ WriteAt(d, l)' /\ SameVPage(chipQ'[d][k], chipQ'[d][l]) =>
            k = l \/ ErasedAgain(d, chipQ[d][k].block)'
    BY <2>1, <2>3
  <2> QED BY <1>22, <1>23, <2>2, <2>4 DEF WritesInv, SameVPage
<1>25. TagsInv'
  <2>1. ASSUME NEW d \in ToSet(writeTagQ) PROVE WriteAt(d, 1)' /\ chipQ'[d][1].at = "waits"
    <3>1. d \in Chips
      BY <1>1 DEF TagsInv, ToSet
    <3> QED BY <1>1, <1>14, <3>1 DEF TagsInv
  <2>2. writeTagQ' = writeTagQ
    BY <1>8
  <2> QED BY <1>1, <2>1, <2>2 DEF TagsInv
<1>26. DataToFlash' /\ DataQTypes'
  <2>1. DataQTypes'
    BY <1>1, <1>8 DEF DataQTypes
  <2>2. ASSUME NEW d \in Chips, DataFor(d)'
        PROVE  /\ WriteAt(d, 1)' /\ chipQ'[d][1].at = "waits" /\ d \notin ToSet(writeTagQ')
               /\ \A b \in 0 .. Issued' - 1 : Goes(b, d, chipQ[d][1])' => Ok(b, dataQ[1].data)'
    <3>1. DataFor(d)
      BY <1>8, <2>2 DEF DataFor
    <3>2. /\ WriteAt(d, 1) /\ chipQ[d][1].at = "waits" /\ d \notin ToSet(writeTagQ)
          /\ \A b \in 0 .. Issued - 1 : Goes(b, d, chipQ[d][1]) => Ok(b, dataQ[1].data)
      BY <1>1, <3>1 DEF DataToFlash
    <3>3. PICK y, e : y = chipQ[d][1] /\ y = chipQ'[d][1] /\ e = dataQ[1].data /\ e = dataQ'[1].data
      BY <1>8, <1>14, <3>2
    <3>4. ASSUME NEW b \in 0 .. Issued' - 1, Goes(b, d, chipQ[d][1])' PROVE Ok(b, dataQ[1].data)'
      <4>1. Goes(b, d, y)'
        BY <3>3, <3>4 DEF Goes
      <4>2. Goes(b, d, y)
        BY <1>15, <4>1
      <4>3. Ok(b, e)'
        <5>1. CASE b = a
          BY <1>18, <1>19, <3>2, <3>3, <4>2, <5>1
        <5>2. CASE b # a
          <6>1. b \in 0 .. Issued - 1
            BY <1>3, <1>9, <5>2
          <6> QED BY <1>15, <3>2, <3>3, <4>2, <6>1
        <5> QED BY <5>1, <5>2
      <4> QED BY <3>3, <4>3 DEF Ok
    <3> QED BY <1>8, <1>14, <3>2, <3>3, <3>4
  <2> QED BY <2>1, <2>2 DEF DataToFlash
<1>27. Stored'
  <2> SUFFICES ASSUME NEW d \in Chips, NEW b \in 0 .. Issued' - 1, ChipOf(b) = d
               PROVE  \/ \E k \in 1 .. Len(chipQ'[d]) : WriteAt(d, k)' /\ Goes(b, d, chipQ[d][k])'
                      \/ Ok(b, flash[d][PhysBlock(b)][PageOf(b)])'
    BY DEF Stored
  <2>1. CASE b = a
    <3>1. d = c /\ WriteAt(d, n + 1)' /\ n + 1 \in 1 .. Len(chipQ'[d]) /\ chipQ'[d][n + 1] = x
      BY <1>5, <1>13, <1>14, <2>1
    <3>2. Goes(b, d, x)'
      BY <1>15, <1>16, <2>1, <3>1
    <3>3. Goes(b, d, chipQ[d][n + 1])'
      BY <3>1, <3>2 DEF Goes
    <3> QED BY <3>1, <3>3
  <2>2. CASE b # a
    <3>1. b \in 0 .. Issued - 1
      BY <1>3, <1>9, <2>2
    <3>2. CASE \E k \in 1 .. Len(chipQ[d]) : WriteAt(d, k) /\ Goes(b, d, chipQ[d][k])
      <4>1. PICK k \in 1 .. Len(chipQ[d]) : WriteAt(d, k) /\ Goes(b, d, chipQ[d][k])
        BY <3>2
      <4>2. WriteAt(d, k)' /\ chipQ'[d][k] = chipQ[d][k] /\ k \in 1 .. Len(chipQ'[d])
        BY <1>13, <1>14, <4>1
      <4>3. Goes(b, d, chipQ[d][k])'
        BY <1>8, <4>1, <4>2 DEF Goes, PhysBlock
      <4> QED BY <4>2, <4>3
    <3>3. CASE Ok(b, flash[d][PhysBlock(b)][PageOf(b)])
      <4>1. PICK e : e = flash[d][PhysBlock(b)][PageOf(b)] /\ e = (flash[d][PhysBlock(b)][PageOf(b)])'
        BY <1>8 DEF PhysBlock
      <4>2. Ok(b, e)'
        BY <1>15, <3>3, <4>1
      <4> QED BY <4>1, <4>2 DEF Ok
    <3> QED BY <1>1, <3>1, <3>2, <3>3 DEF Stored
  <2> QED BY <2>1, <2>2
<1>28. ReadsBehindWrites'
  <2>1. \A k \in 1 .. Len(chipQ[c]) : ReadAt(c, k) /\ SameVPage(chipQ[c][k], x) =>
                                         ErasedAgain(c, x.block)
    <3> TAKE k \in 1 .. Len(chipQ[c])
    <3> SUFFICES ASSUME ReadAt(c, k), SameVPage(chipQ[c][k], x) PROVE ErasedAgain(c, x.block)
      OBVIOUS
    <3>1. PICK b \in 0 .. Issued - 1 : Goes(b, c, chipQ[c][k])
      OBVIOUS
    <3> QED BY <1>17, <3>1
  <2>2. ErasedStays
    BY <1>8, StaysSame
  <2> QED BY <1>1, <1>11, <2>1, <2>2, ReadsBehindSent
<1>29. pagesWritten' \in [ Chips -> Nat ]
  BY <1>1, <1>8
<1> QED BY <1>8, <1>10, <1>11, <1>24, <1>25, <1>26, <1>27, <1>28, <1>29 DEF ProgramInv

-----------------------------------------------------------------------------
(* The writer, the DRAM and the flash together, action by action.          *)
erase_view == << bad, state, eraseStatus, chipCnt, respMax, respCnt, nextPhysPtr, nextErasePtr,
                 blockMap, eraseAcks >>

LEMMA EraseSame ==
  ASSUME ErasePtrsInv, UNCHANGED << erase_view, flash, chipQ, pagesWritten, panic >>
  PROVE  ErasePtrsInv'
<1>1. UNCHANGED << bad, state, eraseStatus, chipCnt, respMax, respCnt, nextPhysPtr, nextErasePtr,
                   blockMap, eraseAcks, flash, chipQ, pagesWritten, panic >>
  BY DEF erase_view
<1>2. ServerTypes'
  BY <1>1 DEF ErasePtrsInv, ServerTypes
<1>3. \A c \in Chips : ErasingAt(c)' = ErasingAt(c) /\ AckedAt(c)' = AckedAt(c)
  BY <1>1 DEF ErasingAt, AckedAt
<1>4. InFlight' = InFlight
  BY <1>3 DEF InFlight
<1>5. RoundInv'
  BY <1>1, <1>4 DEF ErasePtrsInv, EraseInv, RoundInv
<1>6. ErasingInv'
  BY <1>1, <1>3, <1>4 DEF ErasePtrsInv, EraseInv, ErasingInv
<1>7. MapInv'
  BY <1>1, MapSame DEF ErasePtrsInv, EraseInv
<1> QED BY <1>2, <1>5, <1>6, <1>7 DEF ErasePtrsInv, EraseInv

LEMMA ProgramSame ==
  ASSUME WriterInv, ServerTypes, ProgramInv, UNCHANGED << chipQ, flash, pagesWritten, nextErasePtr,
         blockMap, writeTagQ >>, Issued' = Issued, ErasedStays,
         \/ flush' = flush
         \/ flush.step # "pages" /\ flush'.asked = 0 /\ flush'.read = 0,
         dataQ' = dataQ \/ (DataQTypes' /\ \A c \in Chips : ~ DataFor(c) /\ ~ DataFor(c)'),
         \A a \in 0 .. Issued - 1 : \A data : Ok(a, data) => Ok(a, data)'
  PROVE  ProgramInv'
<1>1. \A a : PhysBlock(a)' = PhysBlock(a)
  BY DEF PhysBlock
<1>2. DataQTypes'
  BY DEF ProgramInv, DataQTypes
<1>3. /\ nextErasePtr' \in [ Chips -> 0 .. Blocks - 1 ]
      /\ \A d \in Chips : nextErasePtr[d] <= nextErasePtr'[d]
  BY DEF ServerTypes
<1>4. UNCHANGED << Issued, chipQ, flash, pagesWritten, writeTagQ >>
  OBVIOUS
<1>5. dataQ' = dataQ \/ \A c \in Chips : ~ DataFor(c) /\ ~ DataFor(c)'
  OBVIOUS
<1> QED BY <1>1, <1>2, <1>3, <1>4, <1>5, ProgramFrame

(* A step that leaves the writer and the flash alone.                      *)
core_view == << flushReqQ, flush, superPageCnt, wrote, early, writeTagQ, erase_view, flash, chipQ,
                pagesWritten, panic >>

LEMMA CoreSame ==
  ASSUME CoreInv, UNCHANGED core_view, WriterInv', DramInv',
         dataQ' = dataQ \/ (DataQTypes' /\ \A c \in Chips : ~ DataFor(c) /\ ~ DataFor(c)')
  PROVE  CoreInv'
<1>1. /\ UNCHANGED << flushReqQ, flush, superPageCnt, wrote, early, writeTagQ, flash, chipQ,
                      pagesWritten, panic, nextErasePtr, blockMap >>
      /\ UNCHANGED erase_view
  BY DEF core_view, erase_view
<1>2. ErasePtrsInv'
  BY <1>1, EraseSame DEF CoreInv
<1>3. Issued' = Issued
  BY <1>1 DEF Issued
<1>4. \A a, data : Ok(a, data)' = Ok(a, data)
  BY <1>1, OkSame DEF erase_view, map_view
<1>5. WriterInv /\ ServerTypes /\ ProgramInv
  BY DEF CoreInv, ErasePtrsInv
<1>6. ProgramInv'
  <2>1. ErasedStays
    BY <1>1, StaysSame DEF erase_view, map_view
  <2> QED BY <1>1, <1>3, <1>4, <1>5, <2>1, ProgramSame
<1> QED BY <1>2, <1>6 DEF CoreInv

LEMMA WriteBufCore ==
  ASSUME CoreInv, doWriteBuf
  PROVE  CoreInv' /\ Issued' = Issued /\ Issued \in Nat
<1>1. WriterInv /\ DramInv /\ ErasePtrsInv /\ ServerTypes /\ ProgramInv
  BY DEF CoreInv, ErasePtrsInv
<1>2. WriterInv' /\ DramInv'
  BY <1>1, WriteBufWriter, WriteBufDram
<1>3. UNCHANGED << dataQ, flush, writeTagQ, early, chipQ, flash, pagesWritten, panic, nextErasePtr,
                   blockMap >> /\ UNCHANGED erase_view
  BY DEF doWriteBuf, server_vars, eraser, chips, erase_view
<1>4. ErasePtrsInv'
  BY <1>1, <1>3, EraseSame
<1>5. PICK n \in Nat, off \in Nat : Accepts(n, off)
  BY <1>1, WriteBufAccepts
<1>6. Issued' = Issued
  <2>1. CASE UNCHANGED << superPageCnt, currBuf, writeLocks, clean, flushReqQ >>
    BY <1>3, <2>1 DEF Issued
  <2>2. CASE /\ ~ writeLocks[1 - currBuf] /\ superPageCnt' = superPageCnt + 1
             /\ flushReqQ' = Append(flushReqQ, [ seg |-> superPageCnt, buf |-> currBuf ])
    <3>1. flushReqQ = << >> /\ flush = NoFlush
      BY <1>1, <2>2 DEF WriterInv, FlushInv
    <3>2. flushReqQ' # << >>
      BY <2>2, <3>1
    <3>3. superPageCnt \in Nat /\ superPageCnt' - 1 = superPageCnt
      BY <1>1, <2>2, FlushIs
    <3>4. flush.step = "no"
      BY <3>1 DEF NoFlush
    <3> QED BY <3>1, <3>2, <3>3, <3>4 DEF Issued
  <2> QED BY <1>5, <2>1, <2>2 DEF Accepts
<1>7. ErasedStays /\ \A a : PhysBlock(a)' = PhysBlock(a)
  BY <1>3, StaysSame DEF erase_view, map_view, PhysBlock
<1>8. \A a \in 0 .. Issued - 1 : \A data : Ok(a, data) => Ok(a, data)'
  BY <1>1, <1>3, <1>5, <1>7, OkAccepts
<1>9. ProgramInv'
  BY <1>1, <1>3, <1>6, <1>7, <1>8, ProgramSame
<1> QED BY <1>1, <1>2, <1>4, <1>6, <1>9, IssuedIs DEF CoreInv

LEMMA UnlockCore ==
  ASSUME CoreInv, doUnlockBuf
  PROVE  CoreInv' /\ Issued' = Issued
<1>1. UNCHANGED core_view /\ UNCHANGED << wrote, superPageCnt, currBuf, dram, dramReqQ, byteCnt, dataQ >>
  BY DEF doUnlockBuf, core_view, dram_vars, server_vars, eraser, chips, erase_view
<1>2. WriterInv' /\ DramInv'
  BY <1>1, UnlockWriter, DramFrame DEF CoreInv
<1>3. Issued' = Issued
  BY <1>1 DEF core_view, Issued
<1> QED BY <1>1, <1>2, <1>3, CoreSame

LEMMA ReadCmdCore ==
  ASSUME CoreInv, Len(reads) \in Nat, doReadCmd
  PROVE  CoreInv' /\ Issued' = Issued
<1>1. UNCHANGED core_view /\ UNCHANGED dataQ
  BY DEF doReadCmd, core_view, write_vars, flush_vars, server_vars, eraser, chips, erase_view
<1>2. WriterInv' /\ DramInv'
  BY ReadCmdWriter, ReadCmdDram DEF CoreInv
<1>3. Issued' = Issued
  BY <1>1 DEF core_view, Issued
<1> QED BY <1>1, <1>2, <1>3, CoreSame

LEMMA DramWriteCore ==
  ASSUME CoreInv, driveDRAMWriteCmd
  PROVE  CoreInv' /\ Issued' = Issued
<1>1. UNCHANGED core_view /\ UNCHANGED << dataQ, reqQ, write_vars, flushReqQ, flush, flushRespQ >>
  BY DEF driveDRAMWriteCmd, core_view, write_vars, flush_vars, server_vars, eraser, chips, erase_view
<1>2. WriterInv' /\ DramInv'
  BY <1>1, WriterFrame, DramWriteDram DEF CoreInv, WriterInv
<1>3. Issued' = Issued
  BY <1>1 DEF core_view, Issued
<1> QED BY <1>1, <1>2, <1>3, CoreSame

(* What DRAM reads for an answer is the page asked for.                    *)
LEMMA DramReadIs ==
  ASSUME WriterInv, DramInv, driveDRAMReadCmd
  PROVE  /\ dramReqQ # << >> /\ dramReqQ[1].rnw /\ dataQ = << >> /\ 1 \in 1 .. Len(dramReqQ)
         /\ dramReqQ[1].value \in Values /\ dramReqQ[1].id \in Nat
         /\ byteCnt \in Nat /\ byteCnt < wrote[dramReqQ[1].value].size
         /\ dataQ' = << [ to |-> "dram", id |-> dramReqQ[1].id,
                          data |-> << dramReqQ[1].value, byteCnt + 1 >> ] >>
<1>1. ValuesInv /\ DramTypes /\ ReadsHeld
  BY DEF WriterInv, DramInv
<1>2. dramReqQ \in Seq(DramRequest) /\ dramReqQ # << >> /\ dataQ = << >> /\ byteCnt \in Nat
      /\ byteCnt < wrote[dramReqQ[1].value].size
  BY <1>1 DEF driveDRAMReadCmd, DramTypes
<1>3. Head(dramReqQ) = dramReqQ[1] /\ 1 \in 1 .. Len(dramReqQ)
  BY <1>2, TailIs
<1>4. PICK r : r = dramReqQ[1]
  OBVIOUS
<1>5. r.value \in Values /\ r.id \in Nat /\ r.rnw
  BY <1>1, <1>3, <1>4, DramReqIs DEF driveDRAMReadCmd, DramReq
<1>6. wrote[r.value].addr \in Nat /\ wrote[r.value].size \in Nat
  BY <1>1, <1>5, ValueIs
<1>7. byteCnt + 1 \in Left(1)
  BY <1>2, <1>4, <1>6 DEF Left
<1>8. ReadHeld(1, r.value, r.buf)
  BY <1>1, <1>3, <1>4, <1>5 DEF ReadsHeld
<1>9. dram[r.buf][Offset(r.value) + (byteCnt + 1) - 1] = << r.value, byteCnt + 1 >>
  BY <1>7, <1>8 DEF ReadHeld
<1>10. Offset(r.value) \in 0 .. NumPages - 1
  BY <1>1, <1>5, ValueIs
<1>11. DramPage = Offset(r.value) + (byteCnt + 1) - 1
  BY <1>2, <1>3, <1>4, <1>10 DEF DramPage, DramReq, Offset
<1> QED BY <1>2, <1>3, <1>4, <1>5, <1>9, <1>11 DEF driveDRAMReadCmd, DramReq

LEMMA DramReadCore ==
  ASSUME CoreInv, driveDRAMReadCmd
  PROVE  CoreInv' /\ Issued' = Issued
<1>1. UNCHANGED core_view /\ UNCHANGED << reqQ, write_vars, flushReqQ, flush, flushRespQ >>
  BY DEF driveDRAMReadCmd, core_view, write_vars, flush_vars, server_vars, eraser, chips, erase_view
<1>2. WriterInv' /\ DramInv'
  BY <1>1, WriterFrame, DramReadDram DEF CoreInv, WriterInv
<1>3. Issued' = Issued
  BY <1>1 DEF core_view, Issued
<1>4. /\ dataQ = << >> /\ dramReqQ[1].value \in Values /\ dramReqQ[1].id \in Nat /\ byteCnt \in Nat
      /\ dataQ' = << [ to |-> "dram", id |-> dramReqQ[1].id,
                       data |-> << dramReqQ[1].value, byteCnt + 1 >> ] >>
  BY DramReadIs DEF CoreInv
<1>5. PICK d : d = [ to |-> "dram", id |-> dramReqQ[1].id,
                     data |-> << dramReqQ[1].value, byteCnt + 1 >> ]
  OBVIOUS
<1>6. d \in [ to : { "dram" }, id : Nat, data : Data ] /\ d.to = "dram"
  <2>1. << dramReqQ[1].value, byteCnt + 1 >> \in Data
    BY <1>4 DEF Data, Values
  <2> QED BY <1>4, <1>5, <2>1
<1>7. DataQTypes'
  <2>1. d \in [ to : { "dram" }, id : Nat, data : Data ]
                   \cup [ to : { "flash" }, id : Chips, data : Data ]
    BY <1>6
  <2> QED BY <1>4, <1>5, <2>1, LenOne DEF DataQTypes
<1>8. \A c \in Chips : ~ DataFor(c) /\ ~ DataFor(c)'
  <2>1. dataQ'[1] = d
    BY <1>4, <1>5
  <2> QED BY <1>4, <1>6, <2>1 DEF DataFor
<1> QED BY <1>1, <1>2, <1>3, <1>7, <1>8, CoreSame

LEMMA FlushReserveCore ==
  ASSUME CoreInv, FlushReserve
  PROVE  CoreInv' /\ Issued' = Issued
<1>1. WriterInv /\ DramInv /\ ErasePtrsInv /\ ServerTypes /\ ProgramInv
  BY DEF CoreInv, ErasePtrsInv
<1>2. /\ UNCHANGED << chipQ, flash, pagesWritten, panic, nextErasePtr, blockMap, writeTagQ, dataQ,
                      wrote, early, superPageCnt >>
      /\ UNCHANGED << reqQ, wrote, superPageCnt, currBuf, used, writeLocks, clean >>
      /\ UNCHANGED << wrote, superPageCnt, currBuf, dram, dramReqQ, byteCnt >>
      /\ UNCHANGED erase_view
  BY DEF FlushReserve, doReserveReq, write_vars, dram_vars, chips, erase_view
<1>3. WriterInv' /\ DramInv'
  BY <1>1, <1>2, FlushWriter, DramFrame
<1>4. ErasePtrsInv'
  BY <1>1, <1>2, EraseSame
<1>5. /\ flush.step = "no" /\ flushReqQ # << >>
      /\ flushReqQ = << [ seg |-> superPageCnt - 1, buf |-> 1 - currBuf ] >>
  BY <1>1, FlushIs DEF FlushReserve
<1>6. Head(flushReqQ).seg = superPageCnt - 1 /\ Tail(flushReqQ) = << >>
  BY <1>5
<1>7. /\ flush'.step = "tags" /\ flush'.seg = superPageCnt - 1 /\ flush'.asked = 0 /\ flush'.read = 0
      /\ flushReqQ' = << >>
  BY <1>6 DEF FlushReserve, NoFlush
<1>8. Issued' = Issued
  <2>1. Issued = (superPageCnt - 1) * NumPages /\ Issued \in Nat
    BY <1>1, <1>5, IssuedIs
  <2>2. Issued' = (superPageCnt - 1) * NumPages + 0
    BY <1>7 DEF Issued
  <2>3. PICK n \in Nat : n = (superPageCnt - 1) * NumPages
    BY <2>1
  <2>4. Issued' = n + 0
    BY <2>2, <2>3
  <2> QED BY <2>1, <2>3, <2>4
<1>9. ErasedStays /\ \A a, data : Ok(a, data)' = Ok(a, data)
  BY <1>2, StaysSame, OkSame DEF erase_view, map_view
<1>10. flush.step # "pages"
  BY <1>5
<1>11. ProgramInv'
  BY <1>1, <1>2, <1>7, <1>8, <1>9, <1>10, ProgramSame
<1> QED BY <1>3, <1>4, <1>8, <1>11 DEF CoreInv

LEMMA FlushTagsCore ==
  ASSUME CoreInv, FlushTags
  PROVE  CoreInv' /\ Issued' = Issued
<1>1. WriterInv /\ DramInv /\ ErasePtrsInv /\ ServerTypes /\ ProgramInv
  BY DEF CoreInv, ErasePtrsInv
<1>2. /\ UNCHANGED << chipQ, flash, pagesWritten, panic, nextErasePtr, blockMap, writeTagQ, dataQ,
                      wrote, early, superPageCnt, flushReqQ >>
      /\ UNCHANGED << reqQ, wrote, superPageCnt, currBuf, used, writeLocks, clean >>
      /\ UNCHANGED << wrote, superPageCnt, currBuf, dram, dramReqQ, byteCnt >>
      /\ UNCHANGED erase_view
  BY DEF FlushTags, write_vars, dram_vars, chips, eraser, erase_view
<1>3. WriterInv' /\ DramInv'
  BY <1>1, <1>2, FlushWriter, DramFrame
<1>4. ErasePtrsInv'
  BY <1>1, <1>2, EraseSame
<1>5. flush.step = "tags" /\ flush.step # "no" /\ flush' = [ flush EXCEPT !.step = "pages" ]
  BY DEF FlushTags
<1>6. flush \in Flushing /\ flush.asked = 0 /\ flush.read = 0
  BY <1>1, <1>5, FlushIs
<1>7. /\ flush'.step = "pages" /\ flush'.seg = flush.seg /\ flush'.asked = 0 /\ flush'.read = 0
      /\ flush'.asked = flush.asked
  BY <1>5, <1>6 DEF Flushing
<1>8. Issued' = Issued
  BY <1>2, <1>5, <1>7 DEF Issued
<1>9. ErasedStays /\ \A a, data : Ok(a, data)' = Ok(a, data)
  BY <1>2, StaysSame, OkSame DEF erase_view, map_view
<1>10. flush.step # "pages"
  BY <1>5
<1>11. ProgramInv'
  BY <1>1, <1>2, <1>7, <1>8, <1>9, <1>10, ProgramSame
<1> QED BY <1>3, <1>4, <1>8, <1>11 DEF CoreInv

(* Steps of the queues of commands.                                        *)
LEMMA TypesQueue ==
  ASSUME ServerTypes, UNCHANGED << erase_view, panic >>, Queues',
         flash' \in [ Chips -> [ 0 .. Blocks - 1 -> [ 0 .. PagesPerBlock - 1 -> Data ] ] ],
         pagesWritten' \in [ Chips -> Nat ]
  PROVE  ServerTypes'
BY DEF ServerTypes, erase_view, Queues

LEMMA FlashCmdsCore ==
  ASSUME CoreInv, doFlashCmds,
         \A c \in Chips : \A k : ReadAt(c, k) => \E b \in 0 .. Issued - 1 : Goes(b, c, chipQ[c][k])
  PROVE  CoreInv' /\ \E c \in Chips : \E x \in WriteCmd : Sent(c, x)
<1>1. WriterInv /\ DramInv /\ ErasePtrsInv /\ ServerTypes /\ ProgramInv /\ Queues
  BY DEF CoreInv, ErasePtrsInv, ServerTypes, Queues
<1>2. /\ UNCHANGED << reqQ, wrote, superPageCnt, currBuf, used, writeLocks, clean >>
      /\ UNCHANGED << wrote, superPageCnt, currBuf, dram, dramReqQ, byteCnt >>
      /\ UNCHANGED erase_view /\ UNCHANGED << bad, eraser, eraseAcks >> /\ UNCHANGED flash
  BY DEF doFlashCmds, doReq, write_vars, dram_vars, eraser, erase_view
<1>3. WriterInv' /\ DramInv'
  BY <1>1, <1>2, FlushWriter, DramFrame
<1>4. ProgramInv' /\ panic' = FALSE /\ pagesWritten' \in [ Chips -> Nat ]
      /\ \E c \in Chips : \E x \in WriteCmd : Sent(c, x)
  BY <1>1, FlashCmdsProgram
<1>5. PICK c \in Chips, x \in WriteCmd : Sent(c, x)
  BY <1>4
<1>6. x.op # "ERASE_BLOCK"
  BY DEF WriteCmd
<1>7. EraseInv'
  BY <1>1, <1>2, <1>5, <1>6, EraseSent
<1>8. Queues'
  BY <1>1, <1>5, SentIs
<1>9. panic' = panic /\ flash' \in [ Chips -> [ 0 .. Blocks - 1 -> [ 0 .. PagesPerBlock - 1 -> Data ] ] ]
  BY <1>1, <1>2, <1>4 DEF ServerTypes
<1>10. ServerTypes'
  BY <1>1, <1>2, <1>4, <1>8, <1>9, TypesQueue
<1> QED BY <1>3, <1>4, <1>7, <1>10 DEF CoreInv, ErasePtrsInv

LEMMA TurnedErase ==
  ASSUME ErasePtrsInv, NEW c \in Chips, NEW y \in WriteCmd, Turned(c, y), chipQ[c][1] \in WriteCmd,
         UNCHANGED << bad, eraser, eraseAcks, panic, flash, pagesWritten >>
  PROVE  ErasePtrsInv'
<1>1. ServerTypes /\ Queues
  BY DEF ErasePtrsInv, ServerTypes, Queues
<1>2. y.op # "ERASE_BLOCK" /\ chipQ[c][1].op # "ERASE_BLOCK"
  BY DEF WriteCmd
<1>3. EraseInv'
  BY <1>2, EraseTurned
<1>4. Queues' /\ UNCHANGED << erase_view, panic >>
  BY <1>1, TurnedIs DEF eraser, erase_view
<1>5. ServerTypes'
  <2>1. /\ flash' \in [ Chips -> [ 0 .. Blocks - 1 -> [ 0 .. PagesPerBlock - 1 -> Data ] ] ]
        /\ pagesWritten' \in [ Chips -> Nat ]
    BY <1>1 DEF ServerTypes
  <2> QED BY <1>1, <1>4, <2>1, TypesQueue
<1> QED BY <1>3, <1>5 DEF ErasePtrsInv

LEMMA DoneErase ==
  ASSUME ErasePtrsInv, NEW c \in Chips, Done(c), chipQ[c][1].op # "ERASE_BLOCK",
         UNCHANGED << bad, eraser, eraseAcks, panic, pagesWritten >>,
         flash' \in [ Chips -> [ 0 .. Blocks - 1 -> [ 0 .. PagesPerBlock - 1 -> Data ] ] ]
  PROVE  ErasePtrsInv'
<1>1. ServerTypes /\ Queues
  BY DEF ErasePtrsInv, ServerTypes, Queues
<1>2. EraseInv'
  BY EraseDone
<1>3. Queues' /\ UNCHANGED << erase_view, panic >>
  BY <1>1, DoneIs DEF eraser, erase_view
<1>4. pagesWritten' \in [ Chips -> Nat ]
  BY <1>1 DEF ServerTypes
<1>5. ServerTypes'
  BY <1>1, <1>3, <1>4, TypesQueue
<1> QED BY <1>2, <1>5 DEF ErasePtrsInv

LEMMA TagsCore ==
  ASSUME CoreInv, NEW c \in Chips, writeTags(c)
  PROVE  /\ CoreInv' /\ Issued' = Issued
         /\ \E y \in WriteCmd : Turned(c, y) /\ chipQ[c][1] \in WriteCmd
<1>1. WriterInv /\ DramInv /\ ErasePtrsInv /\ ProgramInv
  BY DEF CoreInv
<1>2. /\ UNCHANGED << reqQ, write_vars, flushReqQ, flush, flushRespQ >>
      /\ UNCHANGED << wrote, superPageCnt, currBuf, dram, dramReqQ, byteCnt >>
      /\ UNCHANGED << bad, eraser, eraseAcks, panic, flash, pagesWritten >>
  BY DEF writeTags, write_vars, dram_vars
<1>3. WriterInv' /\ DramInv'
  BY <1>1, <1>2, WriterFrame, DramFrame
<1>4. ProgramInv' /\ \E y \in WriteCmd : Turned(c, y) /\ chipQ[c][1] \in WriteCmd
  BY <1>1, TagsProgram
<1>5. PICK y \in WriteCmd : Turned(c, y) /\ chipQ[c][1] \in WriteCmd
  BY <1>4
<1>6. ErasePtrsInv'
  BY <1>1, <1>2, <1>5, TurnedErase
<1>7. Issued' = Issued
  BY <1>2 DEF Issued, write_vars
<1> QED BY <1>3, <1>4, <1>6, <1>7 DEF CoreInv

LEMMA WriteDtaCore ==
  ASSUME CoreInv, doWriteDta
  PROVE  /\ CoreInv' /\ Issued' = Issued
         /\ \E c \in Chips : \E y \in WriteCmd : Turned(c, y) /\ chipQ[c][1] \in WriteCmd
<1>1. WriterInv /\ DramInv /\ ErasePtrsInv /\ ProgramInv
  BY DEF CoreInv
<1>2. /\ UNCHANGED << reqQ, write_vars, flushReqQ, flush, flushRespQ >>
      /\ UNCHANGED << wrote, superPageCnt, currBuf, dram, dramReqQ, byteCnt >>
      /\ UNCHANGED << bad, eraser, eraseAcks, panic, flash, pagesWritten >>
  BY DEF doWriteDta, write_vars, dram_vars, flush_vars
<1>3. WriterInv' /\ DramInv'
  BY <1>1, <1>2, WriterFrame, DramFrame
<1>4. ProgramInv' /\ \E c \in Chips : \E y \in WriteCmd : Turned(c, y) /\ chipQ[c][1] \in WriteCmd
  BY <1>1, WriteDtaProgram
<1>5. PICK c \in Chips : \E y \in WriteCmd : Turned(c, y) /\ chipQ[c][1] \in WriteCmd
  BY <1>4
<1>6. PICK y \in WriteCmd : Turned(c, y) /\ chipQ[c][1] \in WriteCmd
  BY <1>5
<1>7. ErasePtrsInv'
  BY <1>1, <1>2, <1>6, TurnedErase
<1>8. Issued' = Issued
  BY <1>2 DEF Issued, write_vars
<1> QED BY <1>3, <1>4, <1>7, <1>8 DEF CoreInv

LEMMA WriteReqCore ==
  ASSUME CoreInv, doFlashWriteReq
  PROVE  CoreInv' /\ UNCHANGED server_vars /\ Issued' = Issued
<1>1. WriterInv /\ DramInv /\ ErasePtrsInv /\ ProgramInv
  BY DEF CoreInv
<1>2. ProgramInv' /\ flush.step = "pages" /\ UNCHANGED server_vars /\ Issued' = Issued
  BY <1>1, WriteReqProgram
<1>3. /\ UNCHANGED << reqQ, wrote, superPageCnt, currBuf, used, writeLocks, clean >>
      /\ UNCHANGED << wrote, superPageCnt, currBuf, dram, dramReqQ, byteCnt >>
  BY DEF doFlashWriteReq, write_vars, dram_vars
<1>4. WriterInv' /\ DramInv'
  BY <1>1, <1>2, <1>3, FlushWriter, DramFrame
<1>5. UNCHANGED << erase_view, flash, chipQ, pagesWritten, panic >>
  BY <1>2 DEF server_vars, eraser, chips, erase_view
<1>6. ErasePtrsInv'
  BY <1>1, <1>5, EraseSame
<1> QED BY <1>2, <1>4, <1>6 DEF CoreInv

LEMMA WriteAckCore ==
  ASSUME CoreInv, NEW c \in Chips, doWriteAck(c)
  PROVE  CoreInv' /\ Issued' = Issued /\ Done(c) /\ chipQ[c][1] \in WriteCmd
<1>1. WriterInv /\ DramInv /\ ErasePtrsInv /\ ProgramInv /\ ServerTypes
  BY DEF CoreInv, ErasePtrsInv
<1>2. /\ UNCHANGED << reqQ, write_vars, flushReqQ, flush, flushRespQ >>
      /\ UNCHANGED << wrote, superPageCnt, currBuf, dram, dramReqQ, byteCnt >>
      /\ UNCHANGED << bad, eraser, eraseAcks, panic, pagesWritten >>
  BY DEF doWriteAck, store_vars, write_vars, dram_vars, flush_vars
<1>3. WriterInv' /\ DramInv'
  BY <1>1, <1>2, WriterFrame, DramFrame
<1>4. ProgramInv' /\ Done(c) /\ chipQ[c][1] \in WriteCmd
  BY <1>1, WriteAckProgram
<1>5. PICK x \in WriteCmd : x = chipQ[c][1]
  BY <1>4
<1>6. flash' \in [ Chips -> [ 0 .. Blocks - 1 -> [ 0 .. PagesPerBlock - 1 -> Data ] ] ]
  <2>1. Queues /\ chipQ[c] # << >>
    BY <1>1 DEF ServerTypes, Queues, doWriteAck, Current
  <2>2. Head(chipQ[c]) = x
    BY <1>5, <2>1, QueueIs
  <2>3. flash' = [ flash EXCEPT ![c][x.block][x.page] = x.data ]
    BY <2>2 DEF doWriteAck
  <2>4. x.data \in Data /\ x.block \in 0 .. Blocks - 1 /\ x.page \in 0 .. PagesPerBlock - 1
    BY DEF WriteCmd
  <2>5. flash \in [ Chips -> [ 0 .. Blocks - 1 -> [ 0 .. PagesPerBlock - 1 -> Data ] ] ]
    BY <1>1 DEF ServerTypes
  <2> QED BY <2>3, <2>4, <2>5
<1>7. chipQ[c][1].op # "ERASE_BLOCK"
  BY <1>5 DEF WriteCmd
<1>8. ErasePtrsInv'
  BY <1>1, <1>2, <1>4, <1>6, <1>7, DoneErase
<1>9. Issued' = Issued
  BY <1>2 DEF Issued, write_vars
<1> QED BY <1>3, <1>4, <1>8, <1>9 DEF CoreInv

LEMMA DistributeCore ==
  ASSUME CoreInv, NEW c \in Chips, doDistributeData(c)
  PROVE  CoreInv' /\ Issued' = Issued /\ Done(c) /\ ReadAt(c, 1) /\ chipQ[c][1] \in ReadCmd
<1>1. WriterInv /\ DramInv /\ ErasePtrsInv /\ ProgramInv /\ ServerTypes /\ Queues
  BY DEF CoreInv, ErasePtrsInv, ServerTypes, Queues
<1>2. /\ UNCHANGED << reqQ, write_vars, flushReqQ, flush, flushRespQ >>
      /\ UNCHANGED << wrote, superPageCnt, currBuf, dram, dramReqQ, byteCnt >>
      /\ UNCHANGED << bad, eraser, eraseAcks, panic, pagesWritten >> /\ UNCHANGED flash
      /\ UNCHANGED << writer_view, pagesWritten, nextErasePtr, blockMap >>
  BY DEF doDistributeData, store_vars, write_vars, dram_vars, flush_vars, eraser, writer_view
<1>3. WriterInv' /\ DramInv'
  BY <1>1, <1>2, WriterFrame, DramFrame
<1>4. /\ Done(c) /\ 1 \in 1 .. Len(chipQ[c]) /\ chipQ[c][1].op = "READ_PAGE" /\ chipQ[c][1] \in Cmd
      /\ Head(chipQ[c]) = chipQ[c][1]
  <2>1. chipQ[c] # << >> /\ Head(chipQ[c]).op = "READ_PAGE" /\ chipQ' = [ chipQ EXCEPT ![c] = Tail(@) ]
    BY DEF doDistributeData, Current
  <2> QED BY <1>1, <2>1, QueueIs DEF Done
<1>5. ReadAt(c, 1) /\ chipQ[c][1] \in ReadCmd /\ ~ WriteAt(c, 1)
  BY <1>4, CmdIs DEF ReadAt, WriteAt
<1>6. FlashKept(c, 1) /\ \A d \in Chips : d # c => FlashKept(d, 0)
  BY <1>2, <1>5 DEF FlashKept
<1>7. ProgramInv'
  <2>1. chipQ[c][1].op = "WRITE_PAGE" => chipQ[c][1].at = "data"
    BY <1>4
  <2>2. ErasedStays
    BY <1>2, StaysSame DEF eraser, map_view
  <2> QED BY <1>1, <1>2, <1>4, <1>6, <2>1, <2>2, ProgramDone
<1>8. flash' \in [ Chips -> [ 0 .. Blocks - 1 -> [ 0 .. PagesPerBlock - 1 -> Data ] ] ]
  BY <1>1, <1>2 DEF ServerTypes
<1>9. chipQ[c][1].op # "ERASE_BLOCK"
  BY <1>4
<1>10. ErasePtrsInv'
  BY <1>1, <1>2, <1>4, <1>8, <1>9, DoneErase
<1>11. Issued' = Issued
  BY <1>2 DEF Issued, write_vars
<1> QED BY <1>3, <1>4, <1>5, <1>7, <1>10, <1>11 DEF CoreInv

(* The readers.                                                            *)
LEMMA AnswerCore ==
  ASSUME CoreInv, UNCHANGED << core_view, reqQ, write_vars, dram_vars, flushRespQ >>,
         dataQ' = dataQ \/ (dataQ' = << >> /\ dataQ # << >> /\ dataQ[1].to = "dram")
  PROVE  CoreInv' /\ Issued' = Issued
<1>1. /\ UNCHANGED << reqQ, write_vars, flushReqQ, flush, flushRespQ >>
      /\ UNCHANGED << wrote, superPageCnt, currBuf, dram, dramReqQ, byteCnt >>
      /\ UNCHANGED core_view
  BY DEF core_view, write_vars, dram_vars
<1>2. WriterInv' /\ DramInv'
  BY <1>1, WriterFrame, DramFrame DEF CoreInv
<1>3. Issued' = Issued
  BY <1>1 DEF Issued, write_vars
<1>4. dataQ' = dataQ \/ (DataQTypes' /\ \A c \in Chips : ~ DataFor(c) /\ ~ DataFor(c)')
  <2>1. CASE dataQ' = << >> /\ dataQ # << >> /\ dataQ[1].to = "dram"
    <3>1. DataQTypes'
      BY <2>1 DEF DataQTypes
    <3> QED BY <2>1, <3>1 DEF DataFor
  <2> QED BY <2>1
<1> QED BY <1>1, <1>2, <1>3, <1>4, CoreSame

LEMMA ReaderCmdCore ==
  ASSUME CoreInv, doReaderCmd
  PROVE  CoreInv' /\ Issued' = Issued
<1>1. UNCHANGED << core_view, reqQ, write_vars, dram_vars, flushRespQ >> /\ dataQ' = dataQ
  BY DEF doReaderCmd, core_view, write_vars, dram_vars, flush_vars, eraser, chips, erase_view
<1> QED BY <1>1, AnswerCore

(* The pages of an old value are issued.                                   *)
LEMMA OldIssued ==
  ASSUME WriterInv, NEW v \in Values, Old(v), NEW i \in 1 .. wrote[v].size
  PROVE  Addr(v, i) \in 0 .. Issued - 1 /\ Addr(v, i) = wrote[v].addr + (i - 1)
<1>1. wrote[v].addr \in Nat /\ wrote[v].size \in Nat /\ Issued \in Nat
  BY ValueIs, IssuedIs DEF WriterInv
<1> QED BY <1>1 DEF Old, Addr

(* The command of doFlashCmd.                                              *)
LEMMA FlashCmdIs ==
  ASSUME WriterInv, ServerTypes, IssuedMapped, ReadTypes, ReadersInv, doFlashCmd
  PROVE  \E r \in Reads, c \in Chips, x \in ReadCmd, i \in Nat \ {0} :
           /\ immQ # << >> /\ r = immQ[1].id /\ immQ[1].value = reads[r] /\ i = immQ[1].cmdCnt + 1
           /\ i \in 1 .. SizeOf(r) /\ Old(reads[r]) /\ reads[r] \in Values
           /\ x.op = "READ_PAGE" /\ x.id = r /\ x.i = i /\ Sent(c, x)
           /\ Goes(Addr(reads[r], i), c, x) /\ Addr(reads[r], i) \in 0 .. Issued - 1
           /\ immQ' = IF i >= SizeOf(r) THEN Tail(immQ)
                      ELSE << [ immQ[1] EXCEPT !.cmdCnt = i ] >> \o Tail(immQ)
           /\ UNCHANGED << flash, pagesWritten, panic >>
<1>1. /\ immQ \in Seq([ id : Reads, value : Values, cmdCnt : Nat ]) /\ immQ # << >>
      /\ Head(immQ) = immQ[1] /\ 1 \in 1 .. Len(immQ)
      /\ immQ[1] \in [ id : Reads, value : Values, cmdCnt : Nat ]
  <2>1. immQ \in Seq([ id : Reads, value : Values, cmdCnt : Nat ]) /\ immQ # << >>
    BY DEF ReadersInv, ImmInv, doFlashCmd
  <2>2. Head(immQ) = immQ[1] /\ immQ[1] \in [ id : Reads, value : Values, cmdCnt : Nat ]
        /\ Len(immQ) \in Nat \ {0}
    BY <2>1, TailIs
  <2> QED BY <2>1, <2>2
<1>2. PICK q \in [ id : Reads, value : Values, cmdCnt : Nat ] : q = immQ[1]
  BY <1>1
<1>3. PICK r \in Reads, v \in Values : r = q.id /\ v = q.value
  OBVIOUS
<1>4. v = reads[r] /\ Old(v) /\ q.cmdCnt < SizeOf(r)
  BY <1>1, <1>2, <1>3 DEF ReadersInv, ImmInv
<1>5. PICK z \in Nat : z = wrote[v].size /\ z = SizeOf(r) /\ wrote[v].addr \in Nat
  BY <1>4, ValueIs DEF SizeOf, WriterInv
<1>6. PICK i \in Nat \ {0} : i = q.cmdCnt + 1 /\ i <= z /\ i - 1 = q.cmdCnt
  BY <1>4, <1>5
<1>7. PICK a \in 0 .. Issued - 1 : a = Addr(v, i) /\ a = wrote[v].addr + q.cmdCnt
  <2>1. i \in 1 .. wrote[v].size
    BY <1>5, <1>6
  <2>2. Addr(v, i) \in 0 .. Issued - 1 /\ Addr(v, i) = wrote[v].addr + (i - 1)
    BY <1>4, <2>1, OldIssued
  <2> QED BY <1>6, <2>2
<1>8. a \in Nat /\ ChipOf(a) \in Chips /\ PhysBlock(a) \in 0 .. Blocks - 1
      /\ PageOf(a) \in 0 .. PagesPerBlock - 1
  BY <1>7, IssuedIs, IssuedIsMapped
<1>9. PICK c \in Chips : c = ChipOf(a)
  BY <1>8
<1>10. PICK x : x = ReadPage(a, r, i)
  OBVIOUS
<1>11. /\ x.op = "READ_PAGE" /\ x.id = r /\ x.i = i /\ x.block = PhysBlock(a) /\ x.page = PageOf(a)
       /\ x \in ReadCmd
  <2>1. r \in Nat
    BY DEF Reads
  <2> QED BY <1>8, <1>10, <2>1 DEF ReadPage, ReadCmd
<1>12. doReq(a, x) /\ immQ' = IF i >= z THEN Tail(immQ)
                              ELSE << [ q EXCEPT !.cmdCnt = i ] >> \o Tail(immQ)
  BY <1>1, <1>2, <1>3, <1>5, <1>6, <1>7, <1>10 DEF doFlashCmd
<1>13. Sent(c, x) /\ UNCHANGED << flash, pagesWritten, panic >>
  BY <1>9, <1>11, <1>12 DEF doReq, Send, Sent, Cmd
<1>14. Goes(Addr(reads[r], i), c, x)
  BY <1>4, <1>7, <1>9, <1>11 DEF Goes
<1>15. /\ immQ # << >> /\ r = immQ[1].id /\ immQ[1].value = reads[r] /\ i = immQ[1].cmdCnt + 1
       /\ i \in 1 .. SizeOf(r) /\ Old(reads[r]) /\ reads[r] \in Values
  BY <1>1, <1>2, <1>3, <1>4, <1>5, <1>6
<1>16. Addr(reads[r], i) \in 0 .. Issued - 1
  BY <1>4, <1>7
<1>17. immQ' = IF i >= SizeOf(r) THEN Tail(immQ)
               ELSE << [ immQ[1] EXCEPT !.cmdCnt = i ] >> \o Tail(immQ)
  BY <1>2, <1>5, <1>12
<1> QED BY <1>11, <1>13, <1>14, <1>15, <1>16, <1>17

LEMMA FlashCmdCore ==
  ASSUME CoreInv, ReadTypes, ReadersInv, doFlashCmd
  PROVE  CoreInv' /\ Issued' = Issued
<1>1. WriterInv /\ DramInv /\ ErasePtrsInv /\ ServerTypes /\ ProgramInv /\ Queues /\ IssuedMapped
  BY DEF CoreInv, ErasePtrsInv, ServerTypes, Queues, ProgramInv
<1>2. /\ UNCHANGED << reqQ, write_vars, flushReqQ, flush, flushRespQ >>
      /\ UNCHANGED << wrote, superPageCnt, currBuf, dram, dramReqQ, byteCnt >>
      /\ UNCHANGED << bad, eraser, eraseAcks >>
      /\ UNCHANGED << writer_view, map_view >> /\ UNCHANGED erase_view
  BY DEF doFlashCmd, write_vars, dram_vars, flush_vars, eraser, writer_view, map_view, erase_view
<1>3. \E c \in Chips, x \in ReadCmd :
        Sent(c, x) /\ x.op = "READ_PAGE" /\ UNCHANGED << flash, pagesWritten, panic >>
  BY <1>1, FlashCmdIs
<1>4. PICK c \in Chips, x \in ReadCmd :
        Sent(c, x) /\ x.op = "READ_PAGE" /\ UNCHANGED << flash, pagesWritten, panic >>
  BY <1>3
<1>5. WriterInv' /\ DramInv'
  BY <1>1, <1>2, WriterFrame, DramFrame
<1>6. x.op # "WRITE_PAGE" /\ x.op # "ERASE_BLOCK"
  BY <1>4
<1>7. ProgramInv'
  BY <1>1, <1>2, <1>4, <1>6, ProgramSent
<1>8. EraseInv'
  BY <1>1, <1>2, <1>4, <1>6, EraseSent
<1>9. Queues'
  BY <1>1, <1>4, SentIs
<1>10. ServerTypes'
  <2>1. /\ flash' \in [ Chips -> [ 0 .. Blocks - 1 -> [ 0 .. PagesPerBlock - 1 -> Data ] ] ]
        /\ pagesWritten' \in [ Chips -> Nat ]
    BY <1>1, <1>4 DEF ServerTypes
  <2> QED BY <1>1, <1>2, <1>4, <1>9, <2>1, TypesQueue
<1>11. Issued' = Issued
  BY <1>2 DEF Issued, write_vars
<1> QED BY <1>5, <1>7, <1>8, <1>10, <1>11 DEF CoreInv, ErasePtrsInv

(* Erasing ahead.                                                          *)
LEMMA EraseIdleCore ==
  ASSUME CoreInv, doEraseIdle, UNCHANGED store_vars
  PROVE  CoreInv' /\ Issued' = Issued /\ chipQ' = chipQ
<1>1. WriterInv /\ DramInv /\ ErasePtrsInv /\ ServerTypes /\ ProgramInv
  BY DEF CoreInv, ErasePtrsInv
<1>2. /\ UNCHANGED << reqQ, write_vars, flushReqQ, flush, flushRespQ, writeTagQ, early, dataQ >>
      /\ UNCHANGED << wrote, superPageCnt, currBuf, dram, dramReqQ, byteCnt >>
      /\ UNCHANGED << chipQ, flash, pagesWritten, nextErasePtr, blockMap >> /\ UNCHANGED map_view
  BY DEF doEraseIdle, store_vars, write_vars, dram_vars, flush_vars, chips, map_view
<1>3. WriterInv' /\ DramInv'
  BY <1>1, <1>2, WriterFrame, DramFrame
<1>4. Issued' = Issued /\ ErasedStays /\ \A a, data : Ok(a, data)' = Ok(a, data)
  BY <1>2, StaysSame, OkSame DEF Issued, write_vars
<1>5. ProgramInv'
  BY <1>1, <1>2, <1>4, ProgramSame
<1>6. ErasePtrsInv'
  BY <1>1, EraseIdle
<1> QED BY <1>2, <1>3, <1>4, <1>5, <1>6 DEF CoreInv

LEMMA EraseCmdCore ==
  ASSUME CoreInv, doEraseCmd, UNCHANGED store_vars
  PROVE  /\ CoreInv' /\ Issued' = Issued
         /\ chipQ' = chipQ \/ \E c \in Chips : \E x \in EraseCmd : Sent(c, x)
<1>1. WriterInv /\ DramInv /\ ErasePtrsInv /\ ServerTypes /\ ProgramInv
  BY DEF CoreInv, ErasePtrsInv
<1>2. /\ UNCHANGED << reqQ, write_vars, flushReqQ, flush, flushRespQ, writeTagQ, early, dataQ >>
      /\ UNCHANGED << wrote, superPageCnt, currBuf, dram, dramReqQ, byteCnt >>
      /\ UNCHANGED << writer_view, flash, pagesWritten, nextErasePtr, blockMap >>
      /\ UNCHANGED map_view
  BY DEF doEraseCmd, store_vars, write_vars, dram_vars, flush_vars, writer_view, map_view
<1>3. WriterInv' /\ DramInv'
  BY <1>1, <1>2, WriterFrame, DramFrame
<1>4. Issued' = Issued /\ ErasedStays /\ \A a, data : Ok(a, data)' = Ok(a, data)
  BY <1>2, StaysSame, OkSame DEF Issued, write_vars
<1>5. ErasePtrsInv' /\ (chipQ' = chipQ \/ \E x \in EraseCmd : Sent(chipCnt, x))
  BY <1>1, EraseCmdErase
<1>6. CASE chipQ' = chipQ
  <2>1. ProgramInv'
    BY <1>1, <1>2, <1>4, <1>6, ProgramSame
  <2> QED BY <1>3, <1>4, <1>5, <1>6, <2>1 DEF CoreInv
<1>7. CASE \E x \in EraseCmd : Sent(chipCnt, x)
  <2>1. PICK x \in EraseCmd : Sent(chipCnt, x)
    BY <1>7
  <2>2. chipCnt \in Chips /\ x.op # "WRITE_PAGE"
    BY <1>1 DEF ServerTypes, EraseCmd
  <2>3. ProgramInv'
    BY <1>1, <1>2, <2>1, <2>2, ProgramSent
  <2> QED BY <1>3, <1>4, <1>5, <2>1, <2>2, <2>3 DEF CoreInv
<1> QED BY <1>5, <1>6, <1>7

LEMMA EraseAckCore ==
  ASSUME CoreInv, doEraseAck, UNCHANGED store_vars
  PROVE  /\ CoreInv' /\ Issued' = Issued /\ chipQ' = chipQ
         /\ \A a \in 0 .. Issued - 1 : PhysBlock(a)' = PhysBlock(a)
         /\ ErasedStays
<1>1. WriterInv /\ DramInv /\ ErasePtrsInv /\ ServerTypes /\ ProgramInv /\ IssuedMapped
  BY DEF CoreInv, ErasePtrsInv, ProgramInv
<1>2. /\ UNCHANGED << reqQ, write_vars, flushReqQ, flush, flushRespQ, writeTagQ, early, dataQ >>
      /\ UNCHANGED << wrote, superPageCnt, currBuf, dram, dramReqQ, byteCnt >>
      /\ UNCHANGED << chipQ, flash, pagesWritten >>
  BY DEF doEraseAck, store_vars, write_vars, dram_vars, flush_vars, chips
<1>3. WriterInv' /\ DramInv'
  BY <1>1, <1>2, WriterFrame, DramFrame
<1>4. Issued' = Issued /\ Issued \in Nat
  BY <1>1, <1>2, IssuedIs DEF Issued, write_vars
<1>5. /\ ErasePtrsInv'
      /\ \A d \in Chips : \A b \in 0 .. nextErasePtr[d] - 1 : blockMap'[d][b] = blockMap[d][b]
      /\ \A d \in Chips : nextErasePtr[d] <= nextErasePtr'[d]
      /\ ErasedStays
  BY <1>1, EraseAck
<1>6. ASSUME NEW a \in 0 .. Issued - 1 PROVE PhysBlock(a)' = PhysBlock(a)
  <2>1. ChipOf(a) \in Chips /\ BlockOf(a) \in 0 .. nextErasePtr[ChipOf(a)] - 1
    BY <1>1, <1>4, IssuedIsMapped
  <2> QED BY <1>5, <2>1 DEF PhysBlock
<1>7. nextErasePtr' \in [ Chips -> 0 .. Blocks - 1 ]
  BY <1>5 DEF ErasePtrsInv, ServerTypes
<1>8. UNCHANGED << Issued, chipQ, flash, pagesWritten, writeTagQ >> /\ flush' = flush /\ dataQ' = dataQ
  BY <1>2, <1>4
<1>9. DataQTypes'
  BY <1>1, <1>2 DEF ProgramInv, DataQTypes
<1>10. \A a \in 0 .. Issued - 1 : \A data : Ok(a, data) => Ok(a, data)'
  BY <1>2, <1>4, <1>5, <1>6, OkEarlier
<1>11. ProgramInv'
  BY <1>1, <1>5, <1>6, <1>7, <1>8, <1>9, <1>10, ProgramFrame
<1> QED BY <1>2, <1>3, <1>4, <1>5, <1>6, <1>11 DEF CoreInv

LEMMA EraseBlockCore ==
  ASSUME CoreInv, NEW c \in Chips, EraseBlock(c), UNCHANGED store_vars
  PROVE  CoreInv' /\ Issued' = Issued /\ Done(c) /\ chipQ[c][1] \in EraseCmd /\ ErasedStays
<1>1. WriterInv /\ DramInv /\ ErasePtrsInv /\ ProgramInv
  BY DEF CoreInv
<1>2. /\ UNCHANGED << reqQ, write_vars, flushReqQ, flush, flushRespQ >>
      /\ UNCHANGED << wrote, superPageCnt, currBuf, dram, dramReqQ, byteCnt >>
  BY DEF store_vars, write_vars, dram_vars, flush_vars
<1>3. WriterInv' /\ DramInv'
  BY <1>1, <1>2, WriterFrame, DramFrame
<1>4. ProgramInv' /\ ErasePtrsInv' /\ Done(c) /\ chipQ[c][1] \in EraseCmd /\ ErasedStays
  BY <1>1, EraseBlockErase, EraseBlockProgram
<1>5. Issued' = Issued
  BY <1>2 DEF Issued, write_vars
<1> QED BY <1>3, <1>4, <1>5 DEF CoreInv

=============================================================================
