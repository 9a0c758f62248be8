-------------------------- MODULE FlashReadProofs ---------------------------
(***************************************************************************)
(* Proofs about the flash value store, modules FlashStore and FlashServer: *)
(* ReadInv, the part of its invariant about the reads and their answers,   *)
(* and from it that a read is answered with the pages of its own value;    *)
(* and which blocks are erased while they are in use.                      *)
(***************************************************************************)
EXTENDS FlashStoreProofs

(* Who is answered.  A read of flash whose first page has not been taken   *)
(* is in one place: it is to ask for the page, or flash is, or the page    *)
(* has arrived.                                                            *)
Asks(r) ==
  \/ \E k \in 1 .. Len(readQ) : readQ[k].id = r
  \/ \E k \in 1 .. Len(immQ) : immQ[k].id = r /\ immQ[k].cmdCnt = 0

FirstPage(c, k, r) == ReadAt(c, k) /\ chipQ[c][k].id = r /\ chipQ[c][k].i = 1

IsFirst(r) == \E c \in Chips : \E k \in Nat \ {0} : FirstPage(c, k, r)

InDeq(r) == \E k \in 1 .. Len(deqQ) : deqQ[k] = r

FromFlash(r) == Asks(r) \/ IsFirst(r) \/ InDeq(r)

DataIn == dataQ # << >> /\ dataQ[1].to = "dram"

FromDram(r) ==
  \/ \E k \in 1 .. Len(dramReqQ) : dramReqQ[k].rnw /\ dramReqQ[k].id = r
  \/ DataIn /\ dataQ[1].id = r

OnePlace ==
  \A r \in Reads :
    /\ ~ (FromFlash(r) /\ FromDram(r))
    /\ ~ (Asks(r) /\ IsFirst(r)) /\ ~ (Asks(r) /\ InDeq(r)) /\ ~ (IsFirst(r) /\ InDeq(r))

AskOnce ==
  /\ \A k, l \in 1 .. Len(readQ) : readQ[k].id = readQ[l].id => k = l
  /\ \A k, l \in 1 .. Len(immQ) : immQ[k].id = immQ[l].id => k = l
  /\ \A k \in 1 .. Len(readQ) : \A l \in 1 .. Len(immQ) : readQ[k].id # immQ[l].id

FirstOnce ==
  \A c, d \in Chips : \A k, l \in Nat \ {0} : \A r \in Reads :
    FirstPage(c, k, r) /\ FirstPage(d, l, r) => c = d /\ k = l

DeqOnce == \A k, l \in 1 .. Len(deqQ) : deqQ[k] = deqQ[l] => k = l

PlacesInv == OnePlace /\ AskOnce /\ FirstOnce /\ DeqOnce

-----------------------------------------------------------------------------
(* How far each answer has come.  Those from flash are given in the order  *)
(* of deqQ, one from DRAM while its page is in dataQ or comes next.        *)
Bursting(r) == \E k \in 1 .. Len(nextBurst) : nextBurst[k].id = r

HeadReads(r) == dramReqQ # << >> /\ dramReqQ[1].rnw /\ dramReqQ[1].id = r

DramNext(r) == (DataIn /\ dataQ[1].id = r) \/ (~ DataIn /\ HeadReads(r) /\ byteCnt > 0)

DramBurst(k, r) ==
  /\ \A l \in 1 .. Len(nextBurst) : nextBurst[l].sel = "dram" => l = k
  /\ DramNext(r)

FlashBurst(k, r) ==
  IF k = 2 /\ nextBurst[1].sel = "flash" THEN Len(deqQ) > 1 /\ r = deqQ[2]
  ELSE Len(deqQ) > 0 /\ r = deqQ[1]

BurstInv(k, r) ==
  /\ nextBurst[k].sel = "dram" => DramBurst(k, r)
  /\ nextBurst[k].sel = "flash" => FlashBurst(k, r)
  /\ Len(answers[r]) = (IF k = 1 THEN byteCntResp ELSE 0) /\ Len(answers[r]) < SizeOf(r)

BurstsInv ==
  /\ nextBurst = << >> => byteCntResp = 0
  /\ \A k \in 1 .. Len(nextBurst) : BurstInv(k, nextBurst[k].id)

FlashAnswers ==
  \A r \in Reads : FromFlash(r) /\ ~ Bursting(r) => Len(answers[r]) = 0

(* The k-th request for DRAM is read r.                                    *)
DramReadInv(k, r) ==
  /\ r \in Reads /\ dramReqQ[k].value = reads[r]
  /\ k = 2 => /\ Len(answers[r]) = 0 /\ ~ Bursting(r)
              /\ ~ HeadReads(r) /\ ~ (DataIn /\ dataQ[1].id = r)
  /\ k = 1 /\ ~ DataIn => Len(answers[r]) = byteCnt /\ (byteCnt > 0 => Bursting(r))
  /\ k = 1 /\ DataIn => IF dataQ[1].id = r THEN Len(answers[r]) + 1 = byteCnt
                        ELSE byteCnt = 0 /\ Len(answers[r]) = 0

(* The page in dataQ is the next one of read r.                            *)
DataInv(r) ==
  /\ r \in Reads /\ Len(answers[r]) < SizeOf(r)
  /\ dataQ[1].data = << reads[r], Len(answers[r]) + 1 >>
  /\ Len(answers[r]) > 0 => Bursting(r)
  /\ HeadReads(r) \/ Len(answers[r]) + 1 = SizeOf(r)

DramAnswers ==
  /\ \A k \in 1 .. Len(dramReqQ) : dramReqQ[k].rnw => DramReadInv(k, dramReqQ[k].id)
  /\ DataIn => DataInv(dataQ[1].id)

(* Answers carry pages of their own value, but for excused ones of flash.  *)
AnswersOwn ==
  \A r \in 1 .. Len(answers) : \A i \in 1 .. Len(answers[r]) :
    \/ answers[r][i].data = << reads[r], i >>
    \/ answers[r][i].from = "flash" /\ Excused(r, i)

AnswersInv == PlacesInv /\ BurstsInv /\ FlashAnswers /\ DramAnswers /\ AnswersOwn

ReadInv == ReadTypes /\ ReadersInv /\ AnswersInv

StoreInv == CoreInv /\ ReadInv

-----------------------------------------------------------------------------
(* Reads.  What has been written and read stays, and more is issued.       *)
Kept ==
  /\ Reads \subseteq Reads' /\ \A r \in Reads : reads'[r] = reads[r]
  /\ Values \subseteq Values' /\ \A v \in Values : wrote'[v] = wrote[v]
  /\ Issued \in Nat /\ Issued' \in Nat /\ Issued <= Issued' /\ early \subseteq early'

LEMMA OldStays ==
  ASSUME ValuesInv, Kept, NEW v \in Values, Old(v)
  PROVE  Old(v)'
<1>1. wrote[v].addr \in Nat /\ wrote[v].size \in Nat
  BY ValueIs
<1> QED BY <1>1 DEF Old, Kept

LEMMA ReadStays ==
  ASSUME ReadTypes, Kept, NEW r \in Reads
  PROVE  /\ r \in Reads' /\ reads'[r] = reads[r] /\ reads[r] \in Values /\ r \in Nat
         /\ SizeOf(r)' = SizeOf(r) /\ wrote'[reads[r]] = wrote[reads[r]]
<1>1. reads[r] \in Values /\ r \in Nat
  BY ElementOfSeq DEF ReadTypes, Reads
<1> QED BY <1>1 DEF Kept, SizeOf

LEMMA ReadQStays ==
  ASSUME ValuesInv, ReadTypes, ReadQInv, Kept, readQ' = readQ
  PROVE  ReadQInv'
<1>1. [ id : Reads, value : Values ] \subseteq [ id : Reads', value : Values' ]
  BY DEF Kept
<1>2. readQ' \in Seq([ id : Reads', value : Values' ])
  BY <1>1, SeqMonotonic DEF ReadQInv
<1>3. ASSUME NEW k \in 1 .. Len(readQ')
      PROVE  (readQ[k].value = reads[readQ[k].id] /\ Old(readQ[k].value))'
  <2>1. PICK q \in [ id : Reads, value : Values ] : q = readQ[k] /\ q.value = reads[q.id] /\ Old(q.value)
    BY ElementOfSeq DEF ReadQInv
  <2>2. q.id \in Reads /\ q.value \in Values
    BY <2>1
  <2>3. reads'[q.id] = reads[q.id]
    BY <2>2, ReadStays
  <2>4. Old(q.value)'
    BY <2>1, <2>2, OldStays
  <2> QED BY <2>1, <2>3, <2>4 DEF Old
<1> QED BY <1>2, <1>3 DEF ReadQInv

LEMMA ImmStays ==
  ASSUME ValuesInv, ReadTypes, ImmInv, Kept, immQ' = immQ
  PROVE  ImmInv'
<1>1. [ id : Reads, value : Values, cmdCnt : Nat ] \subseteq [ id : Reads', value : Values', cmdCnt : Nat ]
  BY DEF Kept
<1>2. immQ' \in Seq([ id : Reads', value : Values', cmdCnt : Nat ])
  BY <1>1, SeqMonotonic DEF ImmInv
<1>3. ASSUME NEW k \in 1 .. Len(immQ')
      PROVE  (/\ immQ[k].value = reads[immQ[k].id] /\ Old(immQ[k].value)
              /\ immQ[k].cmdCnt < SizeOf(immQ[k].id))'
  <2>1. PICK q \in [ id : Reads, value : Values, cmdCnt : Nat ] :
          q = immQ[k] /\ q.value = reads[q.id] /\ Old(q.value) /\ q.cmdCnt < SizeOf(q.id)
    BY ElementOfSeq DEF ImmInv
  <2>2. PICK r \in Reads, v \in Values : r = q.id /\ v = q.value
    BY <2>1
  <2>3. reads'[r] = reads[r] /\ SizeOf(r)' = SizeOf(r)
    BY ReadStays
  <2>4. Old(v)'
    BY <2>1, <2>2, OldStays
  <2>5. immQ'[k].id = r /\ immQ'[k].value = v /\ immQ'[k].cmdCnt = q.cmdCnt
    BY <2>1, <2>2
  <2> QED BY <2>1, <2>2, <2>3, <2>4, <2>5 DEF SizeOf, Old
<1> QED BY <1>2, <1>3 DEF ImmInv

LEMMA ReadAtIs ==
  ASSUME Queues, NEW c \in Chips, NEW k \in Nat \ {0}, ReadAt(c, k)
  PROVE  chipQ[c][k] \in ReadCmd
<1>1. chipQ[c][k] \in Cmd /\ chipQ[c][k].op = "READ_PAGE"
  BY QueueIs DEF ReadAt
<1> QED BY <1>1, CmdIs

(* Pages that are issued stay where they are, and what is lost stays lost. *)
SameBlocks == ErasedStays /\ \A a \in 0 .. Issued - 1 : PhysBlock(a)' = PhysBlock(a)

LEMMA ExcusedStays ==
  ASSUME ValuesInv, ReadTypes, Kept, SameBlocks
  PROVE  \A r \in Reads : \A i \in Nat \ {0} : Excused(r, i) => Excused(r, i)'
<1> SUFFICES ASSUME NEW r \in Reads, NEW i \in Nat \ {0}, Excused(r, i)
             PROVE  Excused(r, i)'
  OBVIOUS
<1>1. PICK v \in Values : v = reads[r] /\ v = reads'[r] /\ wrote'[v] = wrote[v]
  BY ReadStays
<1>2. CASE v \in early
  BY <1>1, <1>2 DEF Excused, Kept
<1>3. CASE Lost(Addr(v, i))
  <2>1. wrote[v].addr \in Nat
    BY ValueIs
  <2>2. PICK a \in Nat : a = Addr(v, i)
    BY <2>1 DEF Addr
  <2>3. a \in 0 .. Issued - 1 /\ a < Issued'
    BY <1>3, <2>2 DEF Lost, Kept
  <2>4. OnErasedAgain(a)'
    BY <1>3, <2>2, <2>3, OnErasedStays DEF Lost, SameBlocks
  <2>5. Addr(v, i)' = a /\ Addr(reads[r], i)' = Addr(v, i)'
    BY <1>1, <2>2 DEF Addr
  <2>6. Lost(a)'
    BY <2>3, <2>4 DEF Lost
  <2> QED BY <2>5, <2>6 DEF Excused, Lost, OnErasedAgain, PhysBlock
<1> QED BY <1>1, <1>2, <1>3 DEF Excused

LEMMA ArrivedStays ==
  ASSUME ValuesInv, ReadTypes, ArrivedInv, Kept, SameBlocks, arrived' \subseteq arrived
  PROVE  ArrivedInv'
<1> SUFFICES ASSUME NEW d \in arrived'
             PROVE  /\ d.id \in Reads' /\ d.i \in 1 .. SizeOf(d.id)' /\ d.data \in Data
                    /\ d.data = << reads'[d.id], d.i >> \/ Excused(d.id, d.i)'
  BY DEF ArrivedInv
<1>1. PICK r \in Reads : r = d.id
  BY DEF ArrivedInv
<1>2. r \in Reads' /\ reads'[r] = reads[r] /\ SizeOf(r)' = SizeOf(r)
  BY ReadStays
<1>3. d.i \in 1 .. SizeOf(r) /\ d.data \in Data /\ (d.data = << reads[r], d.i >> \/ Excused(r, d.i))
  BY <1>1 DEF ArrivedInv
<1>4. Excused(r, d.i) => Excused(r, d.i)'
  BY <1>3, ExcusedStays
<1>5. SizeOf(d.id)' = SizeOf(r)'
  BY <1>1 DEF SizeOf
<1> QED BY <1>1, <1>2, <1>3, <1>4, <1>5

LEMMA PageReadStays ==
  ASSUME WriterInv, ReadTypes, Kept, SameBlocks, NEW c \in Chips, NEW x, PageRead(c, x)
  PROVE  PageRead(c, x)'
<1>1. PICK r \in Reads, v \in Values : r = x.id /\ v = reads[r]
  BY ReadStays DEF PageRead
<1>2. PICK i \in 1 .. wrote[v].size : i = x.i
  BY <1>1 DEF PageRead, SizeOf
<1>3. Old(v) /\ ValuesInv
  BY <1>1 DEF PageRead, WriterInv
<1>4. PICK a \in 0 .. Issued - 1 : a = Addr(v, i)
  BY <1>3, OldIssued
<1>5. Goes(a, c, x)
  BY <1>1, <1>2, <1>4 DEF PageRead
<1>6. Goes(a, c, x)'
  BY <1>5 DEF SameBlocks, Goes
<1>7. r \in Reads' /\ reads'[r] = v /\ SizeOf(r)' = SizeOf(r) /\ wrote'[v] = wrote[v]
  BY <1>1, ReadStays
<1>8. Old(v)'
  BY <1>3, OldStays
<1>9. Addr(v, i)' = a
  BY <1>4, <1>7 DEF Addr
<1>10. (Goes(Addr(v, i), c, x))'
  BY <1>6, <1>9 DEF Goes, PhysBlock
<1>11. x.i \in 1 .. SizeOf(x.id)'
  BY <1>1, <1>2, <1>7 DEF SizeOf
<1> QED BY <1>1, <1>2, <1>7, <1>8, <1>10, <1>11 DEF PageRead, Old, Addr, Goes, PhysBlock

(* The commands that read move m places, or become fewer.                  *)
SameReads(c, m) ==
  \A k \in Nat \ {0} : ReadAt(c, k)' => ReadAt(c, k + m) /\ chipQ'[c][k] = chipQ[c][k + m]

ReadsMove == \A c \in Chips : \E m \in Nat : SameReads(c, m)

LEMMA ChipReadsStay ==
  ASSUME WriterInv, ReadTypes, ChipReadsInv, Kept, SameBlocks, ReadsMove
  PROVE  ChipReadsInv'
<1> SUFFICES ASSUME NEW c \in Chips, NEW k \in Nat \ {0}, ReadAt(c, k)'
             PROVE  PageRead(c, chipQ[c][k])'
  BY DEF ChipReadsInv
<1>1. PICK m \in Nat : SameReads(c, m)
  BY DEF ReadsMove
<1>2. PICK j \in Nat \ {0} : j = k + m
  OBVIOUS
<1>3. PICK x : x = chipQ[c][j]
  OBVIOUS
<1>4. ReadAt(c, j) /\ chipQ'[c][k] = x
  BY <1>1, <1>2, <1>3 DEF SameReads
<1>5. PageRead(c, x)
  BY <1>3, <1>4 DEF ChipReadsInv
<1>6. PageRead(c, x)'
  BY <1>5, PageReadStays
<1> QED BY <1>4, <1>6 DEF PageRead, Goes

LEMMA SentReads ==
  ASSUME Queues, NEW c \in Chips, NEW cmd, Sent(c, cmd), cmd.op # "READ_PAGE"
  PROVE  ReadsMove
<1> SUFFICES ASSUME NEW d \in Chips PROVE SameReads(d, 0)
  BY DEF ReadsMove
<1> SUFFICES ASSUME NEW k \in Nat \ {0}, ReadAt(d, k)'
             PROVE  ReadAt(d, k + 0) /\ chipQ'[d][k] = chipQ[d][k + 0]
  BY DEF SameReads
<1>1. k + 0 = k /\ k \in 1 .. Len(chipQ'[d]) /\ chipQ'[d][k].op = "READ_PAGE"
  BY DEF ReadAt
<1>2. k \in 1 .. Len(chipQ[d]) \/ (d = c /\ k = Len(chipQ[c]) + 1)
  BY <1>1, SentIs
<1>3. k \in 1 .. Len(chipQ[d])
  BY <1>1, <1>2, SentIs
<1>4. chipQ'[d][k] = chipQ[d][k]
  BY <1>3, SentIs
<1> QED BY <1>1, <1>3, <1>4 DEF ReadAt

LEMMA TurnedReads ==
  ASSUME Queues, NEW c \in Chips, NEW cmd, Turned(c, cmd), cmd.op # "READ_PAGE"
  PROVE  ReadsMove
<1> SUFFICES ASSUME NEW d \in Chips PROVE SameReads(d, 0)
  BY DEF ReadsMove
<1> SUFFICES ASSUME NEW k \in Nat \ {0}, ReadAt(d, k)'
             PROVE  ReadAt(d, k + 0) /\ chipQ'[d][k] = chipQ[d][k + 0]
  BY DEF SameReads
<1>1. k + 0 = k /\ k \in 1 .. Len(chipQ'[d]) /\ chipQ'[d][k].op = "READ_PAGE"
  BY DEF ReadAt
<1>2. k \in 1 .. Len(chipQ[d]) /\ (d # c \/ k # 1)
  BY <1>1, TurnedIs
<1>3. chipQ'[d][k] = chipQ[d][k]
  BY <1>2, TurnedIs
<1> QED BY <1>1, <1>2, <1>3 DEF ReadAt

LEMMA DoneReads ==
  ASSUME Queues, NEW c \in Chips, Done(c)
  PROVE  /\ ReadsMove /\ SameReads(c, 1)
         /\ \A d \in Chips \ {c} : SameReads(d, 0)
<1>1. SameReads(c, 1)
  <2> SUFFICES ASSUME NEW k \in Nat \ {0}, ReadAt(c, k)'
               PROVE  ReadAt(c, k + 1) /\ chipQ'[c][k] = chipQ[c][k + 1]
    BY DEF SameReads
  <2>1. k \in 1 .. Len(chipQ'[c]) /\ chipQ'[c][k].op = "READ_PAGE"
    BY DEF ReadAt
  <2>2. k + 1 \in 1 .. Len(chipQ[c]) /\ chipQ'[c][k] = chipQ[c][k + 1]
    BY <2>1, DoneIs
  <2> QED BY <2>1, <2>2 DEF ReadAt
<1>2. ASSUME NEW d \in Chips \ {c} PROVE SameReads(d, 0)
  <2> SUFFICES ASSUME NEW k \in Nat \ {0}, ReadAt(d, k)'
               PROVE  ReadAt(d, k + 0) /\ chipQ'[d][k] = chipQ[d][k + 0]
    BY DEF SameReads
  <2>1. k + 0 = k /\ chipQ'[d] = chipQ[d]
    BY DoneIs
  <2> QED BY <2>1 DEF ReadAt
<1> QED BY <1>1, <1>2 DEF ReadsMove

LEMMA SameQueueReads ==
  ASSUME chipQ' = chipQ
  PROVE  ReadsMove
<1> SUFFICES ASSUME NEW d \in Chips PROVE SameReads(d, 0)
  BY DEF ReadsMove
<1> SUFFICES ASSUME NEW k \in Nat \ {0}, ReadAt(d, k)'
             PROVE  ReadAt(d, k + 0) /\ chipQ'[d][k] = chipQ[d][k + 0]
  BY DEF SameReads
<1>1. k + 0 = k
  OBVIOUS
<1> QED BY <1>1 DEF ReadAt

LEMMA KeptSame ==
  ASSUME WriterInv, UNCHANGED << reads, wrote >>, Issued' = Issued, early \subseteq early'
  PROVE  Kept
<1>1. Issued \in Nat
  BY IssuedIs DEF WriterInv
<1> QED BY <1>1 DEF Kept, Reads, Values

LEMMA ReadersStay ==
  ASSUME WriterInv, ReadTypes, ReadersInv, Kept, SameBlocks, ReadsMove,
         UNCHANGED << readQ, immQ >>, arrived' \subseteq arrived
  PROVE  ReadersInv'
<1>1. ValuesInv /\ ReadQInv /\ ImmInv /\ ChipReadsInv /\ ArrivedInv
  BY DEF WriterInv, ReadersInv
<1> QED BY <1>1, ReadQStays, ImmStays, ChipReadsStay, ArrivedStays DEF ReadersInv

LEMMA SameMap ==
  ASSUME UNCHANGED map_view
  PROVE  SameBlocks
BY StaysSame DEF SameBlocks, PhysBlock, map_view

(* A read goes from readQ to immQ.                                         *)
LEMMA ReaderCmdIs ==
  ASSUME ReadQInv, ImmInv, doReaderCmd
  PROVE  \E r \in Reads, v \in Values :
           /\ readQ # << >> /\ readQ[1].id = r /\ v = reads[r] /\ Old(v) /\ readQ[1] = [ id |-> r, value |-> v ]
           /\ 1 \in 1 .. Len(readQ)
           /\ readQ' = Tail(readQ) /\ immQ' = Append(immQ, [ id |-> r, value |-> v, cmdCnt |-> 0 ])
<1>1. readQ # << >> /\ readQ \in Seq([ id : Reads, value : Values ])
  BY DEF doReaderCmd, ReadQInv
<1>2. Head(readQ) = readQ[1] /\ readQ[1] \in [ id : Reads, value : Values ] /\ 1 \in 1 .. Len(readQ)
  <2>1. /\ Head(readQ) = readQ[1] /\ readQ[1] \in [ id : Reads, value : Values ]
        /\ Len(readQ) \in Nat \ {0}
    BY <1>1, TailIs
  <2> QED BY <2>1
<1>3. PICK r \in Reads, v \in Values : readQ[1] = [ id |-> r, value |-> v ]
  BY <1>2
<1>4. r = readQ[1].id /\ v = readQ[1].value /\ v = reads[r] /\ Old(v)
  BY <1>2, <1>3 DEF ReadQInv
<1> QED BY <1>1, <1>2, <1>3, <1>4 DEF doReaderCmd

LEMMA ReaderCmdReaders ==
  ASSUME WriterInv, ReadTypes, ReadersInv, doReaderCmd
  PROVE  ReadersInv'
<1>1. /\ UNCHANGED << reads, wrote, early, chipQ, map_view, arrived, flushReqQ, flush, superPageCnt >>
      /\ ValuesInv /\ ReadQInv /\ ImmInv /\ ChipReadsInv /\ ArrivedInv
  BY DEF map_view, doReaderCmd, write_vars, flush_vars, eraser, chips, WriterInv, ReadersInv
<1>2. Issued' = Issued
  BY <1>1 DEF Issued
<1>3. Kept /\ SameBlocks
  BY <1>1, <1>2, KeptSame, SameMap
<1>4. ChipReadsInv' /\ ArrivedInv'
  BY <1>1, <1>3, SameQueueReads, ChipReadsStay, ArrivedStays
<1>5. PICK r \in Reads, v \in Values :
        /\ readQ # << >> /\ v = reads[r] /\ Old(v)
        /\ readQ' = Tail(readQ) /\ immQ' = Append(immQ, [ id |-> r, value |-> v, cmdCnt |-> 0 ])
  BY <1>1, ReaderCmdIs
<1>6. Reads' = Reads /\ Values' = Values /\ (\A w : Old(w)' = Old(w)) /\ \A s : SizeOf(s)' = SizeOf(s)
  BY <1>1, <1>2 DEF Reads, Values, Old, SizeOf
<1>7. ReadQInv'
  <2>1. readQ \in Seq([ id : Reads, value : Values ])
    BY <1>1 DEF ReadQInv
  <2>2. /\ readQ' \in Seq([ id : Reads, value : Values ]) /\ Len(readQ') = Len(readQ) - 1
        /\ Len(readQ) \in Nat \ { 0 } /\ \A k \in 1 .. Len(readQ) - 1 : readQ'[k] = readQ[k + 1]
    BY <1>5, <2>1, TailIs
  <2>3. ASSUME NEW k \in 1 .. Len(readQ')
        PROVE  readQ'[k].value = reads[readQ'[k].id] /\ Old(readQ'[k].value)
    <3>1. PICK j \in 1 .. Len(readQ) : j = k + 1 /\ readQ'[k] = readQ[j]
      BY <2>2
    <3> QED BY <1>1, <3>1 DEF ReadQInv
  <2>4. ASSUME NEW k \in 1 .. Len(readQ')
        PROVE  (readQ[k].value = reads[readQ[k].id] /\ Old(readQ[k].value))'
    BY <1>1, <1>2, <2>3 DEF Old
  <2> QED BY <1>6, <2>2, <2>4 DEF ReadQInv
<1>8. ImmInv'
  <2>1. PICK q : q = [ id |-> r, value |-> v, cmdCnt |-> 0 ]
    OBVIOUS
  <2>2. q \in [ id : Reads, value : Values, cmdCnt : Nat ] /\ q.id = r /\ q.value = v /\ q.cmdCnt = 0
    BY <2>1
  <2>3. /\ immQ' \in Seq([ id : Reads, value : Values, cmdCnt : Nat ]) /\ Len(immQ') = Len(immQ) + 1
        /\ Len(immQ) \in Nat /\ immQ'[Len(immQ) + 1] = q
        /\ \A k \in 1 .. Len(immQ) : immQ'[k] = immQ[k]
    BY <1>1, <1>5, <2>1, <2>2, AppendIs DEF ImmInv
  <2>4. 0 < SizeOf(r)
    BY <1>1, <1>5, ValueIs DEF SizeOf
  <2>5. ASSUME NEW k \in 1 .. Len(immQ')
        PROVE  /\ immQ'[k].value = reads[immQ'[k].id] /\ Old(immQ'[k].value)
               /\ immQ'[k].cmdCnt < SizeOf(immQ'[k].id)
    <3>1. CASE k \in 1 .. Len(immQ)
      BY <1>1, <2>3, <3>1 DEF ImmInv
    <3>2. CASE k = Len(immQ) + 1
      BY <1>5, <2>2, <2>3, <2>4, <3>2
    <3> QED BY <2>3, <3>1, <3>2
  <2>6. ASSUME NEW k \in 1 .. Len(immQ')
        PROVE  (/\ immQ[k].value = reads[immQ[k].id] /\ Old(immQ[k].value)
                /\ immQ[k].cmdCnt < SizeOf(immQ[k].id))'
    BY <1>1, <1>2, <2>5 DEF Old, SizeOf
  <2> QED BY <1>6, <2>3, <2>6 DEF ImmInv
<1> QED BY <1>4, <1>7, <1>8 DEF ReadersInv

LEMMA HeadChanged ==
  ASSUME NEW T, NEW s \in Seq(T), s # << >>, NEW y \in T
  PROVE  /\ << y >> \o Tail(s) \in Seq(T) /\ Len(<< y >> \o Tail(s)) = Len(s)
         /\ Len(s) \in Nat \ {0} /\ (<< y >> \o Tail(s))[1] = y
         /\ \A k \in 2 .. Len(s) : (<< y >> \o Tail(s))[k] = s[k]
<1>1. PICK t \in Seq(T) : t = Tail(s)
  BY TailIs
<1>2. Len(s) \in Nat \ {0} /\ Len(t) = Len(s) - 1 /\ \A k \in 1 .. Len(s) - 1 : t[k] = s[k + 1]
  BY <1>1, TailIs
<1>3. PICK z \in Seq(T) : z = << y >> /\ Len(z) = 1 /\ z[1] = y
  BY LenOne
<1>4. /\ z \o t \in Seq(T) /\ Len(z \o t) = 1 + Len(t)
      /\ \A k \in 1 .. 1 + Len(t) : (z \o t)[k] = IF k <= 1 THEN z[k] ELSE t[k - 1]
  BY <1>3, ConcatProperties
<1>5. ASSUME NEW k \in 2 .. Len(s) PROVE (z \o t)[k] = s[k]
  <2>1. PICK j \in 1 .. Len(s) - 1 : j = k - 1 /\ j + 1 = k
    BY <1>2
  <2>2. k \in 1 .. 1 + Len(t) /\ ~ (k <= 1)
    BY <1>2
  <2> QED BY <1>2, <1>4, <2>1, <2>2
<1>6. (z \o t)[1] = y /\ Len(z \o t) = Len(s)
  BY <1>2, <1>3, <1>4
<1> QED BY <1>1, <1>2, <1>3, <1>4, <1>5, <1>6

(* The commands that read when one more is sent.                           *)
LEMMA ReadSent ==
  ASSUME Queues, NEW c \in Chips, NEW cmd, Sent(c, cmd), NEW d \in Chips, NEW k \in Nat \ {0},
         ReadAt(d, k)'
  PROVE  (ReadAt(d, k) /\ chipQ'[d][k] = chipQ[d][k]) \/ (d = c /\ chipQ'[d][k] = cmd /\ k = Len(chipQ[c]) + 1)
<1>1. k \in 1 .. Len(chipQ'[d]) /\ chipQ'[d][k].op = "READ_PAGE"
  BY DEF ReadAt
<1>2. CASE k \in 1 .. Len(chipQ[d])
  <2>1. chipQ'[d][k] = chipQ[d][k]
    BY <1>2, SentIs
  <2> QED BY <1>1, <1>2, <2>1 DEF ReadAt
<1>3. CASE k \notin 1 .. Len(chipQ[d])
  BY <1>1, <1>3, SentIs
<1> QED BY <1>2, <1>3

LEMMA FlashCmdReaders ==
  ASSUME WriterInv, ServerTypes, IssuedMapped, ReadTypes, ReadersInv, doFlashCmd
  PROVE  ReadersInv'
<1>1. /\ UNCHANGED << reads, wrote, early, map_view, arrived, readQ, flushReqQ, flush, superPageCnt >>
      /\ ValuesInv /\ ReadQInv /\ ImmInv /\ ChipReadsInv /\ ArrivedInv /\ Queues
  BY DEF map_view, doFlashCmd, write_vars, flush_vars, eraser, WriterInv, ReadersInv, ServerTypes, Queues
<1>2. Issued' = Issued
  BY <1>1 DEF Issued
<1>3. Kept /\ SameBlocks
  BY <1>1, <1>2, KeptSame, SameMap
<1>4. ReadQInv' /\ ArrivedInv'
  BY <1>1, <1>3, ReadQStays, ArrivedStays
<1>5. PICK r \in Reads, c \in Chips, x \in ReadCmd, i \in Nat \ {0} :
           /\ immQ # << >> /\ r = immQ[1].id /\ immQ[1].value = reads[r] /\ i = immQ[1].cmdCnt + 1
           /\ i \in 1 .. SizeOf(r) /\ Old(reads[r]) /\ reads[r] \in Values
           /\ x.op = "READ_PAGE" /\ x.id = r /\ x.i = i /\ Sent(c, x)
           /\ Goes(Addr(reads[r], i), c, x) /\ Addr(reads[r], i) \in 0 .. Issued - 1
           /\ immQ' = IF i >= SizeOf(r) THEN Tail(immQ)
                      ELSE << [ immQ[1] EXCEPT !.cmdCnt = i ] >> \o Tail(immQ)
           /\ UNCHANGED << flash, pagesWritten, panic >>
  BY FlashCmdIs
<1>6. Reads' = Reads /\ Values' = Values /\ (\A w : Old(w)' = Old(w)) /\ \A s : SizeOf(s)' = SizeOf(s)
  BY <1>1, <1>2 DEF Reads, Values, Old, SizeOf
<1>7. ChipReadsInv'
  <2> SUFFICES ASSUME NEW d \in Chips, NEW k \in Nat \ {0}, ReadAt(d, k)'
               PROVE  PageRead(d, chipQ[d][k])'
    BY DEF ChipReadsInv
  <2>1. PICK y : y = chipQ'[d][k]
    OBVIOUS
  <2>2. PageRead(d, y)
    <3>1. CASE ReadAt(d, k) /\ chipQ'[d][k] = chipQ[d][k]
      BY <1>1, <2>1, <3>1 DEF ChipReadsInv
    <3>2. CASE d = c /\ chipQ'[d][k] = x
      BY <1>5, <2>1, <3>2 DEF PageRead
    <3> QED BY <1>1, <1>5, <3>1, <3>2, ReadSent
  <2>3. PageRead(d, y)'
    BY <1>3, <2>2, PageReadStays
  <2> QED BY <2>1, <2>3 DEF PageRead, Goes
<1>8. immQ \in Seq([ id : Reads, value : Values, cmdCnt : Nat ]) /\ immQ # << >>
  BY <1>1, <1>5 DEF ImmInv
<1>9. /\ immQ' \in Seq([ id : Reads, value : Values, cmdCnt : Nat ])
      /\ \A k \in 1 .. Len(immQ') :
           /\ immQ'[k].value = reads[immQ'[k].id] /\ Old(immQ'[k].value)
           /\ immQ'[k].cmdCnt < SizeOf(immQ'[k].id)
  <2>1. CASE i >= SizeOf(r)
    <3>1. /\ immQ' \in Seq([ id : Reads, value : Values, cmdCnt : Nat ]) /\ Len(immQ') = Len(immQ) - 1
          /\ Len(immQ) \in Nat \ { 0 } /\ \A k \in 1 .. Len(immQ) - 1 : immQ'[k] = immQ[k + 1]
      BY <1>5, <1>8, <2>1, TailIs
    <3>2. ASSUME NEW k \in 1 .. Len(immQ')
          PROVE  /\ immQ'[k].value = reads[immQ'[k].id] /\ Old(immQ'[k].value)
                 /\ immQ'[k].cmdCnt < SizeOf(immQ'[k].id)
      <4>1. PICK j \in 1 .. Len(immQ) : j = k + 1 /\ immQ'[k] = immQ[j]
        BY <3>1
      <4> QED BY <1>1, <4>1 DEF ImmInv
    <3> QED BY <3>1, <3>2
  <2>2. CASE ~ (i >= SizeOf(r))
    <3>1. PICK y : y = [ immQ[1] EXCEPT !.cmdCnt = i ]
      OBVIOUS
    <3>2. immQ[1] \in [ id : Reads, value : Values, cmdCnt : Nat ]
      BY <1>8, TailIs
    <3>3. /\ y \in [ id : Reads, value : Values, cmdCnt : Nat ] /\ y.id = r /\ y.value = reads[r]
          /\ y.cmdCnt = i
      BY <1>5, <3>1, <3>2
    <3>4. immQ' = << y >> \o Tail(immQ)
      BY <1>5, <2>2, <3>1
    <3>5. /\ immQ' \in Seq([ id : Reads, value : Values, cmdCnt : Nat ]) /\ Len(immQ') = Len(immQ)
          /\ Len(immQ) \in Nat \ {0} /\ immQ'[1] = y
          /\ \A k \in 2 .. Len(immQ) : immQ'[k] = immQ[k]
      BY <1>8, <3>3, <3>4, HeadChanged
    <3>6. i < SizeOf(r)
      <4>1. SizeOf(r) \in Nat
        BY <1>1, <1>5, ValueIs DEF SizeOf
      <4> QED BY <1>5, <2>2, <4>1
    <3>7. ASSUME NEW k \in 1 .. Len(immQ')
          PROVE  /\ immQ'[k].value = reads[immQ'[k].id] /\ Old(immQ'[k].value)
                 /\ immQ'[k].cmdCnt < SizeOf(immQ'[k].id)
      <4>1. CASE k = 1
        BY <1>5, <3>3, <3>5, <3>6, <4>1
      <4>2. CASE k \in 2 .. Len(immQ)
        BY <1>1, <3>5, <4>2 DEF ImmInv
      <4> QED BY <3>5, <4>1, <4>2
    <3> QED BY <3>5, <3>7
  <2> QED BY <2>1, <2>2
<1>10. ImmInv'
  BY <1>1, <1>2, <1>6, <1>9 DEF ImmInv, Old, SizeOf
<1> QED BY <1>4, <1>7, <1>10 DEF ReadersInv

(* The page that arrives is the one that was asked for, or early, or lost. *)
LEMMA DistributeIs ==
  ASSUME CoreInv, ReadTypes, ReadersInv, NEW c \in Chips, doDistributeData(c)
  PROVE  \E x \in ReadCmd, r \in Reads, data \in Data :
           /\ x = chipQ[c][1] /\ r = x.id /\ PageRead(c, x) /\ FirstPage(c, 1, r) = (x.i = 1)
           /\ arrived' = arrived \cup { [ id |-> r, i |-> x.i, data |-> data ] }
           /\ deqQ' = IF x.i = 1 THEN Append(deqQ, r) ELSE deqQ
           /\ data = << reads[r], x.i >> \/ Excused(r, x.i)
<1>1. /\ WriterInv /\ ValuesInv /\ ServerTypes /\ Queues /\ Stored /\ ReadsBehindWrites /\ IssuedMapped
      /\ ChipReadsInv
  BY DEF CoreInv, WriterInv, ErasePtrsInv, ServerTypes, Queues, ProgramInv, ReadersInv
<1>2. Done(c) /\ ReadAt(c, 1) /\ chipQ[c][1] \in ReadCmd
  BY DistributeCore
<1>3. PICK x \in ReadCmd : x = chipQ[c][1] /\ x = Head(chipQ[c])
  BY <1>1, <1>2, DoneIs
<1>4. PageRead(c, x)
  BY <1>1, <1>2, <1>3 DEF ChipReadsInv
<1>5. PICK r \in Reads, v \in Values : r = x.id /\ v = reads[r]
  BY <1>4, ReadStays, ElementOfSeq DEF PageRead, ReadTypes, Reads
<1>6. PICK i \in 1 .. wrote[v].size : i = x.i /\ i \in Pages(v)
  BY <1>4, <1>5 DEF PageRead, SizeOf, Pages
<1>7. PICK a \in 0 .. Issued - 1 : a = Addr(v, i)
  BY <1>1, <1>4, <1>5, <1>6, OldIssued DEF PageRead
<1>8. Goes(a, c, x)
  BY <1>4, <1>5, <1>6, <1>7 DEF PageRead
<1>9. PICK data : data = flash[c][x.block][x.page]
  OBVIOUS
<1>10. data \in Data
  <2>1. x.block \in 0 .. Blocks - 1 /\ x.page \in 0 .. PagesPerBlock - 1
    BY DEF ReadCmd
  <2>2. flash \in [ Chips -> [ 0 .. Blocks - 1 -> [ 0 .. PagesPerBlock - 1 -> Data ] ] ]
    BY <1>1 DEF ServerTypes
  <2>3. flash[c] \in [ 0 .. Blocks - 1 -> [ 0 .. PagesPerBlock - 1 -> Data ] ]
    BY <2>2
  <2>4. flash[c][x.block] \in [ 0 .. PagesPerBlock - 1 -> Data ]
    BY <2>1, <2>3
  <2> QED BY <1>9, <2>1, <2>4
<1>11. data = << v, i >> \/ v \in early \/ OnErasedAgain(a)
  <2>1. CASE \E k \in 1 .. Len(chipQ[c]) : WriteAt(c, k) /\ Goes(a, c, chipQ[c][k])
    <3>1. PICK k \in 1 .. Len(chipQ[c]) : WriteAt(c, k) /\ Goes(a, c, chipQ[c][k])
      BY <2>1
    <3>2. k # 1
      BY <1>2, <3>1 DEF WriteAt, ReadAt
    <3>3. Len(chipQ[c]) \in Nat
      BY <1>1, QueueIs
    <3>4. 1 < k /\ 1 \in 1 .. Len(chipQ[c])
      BY <3>2, <3>3
    <3>5. SameVPage(chipQ[c][1], chipQ[c][k]) => ErasedAgain(c, chipQ[c][1].block)
      BY <1>1, <1>2, <3>1, <3>4 DEF ReadsBehindWrites
    <3>6. ErasedAgain(c, x.block)
      BY <1>3, <1>8, <3>1, <3>5 DEF Goes, SameVPage
    <3> QED BY <1>8, <3>6 DEF Goes, OnErasedAgain
  <2>2. CASE Ok(a, flash[c][PhysBlock(a)][PageOf(a)])
    <3>1. Ok(a, data)
      BY <1>8, <1>9, <2>2 DEF Goes
    <3> QED BY <1>6, <1>7, <3>1 DEF Ok
  <2>3. ChipOf(a) = c
    BY <1>8 DEF Goes
  <2> QED BY <1>1, <2>1, <2>2, <2>3 DEF Stored
<1>12. FirstPage(c, 1, r) = (x.i = 1)
  BY <1>2, <1>3, <1>5 DEF FirstPage
<1>13. /\ arrived' = arrived \cup { [ id |-> r, i |-> x.i, data |-> data ] }
       /\ deqQ' = IF x.i = 1 THEN Append(deqQ, r) ELSE deqQ
  BY <1>3, <1>5, <1>9 DEF doDistributeData
<1>14. data = << reads[r], x.i >> \/ Excused(r, x.i)
  BY <1>1, <1>5, <1>6, <1>7, <1>11, IssuedIs DEF Excused, Lost
<1> QED BY <1>3, <1>4, <1>5, <1>10, <1>12, <1>13, <1>14

LEMMA DistributeReaders ==
  ASSUME CoreInv, ReadTypes, ReadersInv, NEW c \in Chips, doDistributeData(c)
  PROVE  ReadersInv' /\ ReadTypes'
<1>1. /\ UNCHANGED << reads, wrote, early, map_view, readQ, immQ, flushReqQ, flush, superPageCnt >>
      /\ UNCHANGED << answers, nextBurst, byteCntResp >>
      /\ WriterInv /\ ValuesInv /\ ReadQInv /\ ImmInv /\ ChipReadsInv /\ ArrivedInv /\ Queues
  BY DEF map_view, doDistributeData, write_vars, flush_vars, burst_vars, eraser, CoreInv, WriterInv, ReadersInv,
         ErasePtrsInv, ServerTypes, Queues
<1>2. Issued' = Issued
  BY <1>1 DEF Issued
<1>3. Kept /\ SameBlocks
  BY <1>1, <1>2, KeptSame, SameMap
<1>4. ReadsMove
  BY <1>1, DistributeCore, DoneReads
<1>5. ReadQInv' /\ ImmInv' /\ ChipReadsInv'
  BY <1>1, <1>3, <1>4, ReadQStays, ImmStays, ChipReadsStay
<1>6. PICK x \in ReadCmd, r \in Reads, data \in Data :
           /\ x = chipQ[c][1] /\ r = x.id /\ PageRead(c, x) /\ FirstPage(c, 1, r) = (x.i = 1)
           /\ arrived' = arrived \cup { [ id |-> r, i |-> x.i, data |-> data ] }
           /\ deqQ' = IF x.i = 1 THEN Append(deqQ, r) ELSE deqQ
           /\ data = << reads[r], x.i >> \/ Excused(r, x.i)
  BY DistributeIs
<1>7. Reads' = Reads /\ Values' = Values /\ \A s : SizeOf(s)' = SizeOf(s)
  BY <1>1 DEF Reads, Values, SizeOf
<1>8. ArrivedInv'
  <2>1. PICK d : d = [ id |-> r, i |-> x.i, data |-> data ]
    OBVIOUS
  <2>2. d.id = r /\ d.i = x.i /\ d.data = data /\ arrived' = arrived \cup { d }
    BY <1>6, <2>1
  <2>3. d.id \in Reads /\ d.i \in 1 .. SizeOf(d.id) /\ d.data \in Data
        /\ (d.data = << reads[d.id], d.i >> \/ Excused(d.id, d.i))
    BY <1>6, <2>2 DEF PageRead
  <2> SUFFICES ASSUME NEW e \in arrived'
               PROVE  /\ e.id \in Reads' /\ e.i \in 1 .. SizeOf(e.id)' /\ e.data \in Data
                      /\ e.data = << reads'[e.id], e.i >> \/ Excused(e.id, e.i)'
    BY DEF ArrivedInv
  <2>4. /\ e.id \in Reads /\ e.i \in 1 .. SizeOf(e.id) /\ e.data \in Data
        /\ e.data = << reads[e.id], e.i >> \/ Excused(e.id, e.i)
    BY <1>1, <2>2, <2>3 DEF ArrivedInv
  <2>5. PICK q \in Reads, i \in Nat \ {0} : q = e.id /\ i = e.i
    BY <2>4
  <2>6. Excused(q, i) => Excused(q, i)'
    BY <1>1, <1>3, ExcusedStays
  <2> QED BY <1>1, <1>7, <2>4, <2>5, <2>6 DEF Excused, Lost
<1>9. deqQ' \in Seq(Reads)
  BY <1>6, AppendIs DEF ReadTypes
<1>10. ReadTypes'
  BY <1>1, <1>7, <1>9 DEF ReadTypes
<1> QED BY <1>5, <1>8, <1>10 DEF ReadersInv

(* The pages of a value that is in none of the buffers are issued.         *)
LEMMA OldRead ==
  ASSUME WriterInv, NEW v \in Values, SegOf(v) # superPageCnt, SegOf(v) # superPageCnt - 1
  PROVE  Old(v)
<1>1. SegOf(v) \in Nat /\ wrote[v].addr + wrote[v].size <= SegOf(v) * NumPages + NumPages
      /\ superPageCnt \in Nat /\ SegOf(v) <= superPageCnt /\ wrote[v].addr + wrote[v].size \in Nat
  <2>1. ValuesInv
    BY DEF WriterInv
  <2>2. SegOf(v) \in Nat /\ wrote[v].addr + wrote[v].size <= SegOf(v) * NumPages + NumPages
        /\ wrote[v].addr \in Nat /\ wrote[v].size \in Nat
    BY <2>1, ValueIs
  <2>3. superPageCnt \in Nat /\ SegOf(v) <= superPageCnt
    BY <2>1 DEF ValuesInv
  <2> QED BY <2>2, <2>3
<1>2. PICK n \in Nat : n = superPageCnt - 1 /\ superPageCnt = n + 1 /\ SegOf(v) + 1 <= n
  BY <1>1
<1>3. PICK s \in Nat : s = SegOf(v) /\ s + 1 <= n
  BY <1>1, <1>2
<1>4. (s + 1) * NumPages = s * NumPages + NumPages /\ (s + 1) * NumPages <= n * NumPages
      /\ s * NumPages \in Nat /\ n * NumPages \in Nat /\ (n + 1) * NumPages = n * NumPages + NumPages
  BY <1>3, PagesNat, Times
<1>5. n * NumPages <= Issued
  <2>1. CASE flushReqQ # << >>
    <3>1. Issued = n * NumPages
      BY <1>2, <2>1, IssuedIs
    <3> QED BY <1>4, <3>1
  <2>2. CASE flush.step # "no"
    <3>1. Issued = n * NumPages + flush.asked /\ flush.asked \in 0 .. NumPages
      BY <1>2, <2>2, IssuedIs, FlushIs
    <3> QED BY <1>4, <3>1, PagesNat
  <2>3. CASE flush.step = "no" /\ flushReqQ = << >>
    <3>1. Issued = (n + 1) * NumPages
      BY <1>2, <2>3, IssuedIs
    <3> QED BY <1>4, <3>1, PagesNat
  <2> QED BY <2>1, <2>2, <2>3
<1>6. PICK e \in Nat : e = wrote[v].addr + wrote[v].size /\ e <= s * NumPages + NumPages
  BY <1>1, <1>3
<1>7. Issued \in Nat
  BY IssuedIs
<1>8. e <= Issued
  <2>1. PICK x \in Nat, y \in Nat : x = s * NumPages + NumPages /\ y = n * NumPages /\ x <= y
    <3>1. s * NumPages + NumPages \in Nat /\ s * NumPages + NumPages <= n * NumPages
      BY <1>4, PagesNat
    <3> QED BY <1>4, <3>1
  <2> QED BY <1>5, <1>6, <1>7, <2>1
<1> QED BY <1>6, <1>8 DEF Old

(* A new read goes to DRAM or to readQ.                                    *)
LEMMA ReadCmdIs ==
  ASSUME WriterInv, doReadCmd
  PROVE  \E v \in Values :
           /\ reads' = Append(reads, v) /\ answers' = Append(answers, << >>)
           /\ \/ /\ Len(dramReqQ) < 2 /\ readQ' = readQ
                 /\ \E b \in Bufs : dramReqQ' = Append(dramReqQ,
                      [ rnw |-> TRUE, value |-> v, buf |-> b, id |-> Len(reads) + 1 ])
              \/ /\ dramReqQ' = dramReqQ /\ Old(v)
                 /\ readQ' = Append(readQ, [ id |-> Len(reads) + 1, value |-> v ])
<1>1. PICK v \in Values : v = Head(reqQ).n
  <2>1. reqQ # << >> /\ Head(reqQ).rnw /\ RequestsInv
    BY DEF doReadCmd, WriterInv
  <2> QED BY <2>1, RequestNow
<1>2. reads' = Append(reads, v) /\ answers' = Append(answers, << >>)
  BY <1>1 DEF doReadCmd
<1>3. PICK inBuf : inBuf = { b \in Bufs : \/ b = currBuf /\ SegOf(v) = superPageCnt
                                          \/ b # currBuf /\ SegOf(v) = superPageCnt - 1 /\ clean[b] }
  OBVIOUS
<1>4. IF inBuf # {}
      THEN /\ Len(dramReqQ) < 2
           /\ \E b \in inBuf : dramReqQ' = Append(dramReqQ,
                [ rnw |-> TRUE, value |-> v, buf |-> b, id |-> Len(reads) + 1 ])
           /\ readQ' = readQ
      ELSE /\ readQ' = Append(readQ, [ id |-> Len(reads) + 1, value |-> v ])
           /\ dramReqQ' = dramReqQ
  BY <1>1, <1>3 DEF doReadCmd
<1>5. CASE inBuf # {}
  <2>1. inBuf \subseteq Bufs
    BY <1>3
  <2> QED BY <1>2, <1>4, <1>5, <2>1
<1>6. CASE inBuf = {}
  <2>1. currBuf \in Bufs /\ 1 - currBuf \in Bufs /\ 1 - currBuf # currBuf /\ clean[1 - currBuf]
    BY DEF WriterInv, ValuesInv, FlushInv, Bufs
  <2>2. SegOf(v) # superPageCnt /\ SegOf(v) # superPageCnt - 1
    BY <1>3, <1>6, <2>1
  <2>3. Old(v)
    BY <2>2, OldRead
  <2> QED BY <1>2, <1>4, <1>6, <2>3
<1> QED BY <1>5, <1>6

LEMMA ReadCmdKept ==
  ASSUME WriterInv, ReadTypes, doReadCmd
  PROVE  /\ Kept /\ Issued' = Issued /\ Len(reads') = Len(reads) + 1 /\ Len(reads) \in Nat
         /\ Len(reads) + 1 \in Reads' /\ Reads' = Reads \cup { Len(reads) + 1 }
         /\ Len(reads) + 1 \notin Reads
         /\ UNCHANGED << wrote, early, map_view, chipQ, immQ, arrived, deqQ, nextBurst, byteCntResp, dataQ, byteCnt >>
<1>1. UNCHANGED << wrote, early, map_view, chipQ, immQ, arrived, deqQ, nextBurst, byteCntResp, dataQ,
                   byteCnt, flushReqQ, flush, superPageCnt >>
  BY DEF map_view, doReadCmd, write_vars, flush_vars, server_vars, eraser, chips
<1>2. Issued' = Issued /\ Issued \in Nat
  BY <1>1, IssuedIs DEF Issued
<1>3. PICK v \in Values : reads' = Append(reads, v)
  BY ReadCmdIs
<1>4. /\ Len(reads') = Len(reads) + 1 /\ Len(reads) \in Nat
      /\ \A k \in 1 .. Len(reads) : reads'[k] = reads[k]
  BY <1>3, AppendIs DEF ReadTypes
<1>5. Reads' = Reads \cup { Len(reads) + 1 } /\ Len(reads) + 1 \notin Reads
  BY <1>4 DEF Reads
<1>6. Kept
  BY <1>1, <1>2, <1>4, <1>5 DEF Kept, Reads, Values
<1> QED BY <1>1, <1>2, <1>4, <1>5, <1>6

LEMMA ReadCmdReaders ==
  ASSUME WriterInv, ReadTypes, ReadersInv, doReadCmd
  PROVE  ReadersInv' /\ ReadTypes'
<1>1. /\ Kept /\ Issued' = Issued /\ Len(reads) \in Nat
      /\ Len(reads) + 1 \in Reads' /\ Reads' = Reads \cup { Len(reads) + 1 }
      /\ Len(reads) + 1 \notin Reads /\ Len(reads') = Len(reads) + 1
      /\ UNCHANGED << wrote, early, map_view, chipQ, immQ, arrived, deqQ, nextBurst, byteCntResp >>
      /\ ValuesInv /\ ReadQInv /\ ImmInv /\ ChipReadsInv /\ ArrivedInv
  BY ReadCmdKept DEF WriterInv, ReadersInv
<1>2. SameBlocks /\ ReadsMove
  BY <1>1, SameMap, SameQueueReads
<1>3. ImmInv' /\ ChipReadsInv' /\ ArrivedInv'
  BY <1>1, <1>2, ImmStays, ChipReadsStay, ArrivedStays
<1>4. PICK v \in Values :
           /\ reads' = Append(reads, v) /\ answers' = Append(answers, << >>)
           /\ \/ readQ' = readQ
              \/ Old(v) /\ readQ' = Append(readQ, [ id |-> Len(reads) + 1, value |-> v ])
  BY ReadCmdIs
<1>5. /\ reads' \in Seq(Values) /\ reads'[Len(reads) + 1] = v
      /\ \A k \in Reads : reads'[k] = reads[k]
  BY <1>1, <1>4, AppendIs DEF ReadTypes, Reads
<1>6. Values' = Values /\ (\A w : Old(w)' = Old(w))
  BY <1>1 DEF Values, Old
<1>7. ReadQInv'
  <2>1. CASE readQ' = readQ
    BY <1>1, <2>1, ReadQStays
  <2>2. CASE Old(v) /\ readQ' = Append(readQ, [ id |-> Len(reads) + 1, value |-> v ])
    <3>1. PICK q : q = [ id |-> Len(reads) + 1, value |-> v ]
      OBVIOUS
    <3>2. q \in [ id : Reads', value : Values ] /\ q.id = Len(reads) + 1 /\ q.value = v
      BY <1>1, <3>1
    <3>3. readQ \in Seq([ id : Reads', value : Values ])
      <4>1. [ id : Reads, value : Values ] \subseteq [ id : Reads', value : Values ]
        BY <1>1
      <4>2. readQ \in Seq([ id : Reads, value : Values ])
        BY <1>1 DEF ReadQInv
      <4> QED BY <4>1, <4>2, SeqMonotonic
    <3>4. /\ readQ' \in Seq([ id : Reads', value : Values ]) /\ Len(readQ') = Len(readQ) + 1
          /\ Len(readQ) \in Nat /\ readQ'[Len(readQ) + 1] = q
          /\ \A k \in 1 .. Len(readQ) : readQ'[k] = readQ[k]
      BY <2>2, <3>1, <3>2, <3>3, AppendIs
    <3>5. ASSUME NEW k \in 1 .. Len(readQ')
          PROVE  readQ'[k].value = reads'[readQ'[k].id] /\ Old(readQ'[k].value)
      <4>1. CASE k \in 1 .. Len(readQ)
        <5>1. PICK r \in [ id : Reads, value : Values ] :
                r = readQ[k] /\ r.value = reads[r.id] /\ Old(r.value)
          BY <1>1, <4>1, ElementOfSeq DEF ReadQInv
        <5> QED BY <1>5, <3>4, <4>1, <5>1
      <4>2. CASE k = Len(readQ) + 1
        BY <1>5, <2>2, <3>2, <3>4, <4>2
      <4> QED BY <3>4, <4>1, <4>2
    <3>6. ASSUME NEW k \in 1 .. Len(readQ')
          PROVE  (readQ[k].value = reads[readQ[k].id] /\ Old(readQ[k].value))'
      BY <1>1, <3>5 DEF Old
    <3> QED BY <1>6, <3>4, <3>6 DEF ReadQInv
  <2> QED BY <1>4, <2>1, <2>2
<1>8. answers' \in Seq(Seq(Answer)) /\ Len(answers') = Len(reads')
  <2>1. << >> \in Seq(Answer) /\ answers \in Seq(Seq(Answer)) /\ Len(answers) = Len(reads)
    BY EmptySeq DEF ReadTypes
  <2> QED BY <1>1, <1>4, <2>1, AppendIs
<1>9. deqQ \in Seq(Reads') /\ nextBurst \in Seq([ sel : { "dram", "flash" }, id : Reads' ])
  <2>1. Reads \subseteq Reads'
        /\ [ sel : { "dram", "flash" }, id : Reads ] \subseteq [ sel : { "dram", "flash" }, id : Reads' ]
    BY <1>1
  <2> QED BY <2>1, SeqMonotonic DEF ReadTypes
<1>10. ReadTypes'
  BY <1>1, <1>5, <1>6, <1>8, <1>9 DEF ReadTypes
<1> QED BY <1>3, <1>7, <1>10 DEF ReadersInv
-----------------------------------------------------------------------------
(* Answers.                                                                *)
LEMMA FirstStays ==
  ASSUME ReadsMove, FirstOnce
  PROVE  /\ \A r \in Reads : \A c, d \in Chips : \A k, l \in Nat \ {0} :
              FirstPage(c, k, r)' /\ FirstPage(d, l, r)' => c = d /\ k = l
         /\ \A r : IsFirst(r)' => IsFirst(r)
<1>1. ASSUME NEW r \in Reads, NEW c \in Chips, NEW d \in Chips, NEW k \in Nat \ {0}, NEW l \in Nat \ {0},
             FirstPage(c, k, r)', FirstPage(d, l, r)'
      PROVE  c = d /\ k = l
  <2>1. PICK m \in Nat, n \in Nat : SameReads(c, m) /\ SameReads(d, n)
    BY DEF ReadsMove
  <2>2. ReadAt(c, k)' /\ ReadAt(d, l)'
    BY <1>1 DEF FirstPage
  <2>3. FirstPage(c, k + m, r) /\ FirstPage(d, l + n, r)
    BY <1>1, <2>1, <2>2 DEF SameReads, FirstPage
  <2>4. k + m \in Nat \ {0} /\ l + n \in Nat \ {0}
    OBVIOUS
  <2>5. c = d /\ k + m = l + n
    BY <2>3, <2>4 DEF FirstOnce
  <2>6. PICK p \in Nat : SameReads(c, p)
    BY <2>1
  <2>7. FirstPage(c, k + p, r) /\ FirstPage(c, l + p, r)
    BY <1>1, <2>2, <2>5, <2>6 DEF SameReads, FirstPage
  <2>8. k + p \in Nat \ {0} /\ l + p \in Nat \ {0}
    OBVIOUS
  <2>9. k + p = l + p
    BY <2>7, <2>8 DEF FirstOnce
  <2> QED BY <2>5, <2>9
<1>2. ASSUME NEW r, IsFirst(r)' PROVE IsFirst(r)
  <2>1. PICK c \in Chips : \E k \in Nat \ {0} : FirstPage(c, k, r)'
    BY <1>2 DEF IsFirst
  <2>2. PICK k \in Nat \ {0} : FirstPage(c, k, r)'
    BY <2>1
  <2>3. PICK m \in Nat : SameReads(c, m)
    BY DEF ReadsMove
  <2>4. ReadAt(c, k)' /\ k + m \in Nat \ {0}
    BY <2>2 DEF FirstPage
  <2>5. FirstPage(c, k + m, r)
    BY <2>2, <2>3, <2>4 DEF SameReads, FirstPage
  <2> QED BY <2>4, <2>5 DEF IsFirst
<1> QED BY <1>1, <1>2

(* What is answered from DRAM, by its requests and its data.               *)
DramStays ==
  /\ \A k \in 1 .. Len(dramReqQ') : dramReqQ'[k].rnw =>
       k \in 1 .. Len(dramReqQ) /\ dramReqQ'[k] = dramReqQ[k]
  /\ \A r : HeadReads(r)' = HeadReads(r)
  /\ byteCnt' = byteCnt
  /\ dataQ' = dataQ \/ (~ DataIn /\ ~ DataIn')

LEMMA DataStays ==
  ASSUME DramStays
  PROVE  /\ DataIn' = DataIn /\ (DataIn => dataQ' = dataQ)
         /\ \A r : (FromDram(r)' => FromDram(r)) /\ DramNext(r)' = DramNext(r)
<1>1. DataIn' = DataIn /\ (DataIn => dataQ' = dataQ)
  BY DEF DramStays, DataIn
<1>2. ASSUME NEW r, FromDram(r)' PROVE FromDram(r)
  <2>1. CASE \E k \in 1 .. Len(dramReqQ') : dramReqQ'[k].rnw /\ dramReqQ'[k].id = r
    BY <2>1 DEF DramStays, FromDram
  <2>2. CASE DataIn' /\ dataQ'[1].id = r
    BY <1>1, <2>2 DEF FromDram
  <2> QED BY <1>2, <2>1, <2>2 DEF FromDram
<1>3. ASSUME NEW r PROVE DramNext(r)' = DramNext(r)
  BY <1>1 DEF DramNext, DramStays
<1> QED BY <1>1, <1>2, <1>3

(* Everybody stays in the place where he is, or leaves it.                 *)
LEMMA PlacesStay ==
  ASSUME PlacesInv, ReadsMove, UNCHANGED << reads, readQ, immQ, deqQ >>,
         \A r : FromDram(r)' => FromDram(r)
  PROVE  PlacesInv' /\ \A r : FromFlash(r)' => FromFlash(r)
<1>1. /\ Reads' = Reads /\ (\A r : Asks(r)' = Asks(r)) /\ (\A r : InDeq(r)' = InDeq(r))
      /\ AskOnce' = AskOnce /\ DeqOnce' = DeqOnce
  BY DEF Reads, Asks, InDeq, AskOnce, DeqOnce
<1>2. /\ FirstOnce' /\ \A r : IsFirst(r)' => IsFirst(r)
  BY <1>1, FirstStays DEF PlacesInv, FirstOnce
<1>3. \A r : FromFlash(r)' => FromFlash(r)
  BY <1>1, <1>2 DEF FromFlash
<1>4. OnePlace'
  BY <1>1, <1>2, <1>3 DEF PlacesInv, OnePlace
<1> QED BY <1>1, <1>2, <1>3, <1>4 DEF PlacesInv

LEMMA BurstsStay ==
  ASSUME ReadTypes, BurstsInv, UNCHANGED << nextBurst, byteCntResp >>,
         \A r \in Reads : SizeOf(r)' = SizeOf(r) /\ answers'[r] = answers[r],
         Len(deqQ) <= Len(deqQ'), Len(deqQ') \in Nat, \A k \in 1 .. Len(deqQ) : deqQ'[k] = deqQ[k],
         \A r \in Reads : DramNext(r) => DramNext(r)'
  PROVE  BurstsInv'
<1>1. nextBurst' = << >> => byteCntResp' = 0
  BY DEF BurstsInv
<1>2. ASSUME NEW k \in 1 .. Len(nextBurst') PROVE BurstInv(k, nextBurst[k].id)'
  <2>1. PICK r \in Reads : r = nextBurst[k].id
    <3>1. nextBurst[k] \in [ sel : { "dram", "flash" }, id : Reads ]
      BY ElementOfSeq DEF ReadTypes
    <3> QED BY <3>1
  <2>2. BurstInv(k, r)
    BY <2>1 DEF BurstsInv
  <2>3. nextBurst'[k].sel = "dram" => DramBurst(k, r)'
    BY <2>2 DEF BurstInv, DramBurst
  <2>4. nextBurst'[k].sel = "flash" => FlashBurst(k, r)'
    <3> SUFFICES ASSUME nextBurst[k].sel = "flash" PROVE FlashBurst(k, r)'
      OBVIOUS
    <3>1. FlashBurst(k, r) /\ Len(deqQ) \in Nat
      BY <2>2, LenEmpty DEF BurstInv, ReadTypes
    <3>2. CASE k = 2 /\ nextBurst[1].sel = "flash"
      <4>1. Len(deqQ) > 1 /\ r = deqQ[2]
        BY <3>1, <3>2 DEF FlashBurst
      <4>2. 2 \in 1 .. Len(deqQ)
        BY <3>1, <4>1
      <4>3. Len(deqQ') > 1 /\ deqQ'[2] = r
        BY <3>1, <4>1, <4>2
      <4> QED BY <3>2, <4>3 DEF FlashBurst
    <3>3. CASE ~ (k = 2 /\ nextBurst[1].sel = "flash")
      <4>1. Len(deqQ) > 0 /\ r = deqQ[1]
        BY <3>1, <3>3 DEF FlashBurst
      <4>2. 1 \in 1 .. Len(deqQ)
        BY <3>1, <4>1
      <4>3. Len(deqQ') > 0 /\ deqQ'[1] = r
        BY <3>1, <4>1, <4>2
      <4> QED BY <3>3, <4>3 DEF FlashBurst
    <3> QED BY <3>2, <3>3
  <2>5. (Len(answers[r]) = (IF k = 1 THEN byteCntResp ELSE 0) /\ Len(answers[r]) < SizeOf(r))'
    BY <2>2 DEF BurstInv
  <2>6. BurstInv(k, r)'
    BY <2>3, <2>4, <2>5 DEF BurstInv
  <2> QED BY <2>1, <2>6 DEF BurstInv, DramBurst, DramNext, FlashBurst, HeadReads, SizeOf
<1> QED BY <1>1, <1>2 DEF BurstsInv

LEMMA FlashAnswersStay ==
  ASSUME FlashAnswers, UNCHANGED << reads, nextBurst >>,
         \A r \in Reads : answers'[r] = answers[r],
         \A r : FromFlash(r)' => FromFlash(r)
  PROVE  FlashAnswers'
<1>1. Reads' = Reads /\ \A r : Bursting(r)' = Bursting(r)
  BY DEF Reads, Bursting
<1> QED BY <1>1 DEF FlashAnswers

LEMMA DramAnswersStay ==
  ASSUME DramAnswers, DramStays, UNCHANGED << reads, nextBurst >>,
         \A r \in Reads : answers'[r] = answers[r] /\ SizeOf(r)' = SizeOf(r)
  PROVE  DramAnswers'
<1>1. /\ Reads' = Reads /\ (\A r : Bursting(r)' = Bursting(r)) /\ \A r : HeadReads(r)' = HeadReads(r)
      /\ DataIn' = DataIn /\ (DataIn => dataQ' = dataQ) /\ byteCnt' = byteCnt
  BY DataStays DEF Reads, Bursting, DramStays
<1>2. ASSUME NEW k \in 1 .. Len(dramReqQ'), dramReqQ'[k].rnw
      PROVE  DramReadInv(k, dramReqQ[k].id)'
  <2>1. k \in 1 .. Len(dramReqQ) /\ dramReqQ'[k] = dramReqQ[k] /\ dramReqQ[k].rnw
    BY <1>2 DEF DramStays
  <2>2. PICK r : r = dramReqQ[k].id
    OBVIOUS
  <2>3. DramReadInv(k, r)
    BY <2>1, <2>2 DEF DramAnswers
  <2>4. r \in Reads /\ answers'[r] = answers[r]
    BY <2>3 DEF DramReadInv
  <2>5. DramReadInv(k, r)'
    BY <1>1, <2>1, <2>3, <2>4 DEF DramReadInv
  <2> QED BY <2>1, <2>2, <2>5 DEF DramReadInv, HeadReads, Bursting
<1>3. ASSUME DataIn' PROVE DataInv(dataQ[1].id)'
  <2>1. PICK r : r = dataQ[1].id
    OBVIOUS
  <2>2. DataIn /\ dataQ' = dataQ /\ DataInv(r)
    BY <1>1, <1>3, <2>1 DEF DramAnswers
  <2>3. r \in Reads /\ answers'[r] = answers[r] /\ SizeOf(r)' = SizeOf(r)
    BY <2>2 DEF DataInv
  <2>4. DataInv(r)'
    BY <1>1, <2>2, <2>3 DEF DataInv
  <2> QED BY <2>1, <2>2, <2>4 DEF DataInv, HeadReads, Bursting, SizeOf
<1> QED BY <1>2, <1>3 DEF DramAnswers

LEMMA OwnStays ==
  ASSUME ValuesInv, ReadTypes, Kept, SameBlocks, AnswersOwn, UNCHANGED << reads, answers >>
  PROVE  AnswersOwn'
<1>1. ASSUME NEW r \in 1 .. Len(answers), NEW i \in 1 .. Len(answers[r]), Excused(r, i)
      PROVE  Excused(r, i)'
  <2>1. r \in Reads
    BY DEF ReadTypes, Reads
  <2>2. i \in Nat \ {0}
    OBVIOUS
  <2> QED BY <1>1, <2>1, <2>2, ExcusedStays
<1> QED BY <1>1 DEF AnswersOwn

LEMMA AnswersStay ==
  ASSUME ValuesInv, ReadTypes, Kept, SameBlocks, AnswersInv, DramStays, ReadsMove,
         UNCHANGED << reads, answers, readQ, immQ, deqQ, nextBurst, byteCntResp >>,
         \A r \in Reads : SizeOf(r)' = SizeOf(r)
  PROVE  AnswersInv'
<1>1. PlacesInv /\ BurstsInv /\ FlashAnswers /\ DramAnswers /\ AnswersOwn /\ Len(deqQ) \in Nat
  BY LenEmpty DEF AnswersInv, ReadTypes
<1>2. \A r : (FromDram(r)' => FromDram(r)) /\ DramNext(r)' = DramNext(r)
  BY DataStays
<1>3. PlacesInv' /\ \A r : FromFlash(r)' => FromFlash(r)
  BY <1>1, <1>2, PlacesStay
<1>4. BurstsInv'
  BY <1>1, <1>2, BurstsStay
<1>5. FlashAnswers' /\ DramAnswers' /\ AnswersOwn'
  BY <1>1, <1>3, FlashAnswersStay, DramAnswersStay, OwnStays
<1> QED BY <1>3, <1>4, <1>5 DEF AnswersInv

(* Steps that the reads do not see.                                        *)
read_view == << reads, answers, readQ, immQ, arrived, deqQ, nextBurst, byteCntResp, dramReqQ, byteCnt >>

LEMMA ReadsStay ==
  ASSUME CoreInv, ReadInv, UNCHANGED << read_view, wrote >>, ReadsMove, SameBlocks,
         Issued' \in Nat, Issued <= Issued', early \subseteq early',
         dataQ' = dataQ \/ (~ DataIn /\ ~ DataIn')
  PROVE  ReadInv'
<1>1. /\ WriterInv /\ ValuesInv /\ ReadTypes /\ ReadersInv /\ AnswersInv
      /\ UNCHANGED << reads, answers, readQ, immQ, arrived, deqQ, nextBurst, byteCntResp, dramReqQ, byteCnt, wrote >>
  BY DEF CoreInv, WriterInv, ReadInv, read_view
<1>2. Reads' = Reads /\ Values' = Values /\ (\A r : SizeOf(r)' = SizeOf(r))
  BY <1>1 DEF Reads, Values, SizeOf
<1>3. Issued \in Nat
  BY <1>1, IssuedIs
<1>4. Kept
  BY <1>1, <1>2, <1>3 DEF Kept
<1>5. ReadTypes'
  BY <1>1, <1>2 DEF ReadTypes
<1>6. ReadersInv'
  BY <1>1, <1>4, ReadersStay
<1>7. DramStays
  BY <1>1 DEF DramStays, HeadReads
<1>8. AnswersInv'
  BY <1>1, <1>2, <1>4, <1>7, AnswersStay
<1> QED BY <1>5, <1>6, <1>8 DEF ReadInv

LEMMA ReadsSame ==
  ASSUME CoreInv, ReadInv, UNCHANGED << read_view, wrote, early, map_view, dataQ >>, ReadsMove,
         Issued' = Issued
  PROVE  ReadInv'
<1>1. Issued \in Nat /\ SameBlocks
  BY IssuedIs, SameMap DEF CoreInv
<1> QED BY <1>1, ReadsStay

LEMMA UnlockReads ==
  ASSUME CoreInv, ReadInv, doUnlockBuf
  PROVE  ReadInv'
<1>1. UNCHANGED << read_view, wrote, early, map_view, dataQ, chipQ >>
  BY DEF map_view, doUnlockBuf, read_view, dram_vars, read_vars, burst_vars, server_vars, eraser, chips
<1> QED BY <1>1, UnlockCore, SameQueueReads, ReadsSame

LEMMA ReserveReads ==
  ASSUME CoreInv, ReadInv, FlushReserve
  PROVE  ReadInv'
<1>1. UNCHANGED << read_view, wrote, early, map_view, dataQ, chipQ >>
  BY DEF map_view, FlushReserve, doReserveReq, read_view, write_vars, dram_vars, read_vars, burst_vars, chips
<1> QED BY <1>1, FlushReserveCore, SameQueueReads, ReadsSame

LEMMA FlushTagsReads ==
  ASSUME CoreInv, ReadInv, FlushTags
  PROVE  ReadInv'
<1>1. UNCHANGED << read_view, wrote, early, map_view, dataQ, chipQ >>
  BY DEF map_view, FlushTags, read_view, write_vars, dram_vars, read_vars, burst_vars, eraser, chips
<1> QED BY <1>1, FlushTagsCore, SameQueueReads, ReadsSame

(* What is read has been issued.                                           *)
LEMMA ReadsIssued ==
  ASSUME CoreInv, ReadInv
  PROVE  \A c \in Chips : \A k : ReadAt(c, k) => \E b \in 0 .. Issued - 1 : Goes(b, c, chipQ[c][k])
<1> SUFFICES ASSUME NEW c \in Chips, NEW k, ReadAt(c, k)
             PROVE  \E b \in 0 .. Issued - 1 : Goes(b, c, chipQ[c][k])
  OBVIOUS
<1>1. WriterInv /\ ServerTypes /\ ChipReadsInv /\ Queues /\ ReadTypes
  BY DEF CoreInv, ErasePtrsInv, ServerTypes, Queues, ReadInv, ReadersInv
<1>2. k \in Nat \ {0}
  <2>1. Len(chipQ[c]) \in Nat /\ k \in 1 .. Len(chipQ[c])
    BY <1>1, QueueIs DEF ReadAt
  <2> QED BY <2>1
<1>3. PICK x : x = chipQ[c][k]
  OBVIOUS
<1>4. PageRead(c, x)
  BY <1>1, <1>2, <1>3 DEF ChipReadsInv
<1>5. PICK v \in Values : v = reads[x.id]
  BY <1>1, <1>4, ElementOfSeq DEF PageRead, ReadTypes, Reads
<1>6. x.i \in 1 .. wrote[v].size /\ Old(v)
  BY <1>4, <1>5 DEF PageRead, SizeOf
<1>7. Addr(v, x.i) \in 0 .. Issued - 1
  BY <1>1, <1>6, OldIssued
<1> QED BY <1>3, <1>4, <1>5, <1>7 DEF PageRead

LEMMA FlashCmdsReads ==
  ASSUME CoreInv, ReadInv, doFlashCmds
  PROVE  CoreInv' /\ ReadInv'
<1>1. CoreInv' /\ \E c \in Chips : \E x \in WriteCmd : Sent(c, x)
  BY ReadsIssued, FlashCmdsCore
<1>2. PICK c \in Chips : \E x \in WriteCmd : Sent(c, x)
  BY <1>1
<1>3. PICK x \in WriteCmd : Sent(c, x)
  BY <1>2
<1>4. x.op # "READ_PAGE" /\ Queues
  BY DEF WriteCmd, CoreInv, ErasePtrsInv, ServerTypes, Queues
<1>5. ReadsMove
  BY <1>3, <1>4, SentReads
<1>6. UNCHANGED << read_view, wrote, early, map_view, dataQ, flushReqQ, superPageCnt >>
  BY DEF map_view, doFlashCmds, read_view, write_vars, dram_vars, read_vars, burst_vars, eraser
<1>7. Issued \in Nat /\ Issued' = Issued + 1
  <2>1. flush.step = "pages" /\ flush' = [ flush EXCEPT !.asked = @ + 1 ]
    BY DEF doFlashCmds
  <2>2. Issued \in Nat /\ Issued = flush.seg * NumPages + flush.asked /\ flush.seg * NumPages \in Nat
        /\ flush \in Flushing /\ flushReqQ = << >> /\ flush.asked \in Nat
    BY <2>1, IssuedIs, FlushIs, PagesNat DEF CoreInv
  <2>3. flush'.step = "pages" /\ flush'.seg = flush.seg /\ flush'.asked = flush.asked + 1
    BY <2>1, <2>2 DEF Flushing
  <2>4. Issued' = flush.seg * NumPages + (flush.asked + 1)
    BY <1>6, <2>2, <2>3 DEF Issued
  <2> QED BY <2>2, <2>4
<1>8. Issued' \in Nat /\ Issued <= Issued'
  BY <1>7
<1>9. ReadInv'
  BY <1>5, <1>6, <1>8, SameMap, ReadsStay
<1> QED BY <1>1, <1>9

LEMMA TagsReads ==
  ASSUME CoreInv, ReadInv, NEW c \in Chips, writeTags(c)
  PROVE  ReadInv'
<1>1. Issued' = Issued /\ \E y \in WriteCmd : Turned(c, y) /\ chipQ[c][1] \in WriteCmd
  BY TagsCore
<1>2. PICK y \in WriteCmd : Turned(c, y)
  BY <1>1
<1>3. y.op # "READ_PAGE" /\ Queues
  BY DEF WriteCmd, CoreInv, ErasePtrsInv, ServerTypes, Queues
<1>4. ReadsMove
  BY <1>2, <1>3, TurnedReads
<1>5. UNCHANGED << read_view, wrote, early, map_view, dataQ >>
  BY DEF map_view, writeTags, read_view, write_vars, dram_vars, read_vars, burst_vars, eraser
<1> QED BY <1>1, <1>4, <1>5, ReadsSame

LEMMA WriteReqReads ==
  ASSUME CoreInv, ReadInv, doFlashWriteReq
  PROVE  ReadInv'
<1>1. UNCHANGED server_vars
  BY WriteReqCore
<1>2. UNCHANGED << read_view, wrote, superPageCnt, map_view, chipQ, flushReqQ >>
  BY DEF map_view, doFlashWriteReq, read_view, write_vars, dram_vars, read_vars, burst_vars, server_vars, eraser, chips
<1>3. early \subseteq early' /\ dataQ = << >> /\ dataQ' # << >> /\ dataQ'[1].to = "flash"
  <2>1. \E c, data : dataQ' = << [ to |-> "flash", id |-> c, data |-> data ] >>
    BY DEF doFlashWriteReq
  <2>2. PICK d : dataQ' = << d >> /\ d.to = "flash"
    BY <2>1
  <2> QED BY <2>2 DEF doFlashWriteReq
<1>4. ~ DataIn /\ ~ DataIn'
  BY <1>3 DEF DataIn
<1>5. Issued' \in Nat /\ Issued <= Issued' /\ SameBlocks /\ ReadsMove
  <2>1. Issued \in Nat /\ Issued' = Issued
    BY IssuedIs, WriteReqCore DEF CoreInv
  <2> QED BY <1>2, <2>1, SameMap, SameQueueReads
<1> QED BY <1>2, <1>3, <1>4, <1>5, ReadsStay

LEMMA WriteDtaReads ==
  ASSUME CoreInv, ReadInv, doWriteDta
  PROVE  ReadInv'
<1>1. Issued' = Issued /\ \E c \in Chips : \E y \in WriteCmd : Turned(c, y) /\ chipQ[c][1] \in WriteCmd
  BY WriteDtaCore
<1>2. PICK c \in Chips : \E y \in WriteCmd : Turned(c, y) /\ chipQ[c][1] \in WriteCmd
  BY <1>1
<1>3. PICK y \in WriteCmd : Turned(c, y)
  BY <1>2
<1>4. y.op # "READ_PAGE" /\ Queues /\ DataQTypes
  BY DEF WriteCmd, CoreInv, ErasePtrsInv, ServerTypes, Queues, ProgramInv
<1>5. ReadsMove
  BY <1>3, <1>4, TurnedReads
<1>6. UNCHANGED << read_view, wrote, early, map_view >>
  BY DEF map_view, doWriteDta, read_view, write_vars, dram_vars, flush_vars, read_vars, burst_vars, eraser
<1>7. ~ DataIn /\ ~ DataIn'
  <2>1. dataQ # << >> /\ Head(dataQ).to = "flash" /\ dataQ' = << >>
    BY DEF doWriteDta
  <2>2. Head(dataQ) = dataQ[1]
    BY <1>4, <2>1, TailIs DEF DataQTypes
  <2> QED BY <2>1, <2>2 DEF DataIn
<1>8. Issued' \in Nat /\ Issued <= Issued'
  BY <1>1, IssuedIs DEF CoreInv
<1> QED BY <1>5, <1>6, <1>7, <1>8, SameMap, ReadsStay

LEMMA WriteAckReads ==
  ASSUME CoreInv, ReadInv, NEW c \in Chips, doWriteAck(c)
  PROVE  ReadInv'
<1>1. Issued' = Issued /\ Done(c) /\ Queues
  BY WriteAckCore DEF CoreInv, ErasePtrsInv, ServerTypes, Queues
<1>2. UNCHANGED << read_view, wrote, early, map_view, dataQ >>
  BY DEF map_view, doWriteAck, store_vars, read_view, write_vars, dram_vars, flush_vars, read_vars, burst_vars, eraser
<1> QED BY <1>1, <1>2, DoneReads, ReadsSame

LEMMA EraseReads ==
  ASSUME CoreInv, ReadInv, ServerNext, UNCHANGED store_vars
  PROVE  CoreInv' /\ ReadInv'
<1>1. UNCHANGED << read_view, wrote, early, dataQ >>
  BY DEF store_vars, read_view, write_vars, dram_vars, flush_vars, read_vars, burst_vars
<1>2. Queues
  BY DEF CoreInv, ErasePtrsInv, ServerTypes, Queues
<1>3. CASE doEraseIdle
  <2>1. CoreInv' /\ Issued' = Issued /\ chipQ' = chipQ
    BY <1>3, EraseIdleCore
  <2>2. UNCHANGED map_view
    BY <1>3 DEF doEraseIdle, map_view
  <2> QED BY <1>1, <2>1, <2>2, SameQueueReads, ReadsSame
<1>4. CASE doEraseCmd
  <2>1. /\ CoreInv' /\ Issued' = Issued
        /\ chipQ' = chipQ \/ \E c \in Chips : \E x \in EraseCmd : Sent(c, x)
    BY <1>4, EraseCmdCore
  <2>2. UNCHANGED map_view
    BY <1>4 DEF doEraseCmd, map_view
  <2>3. ReadsMove
    <3>1. CASE chipQ' = chipQ
      BY <3>1, SameQueueReads
    <3>2. CASE \E c \in Chips : \E x \in EraseCmd : Sent(c, x)
      <4>1. PICK c \in Chips : \E x \in EraseCmd : Sent(c, x)
        BY <3>2
      <4>2. PICK x \in EraseCmd : Sent(c, x)
        BY <4>1
      <4>3. x.op # "READ_PAGE"
        BY DEF EraseCmd
      <4> QED BY <1>2, <4>2, <4>3, SentReads
    <3> QED BY <2>1, <3>1, <3>2
  <2> QED BY <1>1, <2>1, <2>2, <2>3, ReadsSame
<1>5. CASE doEraseAck
  <2>1. /\ CoreInv' /\ Issued' = Issued /\ chipQ' = chipQ /\ SameBlocks
    BY <1>5, EraseAckCore DEF SameBlocks
  <2>2. Issued \in Nat
    BY IssuedIs DEF CoreInv
  <2>3. Issued' \in Nat /\ Issued <= Issued' /\ early \subseteq early'
    BY <1>1, <2>1, <2>2
  <2> QED BY <1>1, <2>1, <2>3, SameQueueReads, ReadsStay
<1>6. ASSUME NEW c \in Chips, EraseBlock(c) PROVE CoreInv' /\ ReadInv'
  <2>1. CoreInv' /\ Issued' = Issued /\ Done(c) /\ ErasedStays
    BY <1>6, EraseBlockCore
  <2>2. SameBlocks
    BY <1>6, <2>1 DEF EraseBlock, eraser, SameBlocks, PhysBlock
  <2>3. Issued \in Nat /\ Issued' \in Nat /\ Issued <= Issued' /\ early \subseteq early'
    BY <1>1, <2>1, IssuedIs DEF CoreInv
  <2> QED BY <1>1, <1>2, <2>1, <2>2, <2>3, DoneReads, ReadsStay
<1> QED BY <1>3, <1>4, <1>5, <1>6 DEF ServerNext

(* A write is behind what is asked of DRAM.                                *)
LEMMA WriteBufReads ==
  ASSUME CoreInv, ReadInv, doWriteBuf
  PROVE  ReadInv'
<1>1. /\ WriterInv /\ ValuesInv /\ DramTypes /\ ReadTypes /\ ReadersInv /\ AnswersInv
      /\ UNCHANGED << reads, answers, readQ, immQ, arrived, deqQ, nextBurst, byteCntResp, byteCnt, dataQ,
                      early, map_view, chipQ >>
  BY DEF map_view, CoreInv, WriterInv, DramInv, ReadInv, doWriteBuf, read_vars, burst_vars, server_vars, eraser, chips
<1>2. PICK n \in Nat, off \in Nat : Accepts(n, off)
  BY <1>1, WriteBufAccepts
<1>3. /\ Len(wrote) \in Nat /\ Values' = Values \cup { Len(wrote) + 1 }
      /\ \A v \in Values : wrote'[v] = wrote[v]
  BY <1>1, <1>2, AcceptsMore
<1>4. Issued' = Issued /\ Issued \in Nat
  BY WriteBufCore
<1>5. Kept
  BY <1>1, <1>3, <1>4 DEF Kept, Reads
<1>6. SameBlocks /\ ReadsMove
  BY <1>1, SameMap, SameQueueReads
<1>7. ReadersInv'
  BY <1>1, <1>5, <1>6, ReadersStay
<1>8. ReadTypes'
  <2>1. Reads' = Reads /\ reads \in Seq(Values')
    BY <1>1, <1>3, SeqMonotonic DEF ReadTypes, Reads
  <2> QED BY <1>1, <2>1 DEF ReadTypes
<1>9. \A r \in Reads : SizeOf(r)' = SizeOf(r)
  BY <1>1, <1>5, ReadStays
<1>10. DramStays
  <2>1. PICK x \in DramRequest : dramReqQ' = Append(dramReqQ, x) /\ ~ x.rnw /\ Len(dramReqQ) < 2
    <3>1. PICK x : x = [ rnw |-> FALSE, value |-> Len(wrote) + 1, buf |-> currBuf', id |-> 0 ]
      OBVIOUS
    <3>2. currBuf' \in Bufs
      <4>1. currBuf \in Bufs /\ 1 - currBuf \in Bufs
        BY <1>1 DEF ValuesInv, Bufs
      <4>2. currBuf' = currBuf \/ currBuf' = 1 - currBuf
        BY <1>2 DEF Accepts
      <4> QED BY <4>1, <4>2
    <3>3. x \in DramRequest /\ ~ x.rnw
      BY <1>3, <3>1, <3>2 DEF DramRequest
    <3> QED BY <1>2, <3>1, <3>3 DEF Accepts
  <2>2. /\ Len(dramReqQ) \in Nat /\ Len(dramReqQ') = Len(dramReqQ) + 1 /\ dramReqQ'[Len(dramReqQ) + 1] = x
        /\ \A k \in 1 .. Len(dramReqQ) : dramReqQ'[k] = dramReqQ[k]
        /\ (dramReqQ = << >> => Len(dramReqQ) = 0) /\ dramReqQ' # << >>
    BY <1>1, <2>1, DramAppend
  <2>3. ASSUME NEW k \in 1 .. Len(dramReqQ'), dramReqQ'[k].rnw
        PROVE  k \in 1 .. Len(dramReqQ) /\ dramReqQ'[k] = dramReqQ[k]
    <3>1. CASE k \in 1 .. Len(dramReqQ)
      BY <2>2, <3>1
    <3>2. CASE k = Len(dramReqQ) + 1
      BY <2>1, <2>2, <2>3, <3>2
    <3> QED BY <2>2, <3>1, <3>2
  <2>4. ASSUME NEW r PROVE HeadReads(r)' = HeadReads(r)
    <3>1. CASE dramReqQ = << >>
      <4>1. ~ dramReqQ'[1].rnw
        BY <2>1, <2>2, <3>1
      <4> QED BY <3>1, <4>1 DEF HeadReads
    <3>2. CASE dramReqQ # << >>
      <4>1. 1 \in 1 .. Len(dramReqQ)
        BY <1>1, <3>2, LenEmpty DEF DramTypes
      <4>2. dramReqQ'[1] = dramReqQ[1]
        BY <2>2, <4>1
      <4> QED BY <2>2, <3>2, <4>2 DEF HeadReads
    <3> QED BY <3>1, <3>2
  <2> QED BY <1>1, <2>3, <2>4 DEF DramStays
<1>11. AnswersInv'
  BY <1>1, <1>5, <1>6, <1>9, <1>10, AnswersStay
<1> QED BY <1>7, <1>8, <1>11 DEF ReadInv

(* The first request for DRAM goes on by one page, or is the last.         *)
LEMMA NextPageIs ==
  ASSUME WriterInv, DramInv, dramReqQ # << >>, NextDramPage
  PROVE  /\ dramReqQ[1].value \in Values /\ byteCnt \in Nat /\ 1 \in 1 .. Len(dramReqQ) /\ Len(dramReqQ) \in Nat
         /\ byteCnt < wrote[dramReqQ[1].value].size /\ Len(dramReqQ) <= 2
         /\ DramReq = dramReqQ[1]
         /\ \/ /\ byteCnt + 1 < wrote[dramReqQ[1].value].size
               /\ byteCnt' = byteCnt + 1 /\ dramReqQ' = dramReqQ
            \/ /\ byteCnt + 1 = wrote[dramReqQ[1].value].size
               /\ byteCnt' = 0 /\ Len(dramReqQ') = Len(dramReqQ) - 1
               /\ Len(dramReqQ') \in 0 .. 1 /\ (Len(dramReqQ') = 0 => dramReqQ' = << >>)
               /\ Len(dramReqQ') = 1 => 2 \in 1 .. Len(dramReqQ) /\ dramReqQ'[1] = dramReqQ[2]
<1>1. ValuesInv /\ DramTypes
  BY DEF WriterInv, DramInv
<1>2. /\ dramReqQ \in Seq(DramRequest) /\ Len(dramReqQ) \in Nat /\ 1 \in 1 .. Len(dramReqQ)
      /\ Len(dramReqQ) <= 2 /\ byteCnt \in Nat /\ byteCnt < wrote[dramReqQ[1].value].size
  BY <1>1, LenEmpty DEF DramTypes
<1>3. DramReq = dramReqQ[1]
  BY <1>2, TailIs DEF DramReq
<1>4. PICK v \in Values : v = dramReqQ[1].value
  BY <1>1, <1>2, DramReqIs
<1>5. PICK z \in Nat : z = wrote[v].size
  BY <1>1, ValueIs
<1>6. CASE byteCnt + 1 < z
  BY <1>2, <1>3, <1>4, <1>5, <1>6 DEF NextDramPage
<1>7. CASE ~ (byteCnt + 1 < z)
  <2>1. byteCnt + 1 = z /\ byteCnt' = 0 /\ dramReqQ' = Tail(dramReqQ)
    BY <1>2, <1>3, <1>4, <1>5, <1>7 DEF NextDramPage
  <2>2. /\ dramReqQ' \in Seq(DramRequest) /\ Len(dramReqQ') = Len(dramReqQ) - 1
        /\ \A k \in 1 .. Len(dramReqQ) - 1 : dramReqQ'[k] = dramReqQ[k + 1]
    BY <1>2, <2>1, TailIs
  <2>3. ASSUME Len(dramReqQ') = 1
        PROVE  2 \in 1 .. Len(dramReqQ) /\ dramReqQ'[1] = dramReqQ[2]
    <3>1. 2 \in 1 .. Len(dramReqQ) /\ 1 \in 1 .. Len(dramReqQ) - 1 /\ 1 + 1 = 2
      BY <1>2, <2>2, <2>3
    <3> QED BY <2>2, <3>1
  <2>4. Len(dramReqQ') = 0 => dramReqQ' = << >>
    BY <2>2, LenEmpty
  <2>5. byteCnt + 1 = wrote[dramReqQ[1].value].size
    BY <1>4, <1>5, <2>1
  <2>6. Len(dramReqQ') \in 0 .. 1
    <3>1. PICK L \in Nat : L = Len(dramReqQ) /\ L <= 2 /\ L > 0
      BY <1>2
    <3>2. Len(dramReqQ') = L - 1
      BY <2>2, <3>1
    <3> QED BY <3>1, <3>2
  <2> QED BY <1>2, <1>3, <1>4, <2>1, <2>2, <2>3, <2>4, <2>5, <2>6
<1> QED BY <1>6, <1>7

LEMMA ReadersSame ==
  ASSUME CoreInv, ReadInv, Issued' = Issued, ReadsMove,
         UNCHANGED << reads, wrote, early, readQ, immQ, map_view >>, arrived' \subseteq arrived
  PROVE  ReadersInv'
<1>1. WriterInv /\ ReadTypes /\ ReadersInv
  BY DEF CoreInv, ReadInv
<1>2. Kept /\ SameBlocks
  BY <1>1, KeptSame, SameMap
<1> QED BY <1>1, <1>2, ReadersStay

LEMMA TypesSame ==
  ASSUME ReadTypes, UNCHANGED << reads, wrote, answers, deqQ, nextBurst, byteCntResp >>
  PROVE  ReadTypes'
BY DEF ReadTypes, Reads, Values

(* The requests for DRAM go on.                                            *)
LEMMA DramGoesOn ==
  ASSUME CoreInv, ReadInv, dramReqQ # << >>, NextDramPage, Issued' = Issued,
         UNCHANGED << reads, wrote, answers, readQ, immQ, arrived, deqQ, nextBurst, byteCntResp, early,
                      map_view, chipQ >>,
         \A r : DramNext(r) => DramNext(r)',
         DataIn' => FromDram(dataQ'[1].id), DramAnswers'
  PROVE  ReadInv'
<1>1. /\ WriterInv /\ DramInv /\ ReadTypes /\ ReadersInv /\ PlacesInv /\ BurstsInv /\ FlashAnswers
      /\ AnswersOwn /\ ValuesInv
  BY DEF CoreInv, WriterInv, ReadInv, AnswersInv
<1>2. ReadTypes' /\ ReadersInv'
  BY <1>1, TypesSame, SameQueueReads, ReadersSame
<1>3. ASSUME NEW r, FromDram(r)' PROVE FromDram(r)
  <2>1. CASE DataIn' /\ dataQ'[1].id = r
    BY <2>1
  <2>2. CASE \E k \in 1 .. Len(dramReqQ') : dramReqQ'[k].rnw /\ dramReqQ'[k].id = r
    <3>1. PICK k \in 1 .. Len(dramReqQ') : dramReqQ'[k].rnw /\ dramReqQ'[k].id = r
      BY <2>2
    <3>2. CASE dramReqQ' = dramReqQ
      BY <3>1, <3>2 DEF FromDram
    <3>3. CASE /\ Len(dramReqQ') \in 0 .. 1
               /\ Len(dramReqQ') = 1 => 2 \in 1 .. Len(dramReqQ) /\ dramReqQ'[1] = dramReqQ[2]
      <4>1. k = 1 /\ Len(dramReqQ') = 1
        BY <3>1, <3>3
      <4> QED BY <3>1, <3>3, <4>1 DEF FromDram
    <3> QED BY <1>1, <3>2, <3>3, NextPageIs
  <2> QED BY <1>3, <2>1, <2>2 DEF FromDram
<1>4. PlacesInv' /\ \A r : FromFlash(r)' => FromFlash(r)
  BY <1>1, <1>3, SameQueueReads, PlacesStay
<1>5. \A r : SizeOf(r)' = SizeOf(r)
  BY DEF SizeOf
<1>6. Len(deqQ) \in Nat
  BY <1>1, LenEmpty DEF ReadTypes
<1>7. BurstsInv'
  BY <1>1, <1>5, <1>6, BurstsStay
<1>8. FlashAnswers' /\ AnswersOwn'
  <2>1. Kept /\ SameBlocks
    BY <1>1, KeptSame, SameMap
  <2> QED BY <1>1, <1>4, <2>1, FlashAnswersStay, OwnStays
<1> QED BY <1>2, <1>4, <1>7, <1>8 DEF ReadInv, AnswersInv

(* The second request, a read, becomes the first.                          *)
LEMMA SecondRead ==
  ASSUME DramReadInv(2, dramReqQ[2].id), UNCHANGED << reads, wrote, answers, nextBurst >>,
         dramReqQ'[1] = dramReqQ[2], byteCnt' = 0,
         DataIn' => dataQ'[1].id # dramReqQ[2].id
  PROVE  DramReadInv(1, dramReqQ[1].id)'
<1>1. PICK r : r = dramReqQ[2].id
  OBVIOUS
<1>2. r \in Reads /\ dramReqQ[2].value = reads[r] /\ Len(answers[r]) = 0
  BY <1>1 DEF DramReadInv
<1>3. r \in Reads' /\ dramReqQ'[1].value = reads'[r] /\ Len(answers'[r]) = 0 /\ dramReqQ'[1].id = r
  BY <1>1, <1>2 DEF Reads
<1>4. DataIn' => dataQ'[1].id # r
  BY <1>1
<1>5. DramReadInv(1, r)'
  BY <1>3, <1>4 DEF DramReadInv
<1> QED BY <1>3, <1>5 DEF DramReadInv, Bursting, HeadReads

LEMMA DramWriteReads ==
  ASSUME CoreInv, ReadInv, driveDRAMWriteCmd
  PROVE  ReadInv'
<1>1. /\ dramReqQ # << >> /\ ~ DramReq.rnw /\ NextDramPage
      /\ UNCHANGED << reads, wrote, answers, readQ, immQ, arrived, deqQ, nextBurst, byteCntResp, early,
                      map_view, chipQ, dataQ >>
  BY DEF map_view, driveDRAMWriteCmd, write_vars, flush_vars, read_vars, burst_vars, server_vars, eraser, chips
<1>2. Issued' = Issued
  BY DramWriteCore
<1>3. WriterInv /\ DramInv /\ DramAnswers
  BY DEF CoreInv, ReadInv, AnswersInv
<1>4. ~ dramReqQ[1].rnw /\ \A r : ~ HeadReads(r)
  BY <1>1, <1>3, NextPageIs DEF HeadReads
<1>5. DataIn' = DataIn /\ dataQ' = dataQ /\ Reads' = Reads
      /\ \A r : Bursting(r)' = Bursting(r) /\ SizeOf(r)' = SizeOf(r)
  BY <1>1 DEF DataIn, Bursting, Reads, SizeOf
<1>6. \A r : DramNext(r) => DramNext(r)'
  BY <1>4, <1>5 DEF DramNext
<1>7. DataIn' => FromDram(dataQ'[1].id)
  BY <1>5 DEF FromDram
<1>8. ASSUME NEW k \in 1 .. Len(dramReqQ'), dramReqQ'[k].rnw
      PROVE  DramReadInv(k, dramReqQ[k].id)'
  <2>1. CASE dramReqQ' = dramReqQ
    <3>1. k = 2
      <4>1. Len(dramReqQ) \in Nat /\ Len(dramReqQ) <= 2
        BY <1>1, <1>3, NextPageIs
      <4> QED BY <1>4, <1>8, <2>1, <4>1
    <3>2. PICK r : r = dramReqQ[2].id
      OBVIOUS
    <3>3. DramReadInv(2, r)
      BY <1>3, <1>8, <2>1, <3>1, <3>2 DEF DramAnswers
    <3>4. ~ HeadReads(r)'
      BY <1>4, <2>1 DEF HeadReads
    <3>5. DramReadInv(2, r)'
      BY <1>1, <1>5, <2>1, <3>3, <3>4 DEF DramReadInv
    <3> QED BY <2>1, <3>1, <3>2, <3>5 DEF DramReadInv, Bursting, HeadReads
  <2>2. CASE /\ Len(dramReqQ') \in 0 .. 1 /\ byteCnt' = 0
             /\ Len(dramReqQ') = 1 => 2 \in 1 .. Len(dramReqQ) /\ dramReqQ'[1] = dramReqQ[2]
    <3>1. k = 1 /\ 2 \in 1 .. Len(dramReqQ) /\ dramReqQ'[1] = dramReqQ[2]
      <4>1. PICK m \in 0 .. 1 : m = Len(dramReqQ')
        BY <2>2
      <4>2. k = 1 /\ m = 1
        BY <4>1
      <4> QED BY <2>2, <4>1, <4>2
    <3>2. DramReadInv(2, dramReqQ[2].id)
      BY <1>3, <1>8, <3>1 DEF DramAnswers
    <3>3. DataIn' => dataQ'[1].id # dramReqQ[2].id
      BY <1>5, <3>2 DEF DramReadInv
    <3> QED BY <1>1, <2>2, <3>1, <3>2, <3>3, SecondRead
  <2> QED BY <1>1, <1>3, <2>1, <2>2, NextPageIs
<1>9. ASSUME DataIn' PROVE DataInv(dataQ[1].id)'
  <2>1. PICK r : r = dataQ[1].id
    OBVIOUS
  <2>2. DataInv(r)
    BY <1>3, <1>5, <1>9, <2>1 DEF DramAnswers
  <2>3. DataInv(r)'
    BY <1>1, <1>4, <1>5, <2>2 DEF DataInv
  <2> QED BY <1>5, <2>1, <2>3 DEF DataInv, HeadReads, Bursting, SizeOf
<1>10. DramAnswers'
  BY <1>8, <1>9 DEF DramAnswers
<1> QED BY <1>1, <1>2, <1>6, <1>7, <1>10, DramGoesOn

LEMMA DramReadReads ==
  ASSUME CoreInv, ReadInv, driveDRAMReadCmd
  PROVE  ReadInv'
<1>1. /\ dramReqQ # << >> /\ NextDramPage /\ Issued' = Issued
      /\ UNCHANGED << reads, wrote, answers, readQ, immQ, arrived, deqQ, nextBurst, byteCntResp, early,
                      map_view, chipQ >>
  BY DramReadCore DEF map_view, driveDRAMReadCmd, write_vars, flush_vars, read_vars, burst_vars, server_vars, eraser, chips
<1>2. WriterInv /\ DramInv /\ DramAnswers /\ ReadTypes
  BY DEF CoreInv, ReadInv, AnswersInv
<1>3. /\ dramReqQ[1].rnw /\ dataQ = << >> /\ 1 \in 1 .. Len(dramReqQ)
      /\ byteCnt \in Nat /\ byteCnt < wrote[dramReqQ[1].value].size
      /\ dataQ' = << [ to |-> "dram", id |-> dramReqQ[1].id,
                       data |-> << dramReqQ[1].value, byteCnt + 1 >> ] >>
  BY <1>2, DramReadIs
<1>4. PICK r : r = dramReqQ[1].id
  OBVIOUS
<1>5. ~ DataIn /\ DramReadInv(1, r)
  BY <1>2, <1>3, <1>4 DEF DataIn, DramAnswers
<1>6. /\ r \in Reads /\ dramReqQ[1].value = reads[r] /\ Len(answers[r]) = byteCnt
      /\ byteCnt > 0 => Bursting(r)
  BY <1>5 DEF DramReadInv
<1>7. /\ DataIn' /\ dataQ'[1].id = r /\ dataQ'[1].data = << reads[r], byteCnt + 1 >>
      /\ HeadReads(r)
  BY <1>1, <1>3, <1>4, <1>6 DEF DataIn, HeadReads
<1>8. Reads' = Reads /\ \A s : Bursting(s)' = Bursting(s) /\ SizeOf(s)' = SizeOf(s)
  BY <1>1 DEF Bursting, Reads, SizeOf
<1>9. \A s : DramNext(s) => DramNext(s)'
  BY <1>4, <1>5, <1>7 DEF DramNext, HeadReads
<1>10. DataIn' => FromDram(dataQ'[1].id)
  BY <1>3, <1>4, <1>7 DEF FromDram
<1>11. byteCnt < SizeOf(r)
  BY <1>3, <1>6 DEF SizeOf
<1>12. CASE byteCnt + 1 < wrote[dramReqQ[1].value].size /\ byteCnt' = byteCnt + 1 /\ dramReqQ' = dramReqQ
  <2>1. \A s : HeadReads(s)' = HeadReads(s)
    BY <1>12 DEF HeadReads
  <2>2. DramReadInv(1, r)'
    BY <1>1, <1>6, <1>7, <1>8, <1>12 DEF DramReadInv
  <2>3. ASSUME NEW k \in 1 .. Len(dramReqQ'), dramReqQ'[k].rnw
        PROVE  DramReadInv(k, dramReqQ[k].id)'
    <3>1. CASE k = 1
      BY <1>4, <1>12, <2>2, <3>1 DEF DramReadInv, Bursting, HeadReads
    <3>2. CASE k # 1
      <4>1. k = 2
        <5>1. Len(dramReqQ) \in Nat /\ Len(dramReqQ) <= 2
          BY <1>1, <1>2, NextPageIs
        <5> QED BY <1>12, <3>2, <5>1
      <4>2. PICK s : s = dramReqQ[2].id
        OBVIOUS
      <4>3. DramReadInv(2, s)
        BY <1>2, <1>12, <2>3, <4>1, <4>2 DEF DramAnswers
      <4>4. s # r
        BY <1>7, <4>3 DEF DramReadInv
      <4>5. DramReadInv(2, s)'
        BY <1>1, <1>7, <1>8, <1>12, <2>1, <4>3, <4>4 DEF DramReadInv
      <4> QED BY <1>12, <4>1, <4>2, <4>5 DEF DramReadInv, Bursting, HeadReads
    <3> QED BY <3>1, <3>2
  <2>4. DataInv(r)'
    BY <1>1, <1>6, <1>7, <1>8, <1>11, <2>1 DEF DataInv
  <2>5. DataInv(dataQ[1].id)'
    BY <1>7, <2>4 DEF DataInv, HeadReads, Bursting, SizeOf
  <2>6. DramAnswers'
    BY <2>3, <2>5 DEF DramAnswers
  <2> QED BY <1>1, <1>9, <1>10, <2>6, DramGoesOn
<1>13. CASE /\ byteCnt + 1 = wrote[dramReqQ[1].value].size
            /\ Len(dramReqQ') \in 0 .. 1 /\ byteCnt' = 0
            /\ Len(dramReqQ') = 1 => 2 \in 1 .. Len(dramReqQ) /\ dramReqQ'[1] = dramReqQ[2]
  <2>1. ASSUME NEW k \in 1 .. Len(dramReqQ'), dramReqQ'[k].rnw
        PROVE  DramReadInv(k, dramReqQ[k].id)'
    <3>1. k = 1 /\ 2 \in 1 .. Len(dramReqQ) /\ dramReqQ'[1] = dramReqQ[2]
      <4>1. PICK m \in 0 .. 1 : m = Len(dramReqQ')
        BY <1>13
      <4>2. k = 1 /\ m = 1
        BY <4>1
      <4> QED BY <1>13, <4>1, <4>2
    <3>2. DramReadInv(2, dramReqQ[2].id)
      BY <1>2, <2>1, <3>1 DEF DramAnswers
    <3>3. DataIn' => dataQ'[1].id # dramReqQ[2].id
      BY <1>7, <3>2 DEF DramReadInv
    <3> QED BY <1>1, <1>13, <3>1, <3>2, <3>3, SecondRead
  <2>2. Len(answers[r]) + 1 = SizeOf(r)
    BY <1>6, <1>13 DEF SizeOf
  <2>3. DataInv(r)'
    BY <1>1, <1>6, <1>7, <1>8, <1>11, <2>2 DEF DataInv
  <2>4. DataInv(dataQ[1].id)'
    BY <1>7, <2>3 DEF DataInv, HeadReads, Bursting, SizeOf
  <2>5. DramAnswers'
    BY <2>1, <2>4 DEF DramAnswers
  <2> QED BY <1>1, <1>9, <1>10, <2>5, DramGoesOn
<1> QED BY <1>1, <1>2, <1>12, <1>13, NextPageIs

(* Only reads are anywhere.                                                *)
LEMMA PlacesKnown ==
  ASSUME ReadInv, CoreInv
  PROVE  /\ \A r : FromFlash(r) \/ FromDram(r) \/ Bursting(r) => r \in Reads
         /\ \A k \in 1 .. Len(readQ) : readQ[k].id \in Reads
         /\ \A k \in 1 .. Len(immQ) : immQ[k].id \in Reads
         /\ \A c \in Chips : \A k \in Nat \ {0} : \A r : FirstPage(c, k, r) => r \in Reads
<1>1. ReadTypes /\ ReadQInv /\ ImmInv /\ ChipReadsInv /\ DramAnswers
  BY DEF ReadInv, ReadersInv, AnswersInv
<1>2. ASSUME NEW k \in 1 .. Len(readQ) PROVE readQ[k].id \in Reads
  <2>1. readQ[k] \in [ id : Reads, value : Values ]
    BY <1>1, ElementOfSeq DEF ReadQInv
  <2> QED BY <2>1
<1>3. ASSUME NEW k \in 1 .. Len(immQ) PROVE immQ[k].id \in Reads
  <2>1. immQ[k] \in [ id : Reads, value : Values, cmdCnt : Nat ]
    BY <1>1, ElementOfSeq DEF ImmInv
  <2> QED BY <2>1
<1>4. \A c \in Chips : \A k \in Nat \ {0} : \A r : FirstPage(c, k, r) => r \in Reads
  BY <1>1 DEF ChipReadsInv, FirstPage, PageRead
<1>5. ASSUME NEW k \in 1 .. Len(deqQ) PROVE deqQ[k] \in Reads
  BY <1>1, ElementOfSeq DEF ReadTypes
<1>6. ASSUME NEW k \in 1 .. Len(nextBurst) PROVE nextBurst[k].id \in Reads
  <2>1. nextBurst[k] \in [ sel : { "dram", "flash" }, id : Reads ]
    BY <1>1, ElementOfSeq DEF ReadTypes
  <2> QED BY <2>1
<1>7. ASSUME NEW r, FromFlash(r) PROVE r \in Reads
  BY <1>2, <1>3, <1>4, <1>5, <1>7 DEF FromFlash, Asks, IsFirst, InDeq
<1>8. ASSUME NEW r, FromDram(r) PROVE r \in Reads
  BY <1>1, <1>8 DEF FromDram, DramAnswers, DramReadInv, DataInv
<1>9. ASSUME NEW r, Bursting(r) PROVE r \in Reads
  BY <1>6, <1>9 DEF Bursting
<1> QED BY <1>2, <1>3, <1>4, <1>7, <1>8, <1>9

(* A new read is in one place.                                             *)
LEMMA ReadCmdPlaces ==
  ASSUME CoreInv, ReadInv, doReadCmd, NEW n, n = Len(reads) + 1
  PROVE  /\ PlacesInv' /\ \A r : FromFlash(r)' => FromFlash(r) \/ r = n
         /\ n \notin Reads /\ Reads' = Reads \cup { n }
<1>1. WriterInv /\ ReadTypes /\ ReadQInv /\ PlacesInv /\ DramTypes
  BY DEF CoreInv, ReadInv, ReadersInv, AnswersInv, DramInv
<1>2. /\ Reads' = Reads \cup { n } /\ n \notin Reads
      /\ UNCHANGED << chipQ, immQ, deqQ, dataQ >>
  BY <1>1, ReadCmdKept
<1>3. PICK v \in Values :
        \/ /\ readQ' = readQ /\ Len(dramReqQ) < 2
           /\ \E b \in Bufs : dramReqQ' = Append(dramReqQ,
                [ rnw |-> TRUE, value |-> v, buf |-> b, id |-> n ])
        \/ /\ dramReqQ' = dramReqQ
           /\ readQ' = Append(readQ, [ id |-> n, value |-> v ])
  BY <1>1, ReadCmdIs
<1>4. /\ ~ FromFlash(n) /\ ~ FromDram(n)
      /\ \A k \in 1 .. Len(readQ) : readQ[k].id # n
      /\ \A k \in 1 .. Len(immQ) : immQ[k].id # n
  BY <1>2, PlacesKnown
<1>5. /\ \A r : IsFirst(r)' = IsFirst(r) /\ InDeq(r)' = InDeq(r)
      /\ DataIn' = DataIn
      /\ \A c \in Chips : \A k \in Nat \ {0} : \A r : FirstPage(c, k, r)' = FirstPage(c, k, r)
  BY <1>2 DEF IsFirst, InDeq, DataIn, FirstPage, ReadAt
<1>6. DeqOnce'
  BY <1>1, <1>2 DEF PlacesInv, DeqOnce
<1>7. FirstOnce'
  <2>1. \A c, d \in Chips : \A k, l \in Nat \ {0} : \A r :
          FirstPage(c, k, r) /\ FirstPage(d, l, r) => c = d /\ k = l
    BY <1>1, PlacesKnown DEF PlacesInv, FirstOnce
  <2> QED BY <1>5, <2>1 DEF FirstOnce
<1>8. CASE /\ readQ' = readQ /\ Len(dramReqQ) < 2
           /\ \E b \in Bufs : dramReqQ' = Append(dramReqQ,
                [ rnw |-> TRUE, value |-> v, buf |-> b, id |-> n ])
  <2>1. AskOnce' /\ \A r : Asks(r)' = Asks(r)
    BY <1>1, <1>2, <1>8 DEF PlacesInv, AskOnce, Asks
  <2>2. \A r : FromFlash(r)' = FromFlash(r)
    BY <1>5, <2>1 DEF FromFlash
  <2>3. ASSUME NEW r, FromDram(r)' PROVE FromDram(r) \/ r = n
    <3>1. PICK b \in Bufs : dramReqQ' = Append(dramReqQ,
                [ rnw |-> TRUE, value |-> v, buf |-> b, id |-> n ])
      BY <1>8
    <3>2. PICK x : x = [ rnw |-> TRUE, value |-> v, buf |-> b, id |-> n ]
      OBVIOUS
    <3>3. x \in DramRequest /\ x.id = n
      <4>1. n \in Nat /\ v \in Nat
        BY <1>1, LenEmpty DEF ReadTypes, Values
      <4> QED BY <3>2, <4>1 DEF DramRequest
    <3>4. /\ Len(dramReqQ) \in Nat /\ Len(dramReqQ') = Len(dramReqQ) + 1 /\ dramReqQ'[Len(dramReqQ) + 1] = x
          /\ \A k \in 1 .. Len(dramReqQ) : dramReqQ'[k] = dramReqQ[k]
      BY <1>1, <3>1, <3>2, <3>3, AppendIs DEF DramTypes
    <3>5. CASE \E k \in 1 .. Len(dramReqQ') : dramReqQ'[k].rnw /\ dramReqQ'[k].id = r
      <4>1. PICK k \in 1 .. Len(dramReqQ') : dramReqQ'[k].rnw /\ dramReqQ'[k].id = r
        BY <3>5
      <4>2. CASE k \in 1 .. Len(dramReqQ)
        BY <3>4, <4>1, <4>2 DEF FromDram
      <4>3. CASE k = Len(dramReqQ) + 1
        BY <3>3, <3>4, <4>1, <4>3
      <4> QED BY <3>4, <4>2, <4>3
    <3>6. CASE DataIn' /\ dataQ'[1].id = r
      BY <1>2, <1>5, <3>6 DEF FromDram
    <3> QED BY <2>3, <3>5, <3>6 DEF FromDram
  <2>4. OnePlace'
    <3> SUFFICES ASSUME NEW r \in Reads'
                 PROVE  /\ ~ (FromFlash(r) /\ FromDram(r))'
                        /\ ~ (Asks(r) /\ IsFirst(r))' /\ ~ (Asks(r) /\ InDeq(r))'
                        /\ ~ (IsFirst(r) /\ InDeq(r))'
      BY DEF OnePlace
    <3>1. CASE r = n
      BY <1>4, <1>5, <2>1, <2>2, <3>1 DEF FromFlash
    <3>2. CASE r \in Reads
      <4>1. FromDram(r)' => FromDram(r)
        BY <1>2, <2>3, <3>2
      <4> QED BY <1>1, <1>5, <2>1, <2>2, <3>2, <4>1 DEF PlacesInv, OnePlace
    <3> QED BY <1>2, <3>1, <3>2
  <2> QED BY <1>2, <1>6, <1>7, <2>1, <2>2, <2>4 DEF PlacesInv
<1>9. CASE /\ dramReqQ' = dramReqQ
           /\ readQ' = Append(readQ, [ id |-> n, value |-> v ])
  <2>1. PICK x : x = [ id |-> n, value |-> v ]
    OBVIOUS
  <2>2. /\ Len(readQ) \in Nat /\ Len(readQ') = Len(readQ) + 1 /\ readQ'[Len(readQ) + 1] = x
        /\ \A k \in 1 .. Len(readQ) : readQ'[k] = readQ[k]
    <3>1. x \in [ id : Reads \cup { n }, value : Values ]
      BY <2>1
    <3>2. [ id : Reads, value : Values ] \subseteq [ id : Reads \cup { n }, value : Values ]
      OBVIOUS
    <3>3. readQ \in Seq([ id : Reads, value : Values ])
      BY <1>1 DEF ReadQInv
    <3>4. readQ \in Seq([ id : Reads \cup { n }, value : Values ])
      BY <3>2, <3>3, SeqMonotonic
    <3> QED BY <1>9, <2>1, <3>1, <3>4, AppendIs
  <2>3. x.id = n /\ \A k \in 1 .. Len(readQ') : k \in 1 .. Len(readQ) \/ k = Len(readQ) + 1
    BY <2>1, <2>2
  <2>4. \A r : Asks(r)' => Asks(r) \/ r = n
    BY <1>2, <2>2, <2>3 DEF Asks
  <2>5. \A r : FromDram(r)' = FromDram(r)
    BY <1>2, <1>5, <1>9 DEF FromDram
  <2>6. AskOnce'
    <3>1. /\ \A k, l \in 1 .. Len(readQ) : readQ[k].id = readQ[l].id => k = l
          /\ \A k, l \in 1 .. Len(immQ) : immQ[k].id = immQ[l].id => k = l
          /\ \A k \in 1 .. Len(readQ) : \A l \in 1 .. Len(immQ) : readQ[k].id # immQ[l].id
      BY <1>1 DEF PlacesInv, AskOnce
    <3>2. ASSUME NEW k \in 1 .. Len(readQ'), NEW l \in 1 .. Len(readQ'), readQ'[k].id = readQ'[l].id
          PROVE  k = l
      <4>1. CASE k \in 1 .. Len(readQ) /\ l \in 1 .. Len(readQ)
        BY <2>2, <3>1, <3>2, <4>1
      <4>2. CASE k \in 1 .. Len(readQ) /\ l = Len(readQ) + 1
        BY <1>4, <2>2, <2>3, <3>2, <4>2
      <4>3. CASE k = Len(readQ) + 1 /\ l \in 1 .. Len(readQ)
        BY <1>4, <2>2, <2>3, <3>2, <4>3
      <4>4. CASE k = Len(readQ) + 1 /\ l = Len(readQ) + 1
        BY <4>4
      <4> QED BY <2>3, <4>1, <4>2, <4>3, <4>4
    <3>3. ASSUME NEW k \in 1 .. Len(readQ'), NEW l \in 1 .. Len(immQ)
          PROVE  readQ'[k].id # immQ[l].id
      BY <1>4, <2>2, <2>3, <3>1
    <3> QED BY <1>2, <3>1, <3>2, <3>3 DEF AskOnce
  <2>7. \A r : FromFlash(r)' => FromFlash(r) \/ r = n
    BY <1>5, <2>4 DEF FromFlash
  <2>8. OnePlace'
    <3> SUFFICES ASSUME NEW r \in Reads'
                 PROVE  /\ ~ (FromFlash(r) /\ FromDram(r))'
                        /\ ~ (Asks(r) /\ IsFirst(r))' /\ ~ (Asks(r) /\ InDeq(r))'
                        /\ ~ (IsFirst(r) /\ InDeq(r))'
      BY DEF OnePlace
    <3>1. CASE r = n
      BY <1>4, <1>5, <2>5, <3>1 DEF FromFlash
    <3>2. CASE r \in Reads
      <4>1. (FromFlash(r)' => FromFlash(r)) /\ (Asks(r)' => Asks(r))
        BY <1>2, <2>4, <2>7, <3>2
      <4> QED BY <1>1, <1>5, <2>5, <3>2, <4>1 DEF PlacesInv, OnePlace
    <3> QED BY <1>2, <3>1, <3>2
  <2> QED BY <1>2, <1>6, <1>7, <2>6, <2>7, <2>8 DEF PlacesInv
<1> QED BY <1>3, <1>8, <1>9

LEMMA NewRead ==
  ASSUME CoreInv, ReadInv, doReadCmd, NEW n, n = Len(reads) + 1
  PROVE  /\ Len(dramReqQ) \in 0 .. 2 /\ (dramReqQ = << >> => byteCnt = 0)
         /\ \A k \in 1 .. Len(dramReqQ') :
              \/ k \in 1 .. Len(dramReqQ) /\ dramReqQ'[k] = dramReqQ[k]
              \/ /\ k = Len(dramReqQ) + 1 /\ k \in 1 .. 2
                 /\ dramReqQ'[k].id = n /\ dramReqQ'[k].value = reads'[n]
         /\ dramReqQ # << >> => 1 \in 1 .. Len(dramReqQ) /\ dramReqQ' # << >> /\ dramReqQ'[1] = dramReqQ[1]
<1>1. WriterInv /\ ReadTypes /\ DramTypes
  BY DEF CoreInv, ReadInv, DramInv
<1>2. n \in Nat /\ reads \in Seq(Values)
  BY <1>1, LenEmpty DEF ReadTypes
<1>3. PICK v \in Values :
           /\ reads' = Append(reads, v) /\ answers' = Append(answers, << >>)
           /\ \/ /\ Len(dramReqQ) < 2 /\ readQ' = readQ
                 /\ \E b \in Bufs : dramReqQ' = Append(dramReqQ,
                      [ rnw |-> TRUE, value |-> v, buf |-> b, id |-> Len(reads) + 1 ])
              \/ /\ dramReqQ' = dramReqQ /\ Old(v)
                 /\ readQ' = Append(readQ, [ id |-> Len(reads) + 1, value |-> v ])
  BY <1>1, ReadCmdIs
<1>4. reads'[n] = v
  BY <1>2, <1>3, AppendIs
<1>5. /\ dramReqQ \in Seq(DramRequest) /\ Len(dramReqQ) \in Nat /\ Len(dramReqQ) <= 2
      /\ (dramReqQ = << >> => byteCnt = 0)
  BY <1>1, LenEmpty DEF DramTypes
<1>6. Len(dramReqQ) \in 0 .. 2
  <2>1. PICK l \in Nat : l = Len(dramReqQ) /\ l <= 2
    BY <1>5
  <2>2. l \in 0 .. 2
    BY <2>1
  <2> QED BY <2>1, <2>2
<1>7. dramReqQ # << >> => 1 \in 1 .. Len(dramReqQ)
  <2>1. ASSUME dramReqQ # << >> PROVE Len(dramReqQ) # 0
    BY <1>5, <2>1, LenEmpty
  <2> QED BY <1>5, <2>1
<1>8. CASE Len(dramReqQ) < 2 /\ \E b \in Bufs : dramReqQ' = Append(dramReqQ,
                      [ rnw |-> TRUE, value |-> v, buf |-> b, id |-> n ])
  <2>1. PICK b \in Bufs : dramReqQ' = Append(dramReqQ,
                      [ rnw |-> TRUE, value |-> v, buf |-> b, id |-> n ])
    BY <1>8
  <2>2. PICK x : x = [ rnw |-> TRUE, value |-> v, buf |-> b, id |-> n ]
    OBVIOUS
  <2>3. x \in DramRequest /\ x.id = n /\ x.value = v
    <3>1. v \in Nat
      BY DEF Values
    <3> QED BY <1>2, <2>2, <3>1 DEF DramRequest
  <2>4. /\ Len(dramReqQ') = Len(dramReqQ) + 1 /\ dramReqQ'[Len(dramReqQ) + 1] = x /\ dramReqQ' # << >>
        /\ \A k \in 1 .. Len(dramReqQ) : dramReqQ'[k] = dramReqQ[k]
    BY <1>5, <2>1, <2>2, <2>3, AppendIs
  <2>5. ASSUME NEW k \in 1 .. Len(dramReqQ')
        PROVE  \/ k \in 1 .. Len(dramReqQ) /\ dramReqQ'[k] = dramReqQ[k]
               \/ /\ k = Len(dramReqQ) + 1 /\ k \in 1 .. 2
                  /\ dramReqQ'[k].id = n /\ dramReqQ'[k].value = reads'[n]
    <3>1. k \in 1 .. Len(dramReqQ) \/ (k = Len(dramReqQ) + 1 /\ k \in 1 .. 2)
      <4> HIDE DEF Values
      <4>1. PICK l \in 0 .. 1 : l = Len(dramReqQ)
        <5>1. PICK l \in 0 .. 2 : l = Len(dramReqQ) /\ l < 2
          BY <1>6, <1>8
        <5>2. l \in 0 .. 1
          BY <5>1
        <5> QED BY <5>1, <5>2
      <4>2. k \in 1 .. l + 1
        BY <2>4, <4>1
      <4>3. k \in 1 .. l \/ (k = l + 1 /\ k \in 1 .. 2)
        BY <4>2
      <4> QED BY <4>1, <4>3
    <3> QED BY <1>4, <2>3, <2>4, <3>1
  <2> QED BY <1>5, <1>6, <1>7, <2>4, <2>5
<1>9. CASE dramReqQ' = dramReqQ
  BY <1>5, <1>6, <1>7, <1>9
<1> QED BY <1>3, <1>8, <1>9

LEMMA ReadCmdReads ==
  ASSUME CoreInv, ReadInv, doReadCmd
  PROVE  ReadInv'
<1>1. /\ WriterInv /\ ValuesInv /\ ReadTypes /\ ReadersInv /\ PlacesInv /\ BurstsInv /\ FlashAnswers /\ DramAnswers
      /\ AnswersOwn
  BY DEF CoreInv, WriterInv, ReadInv, AnswersInv
<1>2. ReadersInv' /\ ReadTypes'
  BY <1>1, ReadCmdReaders
<1>3. PICK n : n = Len(reads) + 1
  OBVIOUS
<1>4. /\ PlacesInv' /\ \A r : FromFlash(r)' => FromFlash(r) \/ r = n
      /\ n \notin Reads /\ Reads' = Reads \cup { n }
  BY <1>3, ReadCmdPlaces
<1>5. /\ Kept /\ Len(reads) \in Nat /\ Len(reads') = Len(reads) + 1
      /\ UNCHANGED << wrote, deqQ, nextBurst, byteCntResp, dataQ, byteCnt, early >> /\ SameBlocks
  BY <1>1, ReadCmdKept, SameMap
<1>6. answers' = Append(answers, << >>)
  BY <1>1, ReadCmdIs
<1>7. /\ Len(answers') = n /\ answers'[n] = << >> /\ Len(answers) = Len(reads)
      /\ \A r \in Reads : answers'[r] = answers[r]
  <2>1. << >> \in Seq(Answer) /\ answers \in Seq(Seq(Answer)) /\ Len(answers) = Len(reads)
    BY <1>1, EmptySeq DEF ReadTypes
  <2> QED BY <1>3, <1>6, <2>1, AppendIs DEF Reads
<1>8. \A r \in Reads : SizeOf(r)' = SizeOf(r) /\ reads'[r] = reads[r]
  BY <1>1, <1>5, ReadStays
<1>9. /\ DataIn' = DataIn /\ (\A r : Bursting(r)' = Bursting(r)) /\ Len(answers'[n]) = 0
  BY <1>5, <1>7, EmptySeq DEF DataIn, Bursting
<1>10. ~ Bursting(n) /\ ~ FromDram(n) /\ ~ FromFlash(n)
  BY <1>4, PlacesKnown
<1>11. /\ Len(dramReqQ) \in 0 .. 2 /\ (dramReqQ = << >> => byteCnt = 0)
       /\ \A k \in 1 .. Len(dramReqQ') :
              \/ k \in 1 .. Len(dramReqQ) /\ dramReqQ'[k] = dramReqQ[k]
              \/ /\ k = Len(dramReqQ) + 1 /\ k \in 1 .. 2
                 /\ dramReqQ'[k].id = n /\ dramReqQ'[k].value = reads'[n]
       /\ dramReqQ # << >> => 1 \in 1 .. Len(dramReqQ) /\ dramReqQ' # << >> /\ dramReqQ'[1] = dramReqQ[1]
  BY <1>3, NewRead
<1>12. \A r \in Reads : HeadReads(r) => HeadReads(r)'
  BY <1>11 DEF HeadReads
<1>13. ~ FromDram(n) => (dramReqQ # << >> => ~ HeadReads(n)')
  BY <1>11 DEF HeadReads, FromDram
<1>14. \A r \in Reads : DramNext(r) => DramNext(r)'
  BY <1>5, <1>9, <1>12 DEF DramNext
<1>15. BurstsInv'
  <2>1. Len(deqQ) \in Nat
    BY <1>1, LenEmpty DEF ReadTypes
  <2> QED BY <1>1, <1>5, <1>7, <1>8, <1>14, <2>1, BurstsStay
<1>16. FlashAnswers'
  BY <1>1, <1>4, <1>7, <1>9 DEF FlashAnswers
<1>17. ASSUME NEW k \in 1 .. Len(dramReqQ'), dramReqQ'[k].rnw
       PROVE  DramReadInv(k, dramReqQ[k].id)'
  <2>1. PICK r : r = dramReqQ'[k].id
    OBVIOUS
  <2>2. CASE k \in 1 .. Len(dramReqQ) /\ dramReqQ'[k] = dramReqQ[k]
    <3>1. DramReadInv(k, r)
      BY <1>1, <1>17, <2>1, <2>2 DEF DramAnswers
    <3>2. r \in Reads /\ r \in Reads' /\ answers'[r] = answers[r] /\ reads'[r] = reads[r]
      BY <1>4, <1>7, <1>8, <3>1 DEF DramReadInv
    <3>3. k = 2 => ~ HeadReads(r)'
      <4> SUFFICES ASSUME k = 2 PROVE ~ HeadReads(r)'
        OBVIOUS
      <4>1. dramReqQ # << >>
        <5>1. Len(dramReqQ) # 0
          BY <1>11, <2>2
        <5> QED BY <5>1, EmptySeq
      <4> QED BY <1>11, <3>1, <4>1 DEF HeadReads, DramReadInv
    <3>4. DramReadInv(k, r)'
      BY <1>5, <1>9, <2>2, <3>1, <3>2, <3>3 DEF DramReadInv
    <3> QED BY <2>1, <3>4 DEF DramReadInv, Bursting, HeadReads
  <2>3. CASE /\ k = Len(dramReqQ) + 1 /\ k \in 1 .. 2
             /\ dramReqQ'[k].id = n /\ dramReqQ'[k].value = reads'[n]
    <3>1. r = n /\ n \in Reads'
      BY <1>4, <2>1, <2>3
    <3>2. ~ (DataIn /\ dataQ[1].id = n)
      BY <1>10 DEF FromDram
    <3>3. CASE k = 1
      <4>1. Len(dramReqQ) = 0
        <5>1. PICK l \in 0 .. 2 : l = Len(dramReqQ)
          BY <1>11
        <5>2. l = 0
          BY <2>3, <3>3, <5>1
        <5> QED BY <5>1, <5>2
      <4>2. dramReqQ = << >>
        <5>1. dramReqQ # << >> => Len(dramReqQ) # 0
          BY <1>11
        <5> QED BY <4>1, <5>1
      <4>3. byteCnt = 0
        BY <1>11, <4>2
      <4>4. DramReadInv(k, n)'
        BY <1>5, <1>9, <2>3, <3>1, <3>2, <3>3, <4>3 DEF DramReadInv
      <4> QED BY <2>1, <3>1, <4>4 DEF DramReadInv, Bursting, HeadReads
    <3>4. CASE k = 2
      <4>1. dramReqQ # << >>
        <5>1. PICK l \in 0 .. 2 : l = Len(dramReqQ)
          BY <1>11
        <5>2. l = 1
          BY <2>3, <3>4, <5>1
        <5>3. dramReqQ = << >> => Len(dramReqQ) = 0
          BY EmptySeq
        <5>4. Len(dramReqQ) = 1
          BY <5>1, <5>2
        <5> QED BY <5>3, <5>4
      <4>2. ~ HeadReads(n)' /\ ~ Bursting(n)'
        BY <1>9, <1>10, <1>13, <4>1
      <4>3. DramReadInv(k, n)'
        BY <1>5, <1>9, <2>3, <3>1, <3>2, <3>4, <4>2 DEF DramReadInv
      <4> QED BY <2>1, <3>1, <4>3 DEF DramReadInv, Bursting, HeadReads
    <3> QED BY <2>3, <3>3, <3>4
  <2> QED BY <1>11, <2>2, <2>3
<1>18. ASSUME DataIn' PROVE DataInv(dataQ[1].id)'
  <2>1. PICK r : r = dataQ[1].id
    OBVIOUS
  <2>2. DataInv(r)
    BY <1>1, <1>9, <1>18, <2>1 DEF DramAnswers
  <2>3. /\ r \in Reads /\ r \in Reads' /\ answers'[r] = answers[r] /\ reads'[r] = reads[r]
        /\ SizeOf(r)' = SizeOf(r) /\ (HeadReads(r) => HeadReads(r)')
    BY <1>4, <1>7, <1>8, <1>12, <2>2 DEF DataInv
  <2>4. DataInv(r)'
    BY <1>5, <1>9, <2>2, <2>3 DEF DataInv
  <2> QED BY <1>5, <2>1, <2>4 DEF DataInv, HeadReads, Bursting, SizeOf
<1>19. DramAnswers'
  BY <1>17, <1>18 DEF DramAnswers
<1>20. AnswersOwn'
  <2>1. ASSUME NEW r \in 1 .. Len(answers'), NEW i \in 1 .. Len(answers'[r])
        PROVE  \/ answers'[r][i].data = << reads'[r], i >>
               \/ answers'[r][i].from = "flash" /\ Excused(r, i)'
    <3>1. r \in Reads
      <4>1. r \in 1 .. n /\ n - 1 = Len(reads) /\ n \in Nat
        BY <1>3, <1>5, <1>7
      <4>2. r # n
        BY <1>9, <2>1
      <4>3. r \in 1 .. n - 1
        BY <4>1, <4>2
      <4> QED BY <4>1, <4>3 DEF Reads
    <3>2. r \in 1 .. Len(answers) /\ answers'[r] = answers[r] /\ reads'[r] = reads[r]
      BY <1>7, <1>8, <3>1 DEF Reads
    <3>3. i \in Nat \ {0}
      BY <2>1
    <3>4. Excused(r, i) => Excused(r, i)'
      BY <1>1, <1>5, <3>1, <3>3, ExcusedStays
    <3> QED BY <1>1, <2>1, <3>2, <3>4 DEF AnswersOwn
  <2> QED BY <2>1 DEF AnswersOwn
<1> QED BY <1>2, <1>4, <1>15, <1>16, <1>19, <1>20 DEF ReadInv, AnswersInv

(* Reads of flash move on.                                                 *)
LEMMA FlashGoesOn ==
  ASSUME CoreInv, ReadInv, ReadTypes', ReadersInv', PlacesInv',
         UNCHANGED << reads, wrote, answers, early, nextBurst, byteCntResp, dataQ, dramReqQ, byteCnt >>,
         Issued' = Issued, UNCHANGED map_view,
         Len(deqQ) <= Len(deqQ'), Len(deqQ') \in Nat, \A k \in 1 .. Len(deqQ) : deqQ'[k] = deqQ[k],
         \A r : FromFlash(r)' => FromFlash(r)
  PROVE  ReadInv'
<1>1. /\ ReadTypes /\ BurstsInv /\ FlashAnswers /\ DramAnswers /\ AnswersOwn /\ WriterInv /\ ValuesInv
  BY DEF CoreInv, WriterInv, ReadInv, AnswersInv
<1>2. DramStays
  BY DEF DramStays, HeadReads
<1>3. \A r : SizeOf(r)' = SizeOf(r) /\ DramNext(r)' = DramNext(r)
  BY <1>2, DataStays DEF SizeOf
<1>4. BurstsInv'
  BY <1>1, <1>3, BurstsStay
<1>5. FlashAnswers' /\ DramAnswers' /\ AnswersOwn'
  <2>1. Kept /\ SameBlocks
    BY <1>1, KeptSame, SameMap
  <2> QED BY <1>1, <1>2, <1>3, <2>1, FlashAnswersStay, DramAnswersStay, OwnStays
<1> QED BY <1>4, <1>5 DEF ReadInv, AnswersInv

LEMMA ReaderCmdReads ==
  ASSUME CoreInv, ReadInv, doReaderCmd
  PROVE  ReadInv'
<1>1. /\ WriterInv /\ ReadTypes /\ ReadersInv /\ ReadQInv /\ ImmInv /\ PlacesInv
  BY DEF CoreInv, ReadInv, ReadersInv, AnswersInv
<1>2. /\ UNCHANGED << reads, wrote, answers, early, nextBurst, byteCntResp, dataQ, dramReqQ, byteCnt >>
      /\ UNCHANGED << chipQ, deqQ >>
      /\ Issued' = Issued /\ UNCHANGED map_view
  BY ReaderCmdCore DEF doReaderCmd, write_vars, dram_vars, flush_vars, burst_vars, eraser, chips, map_view
<1>3. ReadersInv' /\ ReadTypes'
  BY <1>1, <1>2, ReaderCmdReaders, TypesSame
<1>4. PICK r \in Reads, v \in Values :
           /\ readQ # << >> /\ readQ[1].id = r /\ v = reads[r] /\ Old(v) /\ readQ[1] = [ id |-> r, value |-> v ]
           /\ 1 \in 1 .. Len(readQ)
           /\ readQ' = Tail(readQ) /\ immQ' = Append(immQ, [ id |-> r, value |-> v, cmdCnt |-> 0 ])
  BY <1>1, ReaderCmdIs
<1>5. /\ Len(readQ) \in Nat \ { 0 } /\ Len(readQ') = Len(readQ) - 1
      /\ \A k \in 1 .. Len(readQ) - 1 : readQ'[k] = readQ[k + 1]
  <2>1. readQ \in Seq([ id : Reads, value : Values ])
    BY <1>1 DEF ReadQInv
  <2> QED BY <1>4, <2>1, TailIs
<1>6. /\ Len(immQ) \in Nat /\ Len(immQ') = Len(immQ) + 1 /\ immQ'[Len(immQ) + 1].id = r
      /\ \A k \in 1 .. Len(immQ) : immQ'[k] = immQ[k]
  <2>1. PICK q : q = [ id |-> r, value |-> v, cmdCnt |-> 0 ]
    OBVIOUS
  <2>2. q \in [ id : Reads, value : Values, cmdCnt : Nat ] /\ q.id = r
    BY <2>1
  <2>3. immQ \in Seq([ id : Reads, value : Values, cmdCnt : Nat ])
    BY <1>1 DEF ImmInv
  <2> QED BY <1>4, <2>1, <2>2, <2>3, AppendIs
<1>7. \A k \in 1 .. Len(immQ') : k \in 1 .. Len(immQ) \/ k = Len(immQ) + 1
  BY <1>6
<1>8. ASSUME NEW k \in 1 .. Len(readQ')
      PROVE  k + 1 \in 1 .. Len(readQ) /\ k + 1 # 1 /\ readQ'[k] = readQ[k + 1]
  BY <1>5
<1>9. \A q : Asks(q)' => Asks(q)
  <2> SUFFICES ASSUME NEW q, Asks(q)' PROVE Asks(q)
    OBVIOUS
  <2>1. CASE \E k \in 1 .. Len(readQ') : readQ'[k].id = q
    BY <1>8, <2>1 DEF Asks
  <2>2. CASE \E k \in 1 .. Len(immQ') : immQ'[k].id = q /\ immQ'[k].cmdCnt = 0
    <3>1. PICK k \in 1 .. Len(immQ') : immQ'[k].id = q /\ immQ'[k].cmdCnt = 0
      BY <2>2
    <3>2. CASE k \in 1 .. Len(immQ)
      BY <1>6, <3>1, <3>2 DEF Asks
    <3>3. CASE k = Len(immQ) + 1
      BY <1>4, <1>6, <3>1, <3>3 DEF Asks
    <3> QED BY <1>7, <3>2, <3>3
  <2> QED BY <2>1, <2>2 DEF Asks
<1>10. AskOnce'
  <2>1. /\ \A k, l \in 1 .. Len(readQ) : readQ[k].id = readQ[l].id => k = l
        /\ \A k, l \in 1 .. Len(immQ) : immQ[k].id = immQ[l].id => k = l
        /\ \A k \in 1 .. Len(readQ) : \A l \in 1 .. Len(immQ) : readQ[k].id # immQ[l].id
    BY <1>1 DEF PlacesInv, AskOnce
  <2>2. ASSUME NEW k \in 1 .. Len(readQ'), NEW l \in 1 .. Len(readQ'), readQ'[k].id = readQ'[l].id
        PROVE  k = l
    <3>1. k \in Nat /\ l \in Nat
      BY <1>5
    <3>2. PICK i, j \in 1 .. Len(readQ) : i = k + 1 /\ j = l + 1
      BY <1>8
    <3>3. readQ[i].id = readQ[j].id
      BY <1>8, <2>2, <3>2
    <3>4. i = j
      BY <2>1, <3>3
    <3> QED BY <3>1, <3>2, <3>4
  <2>3. ASSUME NEW k \in 1 .. Len(immQ'), NEW l \in 1 .. Len(immQ'), immQ'[k].id = immQ'[l].id
        PROVE  k = l
    <3>1. CASE k \in 1 .. Len(immQ) /\ l \in 1 .. Len(immQ)
      BY <1>6, <2>1, <2>3, <3>1
    <3>2. CASE k \in 1 .. Len(immQ) /\ l = Len(immQ) + 1
      BY <1>4, <1>6, <2>1, <2>3, <3>2
    <3>3. CASE k = Len(immQ) + 1 /\ l \in 1 .. Len(immQ)
      BY <1>4, <1>6, <2>1, <2>3, <3>3
    <3>4. CASE k = Len(immQ) + 1 /\ l = Len(immQ) + 1
      BY <3>4
    <3> QED BY <1>7, <3>1, <3>2, <3>3, <3>4
  <2>4. ASSUME NEW k \in 1 .. Len(readQ'), NEW l \in 1 .. Len(immQ')
        PROVE  readQ'[k].id # immQ'[l].id
    <3>1. CASE l \in 1 .. Len(immQ)
      BY <1>6, <1>8, <2>1, <3>1
    <3>2. CASE l = Len(immQ) + 1
      BY <1>4, <1>6, <1>8, <2>1, <3>2
    <3> QED BY <1>7, <3>1, <3>2
  <2> QED BY <2>2, <2>3, <2>4 DEF AskOnce
<1>11. /\ \A q : IsFirst(q)' = IsFirst(q) /\ InDeq(q)' = InDeq(q) /\ FromDram(q)' = FromDram(q)
       /\ FirstOnce' /\ DeqOnce' /\ Reads' = Reads
  BY <1>1, <1>2 DEF IsFirst, InDeq, FromDram, DataIn, FirstPage, ReadAt, PlacesInv, FirstOnce, DeqOnce, Reads
<1>12. \A q : FromFlash(q)' => FromFlash(q)
  BY <1>9, <1>11 DEF FromFlash
<1>13. OnePlace'
  BY <1>1, <1>9, <1>11, <1>12 DEF PlacesInv, OnePlace
<1>14. PlacesInv'
  BY <1>10, <1>11, <1>13 DEF PlacesInv
<1>15. Len(deqQ) \in Nat
  BY <1>1, LenEmpty DEF ReadTypes
<1> QED BY <1>2, <1>3, <1>12, <1>14, <1>15, FlashGoesOn

(* The first of the reads gets its next page.                              *)
ImmNext(r, i) ==
  immQ' = IF i >= SizeOf(r) THEN Tail(immQ)
          ELSE << [ immQ[1] EXCEPT !.cmdCnt = i ] >> \o Tail(immQ)

LEMMA AsksNext ==
  ASSUME ReadQInv, ImmInv, AskOnce, immQ # << >>, NEW i \in Nat \ {0}, readQ' = readQ, NEW r, r = immQ[1].id,
         ImmNext(r, i)
  PROVE  /\ AskOnce' /\ ~ Asks(r)' /\ (\A q : Asks(q)' => Asks(q))
         /\ 1 \in 1 .. Len(immQ)
<1>1. immQ \in Seq([ id : Reads, value : Values, cmdCnt : Nat ])
  BY DEF ImmInv
<1>2. PICK n \in Nat \ {0} :
        /\ n = Len(immQ) /\ Len(Tail(immQ)) = n - 1
        /\ \A k \in 1 .. n - 1 : Tail(immQ)[k] = immQ[k + 1]
  BY <1>1, TailIs
<1>20. immQ[1] \in [ id : Reads, value : Values, cmdCnt : Nat ]
  BY <1>1, TailIs
<1>3. PICK m \in 0 .. 1 :
        /\ Len(immQ') \in Nat
        /\ \A k \in 1 .. Len(immQ') :
             /\ k + m \in 1 .. Len(immQ) /\ immQ'[k].id = immQ[k + m].id
             /\ immQ'[k].cmdCnt = 0 => k + m # 1 /\ immQ[k + m].cmdCnt = 0
  <2>1. CASE i >= SizeOf(r)
    <3>1. immQ' = Tail(immQ)
      BY <2>1 DEF ImmNext
    <3>2. n = Len(immQ)
      BY <1>2
    <3>3. Len(immQ') = n - 1 /\ n - 1 \in Nat
      BY <1>2, <3>1
    <3>4. ASSUME NEW k \in 1 .. n - 1 PROVE k + 1 \in 1 .. n /\ k + 1 # 1
      OBVIOUS
    <3>5. \A k \in 1 .. n - 1 : immQ'[k] = immQ[k + 1]
      BY <1>2, <3>1
    <3>6. ASSUME NEW k \in 1 .. Len(immQ')
          PROVE  /\ k + 1 \in 1 .. Len(immQ) /\ immQ'[k].id = immQ[k + 1].id
                 /\ immQ'[k].cmdCnt = 0 => k + 1 # 1 /\ immQ[k + 1].cmdCnt = 0
      BY <3>2, <3>3, <3>4, <3>5
    <3> QED BY <3>3, <3>6
  <2>2. CASE ~ (i >= SizeOf(r))
    <3>1. PICK y : y = [ immQ[1] EXCEPT !.cmdCnt = i ]
      OBVIOUS
    <3>2. /\ y \in [ id : Reads, value : Values, cmdCnt : Nat ] /\ y.id = r /\ y.cmdCnt = i
      BY <1>20, <3>1
    <3>3. immQ' = << y >> \o Tail(immQ)
      BY <2>2, <3>1 DEF ImmNext
    <3>4. /\ Len(immQ') = Len(immQ) /\ immQ'[1] = y
          /\ \A k \in 2 .. Len(immQ) : immQ'[k] = immQ[k]
      BY <1>1, <3>2, <3>3, HeadChanged
    <3>5. ASSUME NEW k \in 1 .. Len(immQ')
          PROVE  /\ k + 0 \in 1 .. Len(immQ) /\ immQ'[k].id = immQ[k + 0].id
                 /\ immQ'[k].cmdCnt = 0 => k + 0 # 1 /\ immQ[k + 0].cmdCnt = 0
      <4>1. k + 0 = k /\ k \in 1 .. Len(immQ)
        BY <3>4
      <4>2. CASE k = 1
        BY <3>2, <3>4, <4>1, <4>2
      <4>3. CASE k # 1
        <5>1. k \in 2 .. Len(immQ)
          BY <1>2, <4>1, <4>3
        <5> QED BY <3>4, <4>1, <4>3, <5>1
      <4> QED BY <4>2, <4>3
    <3>6. Len(immQ') \in Nat
      BY <1>2, <3>4
    <3> QED BY <3>5, <3>6
  <2> QED BY <2>1, <2>2
<1>4. /\ \A k, l \in 1 .. Len(readQ) : readQ[k].id = readQ[l].id => k = l
      /\ \A k, l \in 1 .. Len(immQ) : immQ[k].id = immQ[l].id => k = l
      /\ \A k \in 1 .. Len(readQ) : \A l \in 1 .. Len(immQ) : readQ[k].id # immQ[l].id
  BY DEF AskOnce
<1>5. 1 \in 1 .. Len(immQ)
  BY <1>2
<1>6. \A q : Asks(q)' => Asks(q)
  <2> SUFFICES ASSUME NEW q, Asks(q)' PROVE Asks(q)
    OBVIOUS
  <2>1. CASE \E k \in 1 .. Len(readQ') : readQ'[k].id = q
    BY <2>1 DEF Asks
  <2>2. CASE \E k \in 1 .. Len(immQ') : immQ'[k].id = q /\ immQ'[k].cmdCnt = 0
    BY <1>3, <2>2 DEF Asks
  <2> QED BY <2>1, <2>2 DEF Asks
<1>7. ~ Asks(r)'
  <2> SUFFICES ASSUME Asks(r)' PROVE FALSE
    OBVIOUS
  <2>1. CASE \E k \in 1 .. Len(readQ') : readQ'[k].id = r
    BY <1>4, <1>5, <2>1
  <2>2. CASE \E k \in 1 .. Len(immQ') : immQ'[k].id = r /\ immQ'[k].cmdCnt = 0
    <3>1. PICK k \in 1 .. Len(immQ') : immQ'[k].id = r /\ immQ'[k].cmdCnt = 0
      BY <2>2
    <3>2. PICK j \in 1 .. Len(immQ) : j = k + m /\ immQ'[k].id = immQ[j].id /\ j # 1
      BY <1>3, <3>1
    <3> QED BY <1>4, <1>5, <3>1, <3>2
  <2> QED BY <2>1, <2>2 DEF Asks
<1>8. AskOnce'
  <2>1. ASSUME NEW k \in 1 .. Len(immQ'), NEW l \in 1 .. Len(immQ'), immQ'[k].id = immQ'[l].id
        PROVE  k = l
    <3>1. PICK x, y \in 1 .. Len(immQ) : x = k + m /\ y = l + m
      BY <1>3
    <3>2. immQ[x].id = immQ[y].id
      BY <1>3, <2>1, <3>1
    <3>3. x = y
      BY <1>4, <3>2
    <3>4. PICK z \in Nat : z = Len(immQ')
      BY <1>3
    <3>5. k \in Nat /\ l \in Nat /\ m \in Nat
      BY <3>4
    <3> QED BY <3>1, <3>3, <3>5
  <2>2. ASSUME NEW k \in 1 .. Len(readQ'), NEW l \in 1 .. Len(immQ')
        PROVE  readQ'[k].id # immQ'[l].id
    <3>1. PICK j \in 1 .. Len(immQ) : j = l + m /\ immQ'[l].id = immQ[j].id
      BY <1>3
    <3>2. readQ'[k].id # immQ[j].id
      BY <1>4
    <3> QED BY <3>1, <3>2
  <2> QED BY <1>4, <2>1, <2>2 DEF AskOnce
<1> QED BY <1>5, <1>6, <1>7, <1>8

LEMMA FlashCmdReads ==
  ASSUME CoreInv, ReadInv, doFlashCmd
  PROVE  ReadInv'
<1>1. /\ WriterInv /\ ServerTypes /\ Queues /\ IssuedMapped /\ ReadTypes /\ ReadersInv /\ ReadQInv
      /\ ImmInv /\ PlacesInv
  BY DEF CoreInv, ErasePtrsInv, ProgramInv, ServerTypes, Queues, ReadInv, ReadersInv, AnswersInv
<1>2. /\ UNCHANGED << reads, wrote, answers, early, nextBurst, byteCntResp, dataQ, dramReqQ, byteCnt >>
      /\ UNCHANGED << readQ, deqQ >>
      /\ Issued' = Issued /\ UNCHANGED map_view
  BY FlashCmdCore DEF doFlashCmd, write_vars, dram_vars, flush_vars, burst_vars, eraser, map_view, ReadInv
<1>3. ReadersInv' /\ ReadTypes'
  BY <1>1, <1>2, FlashCmdReaders, TypesSame
<1>4. PICK r \in Reads, c \in Chips, x \in ReadCmd, i \in Nat \ {0} :
           /\ immQ # << >> /\ r = immQ[1].id /\ immQ[1].value = reads[r] /\ i = immQ[1].cmdCnt + 1
           /\ i \in 1 .. SizeOf(r) /\ Old(reads[r]) /\ reads[r] \in Values
           /\ x.op = "READ_PAGE" /\ x.id = r /\ x.i = i /\ Sent(c, x)
           /\ Goes(Addr(reads[r], i), c, x) /\ Addr(reads[r], i) \in 0 .. Issued - 1
           /\ immQ' = IF i >= SizeOf(r) THEN Tail(immQ)
                      ELSE << [ immQ[1] EXCEPT !.cmdCnt = i ] >> \o Tail(immQ)
           /\ UNCHANGED << flash, pagesWritten, panic >>
  BY <1>1, FlashCmdIs
<1>5. /\ AskOnce' /\ ~ Asks(r)' /\ (\A q : Asks(q)' => Asks(q)) /\ 1 \in 1 .. Len(immQ)
  BY <1>1, <1>2, <1>4, AsksNext DEF PlacesInv, ImmNext
<1>6. i = 1 => Asks(r)
  <2> SUFFICES ASSUME i = 1 PROVE Asks(r)
    OBVIOUS
  <2>1. immQ[1].cmdCnt \in Nat
    <3>1. immQ[1] \in [ id : Reads, value : Values, cmdCnt : Nat ]
      BY <1>1, <1>5, ElementOfSeq DEF ImmInv
    <3> QED BY <3>1
  <2>2. immQ[1].cmdCnt = 0
    BY <1>4, <2>1
  <2> QED BY <1>4, <1>5, <2>2 DEF Asks
<1>7. i = 1 => ~ IsFirst(r) /\ ~ InDeq(r)
  BY <1>1, <1>4, <1>6 DEF PlacesInv, OnePlace
<1>8. ASSUME NEW d \in Chips, NEW k \in Nat \ {0}, NEW q, FirstPage(d, k, q)'
      PROVE  FirstPage(d, k, q) \/ (d = c /\ k = Len(chipQ[c]) + 1 /\ q = r /\ i = 1)
  <2>1. ReadAt(d, k)' /\ chipQ'[d][k].id = q /\ chipQ'[d][k].i = 1
    BY <1>8 DEF FirstPage
  <2>2. (ReadAt(d, k) /\ chipQ'[d][k] = chipQ[d][k]) \/ (d = c /\ chipQ'[d][k] = x /\ k = Len(chipQ[c]) + 1)
    BY <1>1, <1>4, <2>1, ReadSent
  <2>3. CASE ReadAt(d, k) /\ chipQ'[d][k] = chipQ[d][k]
    BY <2>1, <2>3 DEF FirstPage
  <2>4. CASE d = c /\ chipQ'[d][k] = x /\ k = Len(chipQ[c]) + 1
    BY <1>4, <2>1, <2>4
  <2> QED BY <2>2, <2>3, <2>4
<1>9. ASSUME NEW q, IsFirst(q)' PROVE IsFirst(q) \/ (q = r /\ i = 1)
  <2>1. PICK d \in Chips : \E k \in Nat \ {0} : FirstPage(d, k, q)'
    BY <1>9 DEF IsFirst
  <2>2. PICK k \in Nat \ {0} : FirstPage(d, k, q)'
    BY <2>1
  <2> QED BY <1>8, <2>2 DEF IsFirst
<1>10. \A q \in Reads : \A d, e \in Chips : \A k, l \in Nat \ {0} :
              FirstPage(d, k, q)' /\ FirstPage(e, l, q)' => d = e /\ k = l
  <2> SUFFICES ASSUME NEW q \in Reads, NEW d \in Chips, NEW e \in Chips, NEW k \in Nat \ {0}, NEW l \in Nat \ {0},
                      FirstPage(d, k, q)', FirstPage(e, l, q)'
               PROVE  d = e /\ k = l
    OBVIOUS
  <2>1. CASE FirstPage(d, k, q) /\ FirstPage(e, l, q)
    BY <1>1, <2>1 DEF PlacesInv, FirstOnce
  <2>2. CASE q = r /\ i = 1
    <3>1. ~ FirstPage(d, k, q) /\ ~ FirstPage(e, l, q)
      BY <1>7, <2>2 DEF IsFirst
    <3> QED BY <1>8, <3>1
  <2> QED BY <1>8, <2>1, <2>2
<1>11. /\ \A q : InDeq(q)' = InDeq(q) /\ FromDram(q)' = FromDram(q)
       /\ FirstOnce' /\ DeqOnce' /\ Reads' = Reads
  BY <1>1, <1>2, <1>10 DEF InDeq, FromDram, DataIn, PlacesInv, FirstOnce, DeqOnce, Reads
<1>12. ASSUME NEW q, FromFlash(q)' PROVE FromFlash(q)
  BY <1>5, <1>6, <1>9, <1>11, <1>12 DEF FromFlash
<1>13. OnePlace'
  <2> SUFFICES ASSUME NEW q \in Reads
               PROVE  /\ ~ (FromFlash(q) /\ FromDram(q))'
                      /\ ~ (Asks(q) /\ IsFirst(q))' /\ ~ (Asks(q) /\ InDeq(q))' /\ ~ (IsFirst(q) /\ InDeq(q))'
    BY <1>11 DEF OnePlace
  <2>1. /\ ~ (FromFlash(q) /\ FromDram(q))
        /\ ~ (Asks(q) /\ IsFirst(q)) /\ ~ (Asks(q) /\ InDeq(q)) /\ ~ (IsFirst(q) /\ InDeq(q))
    BY <1>1 DEF PlacesInv, OnePlace
  <2> QED BY <1>5, <1>7, <1>9, <1>11, <1>12, <2>1
<1>14. PlacesInv'
  BY <1>5, <1>11, <1>13 DEF PlacesInv
<1>15. Len(deqQ) \in Nat
  BY <1>1, LenEmpty DEF ReadTypes
<1> QED BY <1>2, <1>3, <1>12, <1>14, <1>15, FlashGoesOn

LEMMA DistributeReads ==
  ASSUME CoreInv, ReadInv, NEW c \in Chips, doDistributeData(c)
  PROVE  ReadInv'
<1>1. /\ ReadTypes /\ ReadersInv /\ PlacesInv /\ Queues
  BY DEF CoreInv, ErasePtrsInv, ServerTypes, Queues, ReadInv, AnswersInv
<1>2. /\ UNCHANGED << reads, wrote, answers, early, nextBurst, byteCntResp, dataQ, dramReqQ, byteCnt >>
      /\ UNCHANGED << readQ, immQ >>
      /\ Issued' = Issued /\ UNCHANGED map_view
  BY DistributeCore DEF doDistributeData, write_vars, dram_vars, flush_vars, burst_vars, eraser, map_view
<1>3. ReadersInv' /\ ReadTypes'
  BY <1>1, DistributeReaders
<1>4. PICK x \in ReadCmd, r \in Reads, data \in Data :
           /\ x = chipQ[c][1] /\ r = x.id /\ PageRead(c, x) /\ FirstPage(c, 1, r) = (x.i = 1)
           /\ arrived' = arrived \cup { [ id |-> r, i |-> x.i, data |-> data ] }
           /\ deqQ' = IF x.i = 1 THEN Append(deqQ, r) ELSE deqQ
           /\ data = << reads[r], x.i >> \/ Excused(r, x.i)
  BY <1>1, DistributeIs
<1>5. ReadsMove /\ SameReads(c, 1) /\ \A d \in Chips \ {c} : SameReads(d, 0)
  BY <1>1, DistributeCore, DoneReads
<1>6. \A q : FromDram(q)' = FromDram(q)
  BY <1>2 DEF FromDram, DataIn
<1>7. Len(deqQ) \in Nat
  BY <1>1, LenEmpty DEF ReadTypes
<1>8. CASE x.i # 1
  <2>1. deqQ' = deqQ
    BY <1>4, <1>8
  <2>2. PlacesInv' /\ \A q : FromFlash(q)' => FromFlash(q)
    BY <1>1, <1>2, <1>5, <1>6, <2>1, PlacesStay
  <2> QED BY <1>2, <1>3, <1>7, <2>1, <2>2, FlashGoesOn
<1>9. CASE x.i = 1
  <2>1. FirstPage(c, 1, r)
    BY <1>4, <1>9
  <2>2. IsFirst(r)
    BY <2>1 DEF IsFirst
  <2>3. ~ InDeq(r) /\ ~ Asks(r) /\ ~ FromDram(r)
    BY <1>1, <2>2 DEF PlacesInv, OnePlace, FromFlash
  <2>4. /\ \A q \in Reads : \A d, e \in Chips : \A k, l \in Nat \ {0} :
              FirstPage(d, k, q)' /\ FirstPage(e, l, q)' => d = e /\ k = l
        /\ \A q : IsFirst(q)' => IsFirst(q)
    BY <1>1, <1>5, FirstStays DEF PlacesInv
  <2>5. ~ IsFirst(r)'
    <3> SUFFICES ASSUME IsFirst(r)' PROVE FALSE
      OBVIOUS
    <3>1. PICK d \in Chips : \E k \in Nat \ {0} : FirstPage(d, k, r)'
      BY DEF IsFirst
    <3>2. PICK k \in Nat \ {0} : FirstPage(d, k, r)'
      BY <3>1
    <3>3. PICK m \in Nat : SameReads(d, m) /\ (d = c => m = 1)
      BY <1>5
    <3>4. ReadAt(d, k)' /\ k + m \in Nat \ {0}
      BY <3>2 DEF FirstPage
    <3>5. FirstPage(d, k + m, r)
      BY <3>2, <3>3, <3>4 DEF SameReads, FirstPage
    <3>6. d = c /\ k + m = 1
      BY <1>1, <2>1, <3>4, <3>5 DEF PlacesInv, FirstOnce
    <3> QED BY <3>3, <3>6
  <2>6. /\ Len(deqQ') = Len(deqQ) + 1 /\ deqQ'[Len(deqQ) + 1] = r
        /\ \A k \in 1 .. Len(deqQ) : deqQ'[k] = deqQ[k]
    BY <1>1, <1>4, <1>9, AppendIs DEF ReadTypes
  <2>7. \A k \in 1 .. Len(deqQ') : k \in 1 .. Len(deqQ) \/ k = Len(deqQ) + 1
    BY <1>7, <2>6
  <2>8. ASSUME NEW q, InDeq(q)' PROVE InDeq(q) \/ q = r
    <3>1. PICK k \in 1 .. Len(deqQ') : deqQ'[k] = q
      BY <2>8 DEF InDeq
    <3> QED BY <2>6, <2>7, <3>1 DEF InDeq
  <2>9. DeqOnce'
    <3>1. /\ \A k, l \in 1 .. Len(deqQ) : deqQ[k] = deqQ[l] => k = l
          /\ \A k \in 1 .. Len(deqQ) : deqQ[k] # r
      BY <1>1, <2>3 DEF PlacesInv, DeqOnce, InDeq
    <3>2. ASSUME NEW k \in 1 .. Len(deqQ'), NEW l \in 1 .. Len(deqQ'), deqQ'[k] = deqQ'[l]
          PROVE  k = l
      <4>1. CASE k \in 1 .. Len(deqQ) /\ l \in 1 .. Len(deqQ)
        BY <2>6, <3>1, <3>2, <4>1
      <4>2. CASE k \in 1 .. Len(deqQ) /\ l = Len(deqQ) + 1
        BY <2>6, <3>1, <3>2, <4>2
      <4>3. CASE k = Len(deqQ) + 1 /\ l \in 1 .. Len(deqQ)
        BY <2>6, <3>1, <3>2, <4>3
      <4>4. CASE k = Len(deqQ) + 1 /\ l = Len(deqQ) + 1
        BY <4>4
      <4> QED BY <2>7, <4>1, <4>2, <4>3, <4>4
    <3> QED BY <3>2 DEF DeqOnce
  <2>10. (\A q : Asks(q)' = Asks(q)) /\ AskOnce' /\ FirstOnce' /\ Reads' = Reads
    BY <1>1, <1>2, <2>4 DEF Asks, AskOnce, FirstOnce, PlacesInv, Reads
  <2>11. FromFlash(r)
    BY <2>2 DEF FromFlash
  <2>12. \A q : FromFlash(q)' => FromFlash(q)
    BY <2>4, <2>8, <2>10, <2>11 DEF FromFlash
  <2>13. OnePlace'
    <3> SUFFICES ASSUME NEW q \in Reads
                 PROVE  /\ ~ (FromFlash(q) /\ FromDram(q))'
                        /\ ~ (Asks(q) /\ IsFirst(q))' /\ ~ (Asks(q) /\ InDeq(q))' /\ ~ (IsFirst(q) /\ InDeq(q))'
      BY <2>10 DEF OnePlace
    <3>1. /\ ~ (FromFlash(q) /\ FromDram(q))
          /\ ~ (Asks(q) /\ IsFirst(q)) /\ ~ (Asks(q) /\ InDeq(q)) /\ ~ (IsFirst(q) /\ InDeq(q))
      BY <1>1 DEF PlacesInv, OnePlace
    <3> QED BY <1>6, <2>3, <2>4, <2>5, <2>8, <2>10, <2>12, <3>1
  <2>14. PlacesInv'
    BY <2>9, <2>10, <2>13 DEF PlacesInv
  <2>15. Len(deqQ') \in Nat /\ Len(deqQ) <= Len(deqQ')
    BY <1>7, <2>6
  <2> QED BY <1>2, <1>3, <2>6, <2>12, <2>14, <2>15, FlashGoesOn
<1> QED BY <1>8, <1>9

(* Where those are who are being answered.                                 *)
LEMMA DramIsNext ==
  ASSUME CoreInv, NEW r, DramNext(r)
  PROVE  FromDram(r)
<1>1. CASE DataIn /\ dataQ[1].id = r
  BY <1>1 DEF FromDram
<1>2. CASE HeadReads(r)
  <2>1. dramReqQ \in Seq(DramRequest) /\ dramReqQ # << >> /\ dramReqQ[1].rnw /\ dramReqQ[1].id = r
    BY <1>2 DEF HeadReads, CoreInv, DramInv, DramTypes
  <2>2. 1 \in 1 .. Len(dramReqQ)
    <3>1. Len(dramReqQ) \in Nat \ {0}
      BY <2>1, TailIs
    <3> QED BY <3>1
  <2> QED BY <2>1, <2>2 DEF FromDram
<1> QED BY <1>1, <1>2 DEF DramNext

LEMMA BurstPlaces ==
  ASSUME CoreInv, ReadInv
  PROVE  /\ Len(nextBurst) \in 0 .. 2 /\ Len(deqQ) \in Nat
         /\ \A k \in 1 .. Len(nextBurst) :
              /\ nextBurst[k] \in [ sel : { "dram", "flash" }, id : Reads ]
              /\ BurstInv(k, nextBurst[k].id)
              /\ nextBurst[k].sel = "dram" => FromDram(nextBurst[k].id)
              /\ nextBurst[k].sel = "flash" => FromFlash(nextBurst[k].id) /\ InDeq(nextBurst[k].id)
         /\ 2 \in 1 .. Len(nextBurst) => nextBurst[2].id # nextBurst[1].id
<1>1. ReadTypes /\ BurstsInv /\ PlacesInv
  BY DEF ReadInv, AnswersInv
<1>2. /\ nextBurst \in Seq([ sel : { "dram", "flash" }, id : Reads ]) /\ Len(nextBurst) <= 2
      /\ Len(nextBurst) \in Nat /\ Len(deqQ) \in Nat
  BY <1>1, LenEmpty DEF ReadTypes
<1>3. Len(nextBurst) \in 0 .. 2
  <2>1. PICK l \in Nat : l = Len(nextBurst) /\ l <= 2
    BY <1>2
  <2>2. l \in 0 .. 2
    BY <2>1
  <2> QED BY <2>1, <2>2
<1>4. ASSUME NEW k \in 1 .. Len(nextBurst)
      PROVE  /\ nextBurst[k] \in [ sel : { "dram", "flash" }, id : Reads ]
             /\ BurstInv(k, nextBurst[k].id)
             /\ nextBurst[k].sel = "dram" => FromDram(nextBurst[k].id)
             /\ nextBurst[k].sel = "flash" => FromFlash(nextBurst[k].id) /\ InDeq(nextBurst[k].id)
  <2>1. nextBurst[k] \in [ sel : { "dram", "flash" }, id : Reads ]
    BY <1>2, ElementOfSeq
  <2>2. PICK r \in Reads : r = nextBurst[k].id
    BY <2>1
  <2>3. BurstInv(k, r)
    BY <1>1, <2>2 DEF BurstsInv
  <2>4. nextBurst[k].sel = "dram" => FromDram(r)
    BY <2>3, DramIsNext DEF BurstInv, DramBurst
  <2>5. nextBurst[k].sel = "flash" => InDeq(r)
    <3> SUFFICES ASSUME nextBurst[k].sel = "flash" PROVE InDeq(r)
      OBVIOUS
    <3>1. FlashBurst(k, r)
      BY <2>3 DEF BurstInv
    <3>2. PICK l \in Nat : l = Len(deqQ)
      BY <1>2
    <3>3. (l > 1 /\ r = deqQ[2]) \/ (l > 0 /\ r = deqQ[1])
      BY <3>1, <3>2 DEF FlashBurst
    <3>4. (l > 1 => 2 \in 1 .. l) /\ (l > 0 => 1 \in 1 .. l)
      OBVIOUS
    <3> QED BY <3>2, <3>3, <3>4 DEF InDeq
  <2> QED BY <2>1, <2>2, <2>3, <2>4, <2>5 DEF FromFlash
<1>5. ASSUME 2 \in 1 .. Len(nextBurst), nextBurst[2].id = nextBurst[1].id PROVE FALSE
  <2>1. 1 \in 1 .. Len(nextBurst)
    BY <1>3, <1>5
  <2>2. PICK r \in Reads : r = nextBurst[1].id /\ r = nextBurst[2].id
    <3>1. nextBurst[1] \in [ sel : { "dram", "flash" }, id : Reads ]
      BY <1>4, <2>1
    <3> QED BY <1>5, <3>1
  <2>3. BurstInv(1, r) /\ BurstInv(2, r)
    BY <1>4, <1>5, <2>1, <2>2
  <2>4. ~ (FromFlash(r) /\ FromDram(r))
    BY <1>1 DEF PlacesInv, OnePlace
  <2>5. /\ nextBurst[1].sel \in { "dram", "flash" } /\ nextBurst[2].sel \in { "dram", "flash" }
    <3>1. \A k \in 1 .. Len(nextBurst) : nextBurst[k] \in [ sel : { "dram", "flash" }, id : Reads ]
      BY <1>4
    <3> QED BY <1>5, <2>1, <3>1
  <2>6. CASE nextBurst[1].sel = "dram" /\ nextBurst[2].sel = "dram"
    <3>1. DramBurst(1, r)
      BY <2>3, <2>6 DEF BurstInv
    <3>2. 2 = 1
      BY <1>5, <2>6, <3>1 DEF DramBurst
    <3> QED BY <3>2
  <2>7. CASE nextBurst[1].sel = "flash" /\ nextBurst[2].sel = "flash"
    <3>1. Len(deqQ) > 1 /\ r = deqQ[2] /\ r = deqQ[1]
      BY <2>3, <2>7 DEF BurstInv, FlashBurst
    <3>2. 1 \in 1 .. Len(deqQ) /\ 2 \in 1 .. Len(deqQ)
      BY <1>2, <3>1
    <3>3. 1 = 2
      BY <1>1, <3>1, <3>2 DEF PlacesInv, DeqOnce
    <3> QED BY <3>3
  <2>8. CASE nextBurst[1].sel = "dram" /\ nextBurst[2].sel = "flash"
    BY <1>4, <1>5, <2>1, <2>2, <2>4, <2>8
  <2>9. CASE nextBurst[1].sel = "flash" /\ nextBurst[2].sel = "dram"
    BY <1>4, <1>5, <2>1, <2>2, <2>4, <2>9
  <2> QED BY <2>5, <2>6, <2>7, <2>8, <2>9
<1> QED BY <1>2, <1>3, <1>4, <1>5

(* What an answer does not touch.                                          *)
LEMMA AnswerReaders ==
  ASSUME CoreInv, ReadInv, UNCHANGED << core_view, reqQ, write_vars, dram_vars, flushRespQ >>,
         UNCHANGED << reads, readQ, immQ >>, arrived' \subseteq arrived,
         dataQ' = dataQ \/ (dataQ' = << >> /\ dataQ # << >> /\ dataQ[1].to = "dram")
  PROVE  /\ CoreInv' /\ ReadersInv' /\ Reads' = Reads /\ ReadsMove
         /\ \A r : SizeOf(r)' = SizeOf(r)
         /\ UNCHANGED << wrote, early, map_view, chipQ, dramReqQ, byteCnt >>
         /\ Kept /\ SameBlocks
<1>1. UNCHANGED << wrote, early, map_view, chipQ, dramReqQ, byteCnt >>
  BY DEF map_view, core_view, erase_view, dram_vars
<1>2. CoreInv' /\ Issued' = Issued
  BY AnswerCore
<1>3. ReadsMove
  BY <1>1, SameQueueReads
<1>4. ReadersInv'
  BY <1>1, <1>2, <1>3, ReadersSame
<1>5. Kept /\ SameBlocks
  BY <1>1, <1>2, KeptSame, SameMap DEF CoreInv
<1> QED BY <1>1, <1>2, <1>3, <1>4, <1>5 DEF Reads, SizeOf

(* A read is granted its answer.                                           *)
LEMMA GrantIs ==
  ASSUME CoreInv, ReadInv, NEW sel \in { "dram", "flash" }, NEW r \in Reads, Grant(sel, r)
  PROVE  /\ Len(nextBurst) \in 0 .. 1 /\ Len(nextBurst') = Len(nextBurst) + 1
         /\ nextBurst' \in Seq([ sel : { "dram", "flash" }, id : Reads ])
         /\ nextBurst'[Len(nextBurst) + 1].sel = sel /\ nextBurst'[Len(nextBurst) + 1].id = r
         /\ \A k \in 1 .. Len(nextBurst) : nextBurst'[k] = nextBurst[k]
         /\ \A k \in 1 .. Len(nextBurst') : k \in 1 .. Len(nextBurst) \/ k = Len(nextBurst) + 1
         /\ \A q : Bursting(q)' <=> Bursting(q) \/ q = r
         /\ nextBurst = << >> <=> Len(nextBurst) = 0
<1>1. nextBurst \in Seq([ sel : { "dram", "flash" }, id : Reads ])
  BY DEF ReadInv, ReadTypes
<1>2. PICK x : x = [ sel |-> sel, id |-> r ]
  OBVIOUS
<1>3. x \in [ sel : { "dram", "flash" }, id : Reads ] /\ x.sel = sel /\ x.id = r
  BY <1>2
<1>4. nextBurst' = Append(nextBurst, x) /\ Len(nextBurst) < 2
  BY <1>2 DEF Grant
<1>5. /\ Len(nextBurst') = Len(nextBurst) + 1 /\ nextBurst'[Len(nextBurst) + 1] = x
      /\ nextBurst' \in Seq([ sel : { "dram", "flash" }, id : Reads ])
      /\ \A k \in 1 .. Len(nextBurst) : nextBurst'[k] = nextBurst[k]
  BY <1>1, <1>3, <1>4, AppendIs
<1>6. Len(nextBurst) \in 0 .. 1
  <2>1. PICK l \in Nat : l = Len(nextBurst) /\ l < 2
    BY <1>1, <1>4, LenEmpty
  <2>2. l \in 0 .. 1
    BY <2>1
  <2> QED BY <2>1, <2>2
<1>7. PICK l \in 0 .. 1 : l = Len(nextBurst) /\ Len(nextBurst') = l + 1
  BY <1>5, <1>6
<1>8. \A k \in 1 .. l + 1 : k \in 1 .. l \/ k = l + 1
  OBVIOUS
<1>9. 1 .. l \subseteq 1 .. l + 1 /\ l + 1 \in 1 .. l + 1
  OBVIOUS
<1>10. ASSUME NEW q PROVE Bursting(q)' <=> Bursting(q) \/ q = r
  <2>1. ASSUME Bursting(q)' PROVE Bursting(q) \/ q = r
    BY <1>3, <1>5, <1>7, <1>8, <2>1 DEF Bursting
  <2>2. ASSUME Bursting(q) PROVE Bursting(q)'
    <3>1. PICK k \in 1 .. l : nextBurst[k].id = q
      BY <1>7, <2>2 DEF Bursting
    <3>2. k \in 1 .. l + 1 /\ nextBurst'[k].id = q
      BY <1>5, <1>7, <1>9, <3>1
    <3> QED BY <1>7, <3>2 DEF Bursting
  <2>3. Bursting(r)'
    BY <1>3, <1>5, <1>7, <1>9 DEF Bursting
  <2> QED BY <2>1, <2>2, <2>3
<1>11. \A k \in 1 .. Len(nextBurst') : k \in 1 .. Len(nextBurst) \/ k = Len(nextBurst) + 1
  BY <1>7, <1>8
<1>12. nextBurst = << >> <=> Len(nextBurst) = 0
  BY <1>1, LenEmpty
<1>13. nextBurst'[Len(nextBurst) + 1].sel = sel /\ nextBurst'[Len(nextBurst) + 1].id = r
  BY <1>3, <1>5
<1> QED BY <1>5, <1>6, <1>10, <1>11, <1>12, <1>13

LEMMA GrantReads ==
  ASSUME CoreInv, ReadInv, NEW sel \in { "dram", "flash" }, NEW r \in Reads, Grant(sel, r),
         Len(answers[r]) = 0, ~ Bursting(r),
         sel = "dram" => /\ DramNext(r)
                         /\ \A l \in 1 .. Len(nextBurst) : nextBurst[l].sel # "dram",
         sel = "flash" => IF nextBurst # << >> /\ nextBurst[1].sel = "flash"
                          THEN Len(deqQ) > 1 /\ r = deqQ[2] ELSE Len(deqQ) > 0 /\ r = deqQ[1],
         \A k \in 1 .. Len(dramReqQ) : k = 2 /\ dramReqQ[k].rnw => dramReqQ[k].id # r
  PROVE  CoreInv' /\ ReadInv'
<1>1. /\ WriterInv /\ ReadTypes /\ PlacesInv /\ BurstsInv /\ FlashAnswers /\ DramAnswers /\ AnswersOwn
      /\ ValuesInv
  BY DEF CoreInv, WriterInv, ReadInv, AnswersInv
<1>2. /\ UNCHANGED << core_view, reqQ, write_vars, dram_vars, flushRespQ >>
      /\ UNCHANGED << reads, readQ, immQ, arrived, dataQ, answers, byteCntResp, deqQ >>
  BY DEF Grant, core_view, erase_view, write_vars, flush_vars, read_vars, server_vars, eraser, chips
<1>3. /\ CoreInv' /\ ReadersInv' /\ Reads' = Reads /\ ReadsMove
      /\ \A q : SizeOf(q)' = SizeOf(q)
      /\ UNCHANGED << wrote, early, map_view, chipQ, dramReqQ, byteCnt >>
      /\ Kept /\ SameBlocks
  BY <1>2, AnswerReaders
<1>4. /\ Len(nextBurst) \in 0 .. 1 /\ Len(nextBurst') = Len(nextBurst) + 1
      /\ nextBurst' \in Seq([ sel : { "dram", "flash" }, id : Reads ])
      /\ nextBurst'[Len(nextBurst) + 1].sel = sel /\ nextBurst'[Len(nextBurst) + 1].id = r
      /\ \A k \in 1 .. Len(nextBurst) : nextBurst'[k] = nextBurst[k]
      /\ \A k \in 1 .. Len(nextBurst') : k \in 1 .. Len(nextBurst) \/ k = Len(nextBurst) + 1
      /\ \A q : Bursting(q)' <=> Bursting(q) \/ q = r
      /\ nextBurst = << >> <=> Len(nextBurst) = 0
  BY GrantIs
<1>5. PICK L \in 0 .. 1 : L = Len(nextBurst) /\ Len(nextBurst') = L + 1
  BY <1>4
<1>6. ReadTypes'
  <2>1. Len(nextBurst') <= 2
    BY <1>5
  <2> QED BY <1>1, <1>2, <1>3, <1>4, <2>1 DEF ReadTypes, Values
<1>7. DramStays /\ \A q : FromDram(q)' => FromDram(q)
  <2>1. DramStays
    BY <1>2, <1>3 DEF DramStays, HeadReads
  <2> QED BY <2>1, DataStays
<1>8. PlacesInv' /\ \A q : FromFlash(q)' => FromFlash(q)
  BY <1>1, <1>2, <1>3, <1>7, PlacesStay
<1>9. DataIn' = DataIn /\ \A q : HeadReads(q)' = HeadReads(q) /\ DramNext(q)' = DramNext(q)
  BY <1>2, <1>3 DEF DataIn, HeadReads, DramNext
<1>10. BurstsInv'
  <2>1. \A k \in 1 .. Len(nextBurst) : BurstInv(k, nextBurst[k].id)
    BY BurstPlaces
  <2>2. ASSUME NEW k \in 1 .. Len(nextBurst') PROVE BurstInv(k, nextBurst[k].id)'
    <3>1. PICK q : q = nextBurst'[k].id
      OBVIOUS
    <3>2. CASE k \in 1 .. Len(nextBurst)
      <4>1. nextBurst'[k] = nextBurst[k] /\ BurstInv(k, q)
        BY <1>4, <2>1, <3>1, <3>2
      <4>2. nextBurst'[1] = nextBurst[1]
        <5>1. 1 \in 1 .. L
          BY <1>5, <3>2
        <5> QED BY <1>4, <1>5, <5>1
      <4>3. nextBurst'[k].sel = "dram" => DramBurst(k, q)'
        <5> SUFFICES ASSUME nextBurst[k].sel = "dram" PROVE DramBurst(k, q)'
          BY <4>1
        <5>1. DramBurst(k, q) /\ sel = "flash"
          BY <3>2, <4>1 DEF BurstInv
        <5>2. ASSUME NEW l \in 1 .. Len(nextBurst'), nextBurst'[l].sel = "dram" PROVE l = k
          <6>1. CASE l \in 1 .. Len(nextBurst)
            BY <1>4, <5>1, <5>2, <6>1 DEF DramBurst
          <6>2. CASE l = Len(nextBurst) + 1
            BY <1>4, <5>1, <5>2, <6>2
          <6> QED BY <1>4, <6>1, <6>2
        <5> QED BY <1>9, <5>1, <5>2 DEF DramBurst
      <4>4. nextBurst'[k].sel = "flash" => FlashBurst(k, q)'
        BY <1>2, <4>1, <4>2 DEF BurstInv, FlashBurst
      <4>5. BurstInv(k, q)'
        BY <1>2, <1>3, <4>1, <4>3, <4>4 DEF BurstInv
      <4> QED BY <3>1, <4>5 DEF BurstInv, DramBurst, DramNext, FlashBurst, HeadReads, SizeOf
    <3>3. CASE k = Len(nextBurst) + 1
      <4>1. q = r /\ nextBurst'[k].sel = sel
        BY <1>4, <3>1, <3>3
      <4>2. nextBurst'[k].sel = "dram" => DramBurst(k, r)'
        <5> SUFFICES ASSUME sel = "dram" PROVE DramBurst(k, r)'
          BY <4>1
        <5>1. ASSUME NEW l \in 1 .. Len(nextBurst'), nextBurst'[l].sel = "dram" PROVE l = k
          BY <1>4, <3>3, <5>1
        <5> QED BY <1>9, <5>1 DEF DramBurst
      <4>3. nextBurst'[k].sel = "flash" => FlashBurst(k, r)'
        <5> SUFFICES ASSUME sel = "flash" PROVE FlashBurst(k, r)'
          BY <4>1
        <5>1. CASE L = 0
          <6>1. nextBurst = << >> /\ k = 1
            BY <1>4, <1>5, <3>3, <5>1
          <6>2. Len(deqQ) > 0 /\ r = deqQ[1]
            BY <6>1
          <6> QED BY <1>2, <6>1, <6>2 DEF FlashBurst
        <5>2. CASE L = 1
          <6>1. nextBurst # << >> /\ k = 2 /\ nextBurst'[1] = nextBurst[1]
            <7>1. 1 \in 1 .. Len(nextBurst)
              BY <1>5, <5>2
            <7> QED BY <1>4, <1>5, <3>3, <5>2, <7>1
          <6> QED BY <1>2, <6>1 DEF FlashBurst
        <5> QED BY <5>1, <5>2
      <4>4. Len(answers[r]) = (IF k = 1 THEN byteCntResp ELSE 0)
        <5>1. CASE k = 1
          <6>1. L = 0
            BY <1>5, <3>3, <5>1
          <6>2. nextBurst = << >>
            BY <1>4, <1>5, <6>1
          <6> QED BY <1>1, <5>1, <6>2 DEF BurstsInv
        <5> QED BY <5>1
      <4>5. Len(answers[r]) < SizeOf(r)
        <5>1. reads[r] \in Values
          BY <1>1, ElementOfSeq DEF ReadTypes, Reads
        <5>2. SizeOf(r) \in Nat /\ SizeOf(r) > 0
          BY <1>1, <5>1, ValueIs DEF SizeOf
        <5> QED BY <5>2
      <4>6. BurstInv(k, r)'
        BY <1>2, <1>3, <4>2, <4>3, <4>4, <4>5 DEF BurstInv
      <4> QED BY <3>1, <4>1, <4>6 DEF BurstInv, DramBurst, DramNext, FlashBurst, HeadReads, SizeOf
    <3> QED BY <1>4, <3>2, <3>3
  <2>3. nextBurst' = << >> => byteCntResp' = 0
    <3>1. Len(nextBurst') # 0
      BY <1>5
    <3> QED BY <3>1, EmptySeq
  <2> QED BY <2>2, <2>3 DEF BurstsInv
<1>11. FlashAnswers'
  BY <1>1, <1>2, <1>3, <1>4, <1>8 DEF FlashAnswers
<1>12. ASSUME NEW k \in 1 .. Len(dramReqQ'), dramReqQ'[k].rnw
       PROVE  DramReadInv(k, dramReqQ[k].id)'
  <2>1. PICK q : q = dramReqQ[k].id
    OBVIOUS
  <2>2. DramReadInv(k, q) /\ (k = 2 => q # r)
    BY <1>1, <1>3, <1>12, <2>1 DEF DramAnswers
  <2>3. DramReadInv(k, q)'
    BY <1>2, <1>3, <1>4, <1>9, <2>2 DEF DramReadInv
  <2> QED BY <1>3, <2>1, <2>3 DEF DramReadInv, Bursting, HeadReads
<1>13. ASSUME DataIn' PROVE DataInv(dataQ[1].id)'
  <2>1. PICK q : q = dataQ[1].id
    OBVIOUS
  <2>2. DataInv(q)
    BY <1>1, <1>9, <1>13, <2>1 DEF DramAnswers
  <2>3. DataInv(q)'
    BY <1>2, <1>3, <1>4, <1>9, <2>2 DEF DataInv
  <2> QED BY <1>2, <2>1, <2>3 DEF DataInv, HeadReads, Bursting, SizeOf
<1>14. DramAnswers' /\ AnswersOwn'
  BY <1>1, <1>2, <1>3, <1>12, <1>13, OwnStays DEF DramAnswers
<1> QED BY <1>3, <1>6, <1>8, <1>10, <1>11, <1>14 DEF ReadInv, AnswersInv

LEMMA ArbitDramReads ==
  ASSUME CoreInv, ReadInv, arbitRespDram
  PROVE  CoreInv' /\ ReadInv'
<1>1. /\ ReadTypes /\ PlacesInv /\ DramAnswers /\ DataQTypes
  BY DEF CoreInv, ProgramInv, ReadInv, AnswersInv
<1>2. PICK r : r = dataQ[1].id
  OBVIOUS
<1>3. DataIn /\ Grant("dram", r)
  <2>1. Head(dataQ) = dataQ[1]
    <3>1. dataQ # << >>
      BY DEF arbitRespDram
    <3> QED BY <1>1, <3>1, TailIs DEF DataQTypes
  <2> QED BY <1>2, <2>1 DEF arbitRespDram, DataIn
<1>4. r \in Reads /\ (Len(answers[r]) > 0 => Bursting(r)) /\ FromDram(r) /\ DramNext(r)
  BY <1>1, <1>2, <1>3 DEF DramAnswers, DataInv, FromDram, DramNext
<1>5. \A k \in 1 .. Len(nextBurst) : nextBurst[k].sel = "dram" => nextBurst[k].id # r
  BY <1>3 DEF Grant, Granted
<1>6. /\ \A k \in 1 .. Len(nextBurst) :
              /\ nextBurst[k] \in [ sel : { "dram", "flash" }, id : Reads ]
              /\ BurstInv(k, nextBurst[k].id)
              /\ nextBurst[k].sel = "dram" => FromDram(nextBurst[k].id)
              /\ nextBurst[k].sel = "flash" => FromFlash(nextBurst[k].id) /\ InDeq(nextBurst[k].id)
  BY BurstPlaces
<1>7. ~ FromFlash(r)
  BY <1>1, <1>4 DEF PlacesInv, OnePlace
<1>8. ~ Bursting(r)
  <2>1. ASSUME NEW k \in 1 .. Len(nextBurst), nextBurst[k].id = r PROVE FALSE
    BY <1>5, <1>6, <1>7, <2>1
  <2> QED BY <2>1 DEF Bursting
<1>9. Len(answers[r]) = 0
  <2>1. answers[r] \in Seq(Answer)
    BY <1>1, <1>4, ElementOfSeq DEF ReadTypes, Reads
  <2>2. Len(answers[r]) \in Nat
    BY <2>1, LenEmpty
  <2> QED BY <1>4, <1>8, <2>2
<1>10. \A l \in 1 .. Len(nextBurst) : nextBurst[l].sel # "dram"
  <2> SUFFICES ASSUME NEW l \in 1 .. Len(nextBurst), nextBurst[l].sel = "dram" PROVE FALSE
    OBVIOUS
  <2>1. DramNext(nextBurst[l].id)
    BY <1>6 DEF BurstInv, DramBurst
  <2> QED BY <1>2, <1>3, <1>5, <2>1 DEF DramNext
<1>11. \A k \in 1 .. Len(dramReqQ) : k = 2 /\ dramReqQ[k].rnw => dramReqQ[k].id # r
  BY <1>1, <1>2, <1>3 DEF DramAnswers, DramReadInv
<1> QED BY <1>3, <1>4, <1>8, <1>9, <1>10, <1>11, GrantReads

LEMMA ArbitFlashReads ==
  ASSUME CoreInv, ReadInv, arbitRespFlash
  PROVE  CoreInv' /\ ReadInv'
<1>1. /\ ReadTypes /\ PlacesInv /\ FlashAnswers
  BY DEF ReadInv, AnswersInv
<1>2. PICK k \in 1 .. Len(deqQ) :
        /\ \A j \in 1 .. k - 1 : deqQ[j] \in Granted("flash")
        /\ Grant("flash", deqQ[k])
  BY DEF arbitRespFlash
<1>3. PICK r : r = deqQ[k]
  OBVIOUS
<1>4. r \in Reads /\ FromFlash(r) /\ Grant("flash", r)
  BY <1>1, <1>2, <1>3, ElementOfSeq DEF ReadTypes, FromFlash, InDeq
<1>5. \A l \in 1 .. Len(nextBurst) : nextBurst[l].sel = "flash" => nextBurst[l].id # r
  BY <1>4 DEF Grant, Granted
<1>6. /\ Len(deqQ) \in Nat
      /\ \A l \in 1 .. Len(nextBurst) :
              /\ nextBurst[l] \in [ sel : { "dram", "flash" }, id : Reads ]
              /\ BurstInv(l, nextBurst[l].id)
              /\ nextBurst[l].sel = "dram" => FromDram(nextBurst[l].id)
  BY BurstPlaces
<1>7. ~ FromDram(r)
  BY <1>1, <1>4 DEF PlacesInv, OnePlace
<1>8. ~ Bursting(r)
  <2>1. ASSUME NEW l \in 1 .. Len(nextBurst), nextBurst[l].id = r PROVE FALSE
    BY <1>5, <1>6, <1>7, <2>1
  <2> QED BY <2>1 DEF Bursting
<1>9. Len(answers[r]) = 0
  BY <1>1, <1>4, <1>8 DEF FlashAnswers
<1>10. PICK L \in 0 .. 1 : L = Len(nextBurst) /\ (nextBurst = << >> <=> L = 0)
  BY <1>4, GrantIs
<1>11. PICK n \in Nat : n = Len(deqQ) /\ k \in 1 .. n
  BY <1>2, <1>6
<1>12. IF nextBurst # << >> /\ nextBurst[1].sel = "flash"
       THEN Len(deqQ) > 1 /\ r = deqQ[2] ELSE Len(deqQ) > 0 /\ r = deqQ[1]
  <2>1. CASE nextBurst # << >> /\ nextBurst[1].sel = "flash"
    <3>1. L = 1 /\ 1 \in 1 .. Len(nextBurst)
      BY <1>10, <2>1
    <3>2. FlashBurst(1, nextBurst[1].id)
      BY <1>6, <2>1, <3>1 DEF BurstInv
    <3>3. nextBurst[1].id = deqQ[1]
      BY <3>2 DEF FlashBurst
    <3>4. k # 1
      BY <1>3, <1>5, <2>1, <3>1, <3>3
    <3>5. ASSUME k > 2 PROVE FALSE
      <4>1. 2 \in 1 .. k - 1 /\ 2 \in 1 .. n /\ 1 \in 1 .. n
        BY <1>11, <3>5
      <4>2. deqQ[2] \in Granted("flash")
        BY <1>2, <4>1
      <4>3. PICK l \in 1 .. Len(nextBurst) : nextBurst[l].id = deqQ[2]
        BY <4>2 DEF Granted
      <4>4. l = 1
        BY <1>10, <3>1, <4>3
      <4>5. deqQ[2] = deqQ[1]
        BY <3>3, <4>3, <4>4
      <4>6. 1 = 2
        BY <1>1, <1>11, <4>1, <4>5 DEF PlacesInv, DeqOnce
      <4> QED BY <4>6
    <3>6. k = 2 /\ n > 1
      BY <1>11, <3>4, <3>5
    <3> QED BY <1>3, <1>11, <2>1, <3>6
  <2>2. CASE ~ (nextBurst # << >> /\ nextBurst[1].sel = "flash")
    <3>1. \A l \in 1 .. Len(nextBurst) : nextBurst[l].sel # "flash"
      <4> SUFFICES ASSUME NEW l \in 1 .. Len(nextBurst) PROVE nextBurst[l].sel # "flash"
        OBVIOUS
      <4>1. l = 1 /\ L = 1
        BY <1>10
      <4> QED BY <1>10, <2>2, <4>1
    <3>2. Granted("flash") = {}
      BY <3>1 DEF Granted
    <3>3. ASSUME k # 1 PROVE FALSE
      <4>1. 1 \in 1 .. k - 1
        BY <1>11, <3>3
      <4> QED BY <1>2, <3>2, <4>1
    <3>4. k = 1 /\ n > 0
      BY <1>11, <3>3
    <3> QED BY <1>3, <1>11, <2>2, <3>4
  <2> QED BY <2>1, <2>2
<1>13. \A l \in 1 .. Len(dramReqQ) : l = 2 /\ dramReqQ[l].rnw => dramReqQ[l].id # r
  BY <1>7 DEF FromDram
<1> QED BY <1>4, <1>8, <1>9, <1>12, <1>13, GrantReads

(* What the answers are then.                                              *)
Replied(r) ==
  /\ r \in Reads /\ BurstInv(1, r) /\ 1 \in 1 .. Len(nextBurst) /\ byteCntResp \in Nat
  /\ Len(answers[r]) = byteCntResp /\ Len(answers'[r]) = byteCntResp + 1
  /\ \A q \in Reads : q # r => answers'[q] = answers[q]
  /\ AnswersOwn' /\ answers' \in Seq(Seq(Answer)) /\ Len(answers') = Len(reads)
  /\ nextBurst' \in Seq([ sel : { "dram", "flash" }, id : Reads ]) /\ Len(nextBurst') <= 2
  /\ byteCntResp' \in Nat
  /\ \/ byteCntResp + 1 < SizeOf(r) /\ byteCntResp' = byteCntResp + 1 /\ nextBurst' = nextBurst
     \/ /\ byteCntResp + 1 = SizeOf(r) /\ byteCntResp' = 0 /\ Len(nextBurst') \in 0 .. 1
        /\ nextBurst' = Tail(nextBurst)
        /\ Len(nextBurst') = 1 => 2 \in 1 .. Len(nextBurst) /\ nextBurst'[1] = nextBurst[2]
        /\ 2 \in 1 .. Len(nextBurst) => Len(nextBurst') = 1

(* A page is given to the first of those who are answered.                 *)
LEMMA ReplyIs ==
  ASSUME CoreInv, ReadInv, nextBurst # << >>, NEW r, r = nextBurst[1].id, NEW page \in Data, Reply(page),
         UNCHANGED << reads, wrote >>, Kept, SameBlocks,
         \/ page = << reads[r], byteCntResp + 1 >>
         \/ nextBurst[1].sel = "flash" /\ Excused(r, byteCntResp + 1)
  PROVE  Replied(r)
<1> USE DEF Replied
<1>1. /\ ReadTypes /\ AnswersOwn /\ ValuesInv
  BY DEF ReadInv, AnswersInv, CoreInv, WriterInv
<1>2. /\ nextBurst \in Seq([ sel : { "dram", "flash" }, id : Reads ])
      /\ answers \in Seq(Seq(Answer)) /\ Len(answers) = Len(reads) /\ byteCntResp \in Nat
  BY <1>1 DEF ReadTypes
<1>3. /\ Head(nextBurst) = nextBurst[1] /\ Tail(nextBurst) \in Seq([ sel : { "dram", "flash" }, id : Reads ])
      /\ nextBurst[1] \in [ sel : { "dram", "flash" }, id : Reads ]
      /\ Len(nextBurst) \in Nat \ {0} /\ Len(Tail(nextBurst)) = Len(nextBurst) - 1
      /\ \A k \in 1 .. Len(nextBurst) - 1 : Tail(nextBurst)[k] = nextBurst[k + 1]
  BY <1>2, TailIs
<1>4. PICK L \in 1 .. 2 : L = Len(nextBurst)
  <2>1. PICK L \in 0 .. 2 : L = Len(nextBurst)
    BY BurstPlaces
  <2>2. L \in 1 .. 2
    BY <1>3, <2>1
  <2> QED BY <2>1, <2>2
<1>5. 1 \in 1 .. Len(nextBurst) /\ r \in Reads /\ nextBurst[1].sel \in { "dram", "flash" }
  BY <1>3, <1>4
<1>6. BurstInv(1, r)
  BY <1>5, BurstPlaces
<1>7. Len(answers[r]) = byteCntResp /\ byteCntResp < SizeOf(r)
  BY <1>6 DEF BurstInv
<1>8. PICK x : x = [ from |-> nextBurst[1].sel, data |-> page ]
  OBVIOUS
<1>9. x \in Answer /\ x.data = page /\ x.from = nextBurst[1].sel
  BY <1>5, <1>8 DEF Answer
<1>10. answers[r] \in Seq(Answer)
  BY <1>2, <1>5, ElementOfSeq DEF Reads
<1>11. PICK s : s = Append(answers[r], x)
  OBVIOUS
<1>12. /\ s \in Seq(Answer) /\ Len(s) = byteCntResp + 1 /\ s[byteCntResp + 1] = x
       /\ \A i \in 1 .. byteCntResp : s[i] = answers[r][i]
  BY <1>7, <1>9, <1>10, <1>11, AppendIs
<1>13. answers' = [ answers EXCEPT ![r] = s ]
  BY <1>3, <1>8, <1>11 DEF Reply
<1>14. r \in 1 .. Len(answers)
  BY <1>2, <1>5 DEF Reads
<1>15. /\ answers' \in Seq(Seq(Answer)) /\ Len(answers') = Len(answers) /\ answers'[r] = s
       /\ \A q \in Reads : q # r => answers'[q] = answers[q]
  <2>1. answers' \in Seq(Seq(Answer)) /\ Len(answers') = Len(answers)
    BY <1>2, <1>12, <1>13, <1>14, ExceptSeq
  <2>2. \A q \in 1 .. Len(answers) : answers'[q] = IF q = r THEN s ELSE answers[q]
    BY <1>2, <1>12, <1>13, <1>14, ExceptSeq
  <2> QED BY <1>2, <1>14, <2>1, <2>2 DEF Reads
<1>16. AnswersOwn'
  <2>1. ASSUME NEW q \in 1 .. Len(answers'), NEW i \in 1 .. Len(answers'[q])
        PROVE  \/ answers'[q][i].data = << reads'[q], i >>
               \/ answers'[q][i].from = "flash" /\ Excused(q, i)'
    <3>1. q \in Reads /\ q \in 1 .. Len(answers)
      BY <1>2, <1>15 DEF Reads
    <3>4. i \in Nat \ {0}
      BY <2>1
    <3>5. Excused(q, i) => Excused(q, i)'
      BY <1>1, <3>1, <3>4, ExcusedStays
    <3>2. CASE q # r
      BY <1>1, <1>15, <2>1, <3>1, <3>2, <3>5 DEF AnswersOwn
    <3>3. CASE q = r
      <4>1. i \in 1 .. byteCntResp \/ i = byteCntResp + 1
        <5>1. i \in 1 .. byteCntResp + 1
          BY <1>12, <1>15, <2>1, <3>3
        <5> QED BY <1>2, <5>1
      <4>2. CASE i \in 1 .. byteCntResp
        <5>1. answers'[q][i] = answers[r][i] /\ i \in 1 .. Len(answers[r])
          BY <1>7, <1>12, <1>15, <3>3, <4>2
        <5> QED BY <1>1, <1>14, <3>3, <3>5, <5>1 DEF AnswersOwn
      <4>3. CASE i = byteCntResp + 1
        <5>1. answers'[q][i] = x
          BY <1>12, <1>15, <3>3, <4>3
        <5> QED BY <1>9, <3>3, <3>5, <4>3, <5>1
      <4> QED BY <4>1, <4>2, <4>3
    <3> QED BY <3>2, <3>3
  <2> QED BY <2>1 DEF AnswersOwn
<1>17. PICK z \in Nat : z = SizeOf(r) /\ SizeOf(r) = wrote[reads[r]].size
  <2>1. reads[r] \in Values
    BY <1>1, <1>5, ElementOfSeq DEF ReadTypes, Reads
  <2> QED BY <1>1, <2>1, ValueIs DEF SizeOf
<1>18. IF byteCntResp + 1 < z THEN byteCntResp' = byteCntResp + 1 /\ nextBurst' = nextBurst
       ELSE byteCntResp' = 0 /\ nextBurst' = Tail(nextBurst)
  BY <1>3, <1>17 DEF Reply
<1>19. CASE byteCntResp + 1 < z
  <2>1. byteCntResp' = byteCntResp + 1 /\ nextBurst' = nextBurst
    BY <1>18, <1>19
  <2>2. byteCntResp' \in Nat
    BY <1>2, <2>1
  <2>3. L <= 2
    OBVIOUS
  <2>4. Len(nextBurst') <= 2
    BY <1>4, <2>1, <2>3
  <2> QED BY <2>1, <2>2, <2>4, <1>2, <1>5, <1>6, <1>7, <1>12, <1>15, <1>16, <1>17, <1>19
<1>20. CASE ~ (byteCntResp + 1 < z)
  <2>1. byteCntResp + 1 = z
    <3>1. PICK n \in Nat : n = byteCntResp
      BY <1>2
    <3>2. n < z /\ ~ (n + 1 < z)
      BY <1>7, <1>17, <1>20, <3>1
    <3>3. n + 1 = z
      BY <3>2
    <3> QED BY <3>1, <3>3
  <2>2. nextBurst' = Tail(nextBurst) /\ byteCntResp' = 0
    BY <1>18, <1>20
  <2>3. Len(nextBurst') = L - 1 /\ L - 1 \in 0 .. 1
    BY <1>3, <1>4, <2>2
  <2>4. (L - 1 = 1 => L = 2) /\ (2 \in 1 .. L => L - 1 = 1)
    OBVIOUS
  <2>5. L = 2 => 1 \in 1 .. L - 1 /\ 2 \in 1 .. L /\ 1 + 1 = 2
    OBVIOUS
  <2>6. L = 2 => nextBurst'[1] = nextBurst[2]
    BY <1>3, <1>4, <2>2, <2>5
  <2>7. /\ Len(nextBurst') \in 0 .. 1 /\ Len(nextBurst') <= 2
        /\ Len(nextBurst') = 1 => 2 \in 1 .. Len(nextBurst) /\ nextBurst'[1] = nextBurst[2]
        /\ 2 \in 1 .. Len(nextBurst) => Len(nextBurst') = 1
    <3>1. L - 1 \in 0 .. 1 /\ L - 1 <= 2
      BY <2>3
    <3>2. Len(nextBurst') = 1 => 2 \in 1 .. Len(nextBurst) /\ nextBurst'[1] = nextBurst[2]
      BY <1>4, <2>3, <2>4, <2>5, <2>6
    <3>3. 2 \in 1 .. Len(nextBurst) => Len(nextBurst') = 1
      BY <1>4, <2>3, <2>4
    <3> QED BY <2>3, <3>1, <3>2, <3>3
  <2>8. nextBurst' \in Seq([ sel : { "dram", "flash" }, id : Reads ]) /\ byteCntResp' \in Nat
    BY <1>3, <2>2
  <2> QED BY <1>2, <1>5, <1>6, <1>7, <1>12, <1>15, <1>16, <1>17, <2>1, <2>2, <2>7, <2>8
<1> QED BY <1>19, <1>20

LEMMA ReplyBursts ==
  ASSUME CoreInv, ReadInv, nextBurst # << >>, NEW r, r = nextBurst[1].id, NEW page \in Data, Reply(page),
         UNCHANGED << reads, wrote >>, Kept, SameBlocks,
         \/ page = << reads[r], byteCntResp + 1 >>
         \/ nextBurst[1].sel = "flash" /\ Excused(r, byteCntResp + 1),
         \A q : q # r /\ DramNext(q) => DramNext(q)',
         byteCntResp' # 0 => deqQ' = deqQ /\ (nextBurst[1].sel = "dram" => DramNext(r)'),
         byteCntResp' = 0 => IF nextBurst[1].sel = "flash"
                             THEN Len(deqQ) > 1 => Len(deqQ') > 0 /\ deqQ'[1] = deqQ[2]
                             ELSE deqQ' = deqQ
  PROVE  /\ BurstsInv' /\ \A q : q # r => Bursting(q)' = Bursting(q)
         /\ byteCntResp' # 0 => Bursting(r)'
<1>1. /\ r \in Reads /\ BurstInv(1, r) /\ 1 \in 1 .. Len(nextBurst) /\ byteCntResp \in Nat
      /\ Len(answers[r]) = byteCntResp /\ Len(answers'[r]) = byteCntResp + 1
      /\ \A q \in Reads : q # r => answers'[q] = answers[q]
      /\ \/ byteCntResp + 1 < SizeOf(r) /\ byteCntResp' = byteCntResp + 1 /\ nextBurst' = nextBurst
         \/ /\ byteCntResp + 1 = SizeOf(r) /\ byteCntResp' = 0 /\ Len(nextBurst') \in 0 .. 1
            /\ nextBurst' = Tail(nextBurst)
            /\ Len(nextBurst') = 1 => 2 \in 1 .. Len(nextBurst) /\ nextBurst'[1] = nextBurst[2]
            /\ 2 \in 1 .. Len(nextBurst) => Len(nextBurst') = 1
  BY ReplyIs DEF Replied
<1>2. /\ Len(nextBurst) \in 0 .. 2
      /\ \A k \in 1 .. Len(nextBurst) :
              /\ nextBurst[k] \in [ sel : { "dram", "flash" }, id : Reads ]
              /\ BurstInv(k, nextBurst[k].id)
      /\ 2 \in 1 .. Len(nextBurst) => nextBurst[2].id # nextBurst[1].id
  BY BurstPlaces
<1>3. \A q : SizeOf(q)' = SizeOf(q)
  BY DEF SizeOf
<1>4. CASE byteCntResp + 1 < SizeOf(r) /\ byteCntResp' = byteCntResp + 1 /\ nextBurst' = nextBurst
  <2>1. byteCntResp' # 0
    <3>1. byteCntResp + 1 # 0
      BY <1>1
    <3> QED BY <1>4, <3>1
  <2>2. ASSUME NEW k \in 1 .. Len(nextBurst') PROVE BurstInv(k, nextBurst[k].id)'
    <3>1. PICK q : q = nextBurst[k].id
      OBVIOUS
    <3>2. CASE k = 1
      <4>1. q = r
        BY <3>1, <3>2
      <4>2. nextBurst'[1].sel = "dram" => DramBurst(1, r)'
        BY <1>1, <1>4, <2>1 DEF BurstInv, DramBurst
      <4>3. nextBurst'[1].sel = "flash" => FlashBurst(1, r)'
        BY <1>1, <1>4, <2>1 DEF BurstInv, FlashBurst
      <4>4. Len(answers'[r]) = byteCntResp' /\ Len(answers'[r]) < SizeOf(r)'
        BY <1>1, <1>3, <1>4
      <4>5. BurstInv(1, r)'
        BY <4>2, <4>3, <4>4 DEF BurstInv
      <4> QED BY <1>4, <3>1, <3>2, <4>1, <4>5 DEF BurstInv, DramBurst, DramNext, FlashBurst, HeadReads, SizeOf
    <3>3. CASE k # 1
      <4>1. k = 2 /\ k \in 1 .. Len(nextBurst)
        BY <1>2, <1>4, <3>3
      <4>2. q # r /\ q \in Reads /\ BurstInv(2, q)
        <5>1. nextBurst[k] \in [ sel : { "dram", "flash" }, id : Reads ]
          BY <1>2, <4>1
        <5> QED BY <1>2, <3>1, <4>1, <5>1
      <4>3. nextBurst'[2].sel = "dram" => DramBurst(2, q)'
        BY <1>4, <4>2 DEF BurstInv, DramBurst
      <4>4. nextBurst'[2].sel = "flash" => FlashBurst(2, q)'
        BY <1>4, <2>1, <4>2 DEF BurstInv, FlashBurst
      <4>5. answers'[q] = answers[q]
        BY <1>1, <4>2
      <4>6. BurstInv(2, q)'
        BY <1>3, <4>2, <4>3, <4>4, <4>5 DEF BurstInv
      <4> QED BY <1>4, <3>1, <4>1, <4>6 DEF BurstInv, DramBurst, DramNext, FlashBurst, HeadReads, SizeOf
    <3> QED BY <3>2, <3>3
  <2>3. BurstsInv'
    BY <1>4, <2>2 DEF BurstsInv
  <2>4. (\A q : Bursting(q)' = Bursting(q)) /\ Bursting(r)'
    BY <1>1, <1>4 DEF Bursting
  <2> QED BY <2>3, <2>4
<1>5. CASE /\ byteCntResp + 1 = SizeOf(r) /\ byteCntResp' = 0 /\ Len(nextBurst') \in 0 .. 1
           /\ nextBurst' = Tail(nextBurst)
           /\ Len(nextBurst') = 1 => 2 \in 1 .. Len(nextBurst) /\ nextBurst'[1] = nextBurst[2]
           /\ 2 \in 1 .. Len(nextBurst) => Len(nextBurst') = 1
  <2>1. PICK M \in 0 .. 1 : M = Len(nextBurst')
    BY <1>5
  <2>2. \A k \in 1 .. M : k = 1 /\ M = 1
    OBVIOUS
  <2>3. ASSUME NEW k \in 1 .. Len(nextBurst') PROVE BurstInv(k, nextBurst[k].id)'
    <3>1. k = 1 /\ 2 \in 1 .. Len(nextBurst) /\ nextBurst'[1] = nextBurst[2]
      BY <1>5, <2>1, <2>2
    <3>2. PICK q : q = nextBurst[2].id
      OBVIOUS
    <3>3. q # r /\ q \in Reads /\ BurstInv(2, q)
      <4>1. nextBurst[2] \in [ sel : { "dram", "flash" }, id : Reads ]
        BY <1>2, <3>1
      <4> QED BY <1>2, <3>1, <3>2, <4>1
    <3>4. nextBurst'[1].sel = "dram" => DramBurst(1, q)'
      BY <2>1, <2>2, <3>1, <3>3 DEF BurstInv, DramBurst
    <3>5. nextBurst'[1].sel = "flash" => FlashBurst(1, q)'
      <4> SUFFICES ASSUME nextBurst[2].sel = "flash" PROVE Len(deqQ') > 0 /\ q = deqQ'[1]
        BY <3>1 DEF FlashBurst
      <4>1. FlashBurst(2, q)
        BY <3>3 DEF BurstInv
      <4> QED BY <1>5, <4>1 DEF FlashBurst
    <3>6. answers'[q] = answers[q]
      BY <1>1, <3>3
    <3>7. BurstInv(1, q)'
      BY <1>3, <1>5, <3>3, <3>4, <3>5, <3>6 DEF BurstInv
    <3> QED BY <3>1, <3>2, <3>7 DEF BurstInv, DramBurst, DramNext, FlashBurst, HeadReads, SizeOf
  <2>4. BurstsInv'
    BY <1>5, <2>3 DEF BurstsInv
  <2>5. ASSUME NEW q, q # r PROVE Bursting(q)' = Bursting(q)
    <3>1. ASSUME Bursting(q)' PROVE Bursting(q)
      BY <1>5, <2>1, <2>2, <3>1 DEF Bursting
    <3>2. ASSUME Bursting(q) PROVE Bursting(q)'
      <4>1. PICK k \in 1 .. Len(nextBurst) : nextBurst[k].id = q
        BY <3>2 DEF Bursting
      <4>2. k = 2 /\ 2 \in 1 .. Len(nextBurst)
        BY <1>2, <2>5, <4>1
      <4>3. M = 1 /\ nextBurst'[1] = nextBurst[2] /\ 1 \in 1 .. M
        BY <1>5, <2>1, <4>2
      <4> QED BY <2>1, <4>1, <4>2, <4>3 DEF Bursting
    <3>3. Bursting(q) \in BOOLEAN /\ Bursting(q)' \in BOOLEAN
      BY DEF Bursting
    <3> QED BY <3>1, <3>2, <3>3
  <2> QED BY <1>5, <2>4, <2>5
<1> QED BY <1>1, <1>4, <1>5

LEMMA BurstDramReads ==
  ASSUME CoreInv, ReadInv, doBurstDram
  PROVE  CoreInv' /\ ReadInv'
<1>1. /\ ReadTypes /\ PlacesInv /\ FlashAnswers /\ DramAnswers /\ DataQTypes /\ DramTypes
  BY DEF CoreInv, ProgramInv, ReadInv, AnswersInv, DramInv
<1>2. /\ nextBurst # << >> /\ dataQ # << >> /\ Head(nextBurst) = nextBurst[1] /\ Head(dataQ) = dataQ[1]
      /\ dataQ[1].data \in Data
  <2>1. nextBurst # << >> /\ dataQ # << >>
    BY DEF doBurstDram
  <2>2. /\ nextBurst \in Seq([ sel : { "dram", "flash" }, id : Reads ])
        /\ dataQ \in Seq([ to : { "dram" }, id : Nat, data : Data ]
                         \cup [ to : { "flash" }, id : Chips, data : Data ])
    BY <1>1 DEF ReadTypes, DataQTypes
  <2>3. /\ Head(nextBurst) = nextBurst[1] /\ Head(dataQ) = dataQ[1]
        /\ dataQ[1] \in [ to : { "dram" }, id : Nat, data : Data ]
                         \cup [ to : { "flash" }, id : Chips, data : Data ]
    BY <2>1, <2>2, TailIs
  <2> QED BY <2>1, <2>3
<1>3. PICK r, page : r = nextBurst[1].id /\ page = dataQ[1].data
  OBVIOUS
<1>4. /\ nextBurst[1].sel = "dram" /\ DataIn /\ Reply(page) /\ dataQ' = << >>
      /\ dataQ[1].to = "dram"
  BY <1>2, <1>3 DEF doBurstDram, DataIn
<1>5. /\ UNCHANGED << core_view, reqQ, write_vars, dram_vars, flushRespQ >>
      /\ UNCHANGED << reads, readQ, immQ, arrived, deqQ >>
  BY DEF doBurstDram, core_view, erase_view, write_vars, flush_vars, read_vars, server_vars, eraser, chips
<1>6. /\ CoreInv' /\ ReadersInv' /\ Reads' = Reads /\ ReadsMove
      /\ \A q : SizeOf(q)' = SizeOf(q)
      /\ UNCHANGED << wrote, early, map_view, chipQ, dramReqQ, byteCnt >>
      /\ Kept /\ SameBlocks
  BY <1>2, <1>4, <1>5, AnswerReaders
<1>7. BurstInv(1, r)
  <2>1. 1 \in 1 .. Len(nextBurst)
    <3>1. Len(nextBurst) \in Nat \ {0}
      BY <1>1, <1>2, TailIs DEF ReadTypes
    <3> QED BY <3>1
  <2> QED BY <1>3, <2>1, BurstPlaces
<1>8. /\ DramBurst(1, r) /\ dataQ[1].id = r /\ Len(answers[r]) = byteCntResp
  BY <1>4, <1>7 DEF BurstInv, DramBurst, DramNext
<1>9. DataInv(r) /\ FromDram(r)
  BY <1>1, <1>4, <1>8 DEF DramAnswers, FromDram
<1>10. page = << reads[r], byteCntResp + 1 >> /\ (HeadReads(r) \/ byteCntResp + 1 = SizeOf(r))
       /\ page \in Data
  BY <1>2, <1>3, <1>8, <1>9 DEF DataInv
<1>11. Kept /\ SameBlocks /\ UNCHANGED << reads, wrote >>
  BY <1>5, <1>6
<1>12. /\ r \in Reads /\ 1 \in 1 .. Len(nextBurst) /\ byteCntResp \in Nat
       /\ Len(answers'[r]) = byteCntResp + 1
       /\ \A q \in Reads : q # r => answers'[q] = answers[q]
       /\ AnswersOwn' /\ answers' \in Seq(Seq(Answer)) /\ Len(answers') = Len(reads)
       /\ nextBurst' \in Seq([ sel : { "dram", "flash" }, id : Reads ]) /\ Len(nextBurst') <= 2
       /\ byteCntResp' \in Nat
       /\ \/ byteCntResp + 1 < SizeOf(r) /\ byteCntResp' = byteCntResp + 1 /\ nextBurst' = nextBurst
          \/ byteCntResp + 1 = SizeOf(r) /\ byteCntResp' = 0
  <2>1. page = << reads[r], byteCntResp + 1 >>
        \/ (nextBurst[1].sel = "flash" /\ Excused(r, byteCntResp + 1))
    BY <1>10
  <2>2. page \in Data /\ Reply(page) /\ nextBurst # << >> /\ r = nextBurst[1].id
    BY <1>2, <1>3, <1>4, <1>10
  <2>3. Replied(r)
    BY <1>11, <2>1, <2>2, ReplyIs
  <2>4. r \in Reads /\ 1 \in 1 .. Len(nextBurst) /\ byteCntResp \in Nat /\ Len(answers'[r]) = byteCntResp + 1
    BY <2>3 DEF Replied
  <2>5. \A q \in Reads : q # r => answers'[q] = answers[q]
    BY <2>3 DEF Replied
  <2>6. /\ AnswersOwn' /\ answers' \in Seq(Seq(Answer)) /\ Len(answers') = Len(reads)
        /\ nextBurst' \in Seq([ sel : { "dram", "flash" }, id : Reads ]) /\ Len(nextBurst') <= 2
        /\ byteCntResp' \in Nat
    BY <2>3 DEF Replied
  <2>7. \/ byteCntResp + 1 < SizeOf(r) /\ byteCntResp' = byteCntResp + 1 /\ nextBurst' = nextBurst
        \/ byteCntResp + 1 = SizeOf(r) /\ byteCntResp' = 0
    BY <2>3 DEF Replied
  <2> QED BY <2>4, <2>5, <2>6, <2>7
<1>13. 1 \in 1 .. Len(dramReqQ) => (dramReqQ # << >>)
  BY EmptySeq
<1>14. /\ ~ DataIn' /\ \A q : HeadReads(q)' = HeadReads(q)
  BY <1>4, <1>6 DEF DataIn, HeadReads
<1>15. HeadReads(r) => byteCntResp + 1 = byteCnt
  <2> SUFFICES ASSUME HeadReads(r) PROVE byteCntResp + 1 = byteCnt
    OBVIOUS
  <2>1. 1 \in 1 .. Len(dramReqQ)
    <3>1. dramReqQ \in Seq(DramRequest) /\ dramReqQ # << >>
      BY <1>1 DEF DramTypes, HeadReads
    <3>2. Len(dramReqQ) \in Nat \ {0}
      BY <3>1, TailIs
    <3> QED BY <3>2
  <2>2. DramReadInv(1, r)
    BY <1>1, <2>1 DEF DramAnswers, HeadReads
  <2> QED BY <1>4, <1>8, <2>2 DEF DramReadInv
<1>16. byteCntResp' # 0 => DramNext(r)'
  <2> SUFFICES ASSUME byteCntResp' # 0 PROVE DramNext(r)'
    OBVIOUS
  <2>1. PICK n, z : n = byteCntResp /\ z = SizeOf(r)
    OBVIOUS
  <2>2. n + 1 < z /\ n \in Nat /\ z \in Nat
    <3>1. SizeOf(r) \in Nat
      <4>1. ValuesInv /\ reads[r] \in Values
        BY <1>1, <1>12, ElementOfSeq DEF ReadTypes, Reads, CoreInv, WriterInv
      <4> QED BY <4>1, ValueIs DEF SizeOf
    <3> QED BY <1>12, <2>1, <3>1
  <2>3. HeadReads(r)
    <3>1. n + 1 # z
      BY <2>2
    <3> QED BY <1>10, <2>1, <3>1
  <2>4. n + 1 = byteCnt
    BY <1>15, <2>1, <2>3
  <2>5. byteCnt > 0
    BY <2>2, <2>4
  <2> QED BY <1>6, <1>14, <2>3, <2>5 DEF DramNext
<1>17. \A q : q # r /\ DramNext(q) => DramNext(q)'
  BY <1>4, <1>8 DEF DramNext
<1>18. BurstsInv' /\ (\A q : q # r => Bursting(q)' = Bursting(q)) /\ (byteCntResp' # 0 => Bursting(r)')
  <2>1. byteCntResp' # 0 => deqQ' = deqQ /\ (nextBurst[1].sel = "dram" => DramNext(r)')
    BY <1>5, <1>16
  <2>2. byteCntResp' = 0 => IF nextBurst[1].sel = "flash"
                             THEN Len(deqQ) > 1 => Len(deqQ') > 0 /\ deqQ'[1] = deqQ[2]
                             ELSE deqQ' = deqQ
    BY <1>4, <1>5
  <2> QED BY <1>2, <1>3, <1>4, <1>10, <1>11, <1>17, <2>1, <2>2, ReplyBursts
<1>19. \A q : FromDram(q)' => FromDram(q)
  BY <1>6, <1>14 DEF FromDram
<1>20. PlacesInv' /\ \A q : FromFlash(q)' => FromFlash(q)
  BY <1>1, <1>5, <1>6, <1>19, PlacesStay
<1>21. ~ FromFlash(r)
  BY <1>1, <1>9, <1>12 DEF PlacesInv, OnePlace
<1>22. FlashAnswers'
  <2> SUFFICES ASSUME NEW q \in Reads, FromFlash(q)', ~ Bursting(q)' PROVE Len(answers'[q]) = 0
    BY <1>6 DEF FlashAnswers
  <2>1. FromFlash(q) /\ q # r
    BY <1>20, <1>21
  <2>2. ~ Bursting(q) /\ answers'[q] = answers[q]
    BY <1>12, <1>18, <2>1
  <2> QED BY <1>1, <2>1, <2>2 DEF FlashAnswers
<1>23. ASSUME NEW k \in 1 .. Len(dramReqQ'), dramReqQ'[k].rnw
       PROVE  DramReadInv(k, dramReqQ[k].id)'
  <2>1. PICK q : q = dramReqQ[k].id
    OBVIOUS
  <2>2. /\ DramReadInv(k, q) /\ k \in 1 .. Len(dramReqQ) /\ dramReqQ[k].rnw
    BY <1>1, <1>6, <1>23, <2>1 DEF DramAnswers
  <2>3. q \in Reads
    BY <2>2 DEF DramReadInv
  <2>4. CASE q # r
    <3>1. answers'[q] = answers[q] /\ Bursting(q)' = Bursting(q)
      BY <1>12, <1>18, <2>3, <2>4
    <3>2. DramReadInv(k, q)'
      BY <1>4, <1>5, <1>6, <1>8, <1>14, <2>2, <2>4, <3>1 DEF DramReadInv
    <3> QED BY <1>6, <2>1, <3>2 DEF DramReadInv, Bursting, HeadReads
  <2>5. CASE q = r
    <3>1. k # 2
      BY <1>4, <1>8, <2>2, <2>5 DEF DramReadInv
    <3>2. k = 1
      <4>1. Len(dramReqQ) \in Nat /\ Len(dramReqQ) <= 2
        BY <1>1, LenEmpty DEF DramTypes
      <4> QED BY <2>2, <3>1, <4>1
    <3>3. byteCntResp + 1 = byteCnt /\ dramReqQ[1].value = reads[r]
      BY <1>4, <1>8, <2>2, <2>5, <3>2 DEF DramReadInv
    <3>4. byteCnt < SizeOf(r)
      <4>1. dramReqQ # << >>
        BY <1>13, <2>2, <3>2
      <4> QED BY <1>1, <3>3, <4>1 DEF DramTypes, SizeOf
    <3>5. byteCntResp + 1 # SizeOf(r)
      <4>1. byteCnt \in Nat
        BY <1>1 DEF DramTypes
      <4> QED BY <3>3, <3>4, <4>1
    <3>6. byteCntResp' # 0
      <4>1. byteCntResp' = byteCntResp + 1 /\ byteCntResp \in Nat
        BY <1>12, <3>5
      <4> QED BY <4>1
    <3>7. Bursting(r)' /\ Len(answers'[r]) = byteCnt
      BY <1>12, <1>18, <3>3, <3>6
    <3>8. DramReadInv(k, r)'
      BY <1>5, <1>6, <1>12, <1>14, <2>2, <2>5, <3>2, <3>3, <3>7 DEF DramReadInv
    <3> QED BY <1>6, <2>1, <2>5, <3>8 DEF DramReadInv, Bursting, HeadReads
  <2> QED BY <2>4, <2>5
<1>24. DramAnswers'
  BY <1>14, <1>23 DEF DramAnswers
<1>25. ReadTypes'
  BY <1>1, <1>5, <1>6, <1>12 DEF ReadTypes, Values
<1> QED BY <1>6, <1>12, <1>18, <1>20, <1>22, <1>24, <1>25 DEF ReadInv, AnswersInv

LEMMA BurstFlashReads ==
  ASSUME CoreInv, ReadInv, doBurstFlash
  PROVE  CoreInv' /\ ReadInv'
<1>1. /\ ReadTypes /\ PlacesInv /\ FlashAnswers /\ DramAnswers /\ ArrivedInv
  BY DEF ReadInv, ReadersInv, AnswersInv
<1>2. nextBurst # << >> /\ Head(nextBurst) = nextBurst[1] /\ 1 \in 1 .. Len(nextBurst)
  <2>1. nextBurst # << >>
    BY DEF doBurstFlash
  <2>2. nextBurst \in Seq([ sel : { "dram", "flash" }, id : Reads ])
    BY <1>1 DEF ReadTypes
  <2>3. Head(nextBurst) = nextBurst[1] /\ Len(nextBurst) \in Nat \ {0}
    BY <2>1, <2>2, TailIs
  <2>4. 1 \in 1 .. Len(nextBurst)
    BY <2>3
  <2> QED BY <2>1, <2>3, <2>4
<1>3. PICK r : r = nextBurst[1].id
  OBVIOUS
<1>4. nextBurst[1].sel = "flash"
  BY <1>2 DEF doBurstFlash
<1>5. PICK d \in arrived : /\ d.id = Head(deqQ) /\ d.i = byteCntResp + 1
                           /\ Reply(d.data) /\ arrived' = arrived \ {d}
  BY DEF doBurstFlash
<1>6. /\ UNCHANGED << core_view, reqQ, write_vars, dram_vars, flushRespQ >>
      /\ UNCHANGED << reads, readQ, immQ, dataQ >>
      /\ deqQ' = IF byteCntResp' = 0 THEN Tail(deqQ) ELSE deqQ
  BY DEF doBurstFlash, core_view, erase_view, write_vars, flush_vars, server_vars, eraser, chips
<1>7. /\ CoreInv' /\ ReadersInv' /\ Reads' = Reads /\ ReadsMove
      /\ \A q : SizeOf(q)' = SizeOf(q)
      /\ UNCHANGED << wrote, early, map_view, chipQ, dramReqQ, byteCnt >>
      /\ Kept /\ SameBlocks
  BY <1>5, <1>6, AnswerReaders
<1>8. BurstInv(1, r)
  BY <1>2, <1>3, BurstPlaces
<1>9. Len(deqQ) > 0 /\ r = deqQ[1]
  BY <1>4, <1>8 DEF BurstInv, FlashBurst
<1>10. /\ deqQ \in Seq(Reads) /\ deqQ # << >>
  <2>1. deqQ \in Seq(Reads)
    BY <1>1 DEF ReadTypes
  <2> QED BY <1>9, <2>1, LenEmpty
<1>11. /\ Tail(deqQ) \in Seq(Reads) /\ Len(deqQ) \in Nat \ { 0 } /\ Len(Tail(deqQ)) = Len(deqQ) - 1
       /\ Head(deqQ) = deqQ[1]
       /\ \A k \in 1 .. Len(deqQ) - 1 : Tail(deqQ)[k] = deqQ[k + 1]
  BY <1>10, TailIs
<1>29. PICK n \in Nat \ {0} :
        /\ n = Len(deqQ) /\ Len(Tail(deqQ)) = n - 1
        /\ \A k \in 1 .. n - 1 : Tail(deqQ)[k] = deqQ[k + 1]
  BY <1>10, TailIs
<1>12. PICK page : page = d.data
  OBVIOUS
<1>13. /\ page \in Data /\ Reply(page)
       /\ \/ page = << reads[r], byteCntResp + 1 >>
          \/ nextBurst[1].sel = "flash" /\ Excused(r, byteCntResp + 1)
  BY <1>1, <1>4, <1>5, <1>9, <1>11, <1>12 DEF ArrivedInv
<1>14. Kept /\ SameBlocks /\ UNCHANGED << reads, wrote >>
  BY <1>6, <1>7
<1>15. Replied(r)
  BY <1>2, <1>3, <1>13, <1>14, ReplyIs
<1>16. /\ r \in Reads /\ 1 \in 1 .. Len(nextBurst) /\ byteCntResp \in Nat
       /\ \A q \in Reads : q # r => answers'[q] = answers[q]
  BY <1>15 DEF Replied
<1>17. /\ AnswersOwn' /\ answers' \in Seq(Seq(Answer)) /\ Len(answers') = Len(reads)
       /\ nextBurst' \in Seq([ sel : { "dram", "flash" }, id : Reads ]) /\ Len(nextBurst') <= 2
       /\ byteCntResp' \in Nat
  BY <1>15 DEF Replied
<1>18. /\ DataIn' = DataIn
       /\ \A q : HeadReads(q)' = HeadReads(q) /\ FromDram(q)' = FromDram(q) /\ DramNext(q)' = DramNext(q)
  BY <1>6, <1>7 DEF DataIn, HeadReads, FromDram, DramNext
<1>19. 1 \in 1 .. Len(deqQ) /\ InDeq(r) /\ FromFlash(r)
  <2>1. 1 \in 1 .. Len(deqQ)
    BY <1>11
  <2> QED BY <1>9, <2>1 DEF InDeq, FromFlash
<1>20. ~ FromDram(r) /\ ~ Asks(r) /\ ~ IsFirst(r)
  BY <1>1, <1>16, <1>19 DEF PlacesInv, OnePlace
<1>21. BurstsInv' /\ (\A q : q # r => Bursting(q)' = Bursting(q)) /\ (byteCntResp' # 0 => Bursting(r)')
  <2>1. byteCntResp' # 0 => deqQ' = deqQ /\ (nextBurst[1].sel = "dram" => DramNext(r)')
    BY <1>4, <1>6
  <2>2. Len(deqQ) > 1 /\ byteCntResp' = 0 => Len(deqQ') > 0 /\ deqQ'[1] = deqQ[2]
    <3> SUFFICES ASSUME Len(deqQ) > 1, byteCntResp' = 0 PROVE Len(deqQ') > 0 /\ deqQ'[1] = deqQ[2]
      OBVIOUS
    <3>1. n > 1
      BY <1>29
    <3>2. 1 \in 1 .. n - 1 /\ n - 1 > 0 /\ 1 + 1 = 2
      BY <3>1
    <3>3. deqQ' = Tail(deqQ)
      BY <1>6
    <3> QED BY <1>29, <3>2, <3>3
  <2>3. byteCntResp' = 0 => IF nextBurst[1].sel = "flash"
                             THEN Len(deqQ) > 1 => Len(deqQ') > 0 /\ deqQ'[1] = deqQ[2]
                             ELSE deqQ' = deqQ
    BY <1>4, <2>2
  <2>4. \A q : q # r /\ DramNext(q) => DramNext(q)'
    BY <1>18
  <2> QED BY <1>2, <1>3, <1>13, <1>14, <2>1, <2>3, <2>4, ReplyBursts
<1>22. deqQ' \in Seq(Reads)
  BY <1>6, <1>10, <1>11
<1>23. ReadTypes'
  BY <1>1, <1>6, <1>7, <1>17, <1>22 DEF ReadTypes, Values
<1>24. PlacesInv' /\ (\A q : FromFlash(q)' => FromFlash(q)) /\ (byteCntResp' = 0 => ~ FromFlash(r)')
  <2>1. CASE byteCntResp' # 0
    <3>1. deqQ' = deqQ
      BY <1>6, <2>1
    <3>2. PlacesInv' /\ \A q : FromFlash(q)' => FromFlash(q)
      BY <1>1, <1>6, <1>7, <1>18, <3>1, PlacesStay
    <3> QED BY <2>1, <3>2
  <2>2. CASE byteCntResp' = 0
    <3>1. deqQ' = Tail(deqQ)
      BY <1>6, <2>2
    <3>2. n = Len(deqQ) /\ Len(deqQ') = n - 1 /\ \A k \in 1 .. n - 1 : deqQ'[k] = deqQ[k + 1]
      BY <1>29, <3>1
    <3>3. ASSUME NEW k \in 1 .. n - 1 PROVE k + 1 \in 1 .. n /\ k + 1 # 1 /\ k \in Nat
      OBVIOUS
    <3>4. \A k, l \in 1 .. n : deqQ[k] = deqQ[l] => k = l
      BY <1>1, <3>2 DEF PlacesInv, DeqOnce
    <3>5. ASSUME NEW q, InDeq(q)' PROVE InDeq(q) /\ q # r
      <4>1. PICK k \in 1 .. n - 1 : deqQ'[k] = q
        BY <3>2, <3>5 DEF InDeq
      <4>2. PICK j \in 1 .. n : j = k + 1 /\ j # 1 /\ deqQ[j] = q
        BY <3>2, <3>3, <4>1
      <4>3. 1 \in 1 .. n
        OBVIOUS
      <4> QED BY <1>9, <3>2, <3>4, <4>2, <4>3 DEF InDeq
    <3>6. DeqOnce'
      <4>1. ASSUME NEW k \in 1 .. n - 1, NEW l \in 1 .. n - 1, deqQ'[k] = deqQ'[l] PROVE k = l
        <5>1. PICK i, j \in 1 .. n : i = k + 1 /\ j = l + 1
          BY <3>3
        <5>2. deqQ[i] = deqQ[j]
          BY <3>2, <4>1, <5>1
        <5>3. i = j
          BY <3>4, <5>2
        <5> QED BY <3>3, <5>1, <5>3
      <4> QED BY <3>2, <4>1 DEF DeqOnce
    <3>7. FirstOnce' /\ \A q : IsFirst(q)' => IsFirst(q)
      BY <1>1, <1>7, FirstStays DEF PlacesInv, FirstOnce
    <3>8. (\A q : Asks(q)' = Asks(q)) /\ AskOnce'
      BY <1>1, <1>6 DEF Asks, PlacesInv, AskOnce
    <3>9. \A q : FromFlash(q)' => FromFlash(q) /\ (q = r => FALSE)
      BY <1>20, <3>5, <3>7, <3>8 DEF FromFlash
    <3>10. OnePlace'
      BY <1>1, <1>7, <1>18, <3>5, <3>7, <3>8, <3>9 DEF PlacesInv, OnePlace
    <3> QED BY <3>6, <3>7, <3>8, <3>9, <3>10 DEF PlacesInv
  <2> QED BY <2>1, <2>2
<1>25. FlashAnswers'
  <2> SUFFICES ASSUME NEW q \in Reads, FromFlash(q)', ~ Bursting(q)' PROVE Len(answers'[q]) = 0
    BY <1>7 DEF FlashAnswers
  <2>1. q # r
    BY <1>21, <1>24
  <2>2. FromFlash(q) /\ ~ Bursting(q) /\ answers'[q] = answers[q]
    BY <1>16, <1>21, <1>24, <2>1
  <2> QED BY <1>1, <2>2 DEF FlashAnswers
<1>26. ASSUME NEW k \in 1 .. Len(dramReqQ'), dramReqQ'[k].rnw
       PROVE  DramReadInv(k, dramReqQ[k].id)'
  <2>1. PICK q : q = dramReqQ[k].id
    OBVIOUS
  <2>2. DramReadInv(k, q) /\ FromDram(q)
    BY <1>1, <1>7, <1>26, <2>1 DEF DramAnswers, FromDram
  <2>3. q \in Reads /\ q # r
    BY <1>20, <2>2 DEF DramReadInv
  <2>4. answers'[q] = answers[q] /\ Bursting(q)' = Bursting(q)
    BY <1>16, <1>21, <2>3
  <2>5. DramReadInv(k, q)'
    BY <1>6, <1>7, <1>18, <2>2, <2>4 DEF DramReadInv
  <2> QED BY <1>7, <2>1, <2>5 DEF DramReadInv, Bursting, HeadReads
<1>27. ASSUME DataIn' PROVE DataInv(dataQ[1].id)'
  <2>1. PICK q : q = dataQ[1].id
    OBVIOUS
  <2>2. DataInv(q) /\ FromDram(q)
    BY <1>1, <1>18, <1>27, <2>1 DEF DramAnswers, FromDram
  <2>3. q \in Reads /\ q # r
    BY <1>20, <2>2 DEF DataInv
  <2>4. answers'[q] = answers[q] /\ Bursting(q)' = Bursting(q)
    BY <1>16, <1>21, <2>3
  <2>5. DataInv(q)'
    BY <1>6, <1>7, <1>18, <2>2, <2>4 DEF DataInv
  <2> QED BY <1>6, <2>1, <2>5 DEF DataInv, HeadReads, Bursting, SizeOf
<1>28. DramAnswers'
  BY <1>26, <1>27 DEF DramAnswers
<1> QED BY <1>7, <1>17, <1>21, <1>23, <1>24, <1>25, <1>28 DEF ReadInv, AnswersInv

-----------------------------------------------------------------------------
(* The beginning.                                                          *)
LEMMA WriterInit ==
  ASSUME StoreInit
  PROVE  WriterInv
<1>1. wrote = << >> /\ Len(wrote) = 0 /\ Values = {}
  BY DEF StoreInit, Values
<1>2. ValuesInv
  <2>1. superPageCnt \in Nat /\ currBuf \in Bufs
    BY DEF StoreInit, Bufs
  <2>2. used \in [ Bufs -> 0 .. NumPages ]
    BY PagesNat DEF StoreInit
  <2>3. writeLocks \in [ Bufs -> BOOLEAN ] /\ clean \in [ Bufs -> BOOLEAN ]
    BY DEF StoreInit
  <2>4. wrote \in Seq([ addr : Nat, size : 1 .. NumPages ])
    BY <1>1
  <2> QED BY <1>1, <2>1, <2>2, <2>3, <2>4 DEF ValuesInv
<1>3. RequestsInv
  <2>1. reqQ \in Requests /\ reqQ \in Seq([ rnw : BOOLEAN, n : Nat ])
    BY FlashStoreAssumption DEF StoreInit
  <2>2. SubSeq(reqQ, 0 + 1, Len(reqQ)) = reqQ /\ 0 \in 0 .. Len(reqQ)
    BY <2>1
  <2>3. WritesOf(reqQ, 0) = {}
    BY DEF WritesOf
  <2> QED BY <1>1, <2>1, <2>2, <2>3, FS_EmptySet DEF RequestsInv
<1>4. FlushInv
  <2>1. 1 - currBuf \in Bufs /\ currBuf \in Bufs
    BY DEF StoreInit, Bufs
  <2>2. clean[1 - currBuf] /\ ~ writeLocks[currBuf] /\ ~ writeLocks[1 - currBuf] /\ used[1 - currBuf] = 0
    BY <2>1 DEF StoreInit
  <2> QED BY <2>2 DEF StoreInit, FlushInv
<1> QED BY <1>2, <1>3, <1>4 DEF WriterInv

LEMMA DramInit ==
  ASSUME StoreInit
  PROVE  DramInv
<1>1. wrote = << >> /\ Values = {} /\ dramReqQ = << >> /\ byteCnt = 0 /\ Len(dramReqQ) = 0
  BY DEF StoreInit, Values
<1>2. dram \in [ Bufs -> [ 0 .. NumPages - 1 -> Data ] ]
  BY DEF StoreInit, Data
<1>3. dramReqQ \in Seq(DramRequest)
  BY <1>1
<1>4. DramTypes
  BY <1>1, <1>2, <1>3 DEF DramTypes
<1> QED BY <1>1, <1>4 DEF DramInv, WritesInOrder, BuffersHold, ReadsHeld

LEMMA EraseInit ==
  ASSUME StoreInit
  PROVE  ErasePtrsInv
<1>1. PICK n \in 0 .. Blocks - 1 : nextPhysPtr = [ c \in Chips |-> n ]
  BY DEF StoreInit, ServerInit
<1>2. 0 \in 0 .. Blocks - 1
  BY PagesNat
<1>3. ServerTypes
  <2>1. bad \in BadBlocks /\ panic = FALSE /\ state = "IDLE" /\ respMax = 0 /\ respCnt = 0
        /\ chipCnt = 0 /\ eraseAcks = << >>
    BY DEF StoreInit, ServerInit
  <2>2. flash \in [ Chips -> [ 0 .. Blocks - 1 -> [ 0 .. PagesPerBlock - 1 -> Data ] ] ]
    BY DEF StoreInit, ServerInit, Data
  <2>3. chipQ \in [ Chips -> Seq(Cmd) ] /\ eraseStatus \in [ Chips -> BOOLEAN ]
        /\ pagesWritten \in [ Chips -> Nat ]
    BY DEF StoreInit, ServerInit
  <2>4. blockMap \in [ Chips -> [ 0 .. Blocks - 1 -> 0 .. Blocks - 1 ] ]
        /\ nextErasePtr \in [ Chips -> 0 .. Blocks - 1 ] /\ nextPhysPtr \in [ Chips -> 0 .. Blocks - 1 ]
    BY <1>1, <1>2 DEF StoreInit, ServerInit
  <2>5. chipCnt \in Chips
    BY <2>1, PagesNat DEF Chips
  <2>6. eraseAcks \in Seq([ chip : Chips, ok : BOOLEAN ])
    BY <2>1
  <2> QED BY <2>1, <2>2, <2>3, <2>4, <2>5, <2>6 DEF ServerTypes
<1>4. \A c \in Chips : chipQ[c] = << >> /\ ErasingAt(c) = {} /\ AckedAt(c) = {}
  <2> TAKE c \in Chips
  <2>1. chipQ[c] = << >> /\ eraseAcks = << >>
    BY DEF StoreInit, ServerInit
  <2>2. Len(chipQ[c]) = 0 /\ Len(eraseAcks) = 0
    BY <2>1
  <2> QED BY <2>1, <2>2 DEF ErasingAt, AckedAt
<1>5. \A c \in Chips : nextErasePtr[c] = 0 /\ Mapped(c) = {}
  BY DEF StoreInit, ServerInit, Mapped
<1>6. state = "IDLE" /\ chipCnt = 0 /\ respCnt = 0
  BY DEF StoreInit, ServerInit
<1>7. InFlight = {}
  BY <1>4 DEF InFlight
<1>8. RoundInv
  BY <1>2, <1>5, <1>6, <1>7 DEF RoundInv
<1>9. ErasingInv
  BY <1>4, <1>7 DEF ErasingInv
<1>10. MapInv
  <2> SUFFICES ASSUME NEW c \in Chips
               PROVE  /\ \A v \in 0 .. nextErasePtr[c] - 1 : << c, blockMap[c][v] >> \notin bad
                      /\ Fresh(c, 0)
    BY <1>2 DEF MapInv
  <2>1. \A v \in 0 .. nextErasePtr[c] - 1 : FALSE
    BY <1>5
  <2>2. \A j \in Blocks - 0 .. Blocks - 1 : FALSE
    BY PagesNat
  <2> QED BY <1>5, <2>1, <2>2 DEF Fresh
<1> QED BY <1>3, <1>8, <1>9, <1>10 DEF ErasePtrsInv, EraseInv

LEMMA ProgramInit ==
  ASSUME StoreInit
  PROVE  ProgramInv /\ Issued = 0
<1>1. Issued = 0
  BY PagesNat DEF StoreInit, Issued, NoFlush
<1>2. \A c \in Chips : chipQ[c] = << >> /\ Len(chipQ[c]) = 0
  BY DEF StoreInit, ServerInit
<1>3. \A c \in Chips : \A k \in Nat \ {0} : ~ WriteAt(c, k)
  BY <1>2 DEF WriteAt
<1>4. flush.step # "pages" /\ writeTagQ = << >> /\ dataQ = << >>
  BY DEF StoreInit, NoFlush
<1>5. PagesIssued
  <2>1. 0 \in Nat /\ 0 \in Chips /\ Issued = 0 * NumChips + 0
    BY <1>1, PagesNat DEF Chips
  <2>2. \A c \in Chips : pagesWritten[c] = 0 /\ ~ (c < 0)
    BY PagesNat DEF StoreInit, ServerInit, Chips
  <2> QED BY <2>1, <2>2 DEF PagesIssued
<1>6. IssuedMapped /\ Stored
  BY <1>1 DEF IssuedMapped, Stored
<1>7. WritesInv
  BY <1>3, <1>4 DEF WritesInv, Unread
<1>8. TagsInv
  <2>1. writeTagQ \in Seq(Chips) /\ Len(writeTagQ) = 0 /\ ToSet(writeTagQ) = {}
    BY <1>4 DEF ToSet
  <2> QED BY <2>1 DEF TagsInv
<1>9. DataQTypes /\ DataToFlash
  BY <1>4 DEF DataQTypes, DataToFlash, DataFor
<1>10. ReadsBehindWrites
  BY <1>2 DEF ReadsBehindWrites
<1> QED BY <1>1, <1>5, <1>6, <1>7, <1>8, <1>9, <1>10 DEF ProgramInv

LEMMA ReadsInit ==
  ASSUME StoreInit
  PROVE  ReadInv
<1>1. /\ reads = << >> /\ Len(reads) = 0 /\ answers = << >> /\ Len(answers) = 0
      /\ deqQ = << >> /\ Len(deqQ) = 0 /\ nextBurst = << >> /\ Len(nextBurst) = 0
      /\ readQ = << >> /\ Len(readQ) = 0 /\ immQ = << >> /\ Len(immQ) = 0 /\ arrived = {}
      /\ byteCntResp = 0 /\ dataQ = << >> /\ dramReqQ = << >> /\ Len(dramReqQ) = 0
  BY DEF StoreInit
<1>2. \A c \in Chips : Len(chipQ[c]) = 0
  BY DEF StoreInit, ServerInit
<1>3. ReadTypes
  BY <1>1 DEF ReadTypes
<1>4. Reads = {}
  BY <1>1 DEF Reads
<1>5. ReadersInv
  BY <1>1, <1>2 DEF ReadersInv, ReadQInv, ImmInv, ChipReadsInv, ReadAt, ArrivedInv
<1>6. PlacesInv
  BY <1>1, <1>4 DEF PlacesInv, OnePlace, AskOnce, FirstOnce, DeqOnce
<1>7. BurstsInv /\ FlashAnswers /\ AnswersOwn
  BY <1>1, <1>4 DEF BurstsInv, FlashAnswers, AnswersOwn
<1>8. DramAnswers
  BY <1>1 DEF DramAnswers, DataIn
<1> QED BY <1>3, <1>5, <1>6, <1>7, <1>8 DEF ReadInv, AnswersInv

LEMMA StoreInitInv ==
  ASSUME StoreInit
  PROVE  StoreInv
BY WriterInit, DramInit, EraseInit, ProgramInit, ReadsInit DEF StoreInv, CoreInv

-----------------------------------------------------------------------------
(* The steps.                                                              *)
LEMMA WriteBufferInv ==
  ASSUME StoreInv, WriteBuffer
  PROVE  StoreInv'
<1>1. CoreInv /\ ReadInv /\ Len(reads) \in Nat
  BY LenProperties DEF StoreInv, ReadInv, ReadTypes
<1>2. CASE doWriteBuf
  BY <1>1, <1>2, WriteBufCore, WriteBufReads DEF StoreInv
<1>3. CASE doUnlockBuf
  BY <1>1, <1>3, UnlockCore, UnlockReads DEF StoreInv
<1>4. CASE doReadCmd
  BY <1>1, <1>4, ReadCmdCore, ReadCmdReads DEF StoreInv
<1>5. CASE driveDRAMWriteCmd
  BY <1>1, <1>5, DramWriteCore, DramWriteReads DEF StoreInv
<1>6. CASE driveDRAMReadCmd
  BY <1>1, <1>6, DramReadCore, DramReadReads DEF StoreInv
<1>7. CASE arbitRespDram
  BY <1>1, <1>7, ArbitDramReads DEF StoreInv
<1>8. CASE arbitRespFlash
  BY <1>1, <1>8, ArbitFlashReads DEF StoreInv
<1>9. CASE doBurstDram
  BY <1>1, <1>9, BurstDramReads DEF StoreInv
<1>10. CASE doBurstFlash
  BY <1>1, <1>10, BurstFlashReads DEF StoreInv
<1> QED BY <1>2, <1>3, <1>4, <1>5, <1>6, <1>7, <1>8, <1>9, <1>10 DEF WriteBuffer

LEMMA FlashWriterInv ==
  ASSUME StoreInv, FlashWriter
  PROVE  StoreInv'
<1>1. CoreInv /\ ReadInv
  BY DEF StoreInv
<1>2. CASE FlushReserve
  BY <1>1, <1>2, FlushReserveCore, ReserveReads DEF StoreInv
<1>3. CASE FlushTags
  BY <1>1, <1>3, FlushTagsCore, FlushTagsReads DEF StoreInv
<1>4. CASE doFlashCmds
  BY <1>1, <1>4, FlashCmdsReads DEF StoreInv
<1>5. CASE doFlashWriteReq
  BY <1>1, <1>5, WriteReqCore, WriteReqReads DEF StoreInv
<1>6. CASE doWriteDta
  BY <1>1, <1>6, WriteDtaCore, WriteDtaReads DEF StoreInv
<1>7. ASSUME NEW c \in Chips, writeTags(c) PROVE StoreInv'
  BY <1>1, <1>7, TagsCore, TagsReads DEF StoreInv
<1>8. ASSUME NEW c \in Chips, doWriteAck(c) PROVE StoreInv'
  BY <1>1, <1>8, WriteAckCore, WriteAckReads DEF StoreInv
<1> QED BY <1>2, <1>3, <1>4, <1>5, <1>6, <1>7, <1>8 DEF FlashWriter

LEMMA FlashReaderInv ==
  ASSUME StoreInv, FlashReader
  PROVE  StoreInv'
<1>1. CoreInv /\ ReadInv
  BY DEF StoreInv
<1>2. CASE doReaderCmd
  BY <1>1, <1>2, ReaderCmdCore, ReaderCmdReads DEF StoreInv
<1>3. CASE doFlashCmd
  BY <1>1, <1>3, FlashCmdCore, FlashCmdReads DEF StoreInv, ReadInv
<1>4. ASSUME NEW c \in Chips, doDistributeData(c) PROVE StoreInv'
  BY <1>1, <1>4, DistributeCore, DistributeReads DEF StoreInv
<1> QED BY <1>2, <1>3, <1>4 DEF FlashReader

LEMMA StoreStutter ==
  ASSUME StoreInv, UNCHANGED << store_vars, server_vars >>
  PROVE  StoreInv'
<1>1. CoreInv /\ ReadInv
  BY DEF StoreInv
<1>2. /\ UNCHANGED core_view /\ UNCHANGED << reqQ, write_vars, flushReqQ, flush, flushRespQ >>
      /\ UNCHANGED << wrote, superPageCnt, currBuf, dram, dramReqQ, byteCnt, dataQ >>
  BY DEF store_vars, write_vars, dram_vars, flush_vars, server_vars, eraser, chips, core_view, erase_view
<1>3. WriterInv' /\ DramInv'
  BY <1>1, <1>2, WriterFrame, DramFrame DEF CoreInv
<1>4. CoreInv'
  BY <1>1, <1>2, <1>3, CoreSame
<1>5. Issued' = Issued
  BY <1>2 DEF core_view, Issued
<1>6. UNCHANGED << read_view, wrote, early, map_view, dataQ, chipQ >>
  BY DEF map_view, store_vars, write_vars, dram_vars, flush_vars, read_vars, burst_vars, server_vars, eraser, chips, read_view
<1> QED BY <1>1, <1>4, <1>5, <1>6, SameQueueReads, ReadsSame DEF StoreInv

LEMMA StoreNextInv ==
  ASSUME StoreInv, [StoreNext]_<< store_vars, server_vars >>
  PROVE  StoreInv'
<1>1. ASSUME EraseAhead PROVE StoreInv'
  BY <1>1, EraseReads DEF EraseAhead, StoreInv
<1> QED BY <1>1, WriteBufferInv, FlashWriterInv, FlashReaderInv, StoreStutter DEF StoreNext

-----------------------------------------------------------------------------
(* The invariant of the store.                                             *)
THEOREM StoreInvHolds == StoreSpec => []StoreInv
<1>1. StoreInit => StoreInv
  BY StoreInitInv
<1>2. StoreInv /\ [StoreNext]_<< store_vars, server_vars >> => StoreInv'
  BY StoreNextInv
<1> QED BY <1>1, <1>2, PTL DEF StoreSpec

(* Whatever is written and read, and however the chips, the buffers and    *)
(* the answers from DRAM and from flash overtake each other, a read gets   *)
(* the pages of its own value in their order (doReadCmd and doBurst of     *)
(* WriteBuffer.bsv), whatever blocks fail to erase.                        *)
(* Excused are a value of which FlashWriter read a page before the words   *)
(* of it were in DRAM, and a page whose block was erased while in use.     *)
THEOREM ReadsOwnValueHolds == StoreSpec => []ReadsOwnValue
<1>1. StoreInv => ReadsOwnValue
  BY DEF StoreInv, ReadInv, AnswersInv, AnswersOwn, ReadsOwnValue, Excused, Lost, Addr
<1> QED BY <1>1, StoreInvHolds, PTL

-----------------------------------------------------------------------------
(* Blocks erased while they are in use.                                    *)
LEMMA ErasedAgainIs ==
  ASSUME ErasePtrsInv
  PROVE  ErasedAgainOnlyIf
<1> SUFFICES ASSUME NEW c \in Chips, NEW b \in 0 .. Blocks - 1, ErasedAgain(c, b)
             PROVE  Tried(c)
  BY DEF ErasedAgainOnlyIf, Tried, InUseOrBad
<1>1. ServerTypes /\ MapInv
  BY DEF ErasePtrsInv, EraseInv
<1> SUFFICES ASSUME NEW n \in 0 .. Blocks - 1, Fresh(c, n)
             PROVE  FALSE
  BY <1>1 DEF MapInv
<1>2. \A v, w \in 0 .. nextErasePtr[c] - 1 : blockMap[c][v] = blockMap[c][w] => v = w
  BY DEF Fresh
<1>3. b \in Mapped(c) /\ b = nextPhysPtr[c]
  BY <1>2 DEF ErasedAgain
<1>4. Ahead(c, 0) = nextPhysPtr[c]
  <2>1. PICK p \in 0 .. Blocks - 1 : p = nextPhysPtr[c]
    BY <1>1 DEF ServerTypes
  <2>2. p % Blocks = p /\ p + 0 = p
    BY PagesNat, RoundNext
  <2> QED BY <2>1, <2>2 DEF Ahead
<1>5. 0 \in 0 .. Blocks - n - 1
  BY PagesNat
<1> QED BY <1>3, <1>4, <1>5 DEF Fresh

LEMMA UpToIs ==
  ASSUME NEW n \in Nat
  PROVE  IsFiniteSet(0 .. n - 1) /\ Cardinality(0 .. n - 1) = n
<1>1. n - 1 \in Int /\ (0 > n - 1 <=> n = 0) /\ n - 1 - 0 + 1 = n
  OBVIOUS
<1>2. IsFiniteSet(0 .. n - 1) /\ Cardinality(0 .. n - 1) = IF 0 > n - 1 THEN 0 ELSE n - 1 - 0 + 1
  BY <1>1, FS_Interval
<1> QED BY <1>1, <1>2

(* What a function of few arguments does not reach has two elements.       *)
LEMMA TwoLeft ==
  ASSUME NEW n \in Nat, NEW S, IsFiniteSet(S), Cardinality(S) + 2 <= n, NEW f, DOMAIN f = S
  PROVE  \E x, y \in 0 .. n - 1 : x # y /\ \A s \in S : f[s] # x /\ f[s] # y
<1>1. PICK T : T = { f[s] : s \in S }
  OBVIOUS
<1>2. IsFiniteSet(T) /\ Cardinality(T) <= Cardinality(S) /\ Cardinality(T) \in Nat
  <2>1. PICK g : g = [ s \in S |-> f[s] ]
    OBVIOUS
  <2>2. g \in Surjection(S, T)
    BY <1>1, <2>1 DEF Surjection
  <2> QED BY <2>2, FS_Surjection, FS_CardinalityType
<1>3. PICK R : R = (0 .. n - 1) \ T
  OBVIOUS
<1>4. IsFiniteSet(R) /\ Cardinality(R) >= 2
  <2>1. IsFiniteSet(0 .. n - 1) /\ Cardinality(0 .. n - 1) = n
    BY UpToIs
  <2>2. IsFiniteSet(R) /\ Cardinality(R) = n - Cardinality((0 .. n - 1) \cap T)
    BY <1>3, <2>1, FS_Difference
  <2>3. Cardinality((0 .. n - 1) \cap T) <= Cardinality(T)
        /\ Cardinality((0 .. n - 1) \cap T) \in Nat
    <3>1. (0 .. n - 1) \cap T \in SUBSET T
      OBVIOUS
    <3> QED BY <1>2, <3>1, FS_Subset, FS_CardinalityType
  <2>4. Cardinality(S) \in Nat
    BY FS_CardinalityType
  <2> QED BY <1>2, <2>2, <2>3, <2>4
<1>5. PICK x : x \in R
  BY <1>4, FS_EmptySet
<1>6. \E y : y \in R /\ y # x
  <2> SUFFICES ASSUME \A y : y \in R => y = x PROVE FALSE
    OBVIOUS
  <2>1. R = { x }
    BY <1>5
  <2> QED BY <1>4, <2>1, FS_Singleton
<1> QED BY <1>1, <1>3, <1>5, <1>6

(* Two blocks of a chip have failed to erase before one is erased again.   *)
LEMMA TwoBad ==
  ASSUME ErasePtrsInv, NEW c \in Chips, NEW b \in 0 .. Blocks - 1, ErasedAgain(c, b)
  PROVE  \E x, y \in 0 .. Blocks - 1 : x # y /\ << c, x >> \in bad /\ << c, y >> \in bad
<1>1. ServerTypes /\ RoundInv /\ ErasingInv
  BY DEF ErasePtrsInv, EraseInv
<1>2. PICK n \in 0 .. Blocks - 1 : n = nextErasePtr[c]
  BY <1>1 DEF ServerTypes
<1>3. PICK N \in Nat \ {0} : N = Blocks
  BY PagesNat
<1>4. PICK I : I = 0 .. n - 1 /\ IsFiniteSet(I) /\ Cardinality(I) = n
  BY <1>3, UpToIs
<1>5. \E S : /\ IsFiniteSet(S) /\ Cardinality(S) + 2 <= N
             /\ \A v \in 0 .. n - 1 : \E s \in S : blockMap[c][s] = blockMap[c][v]
  <2>1. CASE \E v, w \in 0 .. n - 1 : v # w /\ blockMap[c][v] = b /\ blockMap[c][w] = b
    <3>1. PICK v, w \in 0 .. n - 1 : v # w /\ blockMap[c][v] = b /\ blockMap[c][w] = b
      BY <2>1
    <3>2. PICK S : S = I \ { w }
      OBVIOUS
    <3>3. IsFiniteSet(S) /\ Cardinality(S) = n - 1
      <4>1. w \in I
        BY <1>4, <3>1
      <4>2. /\ IsFiniteSet(I \ { w })
            /\ Cardinality(I \ { w }) = IF w \in I THEN Cardinality(I) - 1 ELSE Cardinality(I)
        BY <1>4, FS_RemoveElement
      <4> QED BY <1>4, <3>2, <4>1, <4>2
    <3>4. \A u \in 0 .. n - 1 : \E s \in S : blockMap[c][s] = blockMap[c][u]
      BY <1>4, <3>1, <3>2
    <3>5. Cardinality(S) + 2 <= N
      BY <1>3, <3>3
    <3> QED BY <3>3, <3>4, <3>5
  <2>2. CASE \E k \in 1 .. Len(eraseAcks) : eraseAcks[k].chip = c
    <3>1. c \in InFlight
      BY <2>2 DEF InFlight, AckedAt
    <3>2. state # "IDLE" /\ ~ eraseStatus[c]
      BY <1>1, <3>1 DEF RoundInv, ErasingInv
    <3>3. n \in 0 .. Blocks - 2
      BY <1>1, <1>2, <3>2 DEF RoundInv
    <3>4. Cardinality(I) + 2 <= N
      BY <1>3, <1>4, <3>3
    <3> QED BY <1>4, <3>4
  <2> QED BY <1>2, <2>1, <2>2 DEF ErasedAgain
<1>6. PICK S : /\ IsFiniteSet(S) /\ Cardinality(S) + 2 <= N
               /\ \A v \in 0 .. n - 1 : \E s \in S : blockMap[c][s] = blockMap[c][v]
  BY <1>5
<1>7. PICK f : f = [ s \in S |-> blockMap[c][s] ]
  OBVIOUS
<1>8. PICK x, y \in 0 .. N - 1 : x # y /\ \A s \in S : f[s] # x /\ f[s] # y
  <2>1. DOMAIN f = S /\ N \in Nat
    BY <1>7
  <2>2. IsFiniteSet(S) /\ Cardinality(S) + 2 <= N
    BY <1>6
  <2> QED BY <2>1, <2>2, TwoLeft, SMTT(30)
<1>9. x \notin Mapped(c) /\ y \notin Mapped(c)
  BY <1>2, <1>6, <1>7, <1>8 DEF Mapped
<1>10. << c, x >> \in bad /\ << c, y >> \in bad
  BY <1>3, <1>8, <1>9, ErasedAgainIs DEF ErasedAgainOnlyIf
<1> QED BY <1>3, <1>8, <1>10

(* doEraseAck of FlashServer.bsv goes to the next block of a chip whether  *)
(* it is in use or not.  A block in use is erased only on a chip that has  *)
(* no other: all of its blocks are in use or have failed to erase.         *)
THEOREM ErasedAgainOnlyIfHolds == StoreSpec => []ErasedAgainOnlyIf
<1>1. StoreInv => ErasedAgainOnlyIf
  BY ErasedAgainIs DEF StoreInv, CoreInv
<1> QED BY <1>1, StoreInvHolds, PTL

(* When no two blocks of a chip fail to erase, no block is erased while it *)
(* is in use, so that ReadsOwnValue excuses early values only.             *)
THEOREM OneBadBlock ==
  ASSUME \A s \in BadBlocks : \A c \in Chips : \A x, y \in 0 .. Blocks - 1 :
           << c, x >> \in s /\ << c, y >> \in s => x = y
  PROVE  StoreSpec => [](\A c \in Chips : \A b \in 0 .. Blocks - 1 : ~ ErasedAgain(c, b))
<1>1. StoreInv => \A c \in Chips : \A b \in 0 .. Blocks - 1 : ~ ErasedAgain(c, b)
  <2> SUFFICES ASSUME StoreInv, NEW c \in Chips, NEW b \in 0 .. Blocks - 1, ErasedAgain(c, b)
               PROVE  FALSE
    OBVIOUS
  <2>1. PICK x, y \in 0 .. Blocks - 1 : x # y /\ << c, x >> \in bad /\ << c, y >> \in bad
    BY TwoBad DEF StoreInv, CoreInv
  <2>2. bad \in BadBlocks
    BY DEF StoreInv, CoreInv, ErasePtrsInv, ServerTypes
  <2> QED BY <2>1, <2>2
<1> QED BY <1>1, StoreInvHolds, PTL

(* $finish of FlashServer.bsv is never reached: the writer's pages come in *)
(* the order of the blocks, chip by chip, though the tags, the chips and   *)
(* the erasing run at their own pace.                                      *)
THEOREM BlocksInSequence == StoreSpec => [](panic = FALSE)
<1>1. StoreInv => panic = FALSE
  BY DEF StoreInv, CoreInv, ErasePtrsInv, ServerTypes
<1> QED BY <1>1, StoreInvHolds, PTL
=============================================================================
