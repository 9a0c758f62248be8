--------------------------- MODULE HashtableProofs ---------------------------
(***************************************************************************)
(* Proofs about the hash table pipeline, for any number of ways, rows,     *)
(* requests and stages: its inductive invariant, and that it implements    *)
(* the atomic table.                                                       *)
(***************************************************************************)
EXTENDS Hashtable, HeaderLogicProofs

Inv == TypeOK /\ IInv

-----------------------------------------------------------------------------
(* What enqueueing and dequeueing do to a queue. *)
LEMMA EnqElements ==
  ASSUME NEW S, NEW q \in Seq(S), NEW e \in S
  PROVE  /\ Append(q, e) \in Seq(S)
         /\ Len(Append(q, e)) = Len(q) + 1
         /\ Len(q) + 1 \in 1 .. Len(Append(q, e))
         /\ Append(q, e)[Len(q) + 1] = e
         /\ \A p \in 1 .. Len(q) :
              /\ p \in 1 .. Len(Append(q, e))
              /\ p # Len(q) + 1
              /\ p < Len(q) + 1
              /\ ~ (Len(q) + 1 < p)
              /\ Append(q, e)[p] = q[p]
         /\ \A p \in 1 .. Len(Append(q, e)) :
              p \in 1 .. Len(q) \/ p = Len(q) + 1
OBVIOUS

LEMMA DeqElements ==
  ASSUME NEW S, NEW q \in Seq(S), q # << >>
  PROVE  /\ Tail(q) \in Seq(S)
         /\ Len(Tail(q)) = Len(q) - 1
         /\ 1 \in 1 .. Len(q)
         /\ \A p \in 1 .. Len(Tail(q)) :
              p + 1 \in 1 .. Len(q) /\ 1 < p + 1 /\ Tail(q)[p] = q[p + 1]
         /\ \A p \in 1 .. Len(q) :
              \/ p = 1
              \/ p - 1 \in 1 .. Len(Tail(q)) /\ q[p] = Tail(q)[p - 1]
OBVIOUS

(* How far each stage has come. *)
LEMMA Lengths ==
  ASSUME TypeOK
  PROVE  /\ Len(reqs) \in Nat /\ Len(dramQ) \in Nat /\ Len(rows) \in Nat
         /\ Len(hdrs) \in Nat /\ Len(stages) \in Nat /\ Len(resps) \in Nat
         /\ Len(addrQ) \in Nat /\ Len(wrs) \in Nat
         /\ nCmd \in Nat /\ nRd \in Nat /\ taken \in Nat
         /\ nStored \in Nat /\ nWrArb \in Nat /\ nAck \in Nat
BY DEF TypeOK

LEMMA ReqType ==
  ASSUME TypeOK, NEW i \in 1 .. Len(reqs)
  PROVE  reqs[i] \in Requests /\ reqs[i].hv \in Rows
<1>1. reqs[i] \in Requests
  BY DEF TypeOK
<1> QED BY <1>1, HeaderAssumption DEF Request

-----------------------------------------------------------------------------
LEMMA doDRAMCmdInv ==
  ASSUME Inv, doDRAMCmd
  PROVE  Inv'
<1> USE DEF Inv, IInv, Counters
<1>1. TypeOK'
  BY DEF doDRAMCmd, TypeOK
<1>2. Counters'
  BY SMTT(30) DEF doDRAMCmd, TypeOK
<1>3. ScoreboardExclusive'
  <2>1. /\ nAck \in Nat /\ nCmd \in Nat /\ nCmd' = nCmd + 1 /\ nAck' = nAck
        /\ reqs' = reqs
    BY DEF doDRAMCmd, TypeOK
  <2>2. \A i \in sFifo : reqs[i].hv # reqs[nCmd + 1].hv
    BY DEF doDRAMCmd, search
  <2>3. \A i \in sFifo' : i \in sFifo \/ i = nCmd + 1
    BY <2>1 DEF sFifo
  <2> SUFFICES ASSUME NEW i \in sFifo', NEW j \in sFifo',
                      reqs[i].hv = reqs[j].hv
               PROVE  i = j
    BY <2>1 DEF ScoreboardExclusive
  <2> QED
    BY <2>2, <2>3 DEF ScoreboardExclusive
<1>4. DramQRange' /\ DramQComplete' /\ DramQOrder' /\ WriteBeforeRead'
  BY DEF doDRAMCmd, DramQRange, DramQComplete, DramQOrder, WriteBeforeRead,
         Queued
<1>5. OnePendingPerRow' /\ NoStaleRow'
  <2>1. \A i : Pending(i)' <=> Pending(i)
    BY DEF doDRAMCmd, Pending, Queued
  <2> QED BY <2>1 DEF doDRAMCmd, OnePendingPerRow, NoStaleRow
<1>6. Data' /\ AddrQRange' /\ AddrQComplete' /\ AddrQOrder'
      /\ StoredBeforeWritten' /\ OwnAddress'
  BY DEF doDRAMCmd, Data, AddrQRange, AddrQComplete, AddrQOrder,
         StoredBeforeWritten, OwnAddress
<1> QED
  BY <1>1, <1>2, <1>3, <1>4, <1>5, <1>6

LEMMA doArbRespRdInv ==
  ASSUME Inv, doArbRespRd
  PROVE  Inv'
<1> USE DEF Inv, IInv, Counters
<1> DEFINE c == [ rnw |-> TRUE, i |-> nRd + 1 ]
           n == Len(dramQ) + 1
<1>1. c \in Command /\ dramQ \in Seq(Command) /\ dramQ' = Append(dramQ, c)
  BY DEF doArbRespRd, TypeOK, Command
<1>2. TypeOK'
  BY <1>1 DEF doArbRespRd, TypeOK
<1>3. Counters'
  BY DEF doArbRespRd, TypeOK
<1>4. /\ n \in 1 .. Len(dramQ') /\ dramQ'[n] = c
      /\ \A p \in 1 .. Len(dramQ) :
           p \in 1 .. Len(dramQ') /\ p < n /\ ~ (n < p) /\ dramQ'[p] = dramQ[p]
      /\ \A p \in 1 .. Len(dramQ') : p \in 1 .. Len(dramQ) \/ p = n
  BY <1>1, EnqElements
<1>5. /\ nRd \in Nat /\ nRd' = nRd + 1 /\ ~ (n < n) /\ Len(rows) \in Nat
      /\ UNCHANGED << rows, nWrArb, wrs, reqs, stages >>
  BY <1>1 DEF doArbRespRd, TypeOK
<1> HIDE DEF n
<1>6. DramQRange'
  <2> SUFFICES ASSUME NEW p \in 1 .. Len(dramQ')
               PROVE  IF dramQ'[p].rnw
                      THEN dramQ'[p].i \in Len(rows) + 1 .. nRd + 1
                      ELSE /\ dramQ'[p].i \in 1 .. nWrArb
                           /\ wrs[dramQ'[p].i].doWrite
    BY <1>5 DEF DramQRange
  <2>1. CASE p = n
    <3>1. dramQ'[p].rnw = TRUE /\ dramQ'[p].i = nRd + 1
      BY <2>1, <1>4
    <3>2. nRd + 1 \in Len(rows) + 1 .. nRd + 1
      BY <1>5
    <3> QED BY <3>1, <3>2
  <2>2. CASE p \in 1 .. Len(dramQ)
    <3>1. dramQ'[p] = dramQ[p]
      BY <2>2, <1>4
    <3> QED BY <3>1, <2>2, <1>5 DEF DramQRange
  <2> QED BY <2>1, <2>2, <1>4
<1>7. \A e : Queued(e)' <=> Queued(e) \/ e = c
  BY <1>4 DEF Queued
<1>8. DramQComplete'
  <2>1. \A i \in Len(rows) + 1 .. nRd + 1 :
          i \in Len(rows) + 1 .. nRd \/ i = nRd + 1
    BY <1>5
  <2> QED BY <2>1, <1>5, <1>7 DEF DramQComplete
<1>9. DramQOrder'
  <2> SUFFICES ASSUME NEW p \in 1 .. Len(dramQ'), NEW q \in 1 .. Len(dramQ'),
                      p < q
               PROVE  /\ dramQ'[p] # dramQ'[q]
                      /\ dramQ'[p].rnw /\ dramQ'[q].rnw
                         => dramQ'[p].i < dramQ'[q].i
    BY DEF DramQOrder
  <2>1. CASE q \in 1 .. Len(dramQ)
    <3>1. p \in 1 .. Len(dramQ)
      BY <1>4, <2>1
    <3> QED BY <1>4, <2>1, <3>1 DEF DramQOrder
  <2>2. CASE q = n
    <3>1. p \in 1 .. Len(dramQ) /\ dramQ'[p] = dramQ[p]
      BY <1>4, <1>5, <2>2
    <3>2. dramQ[p].rnw => dramQ[p].i < nRd + 1
      BY <1>5, <3>1, SMTT(30) DEF DramQRange
    <3>3. dramQ'[q].rnw = TRUE /\ dramQ'[q].i = nRd + 1
      BY <2>2, <1>4
    <3> QED BY <1>5, <3>1, <3>2, <3>3
  <2> QED BY <1>4, <2>1, <2>2
<1>10. WriteBeforeRead'
  <2> SUFFICES ASSUME NEW p \in 1 .. Len(dramQ'), NEW q \in 1 .. Len(dramQ'),
                      dramQ'[p].rnw, ~ dramQ'[q].rnw,
                      reqs[dramQ'[p].i].hv = reqs[dramQ'[q].i].hv
               PROVE  q < p
    BY <1>5 DEF WriteBeforeRead
  <2>1. q \in 1 .. Len(dramQ) /\ dramQ'[q] = dramQ[q]
    BY <1>4
  <2>2. CASE p \in 1 .. Len(dramQ)
    BY <1>4, <2>1, <2>2 DEF WriteBeforeRead
  <2>3. CASE p = n
    BY <1>4, <2>1, <2>3
  <2> QED BY <1>4, <2>2, <2>3
<1>11. \A i : Pending(i)' <=> Pending(i)
  BY <1>5, <1>7 DEF Pending
<1>12. OnePendingPerRow' /\ NoStaleRow'
  BY <1>11 DEF doArbRespRd, OnePendingPerRow, NoStaleRow
<1>13. Data' /\ ScoreboardExclusive' /\ AddrQRange' /\ AddrQComplete'
        /\ AddrQOrder' /\ StoredBeforeWritten' /\ OwnAddress'
  BY DEF doArbRespRd, Data, ScoreboardExclusive, sFifo, AddrQRange,
         AddrQComplete, AddrQOrder, StoredBeforeWritten, OwnAddress
<1> QED
  BY <1>2, <1>3, <1>6, <1>8, <1>9, <1>10, <1>12, <1>13

-----------------------------------------------------------------------------
(* The head of the command queue leaves it. *)
LEMMA DramQDequeue ==
  ASSUME Inv, dramQ # << >>, dramQ' = Tail(dramQ), reqs' = reqs
  PROVE  /\ dramQ[1] \in Command
         /\ \A p \in 1 .. Len(dramQ') :
              p + 1 \in 1 .. Len(dramQ) /\ 1 < p + 1 /\ dramQ'[p] = dramQ[p + 1]
         /\ DramQOrder'
         /\ WriteBeforeRead'
         /\ \A e : Queued(e)' <=> Queued(e) /\ e # dramQ[1]
<1> USE DEF Inv, IInv
<1>1. dramQ \in Seq(Command) /\ Len(dramQ) \in Nat
  BY DEF TypeOK
<1>2. /\ 1 \in 1 .. Len(dramQ)
      /\ \A p \in 1 .. Len(dramQ') :
           p + 1 \in 1 .. Len(dramQ) /\ 1 < p + 1 /\ dramQ'[p] = dramQ[p + 1]
      /\ \A p \in 1 .. Len(dramQ) :
           \/ p = 1
           \/ p - 1 \in 1 .. Len(dramQ') /\ dramQ[p] = dramQ'[p - 1]
  BY <1>1, DeqElements
<1>3. dramQ[1] \in Command
  BY <1>1, <1>2
<1>4. DramQOrder'
  <2> SUFFICES ASSUME NEW p \in 1 .. Len(dramQ'), NEW q \in 1 .. Len(dramQ'),
                      p < q
               PROVE  /\ dramQ'[p] # dramQ'[q]
                      /\ dramQ'[p].rnw /\ dramQ'[q].rnw
                         => dramQ'[p].i < dramQ'[q].i
    BY DEF DramQOrder
  <2>1. p + 1 < q + 1
    OBVIOUS
  <2> QED BY <2>1, <1>2 DEF DramQOrder
<1>5. WriteBeforeRead'
  <2> SUFFICES ASSUME NEW p \in 1 .. Len(dramQ'), NEW q \in 1 .. Len(dramQ'),
                      dramQ'[p].rnw, ~ dramQ'[q].rnw,
                      reqs[dramQ'[p].i].hv = reqs[dramQ'[q].i].hv
               PROVE  q < p
    BY DEF WriteBeforeRead
  <2>1. q + 1 < p + 1
    BY <1>2 DEF WriteBeforeRead
  <2> QED BY <2>1
<1>6. ASSUME NEW e
      PROVE  Queued(e)' <=> Queued(e) /\ e # dramQ[1]
  <2>1. ASSUME Queued(e)' PROVE Queued(e) /\ e # dramQ[1]
    <3>1. PICK p \in 1 .. Len(dramQ') : dramQ'[p] = e
      BY <2>1 DEF Queued
    <3>2. dramQ[1] # dramQ[p + 1]
      BY <1>2 DEF DramQOrder
    <3> QED BY <1>2, <3>1, <3>2 DEF Queued
  <2>2. ASSUME Queued(e), e # dramQ[1] PROVE Queued(e)'
    BY <1>2, <2>2 DEF Queued
  <2> QED BY <2>1, <2>2
<1> QED BY <1>2, <1>3, <1>4, <1>5, <1>6

LEMMA DramReadInv ==
  ASSUME Inv, DramRead
  PROVE  Inv'
<1> USE DEF Inv, IInv, Counters
<1> DEFINE c == dramQ[1]
           j == Len(rows) + 1
<1>1. /\ dramQ # << >> /\ dramQ' = Tail(dramQ) /\ c.rnw
      /\ rows' = Append(rows, dram[reqs[c.i].hv])
      /\ UNCHANGED << reqs, nCmd, nRd, dram, hdrs, stages, resps, taken,
                      nStored, addrQ, wrs, nWrArb, nAck >>
  BY DEF DramRead
<1>2. /\ c \in Command /\ 1 \in 1 .. Len(dramQ) /\ nRd \in Nat
      /\ Len(rows) \in Nat /\ Len(dramQ) \in Nat
  BY <1>1, SMTT(30) DEF TypeOK
<1>3. c.i \in j .. nRd
  BY <1>1, <1>2 DEF DramQRange
<1>4. c = [ rnw |-> TRUE, i |-> j ]
  <2>1. Queued([ rnw |-> TRUE, i |-> j ])
    BY <1>2, <1>3 DEF DramQComplete
  <2>2. PICK p \in 1 .. Len(dramQ) : dramQ[p] = [ rnw |-> TRUE, i |-> j ]
    BY <2>1 DEF Queued
  <2>3. CASE p = 1
    BY <2>2, <2>3
  <2>4. CASE 1 < p
    <3>1. dramQ[p].rnw = TRUE /\ dramQ[p].i = j
      BY <2>2
    <3>2. c.i < j
      BY <1>1, <1>2, <2>4, <3>1 DEF DramQOrder
    <3> QED BY <1>2, <1>3, <3>2
  <2> QED BY <1>2, <2>3, <2>4
<1>5. /\ j \in 1 .. Len(reqs) /\ reqs[j] \in Requests /\ reqs[j].hv \in Rows
      /\ dram[reqs[j].hv] \in Row
  <2>1. j \in 1 .. Len(reqs)
    BY <1>2, <1>3, SMTT(30) DEF TypeOK
  <2>2. reqs[j] \in Requests
    BY <2>1 DEF TypeOK
  <2> QED BY <2>1, <2>2, HeaderAssumption DEF TypeOK, Request
<1>6. rows' = Append(rows, dram[reqs[j].hv])
  BY <1>1, <1>4
<1>7. /\ rows' \in Seq(Row) /\ Len(rows') = j
      /\ rows'[j] = dram[reqs[j].hv]
      /\ \A i \in 1 .. Len(rows) : rows'[i] = rows[i]
  BY <1>5, <1>6, EnqElements DEF TypeOK
<1>8. /\ dramQ' \in Seq(Command)
      /\ \A p \in 1 .. Len(dramQ') :
           p + 1 \in 1 .. Len(dramQ) /\ 1 < p + 1 /\ dramQ'[p] = dramQ[p + 1]
      /\ DramQOrder' /\ WriteBeforeRead'
      /\ \A e : Queued(e)' <=> Queued(e) /\ e # c
  BY <1>1, DramQDequeue, DeqElements DEF TypeOK
<1>8a. j <= nRd /\ Len(hdrs) <= j
  BY <1>2, <1>3, Lengths, SMTT(30)
<1> HIDE DEF c, j
<1>9. TypeOK'
  BY <1>1, <1>7, <1>8 DEF TypeOK
<1>10. Counters'
  BY <1>1, <1>7, <1>8a
<1>11. DramQRange'
  <2> SUFFICES ASSUME NEW p \in 1 .. Len(dramQ')
               PROVE  IF dramQ'[p].rnw
                      THEN dramQ'[p].i \in j + 1 .. nRd
                      ELSE /\ dramQ'[p].i \in 1 .. nWrArb
                           /\ wrs[dramQ'[p].i].doWrite
    BY <1>1, <1>7 DEF DramQRange
  <2>1. p + 1 \in 1 .. Len(dramQ) /\ 1 < p + 1 /\ dramQ'[p] = dramQ[p + 1]
    BY <1>8
  <2>2. CASE dramQ[p + 1].rnw
    <3>1. dramQ[p + 1].i \in Len(rows) + 1 .. nRd
      BY <2>1, <2>2 DEF DramQRange
    <3>2. j < dramQ[p + 1].i
      <4>1. c.rnw /\ c.i = j
        BY <1>4
      <4> QED BY <4>1, <1>2, <2>1, <2>2 DEF DramQOrder, c
    <3> QED BY <1>2, <2>1, <2>2, <3>1, <3>2, SMTT(30) DEF j
  <2>3. CASE ~ dramQ[p + 1].rnw
    BY <2>1, <2>3 DEF DramQRange
  <2> QED BY <2>2, <2>3
<1>12. DramQComplete'
  <2> SUFFICES ASSUME NEW i \in j + 1 .. nRd
               PROVE  Queued([ rnw |-> TRUE, i |-> i ])'
    BY <1>1, <1>7 DEF DramQComplete
  <2>1. i \in Len(rows) + 1 .. nRd /\ i # j
    BY <1>2 DEF j
  <2>2. [ rnw |-> TRUE, i |-> i ] # c
    BY <1>4, <2>1
  <2> QED BY <1>8, <2>1, <2>2 DEF DramQComplete
<1>13. \A i : Pending(i)' <=> Pending(i)
  <2>1. \A i : [ rnw |-> FALSE, i |-> i ] # c
    BY <1>4
  <2> QED BY <1>1, <1>8, <2>1 DEF Pending
<1>14. OnePendingPerRow'
  BY <1>1, <1>13 DEF OnePendingPerRow
<1>15. NoStaleRow'
  <2>1. \A k \in Len(stages) + 1 .. Len(rows') :
          k \in Len(stages) + 1 .. Len(rows) \/ k = j
    BY <1>7, Lengths DEF j
  <2>2. ASSUME NEW i \in 1 .. Len(stages), Pending(i)
        PROVE  reqs[i].hv # reqs[j].hv
    <3> SUFFICES ASSUME reqs[i].hv = reqs[j].hv PROVE FALSE
      OBVIOUS
    <3>1. i < j /\ j \in sFifo
      BY <1>2, <1>3, SMTT(30) DEF TypeOK, j, sFifo
    <3>2. CASE i > nWrArb
      <4>1. i \in sFifo
        BY <3>1, <3>2 DEF TypeOK, sFifo
      <4> QED BY <3>1, <4>1 DEF ScoreboardExclusive
    <3>3. CASE Queued([ rnw |-> FALSE, i |-> i ])
      <4>1. PICK p \in 1 .. Len(dramQ) : dramQ[p] = [ rnw |-> FALSE, i |-> i ]
        BY <3>3 DEF Queued
      <4>2. ~ dramQ[p].rnw /\ dramQ[p].i = i /\ c.rnw /\ c.i = j
        BY <4>1, <1>4
      <4>3. p < 1
        BY <4>2, <1>2 DEF WriteBeforeRead, c
      <4> QED BY <4>3
    <3> QED BY <2>2, <3>2, <3>3 DEF Pending
  <2>3. \A k \in Len(stages) + 1 .. Len(rows) : rows'[k] = rows[k]
    BY <1>7, Lengths, SMTT(30)
  <2> SUFFICES ASSUME NEW k \in Len(stages) + 1 .. Len(rows')
               PROVE  /\ rows'[k] = dram[reqs[k].hv]
                      /\ \A i \in 1 .. Len(stages) :
                           Pending(i) => reqs[i].hv # reqs[k].hv
    BY <1>1, <1>13 DEF NoStaleRow
  <2>4. CASE k = j
    BY <1>7, <2>2, <2>4
  <2>5. CASE k \in Len(stages) + 1 .. Len(rows)
    BY <2>3, <2>5 DEF NoStaleRow
  <2> QED BY <2>1, <2>4, <2>5
<1>16. Data'
  <2>1. \A i \in 1 .. Len(hdrs) : rows'[i] = rows[i]
    BY <1>7, Lengths
  <2> QED BY <1>1, <2>1 DEF Data
<1>17. ScoreboardExclusive' /\ AddrQRange' /\ AddrQComplete' /\ AddrQOrder'
       /\ StoredBeforeWritten' /\ OwnAddress'
  BY <1>1 DEF ScoreboardExclusive, sFifo, AddrQRange, AddrQComplete,
              AddrQOrder, StoredBeforeWritten, OwnAddress
<1> QED
  BY <1>8, <1>9, <1>10, <1>11, <1>12, <1>14, <1>15, <1>16, <1>17

LEMMA DramWriteInv ==
  ASSUME Inv, DramWrite
  PROVE  Inv'
<1> USE DEF Inv, IInv, Counters
<1> DEFINE c == dramQ[1]
           i == c.i
<1>1. /\ dramQ # << >> /\ dramQ' = Tail(dramQ) /\ ~ c.rnw
      /\ dram' = [ dram EXCEPT ![reqs[i].hv][wrs[i].idx] = wrs[i].newhdr ]
      /\ UNCHANGED << reqs, nCmd, nRd, rows, hdrs, stages, resps, taken,
                      nStored, addrQ, wrs, nWrArb, nAck >>
  BY DEF DramWrite
<1>2. c \in Command /\ 1 \in 1 .. Len(dramQ)
  BY <1>1 DEF TypeOK
<1>3. c = [ rnw |-> FALSE, i |-> i ]
  BY <1>1, <1>2 DEF Command
<1>4. i \in 1 .. nWrArb /\ wrs[i].doWrite
  BY <1>1, <1>2 DEF DramQRange
<1>5. i \in 1 .. Len(wrs) /\ i \in 1 .. Len(stages) /\ i \in 1 .. Len(reqs)
  <2> HIDE DEF c, i
  <2> QED BY <1>4, Lengths
<1>6. Pending(i)
  <2>1. Queued([ rnw |-> FALSE, i |-> i ])
    BY <1>2, <1>3 DEF Queued
  <2>2. stages[i].doWrite
    BY <1>4, <1>5 DEF OwnAddress
  <2> QED BY <1>5, <2>1, <2>2 DEF Pending
<1>7. reqs[i] \in Requests /\ reqs[i].hv \in Rows /\ wrs[i] \in WriteCommand
  <2> HIDE DEF c, i
  <2> QED BY <1>5, ReqType DEF TypeOK
<1>8. /\ dramQ' \in Seq(Command)
      /\ \A p \in 1 .. Len(dramQ') :
           p + 1 \in 1 .. Len(dramQ) /\ 1 < p + 1 /\ dramQ'[p] = dramQ[p + 1]
      /\ DramQOrder' /\ WriteBeforeRead'
      /\ \A e : Queued(e)' <=> Queued(e) /\ e # c
  BY <1>1, DramQDequeue, DeqElements DEF TypeOK
<1> HIDE DEF c, i
<1>9. TypeOK'
  <2>1. dram' \in [ Rows -> Row ]
    BY <1>1, <1>7 DEF TypeOK, Row, WriteCommand
  <2> QED BY <1>1, <1>8, <2>1 DEF TypeOK
<1>10. Counters'
  BY <1>1
<1>11. DramQRange'
  BY <1>1, <1>8 DEF DramQRange
<1>12. DramQComplete'
  <2>1. \A k : [ rnw |-> TRUE, i |-> k ] # c
    BY <1>3
  <2> QED BY <1>1, <1>8, <2>1 DEF DramQComplete
<1>13. \A k : Pending(k)' <=> Pending(k) /\ k # i
  <2>1. \A k : [ rnw |-> FALSE, i |-> k ] # c <=> k # i
    BY <1>3
  <2>2. ~ (i > nWrArb)
    BY <1>4, Lengths
  <2> QED BY <1>1, <1>8, <2>1, <2>2 DEF Pending
<1>14. OnePendingPerRow'
  BY <1>1, <1>13 DEF OnePendingPerRow
<1>15. NoStaleRow'
  <2> SUFFICES ASSUME NEW k \in Len(stages) + 1 .. Len(rows)
               PROVE  /\ rows[k] = dram'[reqs[k].hv]
                      /\ \A m \in 1 .. Len(stages) :
                           Pending(m) => reqs[m].hv # reqs[k].hv
    BY <1>1, <1>13 DEF NoStaleRow
  <2>1. reqs[i].hv # reqs[k].hv
    BY <1>5, <1>6 DEF NoStaleRow
  <2>2. k \in 1 .. Len(reqs)
    BY Lengths
  <2>3. reqs[k].hv \in Rows
    BY <2>2, ReqType
  <2>4. dram'[reqs[k].hv] = dram[reqs[k].hv]
    BY <1>1, <2>1, <2>3 DEF TypeOK
  <2> QED BY <2>4 DEF NoStaleRow
<1>16. Data' /\ ScoreboardExclusive' /\ AddrQRange' /\ AddrQComplete'
       /\ AddrQOrder' /\ StoredBeforeWritten' /\ OwnAddress'
  BY <1>1 DEF Data, ScoreboardExclusive, sFifo, AddrQRange, AddrQComplete,
              AddrQOrder, StoredBeforeWritten, OwnAddress
<1> QED
  BY <1>8, <1>9, <1>10, <1>11, <1>12, <1>14, <1>15, <1>16

LEMMA procHeaderInv ==
  ASSUME Inv, procHeader
  PROVE  Inv'
<1> USE DEF Inv, IInv, Counters
<1> DEFINE k == Len(hdrs) + 1
<1>1. /\ k <= Len(rows) /\ hdrs' = Append(hdrs, HdrWrReq(rows[k], reqs[k]))
      /\ UNCHANGED << reqs, nCmd, nRd, dramQ, dram, rows, stages, resps,
                      taken, nStored, addrQ, wrs, nWrArb, nAck >>
  BY DEF procHeader
<1>2. k \in 1 .. Len(rows) /\ k \in 1 .. Len(reqs)
  BY <1>1, Lengths, SMTT(30)
<1>3. HdrWrReq(rows[k], reqs[k]) \in HdrWrReqT /\ hdrs \in Seq(HdrWrReqT)
  BY <1>2, HdrWrReqType DEF TypeOK, HdrWrReqT
<1>4. /\ hdrs' \in Seq(HdrWrReqT) /\ Len(hdrs') = k
      /\ hdrs'[k] = HdrWrReq(rows[k], reqs[k])
      /\ \A i \in 1 .. Len(hdrs) : hdrs'[i] = hdrs[i]
      /\ \A i \in 1 .. Len(hdrs') : i \in 1 .. Len(hdrs) \/ i = k
  BY <1>1, <1>3, EnqElements
<1>5. \A i \in 1 .. Len(stages) : i \in 1 .. Len(hdrs)
  BY Lengths
<1>6. Len(stages) <= k
  BY Lengths
<1> HIDE DEF k
<1>7. TypeOK'
  BY <1>1, <1>4 DEF TypeOK, HdrWrReqT
<1>8. Counters'
  BY <1>1, <1>4, <1>6
<1>9. Data'
  BY <1>1, <1>4, <1>5 DEF Data
<1>10. OnePendingPerRow' /\ NoStaleRow'
  <2>1. \A i : Pending(i)' <=> Pending(i)
    BY <1>1 DEF Pending, Queued
  <2> QED BY <1>1, <2>1 DEF OnePendingPerRow, NoStaleRow
<1>11. DramQRange' /\ DramQComplete' /\ DramQOrder' /\ WriteBeforeRead'
  BY <1>1 DEF DramQRange, DramQComplete, DramQOrder, WriteBeforeRead, Queued
<1>12. ScoreboardExclusive' /\ AddrQRange' /\ AddrQComplete' /\ AddrQOrder'
       /\ StoredBeforeWritten' /\ OwnAddress'
  BY <1>1 DEF ScoreboardExclusive, sFifo, AddrQRange, AddrQComplete,
              AddrQOrder, StoredBeforeWritten, OwnAddress
<1> QED
  BY <1>7, <1>8, <1>9, <1>10, <1>11, <1>12

LEMMA putHdrWrInv ==
  ASSUME Inv, putHdrWr
  PROVE  Inv'
<1> USE DEF Inv, IInv, Counters
<1> DEFINE k == Len(stages) + 1
           s == stage(hdrs[k])
<1>1. /\ k <= Len(hdrs)
      /\ stages' = Append(stages, s) /\ resps' = Append(resps, retval(hdrs[k]))
      /\ UNCHANGED << reqs, nCmd, nRd, dramQ, dram, rows, hdrs, taken,
                      nStored, addrQ, wrs, nWrArb, nAck >>
  BY DEF putHdrWr
<1>2. k \in 1 .. Len(hdrs) /\ k \in 1 .. Len(rows) /\ Len(resps) + 1 = k
  BY <1>1, Lengths
<1>3. s \in Stage /\ retval(hdrs[k]) \in Response
  <2>1. hdrs[k] \in HdrWrReqT
    <3>1. hdrs \in Seq(HdrWrReqT)
      BY DEF TypeOK, HdrWrReqT
    <3> QED BY <3>1, <1>2
  <2> QED BY <2>1, StageType
<1>4. /\ stages' \in Seq(Stage) /\ Len(stages') = k
      /\ stages'[k] = s
      /\ \A i \in 1 .. Len(stages) : stages'[i] = stages[i]
      /\ \A i \in 1 .. Len(stages') : i \in 1 .. Len(stages) \/ i = k
  BY <1>1, <1>3, EnqElements, SMTT(30) DEF TypeOK
<1>5. /\ resps' \in Seq(Response) /\ Len(resps') = k
      /\ resps'[k] = retval(hdrs[k])
      /\ \A i \in 1 .. Len(resps) : resps'[i] = resps[i]
  BY <1>1, <1>2, <1>3, EnqElements DEF TypeOK
<1>6. /\ \A i \in 1 .. Len(stages) : i \in 1 .. Len(stages') /\ i < k
      /\ k > nWrArb /\ k \in 1 .. Len(stages')
      /\ Len(wrs) <= k /\ taken <= k /\ Len(stages) <= k
      /\ \A i \in k + 1 .. Len(rows) :
           i \in Len(stages) + 1 .. Len(rows) /\ i # k
  <2> USE <1>2, <1>4, Lengths
  <2>1. \A i \in 1 .. Len(stages) : i \in 1 .. Len(stages') /\ i < k
    BY SMTT(30)
  <2>2. \A i \in k + 1 .. Len(rows) :
          i \in Len(stages) + 1 .. Len(rows) /\ i # k
    BY SMTT(30)
  <2>3. k > nWrArb /\ k \in 1 .. Len(stages')
    BY SMTT(30)
  <2>4. Len(wrs) <= k /\ taken <= k /\ Len(stages) <= k
    BY SMTT(30)
  <2> QED BY ONLY <2>1, <2>2, <2>3, <2>4
<1>7. \A i \in k .. Len(rows) : i \in sFifo
  BY Lengths, SMTT(30) DEF sFifo
<1>8. k \in k .. Len(rows) /\ \A i \in k + 1 .. Len(rows) : i \in k .. Len(rows)
  BY <1>2, Lengths
<1> HIDE DEF k, s
<1>9. TypeOK'
  BY <1>1, <1>4, <1>5 DEF TypeOK
<1>10. Counters'
  BY <1>1, <1>2, <1>4, <1>5, <1>6
<1>11. Data'
  <2>1. \A i \in 1 .. Len(stages') :
          stages'[i] = stage(hdrs[i]) /\ resps'[i] = retval(hdrs[i])
    BY <1>4, <1>5 DEF Data, s
  <2> QED BY <1>1, <2>1 DEF Data
<1>12. \A i : Pending(i)' => Pending(i) \/ i = k
  BY <1>1, <1>4 DEF Pending, Queued
<1>13. OnePendingPerRow'
  <2> SUFFICES ASSUME NEW i \in 1 .. Len(stages'), NEW j \in 1 .. Len(stages'),
                      Pending(i)', Pending(j)', reqs[i].hv = reqs[j].hv
               PROVE  i = j
    BY <1>1 DEF OnePendingPerRow
  <2>1. \A m \in 1 .. Len(stages) : Pending(m) => reqs[m].hv # reqs[k].hv
    BY <1>8 DEF NoStaleRow, k
  <2>2. \A m : Pending(m) => m \in 1 .. Len(stages)
    BY DEF Pending
  <2> QED BY <1>12, <2>1, <2>2 DEF OnePendingPerRow
<1>14. NoStaleRow'
  <2> SUFFICES ASSUME NEW j \in k + 1 .. Len(rows)
               PROVE  /\ rows[j] = dram[reqs[j].hv]
                      /\ \A i \in 1 .. Len(stages') :
                           Pending(i)' => reqs[i].hv # reqs[j].hv
    BY <1>1, <1>4 DEF NoStaleRow
  <2>1. reqs[k].hv # reqs[j].hv
    BY <1>6, <1>7, <1>8 DEF ScoreboardExclusive
  <2>2. /\ rows[j] = dram[reqs[j].hv]
        /\ \A i \in 1 .. Len(stages) : Pending(i) => reqs[i].hv # reqs[j].hv
    BY <1>6 DEF NoStaleRow
  <2>3. \A i : Pending(i) => i \in 1 .. Len(stages)
    BY DEF Pending
  <2> QED BY <1>12, <2>1, <2>2, <2>3
<1>15. AddrQRange' /\ AddrQComplete' /\ AddrQOrder'
  <2>1. \A i \in Len(wrs) + 1 .. nStored : stages'[i] = stages[i]
    <3>1. \A i \in Len(wrs) + 1 .. nStored : i \in 1 .. Len(stages)
      BY Lengths, SMTT(30)
    <3> QED BY <1>4, <1>5, <3>1
  <2> QED BY <1>1, <2>1 DEF AddrQRange, AddrQComplete, AddrQOrder
<1>16. StoredBeforeWritten' /\ OwnAddress'
  <2>1. \A i \in 1 .. Len(wrs) : stages'[i] = stages[i]
    BY <1>4, Lengths
  <2> QED BY <1>1, <2>1 DEF StoredBeforeWritten, OwnAddress
<1>17. DramQRange' /\ DramQComplete' /\ DramQOrder' /\ WriteBeforeRead'
       /\ ScoreboardExclusive'
  BY <1>1 DEF DramQRange, DramQComplete, DramQOrder, WriteBeforeRead, Queued,
              ScoreboardExclusive, sFifo
<1> QED
  BY <1>9, <1>10, <1>11, <1>13, <1>14, <1>15, <1>16, <1>17

LEMMA TakeRespInv ==
  ASSUME Inv, TakeResp
  PROVE  Inv'
<1> USE DEF Inv, IInv, Counters
<1>1. /\ taken < Len(resps) /\ taken' = taken + 1
      /\ UNCHANGED << reqs, nCmd, nRd, dramQ, dram, rows, hdrs, stages, resps,
                      nStored, addrQ, wrs, nWrArb, nAck >>
  BY DEF TakeResp
<1>2. TypeOK' /\ Counters'
  BY <1>1 DEF TypeOK
<1>3. OnePendingPerRow' /\ NoStaleRow'
  <2>1. \A i : Pending(i)' <=> Pending(i)
    BY <1>1 DEF Pending, Queued
  <2> QED BY <1>1, <2>1 DEF OnePendingPerRow, NoStaleRow
<1>4. DramQRange' /\ DramQComplete' /\ DramQOrder' /\ WriteBeforeRead'
  BY <1>1 DEF DramQRange, DramQComplete, DramQOrder, WriteBeforeRead, Queued
<1>5. Data' /\ ScoreboardExclusive' /\ AddrQRange' /\ AddrQComplete'
      /\ AddrQOrder' /\ StoredBeforeWritten' /\ OwnAddress'
  BY <1>1 DEF Data, ScoreboardExclusive, sFifo, AddrQRange, AddrQComplete,
              AddrQOrder, StoredBeforeWritten, OwnAddress
<1> QED
  BY <1>2, <1>3, <1>4, <1>5

(* An answer asks for a value to be written exactly when the stage waits   *)
(* for an address.                                                         *)
LEMMA NewValueIsWrite ==
  ASSUME NEW a
  PROVE  stage(a).newValue <=> retval(a).value_cmd.kind = "write"
<1>1. CASE a.args.op = "SET"
  BY <1>1 DEF stage, retval, value_cmd, Succeeds
<1>2. CASE a.args.op # "SET"
  <2>1. ~ stage(a).newValue
    BY <1>2 DEF stage
  <2>2. value_cmd(a).kind # "write"
    BY <1>2 DEF value_cmd
  <2> QED BY <2>1, <2>2 DEF retval
<1> QED BY <1>1, <1>2

LEMMA StoreValueInv ==
  ASSUME Inv, StoreValue
  PROVE  Inv'
<1> USE DEF Inv, IInv, Counters
<1> DEFINE k == nStored + 1
<1>1. /\ k <= taken /\ nStored' = k
      /\ IF resps[k].value_cmd.kind = "write" THEN addrQ' = Append(addrQ, k)
         ELSE addrQ' = addrQ
      /\ UNCHANGED << reqs, nCmd, nRd, dramQ, dram, rows, hdrs, stages,
                      resps, taken, wrs, nWrArb, nAck >>
  BY DEF StoreValue
<1>2. /\ k \in 1 .. Len(stages) /\ k \in Nat /\ addrQ \in Seq(Nat)
      /\ Len(wrs) \in Nat /\ nStored \in Nat
  BY <1>1, Lengths DEF TypeOK
<1>3. stages[k].newValue <=> resps[k].value_cmd.kind = "write"
  BY <1>2, NewValueIsWrite DEF Data
<1>4. /\ \A i \in Len(wrs) + 1 .. k : i \in Len(wrs) + 1 .. nStored \/ i = k
      /\ \A i \in Len(wrs) + 1 .. nStored : i \in Len(wrs) + 1 .. k /\ i < k
  BY <1>2
<1>5. ASSUME stages[k].newValue PROVE k \in Len(wrs) + 1 .. k
  <2> SUFFICES ASSUME k <= Len(wrs) PROVE FALSE
    BY <1>2
  <2>1. k \in 1 .. Len(wrs)
    BY <1>2
  <2>2. k <= nStored
    BY <1>5, <2>1 DEF StoredBeforeWritten
  <2> QED BY <1>2, <2>2
<1>6. \A i \in 1 .. Len(wrs) : i <= nStored => i <= k
  BY <1>2
<1> HIDE DEF k
<1>7. TypeOK'
  <2>1. addrQ' \in Seq(Nat)
    <3>1. Append(addrQ, k) \in Seq(Nat)
      BY <1>2, EnqElements
    <3>2. addrQ' = Append(addrQ, k) \/ addrQ' = addrQ
      BY <1>1
    <3> QED BY <1>2, <3>1, <3>2
  <2> QED BY <1>1, <1>2, <2>1 DEF TypeOK
<1>8. Counters' /\ StoredBeforeWritten'
  BY <1>1, <1>6 DEF StoredBeforeWritten
<1>9. AddrQRange' /\ AddrQComplete' /\ AddrQOrder'
  <2>1. CASE ~ stages[k].newValue
    <3>1. addrQ' = addrQ
      BY <1>1, <1>3, <2>1
    <3> QED
      BY <1>1, <1>4, <2>1, <3>1 DEF AddrQRange, AddrQComplete, AddrQOrder
  <2>2. CASE stages[k].newValue
    <3> DEFINE n == Len(addrQ) + 1
    <3>1. addrQ' = Append(addrQ, k)
      BY <1>1, <1>3, <2>2
    <3>2. /\ n \in 1 .. Len(addrQ') /\ addrQ'[n] = k
          /\ \A p \in 1 .. Len(addrQ) : /\ p \in 1 .. Len(addrQ') /\ ~ (n < p)
                                        /\ addrQ'[p] = addrQ[p]
          /\ \A p \in 1 .. Len(addrQ') : p \in 1 .. Len(addrQ) \/ p = n
      BY <1>2, <3>1, EnqElements
    <3>3. ~ (n < n)
      BY <1>2
    <3> HIDE DEF n
    <3>4. AddrQRange'
      <4> SUFFICES ASSUME NEW p \in 1 .. Len(addrQ')
                   PROVE  /\ addrQ'[p] \in Len(wrs) + 1 .. k
                          /\ stages[addrQ'[p]].newValue
        BY <1>1 DEF AddrQRange
      <4>1. CASE p = n
        BY <1>5, <2>2, <3>2, <4>1
      <4>2. CASE p \in 1 .. Len(addrQ)
        BY <1>4, <3>2, <4>2 DEF AddrQRange
      <4> QED BY <3>2, <4>1, <4>2
    <3>5. AddrQComplete'
      <4> SUFFICES ASSUME NEW i \in Len(wrs) + 1 .. k, stages[i].newValue
                   PROVE  \E p \in 1 .. Len(addrQ') : addrQ'[p] = i
        BY <1>1 DEF AddrQComplete
      <4>1. CASE i = k
        BY <3>2, <4>1
      <4>2. CASE i \in Len(wrs) + 1 .. nStored
        <5>1. PICK p \in 1 .. Len(addrQ) : addrQ[p] = i
          BY <4>2 DEF AddrQComplete
        <5> QED BY <3>2, <5>1
      <4> QED BY <1>4, <4>1, <4>2
    <3>6. AddrQOrder'
      <4> SUFFICES ASSUME NEW p \in 1 .. Len(addrQ'),
                          NEW q \in 1 .. Len(addrQ'), p < q
                   PROVE  addrQ'[p] < addrQ'[q]
        BY DEF AddrQOrder
      <4>1. p \in 1 .. Len(addrQ)
        BY <3>2, <3>3
      <4>2. CASE q = n
        BY <1>4, <3>2, <4>1, <4>2 DEF AddrQRange
      <4>3. CASE q \in 1 .. Len(addrQ)
        BY <3>2, <4>1, <4>3 DEF AddrQOrder
      <4> QED BY <3>2, <4>2, <4>3
    <3> QED BY <3>4, <3>5, <3>6
  <2> QED BY <2>1, <2>2
<1>10. OnePendingPerRow' /\ NoStaleRow'
  <2>1. \A i : Pending(i)' <=> Pending(i)
    BY <1>1 DEF Pending, Queued
  <2> QED BY <1>1, <2>1 DEF OnePendingPerRow, NoStaleRow
<1>11. DramQRange' /\ DramQComplete' /\ DramQOrder' /\ WriteBeforeRead'
  BY <1>1 DEF DramQRange, DramQComplete, DramQOrder, WriteBeforeRead, Queued
<1>12. Data' /\ ScoreboardExclusive' /\ OwnAddress'
  BY <1>1 DEF Data, ScoreboardExclusive, sFifo, OwnAddress
<1> QED
  BY <1>7, <1>8, <1>9, <1>10, <1>11, <1>12

LEMMA writeHeaderInv ==
  ASSUME Inv, writeHeader
  PROVE  Inv'
<1> USE DEF Inv, IInv, Counters
<1> DEFINE k == Len(wrs) + 1
           s == stages[k]
           w == [ doWrite |-> s.doWrite, idx |-> s.idx,
                  newhdr |-> WithAddr(s, addrQ[1]) ]
<1>1. /\ k <= Len(stages) /\ wrs' = Append(wrs, w)
      /\ s.newValue => addrQ # << >>
      /\ addrQ' = IF s.newValue THEN Tail(addrQ) ELSE addrQ
      /\ UNCHANGED << reqs, nCmd, nRd, dramQ, dram, rows, hdrs, stages,
                      resps, taken, nStored, nWrArb, nAck >>
  BY Lengths DEF writeHeader
<1>2. /\ k \in 1 .. Len(stages) /\ s \in Stage /\ Len(wrs) \in Nat
      /\ nStored \in Nat /\ addrQ \in Seq(Nat) /\ Len(addrQ) \in Nat
  <2>1. k \in 1 .. Len(stages)
    BY <1>1, Lengths
  <2>2. addrQ \in Seq(Nat) /\ stages \in Seq(Stage)
    BY DEF TypeOK
  <2> QED BY <2>1, <2>2, Lengths
(* The address at the head is that of this request's value. *)
<1>3. ASSUME s.newValue PROVE addrQ[1] = k /\ k \in Len(wrs) + 1 .. nStored
  <2>1. addrQ # << >> /\ 1 \in 1 .. Len(addrQ)
    BY <1>1, <1>2, <1>3
  <2>2. addrQ[1] \in Len(wrs) + 1 .. nStored
    BY <2>1 DEF AddrQRange
  <2>3. k \in Len(wrs) + 1 .. nStored
    BY <1>2, <2>2
  <2>4. PICK p \in 1 .. Len(addrQ) : addrQ[p] = k
    BY <1>3, <2>3 DEF AddrQComplete
  <2>5. CASE p = 1
    BY <2>3, <2>4, <2>5
  <2>6. CASE 1 < p
    <3>1. addrQ[1] < k
      BY <2>1, <2>4, <2>6 DEF AddrQOrder
    <3> QED BY <1>2, <2>2, <3>1
  <2> QED BY <1>2, <2>5, <2>6
<1>4. WithAddr(s, addrQ[1]) = WithAddr(s, k)
  BY <1>3 DEF WithAddr
<1>5. w \in WriteCommand
  <2>1. WithAddr(s, k) \in ItemHeader
    BY <1>2, WithAddrType
  <2> QED BY <1>2, <1>4, <2>1 DEF WriteCommand, Stage
<1>6. /\ wrs' \in Seq(WriteCommand) /\ Len(wrs') = k
      /\ wrs'[k] = w
      /\ \A i \in 1 .. Len(wrs) : wrs'[i] = wrs[i]
      /\ \A i \in 1 .. Len(wrs') : i \in 1 .. Len(wrs) \/ i = k
  BY <1>1, <1>5, EnqElements DEF TypeOK
<1>7. nWrArb <= k /\ \A i \in 1 .. nWrArb : i \in 1 .. Len(wrs)
  BY Lengths
<1>8. w.doWrite = s.doWrite /\ w.idx = s.idx /\ w.newhdr = WithAddr(s, k)
  BY <1>4
<1> HIDE DEF w
<1>9. OwnAddress'
  BY <1>1, <1>6, <1>8 DEF OwnAddress
<1>10. StoredBeforeWritten'
  BY <1>1, <1>2, <1>3, <1>6 DEF StoredBeforeWritten
<1>11. AddrQRange' /\ AddrQComplete' /\ AddrQOrder' /\ addrQ' \in Seq(Nat)
  <2>1. \A i \in k + 1 .. nStored : i \in Len(wrs) + 1 .. nStored /\ k < i
    BY <1>2
  <2>2. \A i \in Len(wrs) + 1 .. nStored : i # k => i \in k + 1 .. nStored
    BY <1>2
  <2>3. CASE ~ s.newValue
    <3>1. addrQ' = addrQ
      BY <1>1, <2>3
    <3>2. \A p \in 1 .. Len(addrQ) : addrQ[p] # k
      BY <2>3 DEF AddrQRange
    <3> HIDE DEF k
    <3>3. AddrQRange'
      <4> SUFFICES ASSUME NEW p \in 1 .. Len(addrQ)
                   PROVE  /\ addrQ[p] \in k + 1 .. nStored
                          /\ stages[addrQ[p]].newValue
        BY <1>1, <1>6, <3>1 DEF AddrQRange
      <4> QED BY <2>2, <3>2 DEF AddrQRange
    <3>4. AddrQComplete'
      <4> SUFFICES ASSUME NEW i \in k + 1 .. nStored, stages[i].newValue
                   PROVE  \E p \in 1 .. Len(addrQ) : addrQ[p] = i
        BY <1>1, <1>6, <3>1 DEF AddrQComplete
      <4> QED BY <2>1 DEF AddrQComplete
    <3>5. AddrQOrder'
      BY <3>1 DEF AddrQOrder
    <3> QED BY <1>2, <3>1, <3>3, <3>4, <3>5
  <2>4. CASE s.newValue
    <3>1. addrQ # << >> /\ addrQ' = Tail(addrQ) /\ addrQ[1] = k
      BY <1>1, <1>3, <2>4
    <3>2. /\ addrQ' \in Seq(Nat) /\ 1 \in 1 .. Len(addrQ)
          /\ \A p \in 1 .. Len(addrQ') :
               /\ p + 1 \in 1 .. Len(addrQ) /\ 1 < p + 1
               /\ addrQ'[p] = addrQ[p + 1]
          /\ \A p \in 1 .. Len(addrQ) :
               \/ p = 1
               \/ p - 1 \in 1 .. Len(addrQ') /\ addrQ[p] = addrQ'[p - 1]
      BY <1>2, <3>1, DeqElements
    <3> HIDE DEF k, s
    <3>3. AddrQRange'
      <4> SUFFICES ASSUME NEW p \in 1 .. Len(addrQ')
                   PROVE  /\ addrQ'[p] \in k + 1 .. nStored
                          /\ stages[addrQ'[p]].newValue
        BY <1>1, <1>6 DEF AddrQRange
      <4>1. /\ addrQ[p + 1] \in Len(wrs) + 1 .. nStored
            /\ stages[addrQ[p + 1]].newValue
        BY <3>2 DEF AddrQRange
      <4>2. addrQ[1] < addrQ[p + 1]
        BY <3>2 DEF AddrQOrder
      <4>3. addrQ[p + 1] # k
        BY <1>2, <3>1, <4>1, <4>2, SMTT(30)
      <4> QED BY <2>2, <3>2, <4>1, <4>3
    <3>4. AddrQComplete'
      <4> SUFFICES ASSUME NEW i \in k + 1 .. nStored, stages[i].newValue
                   PROVE  \E p \in 1 .. Len(addrQ') : addrQ'[p] = i
        BY <1>1, <1>6 DEF AddrQComplete
      <4>1. PICK p \in 1 .. Len(addrQ) : addrQ[p] = i
        BY <2>1 DEF AddrQComplete
      <4>2. p # 1
        BY <2>1, <3>1, <4>1
      <4> QED BY <3>2, <4>1, <4>2
    <3>5. AddrQOrder'
      <4> SUFFICES ASSUME NEW p \in 1 .. Len(addrQ'),
                          NEW q \in 1 .. Len(addrQ'), p < q
                   PROVE  addrQ'[p] < addrQ'[q]
        BY DEF AddrQOrder
      <4>1. p + 1 < q + 1
        OBVIOUS
      <4> QED BY <3>2, <4>1 DEF AddrQOrder
    <3> QED BY <3>2, <3>3, <3>4, <3>5
  <2> QED BY <2>3, <2>4
<1>12. TypeOK'
  BY <1>1, <1>6, <1>11 DEF TypeOK
<1>13. Counters'
  BY <1>1, <1>6, <1>7
<1>14. DramQRange'
  BY <1>1, <1>6, <1>7 DEF DramQRange
<1>15. DramQComplete' /\ DramQOrder' /\ WriteBeforeRead'
  BY <1>1 DEF DramQComplete, DramQOrder, WriteBeforeRead, Queued
<1>16. OnePendingPerRow' /\ NoStaleRow'
  <2>1. \A i : Pending(i)' <=> Pending(i)
    BY <1>1 DEF Pending, Queued
  <2> QED BY <1>1, <2>1 DEF OnePendingPerRow, NoStaleRow
<1>17. Data' /\ ScoreboardExclusive'
  BY <1>1 DEF Data, ScoreboardExclusive, sFifo
<1> QED
  BY <1>9, <1>10, <1>11, <1>12, <1>13, <1>14, <1>15, <1>16, <1>17

(* A request read but not compared yet and one whose header is written are *)
(* two of the scoreboard.                                                  *)
LEMMA BothInside ==
  ASSUME NEW a \in Nat, NEW k \in Nat, NEW r \in Nat, NEW n \in Nat,
         NEW c \in Nat, NEW m \in r + 1 .. n, a < k, k <= r, n <= c
  PROVE  m \in a + 1 .. c /\ k \in a + 1 .. c /\ m # k
OBVIOUS

LEMMA doArbRespWrInv ==
  ASSUME Inv, doArbRespWr
  PROVE  Inv'
<1> USE DEF Inv, IInv, Counters
<1> DEFINE k == nWrArb + 1
           c == [ rnw |-> FALSE, i |-> k ]
           n == Len(dramQ) + 1
<1>1. /\ k <= Len(wrs) /\ nWrArb' = k
      /\ dramQ' = IF wrs[k].doWrite THEN Append(dramQ, c) ELSE dramQ
      /\ UNCHANGED << reqs, nCmd, nRd, dram, rows, hdrs, stages, resps,
                      taken, nStored, addrQ, wrs, nAck >>
  BY DEF doArbRespWr
<1>2. /\ k \in 1 .. Len(wrs) /\ k \in 1 .. Len(stages) /\ k \in Nat
      /\ nWrArb \in Nat /\ nAck <= k /\ Len(rows) \in Nat
      /\ nRd \in Nat /\ nCmd \in Nat /\ nAck \in Nat
  <2>1. k <= Len(wrs)
    BY <1>1
  <2>2. k \in Nat /\ nAck <= k
    BY Lengths
  <2> QED BY <2>1, <2>2, Lengths
<1>3. k <= Len(rows) /\ nRd <= nCmd /\ nAck < k
  <2>1. k <= Len(wrs)
    BY <1>1
  <2> QED BY <2>1, Lengths
<1>4. k \in 1 .. k /\ \A i \in 1 .. nWrArb : i \in 1 .. k /\ i # k
  BY <1>2
<1>5. \A i \in 1 .. Len(stages) : i > nWrArb <=> i > k \/ i = k
  BY <1>2
<1>6. wrs[k].doWrite = stages[k].doWrite
  BY <1>2 DEF OwnAddress
<1>7. c \in Command /\ dramQ \in Seq(Command) /\ Len(dramQ) \in Nat
  BY <1>2 DEF TypeOK, Command
<1>8. Data' /\ ScoreboardExclusive' /\ AddrQRange' /\ AddrQComplete'
       /\ AddrQOrder' /\ StoredBeforeWritten' /\ OwnAddress'
  BY <1>1 DEF Data, ScoreboardExclusive, sFifo, AddrQRange, AddrQComplete,
              AddrQOrder, StoredBeforeWritten, OwnAddress
<1>9. CASE ~ wrs[k].doWrite
  <2>1. UNCHANGED dramQ
    BY <1>1, <1>9
  <2>2. Counters'
    BY <1>1, <1>2
  <2>3. \A i : Queued(i)' <=> Queued(i)
    BY <2>1 DEF Queued
  <2>4. \A i \in 1 .. Len(stages) :
          stages[i].doWrite => (i > k <=> i > nWrArb)
    BY <1>6, <1>5, <1>9
  <2>5. \A i : Pending(i)' <=> Pending(i)
    <3> HIDE DEF k
    <3> QED BY <1>1, <2>3, <2>4 DEF Pending
  <2>6. OnePendingPerRow' /\ NoStaleRow'
    BY <1>1, <2>5 DEF OnePendingPerRow, NoStaleRow
  <2>7. DramQRange'
    <3> HIDE DEF k
    <3> QED BY <1>1, <1>4, <2>1 DEF DramQRange
  <2>8. DramQComplete' /\ DramQOrder' /\ WriteBeforeRead'
    BY <1>1, <2>1, <2>3 DEF DramQComplete, DramQOrder, WriteBeforeRead
  <2>9. TypeOK'
    BY <1>1, <1>2, <2>1 DEF TypeOK
  <2> QED BY <1>8, <2>2, <2>6, <2>7, <2>8, <2>9
<1> SUFFICES ASSUME wrs[k].doWrite PROVE Inv'
  BY <1>9
<1>10. /\ n \in 1 .. Len(dramQ') /\ dramQ'[n] = c
       /\ \A p \in 1 .. Len(dramQ) :
            p \in 1 .. Len(dramQ') /\ p < n /\ ~ (n < p) /\ dramQ'[p] = dramQ[p]
       /\ \A p \in 1 .. Len(dramQ') : p \in 1 .. Len(dramQ) \/ p = n
  <2>1. dramQ' = Append(dramQ, c)
    BY <1>1
  <2> QED BY <1>7, <2>1, EnqElements
<1>11. dramQ' \in Seq(Command) /\ ~ (n < n)
  <2>1. dramQ' = Append(dramQ, c)
    BY <1>1
  <2> QED BY <1>7, <2>1, EnqElements
<1>12. c.rnw = FALSE /\ c.i = k
  OBVIOUS
<1> HIDE DEF n
<1>13. \A e : Queued(e)' <=> Queued(e) \/ e = c
  BY <1>10 DEF Queued
<1>14. \A i : Pending(i)' <=> Pending(i)
  <2>1. ASSUME NEW i \in 1 .. Len(stages), stages[i].doWrite
        PROVE  (i > k \/ Queued([ rnw |-> FALSE, i |-> i ])')
               <=> (i > nWrArb \/ Queued([ rnw |-> FALSE, i |-> i ]))
    <3>1. CASE i = k
      BY <1>2, <1>6, <1>13, <1>5, <2>1, <3>1 DEF c
    <3>2. CASE i # k
      <4>1. [ rnw |-> FALSE, i |-> i ] # c
        BY <3>2 DEF c
      <4>2. Queued([ rnw |-> FALSE, i |-> i ])'
            <=> Queued([ rnw |-> FALSE, i |-> i ])
        BY <1>13, <4>1
      <4>3. i > nWrArb <=> i > k
        BY <1>5, <3>2
      <4> QED BY <4>2, <4>3
    <3> QED BY <3>1, <3>2
  <2> HIDE DEF k
  <2>2. nWrArb' = k /\ stages' = stages
    BY <1>1
  <2> QED BY <2>1, <2>2 DEF Pending
<1> HIDE DEF k
<1>15. OnePendingPerRow' /\ NoStaleRow'
  BY <1>1, <1>14 DEF OnePendingPerRow, NoStaleRow
<1>16. DramQRange'
  <2> SUFFICES ASSUME NEW p \in 1 .. Len(dramQ')
               PROVE  IF dramQ'[p].rnw
                      THEN dramQ'[p].i \in Len(rows) + 1 .. nRd
                      ELSE dramQ'[p].i \in 1 .. k /\ wrs[dramQ'[p].i].doWrite
    BY <1>1 DEF DramQRange
  <2>1. CASE p \in 1 .. Len(dramQ)
    <3>1. dramQ'[p] = dramQ[p]
      BY <1>10, <2>1
    <3> QED BY <1>4, <2>1, <3>1 DEF DramQRange
  <2>2. CASE dramQ'[p] = c
    BY <1>12, <1>4, <2>2
  <2> QED BY <1>10, <2>1, <2>2
<1>17. DramQComplete'
  <2>1. ASSUME NEW i \in Len(rows) + 1 .. nRd
        PROVE  Queued([ rnw |-> TRUE, i |-> i ])'
    <3>1. Queued([ rnw |-> TRUE, i |-> i ])
      BY <2>1 DEF DramQComplete
    <3> QED BY <1>13, <3>1
  <2> QED BY <1>1, <2>1 DEF DramQComplete
<1>18. DramQOrder'
  <2> SUFFICES ASSUME NEW p \in 1 .. Len(dramQ'), NEW q \in 1 .. Len(dramQ'),
                      p < q
               PROVE  /\ dramQ'[p] # dramQ'[q]
                      /\ dramQ'[p].rnw /\ dramQ'[q].rnw
                         => dramQ'[p].i < dramQ'[q].i
    BY DEF DramQOrder
  <2>1. p \in 1 .. Len(dramQ) /\ dramQ'[p] = dramQ[p]
    BY <1>10, <1>11
  <2>2. CASE q \in 1 .. Len(dramQ)
    BY <1>10, <2>1, <2>2 DEF DramQOrder
  <2>3. CASE dramQ'[q] = c
    <3>1. dramQ[p] # c
      <4> SUFFICES ASSUME dramQ[p] = c PROVE FALSE
        OBVIOUS
      <4>1. k \in 1 .. nWrArb
        BY <1>12, <2>1 DEF DramQRange
      <4> QED BY <1>4, <4>1
    <3> QED BY <1>12, <2>1, <2>3, <3>1
  <2> QED BY <1>10, <2>2, <2>3
<1>19. WriteBeforeRead'
  <2> SUFFICES ASSUME NEW p \in 1 .. Len(dramQ'), NEW q \in 1 .. Len(dramQ'),
                      dramQ'[p].rnw, ~ dramQ'[q].rnw,
                      reqs[dramQ'[p].i].hv = reqs[dramQ'[q].i].hv
               PROVE  q < p
    BY <1>1 DEF WriteBeforeRead
  <2>1. p \in 1 .. Len(dramQ) /\ dramQ'[p] = dramQ[p]
    BY <1>10, <1>12
  <2>2. CASE q \in 1 .. Len(dramQ)
    BY <1>10, <2>1, <2>2 DEF WriteBeforeRead
(* A read of the row of request k cannot be queued: both would be in the   *)
(* scoreboard.                                                             *)
  <2>3. CASE dramQ'[q] = c
    <3> DEFINE m == dramQ[p].i
    <3>1. m \in Len(rows) + 1 .. nRd
      BY <2>1 DEF DramQRange
    <3>2. reqs[m].hv = reqs[k].hv
      BY <1>12, <2>1, <2>3
    <3> HIDE DEF m
    <3>3. m \in nAck + 1 .. nCmd /\ k \in nAck + 1 .. nCmd /\ m # k
      BY <1>2, <1>3, <3>1, BothInside
    <3> QED BY <3>2, <3>3 DEF ScoreboardExclusive, sFifo
  <2> QED BY <1>10, <2>2, <2>3
<1>20. TypeOK' /\ Counters'
  BY <1>1, <1>2, <1>11 DEF TypeOK
<1> QED
  BY <1>15, <1>16, <1>17, <1>18, <1>19, <1>20, <1>8

LEMMA doWrAckInv ==
  ASSUME Inv, doWrAck
  PROVE  Inv'
<1> USE DEF Inv, IInv, Counters
<1>1. /\ nAck < nWrArb /\ nAck' = nAck + 1
      /\ UNCHANGED << reqs, nCmd, nRd, dramQ, dram, rows, hdrs, stages, resps,
                      taken, nStored, addrQ, wrs, nWrArb >>
  BY DEF doWrAck
<1>2. TypeOK' /\ Counters'
  BY <1>1 DEF TypeOK
<1>3. ScoreboardExclusive'
  <2>1. \A i \in sFifo' : i \in sFifo
    BY <1>1, Lengths DEF sFifo
  <2> QED BY <1>1, <2>1 DEF ScoreboardExclusive
<1>4. OnePendingPerRow' /\ NoStaleRow'
  <2>1. \A i : Pending(i)' <=> Pending(i)
    BY <1>1 DEF Pending, Queued
  <2> QED BY <1>1, <2>1 DEF OnePendingPerRow, NoStaleRow
<1>5. DramQRange' /\ DramQComplete' /\ DramQOrder' /\ WriteBeforeRead'
  BY <1>1 DEF DramQRange, DramQComplete, DramQOrder, WriteBeforeRead, Queued
<1>6. Data' /\ AddrQRange' /\ AddrQComplete' /\ AddrQOrder'
      /\ StoredBeforeWritten' /\ OwnAddress'
  BY <1>1 DEF Data, AddrQRange, AddrQComplete, AddrQOrder,
              StoredBeforeWritten, OwnAddress
<1> QED
  BY <1>2, <1>3, <1>4, <1>5, <1>6

LEMMA PutInv ==
  ASSUME Inv, NEW r \in Requests, Put(r)
  PROVE  Inv'
<1> USE DEF Inv, IInv, Counters
<1>1. /\ reqs' = Append(reqs, r)
      /\ UNCHANGED << nCmd, nRd, dramQ, dram, rows, hdrs, stages, resps,
                      taken, nStored, addrQ, wrs, nWrArb, nAck >>
  BY DEF Put
<1>2. /\ reqs' \in Seq(Requests) /\ Len(reqs') = Len(reqs) + 1
      /\ \A i \in 1 .. Len(reqs) : reqs'[i] = reqs[i]
  BY <1>1, EnqElements DEF TypeOK
<1>3. TypeOK'
  BY <1>1, <1>2 DEF TypeOK
<1>4. Counters'
  BY <1>1, <1>2, Lengths
(* The requests the other parts speak of were accepted before. *)
<1>5. /\ \A i \in 1 .. Len(stages) : reqs'[i] = reqs[i]
      /\ \A i \in 1 .. Len(hdrs) : reqs'[i] = reqs[i]
      /\ \A i \in Len(stages) + 1 .. Len(rows) : reqs'[i] = reqs[i]
      /\ \A i \in sFifo : reqs'[i] = reqs[i]
  <2>1. /\ \A i \in 1 .. Len(stages) : i \in 1 .. Len(reqs)
        /\ \A i \in 1 .. Len(hdrs) : i \in 1 .. Len(reqs)
    BY Lengths, SMTT(30)
  <2>2. \A i \in Len(stages) + 1 .. Len(rows) : i \in 1 .. Len(reqs)
    BY Lengths, SMTT(30)
  <2>3. \A i \in nAck + 1 .. nCmd : i \in 1 .. Len(reqs)
    BY Lengths, SMTT(30)
  <2> QED BY <1>2, <2>1, <2>2, <2>3 DEF sFifo
<1>6. \A p \in 1 .. Len(dramQ) : reqs'[dramQ[p].i] = reqs[dramQ[p].i]
  <2> SUFFICES ASSUME NEW p \in 1 .. Len(dramQ)
               PROVE  dramQ[p].i \in 1 .. Len(reqs)
    BY <1>2
  <2>1. CASE dramQ[p].rnw
    <3>1. dramQ[p].i \in Len(rows) + 1 .. nRd
      BY <2>1 DEF DramQRange
    <3> QED BY <3>1, Lengths, SMTT(30)
  <2>2. CASE ~ dramQ[p].rnw
    <3>1. dramQ[p].i \in 1 .. nWrArb
      BY <2>2 DEF DramQRange
    <3> QED BY <3>1, Lengths, SMTT(30)
  <2> QED BY <2>1, <2>2
<1>7. Data'
  BY <1>1, <1>5 DEF Data
<1>8. ScoreboardExclusive'
  <2>1. sFifo' = sFifo
    BY <1>1 DEF sFifo
  <2> QED BY <1>5, <2>1 DEF ScoreboardExclusive
<1>9. WriteBeforeRead'
  <2> SUFFICES ASSUME NEW p \in 1 .. Len(dramQ), NEW q \in 1 .. Len(dramQ),
                      dramQ[p].rnw, ~ dramQ[q].rnw,
                      reqs'[dramQ[p].i].hv = reqs'[dramQ[q].i].hv
               PROVE  q < p
    BY <1>1 DEF WriteBeforeRead
  <2>1. reqs[dramQ[p].i].hv = reqs[dramQ[q].i].hv
    BY <1>6
  <2> QED BY <2>1 DEF WriteBeforeRead
<1>10. \A i : Pending(i)' <=> Pending(i)
  BY <1>1 DEF Pending, Queued
<1>11. OnePendingPerRow'
  BY <1>1, <1>5, <1>10 DEF OnePendingPerRow
<1>12. NoStaleRow'
  <2>1. ASSUME NEW j \in Len(stages) + 1 .. Len(rows)
        PROVE  /\ rows[j] = dram[reqs'[j].hv]
               /\ \A i \in 1 .. Len(stages) :
                    Pending(i) => reqs'[i].hv # reqs'[j].hv
    BY <1>5, <2>1, SMTT(30) DEF NoStaleRow
  <2> QED BY <1>1, <1>10, <2>1 DEF NoStaleRow
<1>13. DramQRange' /\ DramQComplete' /\ DramQOrder' /\ AddrQRange'
       /\ AddrQComplete' /\ AddrQOrder' /\ StoredBeforeWritten' /\ OwnAddress'
  BY <1>1, SMTT(30)
  DEF DramQRange, DramQComplete, DramQOrder, Queued, AddrQRange,
      AddrQComplete, AddrQOrder, StoredBeforeWritten, OwnAddress
<1> QED
  BY <1>3, <1>4, <1>7, <1>8, <1>9, <1>11, <1>12, <1>13

-----------------------------------------------------------------------------
LEMMA InitInv == Init => Inv
<1> SUFFICES ASSUME Init PROVE Inv
  OBVIOUS
<1>1. TypeOK
  <2>1. ZeroRow \in Row
    BY DEF ZeroRow, ZeroHeader, Row, ItemHeader
  <2> QED BY <2>1 DEF Init, TypeOK
<1>2. IInv
  BY DEF Init, IInv, Counters, Data, ScoreboardExclusive, sFifo, DramQRange,
         DramQComplete, DramQOrder, WriteBeforeRead, OnePendingPerRow,
         NoStaleRow, AddrQRange, AddrQComplete, AddrQOrder,
         StoredBeforeWritten, OwnAddress
<1> QED BY <1>1, <1>2 DEF Inv

LEMMA NextInv == Inv /\ [Next]_vars => Inv'
<1> SUFFICES ASSUME Inv, [Next]_vars PROVE Inv'
  OBVIOUS
<1>1. CASE UNCHANGED vars
  <2>1. UNCHANGED << reqs, nCmd, nRd, dramQ, dram, rows, hdrs, stages, resps,
                     taken, nStored, addrQ, wrs, nWrArb, nAck >>
    BY <1>1 DEF vars
  <2>2. TypeOK' /\ Counters'
    BY <2>1 DEF Inv, IInv, TypeOK, Counters
  <2>3. \A i : Pending(i)' <=> Pending(i)
    BY <2>1 DEF Pending, Queued
  <2>4. OnePendingPerRow' /\ NoStaleRow'
    BY <2>1, <2>3 DEF Inv, IInv, OnePendingPerRow, NoStaleRow
  <2>5. Data' /\ ScoreboardExclusive'
    BY <2>1 DEF Inv, IInv, Data, ScoreboardExclusive, sFifo
  <2>6. DramQRange' /\ DramQComplete' /\ DramQOrder' /\ WriteBeforeRead'
    BY <2>1 DEF Inv, IInv, DramQRange, DramQComplete, DramQOrder,
                WriteBeforeRead, Queued
  <2>7. AddrQRange' /\ AddrQComplete' /\ AddrQOrder' /\ StoredBeforeWritten'
        /\ OwnAddress'
    BY <2>1 DEF Inv, IInv, AddrQRange, AddrQComplete, AddrQOrder,
                StoredBeforeWritten, OwnAddress
  <2> QED BY <2>2, <2>4, <2>5, <2>6, <2>7 DEF Inv, IInv
<1>2. ASSUME NEW r \in Requests, Put(r) PROVE Inv'
  BY <1>2, PutInv
<1>3. CASE Rules
  BY <1>3, doDRAMCmdInv, doArbRespRdInv, DramReadInv, DramWriteInv,
     procHeaderInv, putHdrWrInv, TakeRespInv, StoreValueInv, writeHeaderInv,
     doArbRespWrInv, doWrAckInv DEF Rules
<1> QED BY <1>1, <1>2, <1>3 DEF Next

(* The pipeline keeps its inductive invariant. *)
THEOREM InvHolds == Spec => []Inv
<1>1. Init => Inv
  BY InitInv
<1>2. Inv /\ [Next]_vars => Inv'
  BY NextInv
<1> QED BY <1>1, <1>2, PTL DEF Spec

(* The inductive invariant that the runs check, without the types.         *)
THEOREM IInvHolds == Spec => []IInv
<1>1. Inv => IInv
  BY DEF Inv
<1> QED BY <1>1, InvHolds, PTL

(* The FIFOs, the table and the counters of the pipeline keep their types. *)
THEOREM TypeCorrect == Spec => []TypeOK
<1>1. Inv => TypeOK
  BY DEF Inv
<1> QED BY <1>1, InvHolds, PTL

(* A row that a request has read does not change until it is answered,     *)
(* whatever the other requests in the pipeline do.                         *)
THEOREM NoStaleRowHolds == Spec => []NoStaleRow
<1>1. Inv => NoStaleRow
  BY DEF Inv, IInv
<1> QED BY <1>1, InvHolds, PTL

(* Every header is written with the address of its own request's value.    *)
THEOREM OwnAddressHolds == Spec => []OwnAddress
<1>1. Inv => OwnAddress
  BY DEF Inv, IInv
<1> QED BY <1>1, InvHolds, PTL

-----------------------------------------------------------------------------
(* The refinement: accepting a request is accepting it in the atomic       *)
(* table, putHdrWr, which answers a request, executes it there, and every  *)
(* other rule changes nothing that can be told apart in the answers.       *)

(* AtomicTable has its own copy of the header logic. *)
LEMMA SameLogic ==
  /\ AT!ZeroRow = ZeroRow
  /\ \A row, r : AT!HdrWrReq(row, r) = HdrWrReq(row, r)
  /\ \A a : AT!stage(a) = stage(a) /\ AT!retval(a) = retval(a)
  /\ \A s, i : AT!WithAddr(s, i) = WithAddr(s, i)
<1>1. AT!Ways = Ways
  BY DEF AT!Ways, Ways
<1>2. AT!ZeroRow = ZeroRow
  BY <1>1 DEF AT!ZeroRow, ZeroRow, AT!ZeroHeader, ZeroHeader
<1>3. \A row, r : AT!HdrWrReq(row, r) = HdrWrReq(row, r)
  BY <1>1 DEF AT!HdrWrReq, HdrWrReq, AT!cmpMask, cmpMask, AT!idleMask, idleMask
<1>4. \A m : AT!mask2ind(m) = mask2ind(m)
  BY DEF AT!mask2ind, mask2ind
<1>5. \A t : AT!findLRU(t) = findLRU(t)
  BY <1>1, <1>4 DEF AT!findLRU, findLRU, AT!maskVec, maskVec
<1>6. \A a : AT!Hit(a) = Hit(a) /\ AT!Succeeds(a) = Succeeds(a)
  BY DEF AT!Hit, Hit, AT!Succeeds, Succeeds
<1>7. \A a : AT!ind(a) = ind(a)
  BY <1>1, <1>4, <1>5, <1>6 DEF AT!ind, ind
<1>8. \A a : AT!newhdr(a) = newhdr(a)
  BY <1>6, <1>7 DEF AT!newhdr, newhdr
<1>9. \A a : AT!value_cmd(a) = value_cmd(a)
  BY <1>6, <1>7 DEF AT!value_cmd, value_cmd
<1>10. \A a : AT!retval(a) = retval(a)
  BY <1>6, <1>9 DEF AT!retval, retval
<1>11. \A a : AT!stage(a) = stage(a)
  BY <1>6, <1>7, <1>8 DEF AT!stage, stage, AT!ZeroHeader, ZeroHeader
<1>12. \A s, i : AT!WithAddr(s, i) = WithAddr(s, i)
  BY DEF AT!WithAddr, WithAddr
<1> QED BY <1>2, <1>3, <1>10, <1>11, <1>12

-----------------------------------------------------------------------------
PendingSame == \A i : Pending(i)' <=> Pending(i)

LEMMA Chosen ==
  ASSUME NEW S, NEW i \in S, \A j \in S : j = i
  PROVE  (CHOOSE j \in S : TRUE) = i
OBVIOUS

(* One place of the table, from the requests whose header is on its way    *)
(* to it, all headers and what DRAM holds there.                           *)
Cell(S, hs, d) ==
  IF S # {} THEN LET i == CHOOSE i \in S : TRUE IN WithAddr(hs[i], i) ELSE d

LEMMA TableCells ==
  /\ Table = [ h \in Rows |-> [ w \in Ways |->
                 Cell(PendingAt(h, w), stages, dram[h][w]) ] ]
  /\ Table' = [ h \in Rows |-> [ w \in Ways |->
                 Cell(PendingAt(h, w)', stages', dram'[h][w]) ] ]
BY Zenon DEF Table, Cell

(* At most one header is on its way to a place of the table. *)
LEMMA OnlyPending ==
  ASSUME Inv, NEW h, NEW w, NEW i \in PendingAt(h, w), NEW hs, NEW d
  PROVE  /\ PendingAt(h, w) = {i}
         /\ Cell(PendingAt(h, w), hs, d) = WithAddr(hs[i], i)
<1>1. PendingAt(h, w) = {i}
  BY DEF PendingAt, Inv, IInv, OnePendingPerRow
<1>2. (CHOOSE j \in {i} : TRUE) = i
  BY Chosen
<1> QED BY <1>1, <1>2 DEF Cell

LEMMA NonePending ==
  ASSUME NEW hs, NEW d
  PROVE  Cell({}, hs, d) = d
BY DEF Cell

(* The table changes only with DRAM, the answers and what is on its way.   *)
LEMMA TableFrame ==
  ASSUME PendingSame, stages' = stages, dram' = dram,
         \A i \in 1 .. Len(stages) : reqs'[i] = reqs[i]
  PROVE  Table' = Table
<1>1. \A h, w : PendingAt(h, w)' = PendingAt(h, w)
  BY DEF PendingSame, PendingAt
<1>2. \A h \in Rows : \A w \in Ways :
        Cell(PendingAt(h, w)', stages', dram'[h][w])
        = Cell(PendingAt(h, w), stages, dram[h][w])
  BY <1>1
<1> QED BY <1>2, TableCells

-----------------------------------------------------------------------------
(* The rules that the atomic table does not see. *)

LEMMA QuietTable ==
  ASSUME Inv,
         \/ doDRAMCmd \/ procHeader \/ TakeResp \/ StoreValue
         \/ writeHeader \/ doWrAck
  PROVE  UNCHANGED << reqs, Table, resps >>
<1>1. UNCHANGED << reqs, dramQ, dram, stages, resps, nWrArb >>
  BY DEF doDRAMCmd, procHeader, TakeResp, StoreValue, writeHeader, doWrAck
<1>2. PendingSame
  BY <1>1 DEF PendingSame, Pending, Queued
<1> QED BY <1>1, <1>2, TableFrame

LEMMA doArbRespRdTable ==
  ASSUME Inv, doArbRespRd
  PROVE  UNCHANGED << reqs, Table, resps >>
<1> DEFINE c == [ rnw |-> TRUE, i |-> nRd + 1 ]
<1>1. /\ dramQ' = Append(dramQ, c) /\ dramQ \in Seq(Command) /\ c \in Command
      /\ UNCHANGED << reqs, dram, stages, resps, nWrArb >>
  BY DEF doArbRespRd, Inv, TypeOK, Command
<1>2. /\ \A p \in 1 .. Len(dramQ) :
           p \in 1 .. Len(dramQ') /\ dramQ'[p] = dramQ[p]
      /\ \A p \in 1 .. Len(dramQ') : p \in 1 .. Len(dramQ) \/ dramQ'[p] = c
  BY <1>1, EnqElements
<1>3. \A i : [ rnw |-> FALSE, i |-> i ] # c
  OBVIOUS
<1> HIDE DEF c
<1>4. \A i : Queued([ rnw |-> FALSE, i |-> i ])'
             <=> Queued([ rnw |-> FALSE, i |-> i ])
  BY <1>2, <1>3 DEF Queued
<1>5. PendingSame
  BY <1>1, <1>4 DEF PendingSame, Pending
<1> QED BY <1>1, <1>5, TableFrame

LEMMA DramReadTable ==
  ASSUME Inv, DramRead
  PROVE  UNCHANGED << reqs, Table, resps >>
<1>1. /\ dramQ # << >> /\ dramQ' = Tail(dramQ) /\ dramQ[1].rnw
      /\ UNCHANGED << reqs, dram, stages, resps, nWrArb >>
  BY DEF DramRead
<1>2. \A e : Queued(e)' <=> Queued(e) /\ e # dramQ[1]
  BY <1>1, DramQDequeue
<1>3. \A i : [ rnw |-> FALSE, i |-> i ] # dramQ[1]
  BY <1>1
<1>4. PendingSame
  BY <1>1, <1>2, <1>3 DEF PendingSame, Pending
<1> QED BY <1>1, <1>4, TableFrame

(* A header passes from the writes that wait for the arbiter to the queue. *)
LEMMA doArbRespWrTable ==
  ASSUME Inv, doArbRespWr
  PROVE  UNCHANGED << reqs, Table, resps >>
<1> USE DEF Inv, IInv, Counters
<1> DEFINE k == nWrArb + 1
           c == [ rnw |-> FALSE, i |-> k ]
<1>1. /\ k <= Len(wrs) /\ nWrArb' = k
      /\ dramQ' = IF wrs[k].doWrite THEN Append(dramQ, c) ELSE dramQ
      /\ UNCHANGED << reqs, dram, stages, resps >>
  BY DEF doArbRespWr
<1>2. k \in 1 .. Len(wrs) /\ k \in Nat /\ nWrArb \in Nat
  BY <1>1, Lengths
<1>3. wrs[k].doWrite = stages[k].doWrite
  BY <1>2 DEF OwnAddress
<1>4. \A i \in 1 .. Len(stages) : i > nWrArb <=> i > k \/ i = k
  BY <1>2
<1>5. c \in Command /\ dramQ \in Seq(Command)
  BY <1>2 DEF TypeOK, Command
<1>6. \A e : Queued(e)' <=> Queued(e) \/ (wrs[k].doWrite /\ e = c)
  <2>1. CASE wrs[k].doWrite
    <3>1. dramQ' = Append(dramQ, c)
      BY <1>1, <2>1
    <3>2. /\ Len(dramQ) + 1 \in 1 .. Len(dramQ') /\ dramQ'[Len(dramQ) + 1] = c
          /\ \A p \in 1 .. Len(dramQ) :
               p \in 1 .. Len(dramQ') /\ dramQ'[p] = dramQ[p]
          /\ \A p \in 1 .. Len(dramQ') : p \in 1 .. Len(dramQ) \/ dramQ'[p] = c
      <4> HIDE DEF c
      <4> QED BY <1>5, <3>1, EnqElements
    <3> HIDE DEF c, k
    <3> QED BY <2>1, <3>2 DEF Queued
  <2>2. CASE ~ wrs[k].doWrite
    <3>1. dramQ' = dramQ
      BY <1>1, <2>2
    <3> QED BY <2>2, <3>1 DEF Queued
  <2> QED BY <2>1, <2>2
<1>7. \A i : [ rnw |-> FALSE, i |-> i ] = c <=> i = k
  OBVIOUS
<1> HIDE DEF c, k
<1>8. PendingSame
  BY <1>1, <1>3, <1>4, <1>6, <1>7 DEF PendingSame, Pending
<1> QED BY <1>1, <1>8, TableFrame

(* A header that reaches DRAM was already what the table held there. *)
LEMMA DramWriteTable ==
  ASSUME Inv, DramWrite
  PROVE  UNCHANGED << reqs, Table, resps >>
<1> USE DEF Inv, IInv, Counters
<1> DEFINE c == dramQ[1]
           i == c.i
<1>1. /\ dramQ # << >> /\ dramQ' = Tail(dramQ) /\ ~ c.rnw
      /\ dram' = [ dram EXCEPT ![reqs[i].hv][wrs[i].idx] = wrs[i].newhdr ]
      /\ UNCHANGED << reqs, stages, resps, wrs, nWrArb >>
  BY DEF DramWrite
<1>2. c \in Command /\ 1 \in 1 .. Len(dramQ)
  BY <1>1 DEF TypeOK
<1>3. c = [ rnw |-> FALSE, i |-> i ]
  BY <1>1, <1>2 DEF Command
<1>4. i \in 1 .. nWrArb /\ wrs[i].doWrite
  BY <1>1, <1>2 DEF DramQRange
<1>5. i \in 1 .. Len(wrs) /\ i \in 1 .. Len(stages) /\ i \in 1 .. Len(reqs)
      /\ ~ (i > nWrArb)
  <2> HIDE DEF c, i
  <2> QED BY <1>4, Lengths
<1>6. Pending(i)
  <2>1. Queued([ rnw |-> FALSE, i |-> i ])
    BY <1>2, <1>3 DEF Queued
  <2>2. stages[i].doWrite
    BY <1>4, <1>5 DEF OwnAddress
  <2> QED BY <1>5, <2>1, <2>2 DEF Pending
<1>7. \A e : Queued(e)' <=> Queued(e) /\ e # c
  BY <1>1, DramQDequeue
<1>8. /\ reqs[i].hv \in Rows /\ wrs[i] \in WriteCommand
      /\ wrs[i].idx = stages[i].idx /\ wrs[i].newhdr = WithAddr(stages[i], i)
  <2> HIDE DEF c, i
  <2>1. reqs[i].hv \in Rows
    BY <1>5, ReqType
  <2>2. wrs[i] \in WriteCommand
    BY <1>5 DEF TypeOK
  <2>3. wrs[i].idx = stages[i].idx /\ wrs[i].newhdr = WithAddr(stages[i], i)
    BY <1>5 DEF OwnAddress
  <2> QED BY <2>1, <2>2, <2>3
<1> HIDE DEF c, i
<1>9. \A k : Pending(k)' <=> Pending(k) /\ k # i
  <2>1. \A k : [ rnw |-> FALSE, i |-> k ] # c <=> k # i
    BY <1>3
  <2> QED BY <1>1, <1>5, <1>7, <2>1 DEF Pending
<1>10. \A h, w : PendingAt(h, w)' = PendingAt(h, w) \ {i}
  BY <1>1, <1>9 DEF PendingAt
<1>11. ASSUME NEW h \in Rows, NEW w \in Ways
       PROVE  Cell(PendingAt(h, w)', stages', dram'[h][w])
              = Cell(PendingAt(h, w), stages, dram[h][w])
  <2>1. CASE h = reqs[i].hv /\ w = stages[i].idx
    <3>1. i \in PendingAt(h, w)
      BY <1>5, <1>6, <2>1 DEF PendingAt
    <3>2. /\ PendingAt(h, w) = {i}
          /\ Cell(PendingAt(h, w), stages, dram[h][w]) = WithAddr(stages[i], i)
      BY <3>1, OnlyPending
    <3>3. PendingAt(h, w)' = {}
      BY <1>10, <3>2
    <3>4. dram'[h][w] = wrs[i].newhdr
      BY <1>1, <1>8, <2>1 DEF TypeOK, Row
    <3> QED BY <1>8, <3>2, <3>3, <3>4, NonePending
  <2>2. CASE ~ (h = reqs[i].hv /\ w = stages[i].idx)
    <3>1. i \notin PendingAt(h, w)
      BY <2>2 DEF PendingAt
    <3>2. PendingAt(h, w)' = PendingAt(h, w)
      BY <1>10, <3>1
    <3>3. dram'[h][w] = dram[h][w]
      BY <1>1, <1>8, <2>2 DEF TypeOK, Row
    <3> QED BY <1>1, <3>2, <3>3
  <2> QED BY <2>1, <2>2
<1> QED BY <1>1, <1>11, TableCells

-----------------------------------------------------------------------------
(* The rules that it sees. *)

LEMMA PutRefines ==
  ASSUME Inv, NEW r \in Requests, Put(r)
  PROVE  AT!Put(r)
<1>1. /\ Len(reqs) < MaxReqs /\ Later(r) /\ reqs' = Append(reqs, r)
      /\ UNCHANGED << dramQ, dram, stages, resps, nWrArb >>
  BY DEF Put
<1>2. \A i \in 1 .. Len(stages) : reqs'[i] = reqs[i]
  <2>1. Len(stages) <= Len(reqs) /\ reqs \in Seq(Requests)
    BY Lengths, SMTT(30) DEF Inv, IInv, Counters, TypeOK
  <2> QED BY <1>1, <2>1, Lengths DEF Inv
<1>3. PendingSame
  BY <1>1 DEF PendingSame, Pending, Queued
<1>4. Table' = Table
  BY <1>1, <1>2, <1>3, TableFrame
<1> QED BY <1>1, <1>4 DEF AT!Put, AT!Later, Later

LEMMA putHdrWrRefines ==
  ASSUME Inv, putHdrWr
  PROVE  AT!Do
<1> USE DEF Inv, IInv, Counters
<1> DEFINE k == Len(stages) + 1
           r == reqs[k]
           a == HdrWrReq(Table[r.hv], r)
           s == stage(a)
<1>1. /\ k <= Len(hdrs)
      /\ stages' = Append(stages, stage(hdrs[k]))
      /\ resps' = Append(resps, retval(hdrs[k]))
      /\ UNCHANGED << reqs, dramQ, dram, nWrArb >>
  BY DEF putHdrWr
<1>2. /\ k \in 1 .. Len(hdrs) /\ k \in Len(stages) + 1 .. Len(rows)
      /\ k \in 1 .. Len(reqs) /\ Len(resps) + 1 = k /\ Len(resps) < Len(reqs)
      /\ k > nWrArb /\ k \notin 1 .. Len(stages) /\ k \in Nat
  BY <1>1, Lengths, SMTT(60)
<1>3. r \in Requests /\ r.hv \in Rows
  BY <1>2, ReqType
<1>4. \A w : PendingAt(r.hv, w) = {}
  BY <1>2 DEF NoStaleRow, PendingAt
<1>5. Table[r.hv] = rows[k]
  <2>1. rows[k] = dram[r.hv] /\ dram[r.hv] \in Row
    BY <1>2, <1>3 DEF NoStaleRow, TypeOK
  <2>2. Table[r.hv] = [ w \in Ways |-> dram[r.hv][w] ]
    BY <1>3, <1>4, TableCells, NonePending
  <2> QED BY <2>1, <2>2 DEF Row
<1>6. hdrs[k] = a
  BY <1>2, <1>5 DEF Data
<1>7. a \in HdrWrReqT /\ s \in Stage /\ s.idx \in Ways
  <2>1. Table[r.hv] \in Row
    BY <1>3, <1>2, <1>5 DEF NoStaleRow, TypeOK
  <2>2. a \in HdrWrReqT
    BY <1>3, <2>1, HdrWrReqType
  <2> QED BY <2>2, StageType DEF Stage
<1>8. /\ stages' = Append(stages, s) /\ stages \in Seq(Stage)
      /\ resps' = Append(resps, retval(a))
  BY <1>1, <1>6 DEF TypeOK
<1>9. /\ Len(stages') = k /\ stages'[k] = s
      /\ \A i \in 1 .. Len(stages) : i \in 1 .. Len(stages') /\ stages'[i] = stages[i]
      /\ \A i \in 1 .. Len(stages') : i \in 1 .. Len(stages) \/ i = k
      /\ k \in 1 .. Len(stages')
  BY <1>7, <1>8, EnqElements
<1> HIDE DEF s, k, r
<1>10. \A i : Pending(i)' <=> Pending(i) \/ (i = k /\ s.doWrite)
  <2>1. \A e : Queued(e)' <=> Queued(e)
    BY <1>1 DEF Queued
  <2> QED BY <1>1, <1>2, <1>9, <2>1 DEF Pending
<1>11. \A h, w : PendingAt(h, w)' =
                   PendingAt(h, w)
                   \cup (IF s.doWrite /\ h = r.hv /\ w = s.idx THEN {k} ELSE {})
  <2> SUFFICES ASSUME NEW h, NEW w, NEW i
               PROVE  i \in PendingAt(h, w)' <=>
                        \/ i \in PendingAt(h, w)
                        \/ i = k /\ s.doWrite /\ h = r.hv /\ w = s.idx
    OBVIOUS
  <2>1. i \in PendingAt(h, w)' <=>
          /\ i \in 1 .. Len(stages')
          /\ Pending(i)' /\ reqs[i].hv = h /\ stages'[i].idx = w
    BY <1>1 DEF PendingAt
  <2>2. i \in PendingAt(h, w) <=>
          /\ i \in 1 .. Len(stages)
          /\ Pending(i) /\ reqs[i].hv = h /\ stages[i].idx = w
    BY DEF PendingAt
  <2>3. CASE i = k
    <3>1. i \notin PendingAt(h, w) /\ ~ Pending(i)
      BY <1>2, <2>2, <2>3 DEF Pending
    <3>2. Pending(i)' <=> s.doWrite
      BY <1>10, <2>3, <3>1
    <3>3. i \in 1 .. Len(stages') /\ stages'[i] = s /\ reqs[i] = r
      BY <1>9, <2>3 DEF r
    <3> QED BY <2>1, <2>3, <3>1, <3>2, <3>3
  <2>4. CASE i # k
    BY <1>9, <1>10, <2>1, <2>2, <2>4
  <2> QED BY <2>3, <2>4
<1> DEFINE New(h, w) == IF s.doWrite /\ h = r.hv /\ w = s.idx
                        THEN WithAddr(s, k)
                        ELSE Table[h][w]
<1>12. ASSUME NEW h \in Rows, NEW w \in Ways
       PROVE  Cell(PendingAt(h, w)', stages', dram'[h][w]) = New(h, w)
  <2>1. Table[h][w] = Cell(PendingAt(h, w), stages, dram[h][w])
    BY TableCells
  <2>2. CASE s.doWrite /\ h = r.hv /\ w = s.idx
    <3>1. PendingAt(h, w)' = {k}
      BY <1>4, <1>11, <2>2
    <3>2. (CHOOSE j \in {k} : TRUE) = k
      BY Chosen
    <3> QED BY <1>9, <2>2, <3>1, <3>2 DEF Cell
  <2>3. CASE ~ (s.doWrite /\ h = r.hv /\ w = s.idx)
    <3>1. PendingAt(h, w)' = PendingAt(h, w)
      BY <1>11, <2>3
    <3>2. CASE PendingAt(h, w) = {}
      BY <1>1, <2>1, <2>3, <3>1, <3>2, NonePending
    <3>3. ASSUME NEW i \in PendingAt(h, w)
          PROVE  Cell(PendingAt(h, w)', stages', dram'[h][w]) = New(h, w)
      <4>1. Cell(PendingAt(h, w), stages', dram'[h][w]) = WithAddr(stages'[i], i)
        BY OnlyPending
      <4>2. Cell(PendingAt(h, w), stages, dram[h][w]) = WithAddr(stages[i], i)
        BY OnlyPending
      <4>3. stages'[i] = stages[i]
        BY <1>9 DEF PendingAt
      <4> QED BY <2>1, <2>3, <3>1, <4>1, <4>2, <4>3
    <3> QED BY <3>2, <3>3
  <2> QED BY <2>2, <2>3
<1>13. Table' = [ h \in Rows |-> [ w \in Ways |-> New(h, w) ] ]
  BY <1>12, TableCells
<1>14. Table' = IF s.doWrite
                THEN [ Table EXCEPT ![r.hv][s.idx] = WithAddr(s, k) ]
                ELSE Table
  <2>1. Table = [ h \in Rows |-> [ w \in Ways |-> Table[h][w] ] ]
    BY TableCells
  <2>2. CASE s.doWrite
    BY <1>3, <1>7, <1>13, <2>1, <2>2
  <2>3. CASE ~ s.doWrite
    BY <1>13, <2>1, <2>3
  <2> QED BY <2>2, <2>3
<1>15. /\ Len(resps) < Len(reqs) /\ reqs' = reqs
       /\ resps' = Append(resps, retval(a)) /\ Len(resps) + 1 = k
  BY <1>1, <1>2, <1>8
<1> HIDE DEF New
<1> QED BY <1>14, <1>15, SameLogic DEF AT!Do, s, r

-----------------------------------------------------------------------------
(* Every step of the pipeline is a step of the atomic table or changes     *)
(* nothing there.                                                          *)

LEMMA InitRefines ==
  Init => AT!Init
<1> SUFFICES ASSUME Init PROVE AT!Init
  OBVIOUS
<1>1. \A h, w : PendingAt(h, w) = {}
  BY DEF Init, PendingAt
<1>2. \A h \in Rows : \A w \in Ways :
        Cell(PendingAt(h, w), stages, dram[h][w]) = ZeroRow[w]
  BY <1>1, NonePending DEF Init
<1>3. Table = [ h \in Rows |-> [ w \in Ways |-> ZeroRow[w] ] ]
  BY <1>2, TableCells
<1>4. ZeroRow = [ w \in Ways |-> ZeroRow[w] ]
  BY DEF ZeroRow
<1>5. Table = [ h \in Rows |-> ZeroRow ]
  BY <1>3, <1>4
<1> QED BY <1>5, SameLogic DEF Init, AT!Init

LEMMA StepRefines ==
  Inv /\ [Next]_vars => [AT!Next]_(AT!vars)
<1> SUFFICES ASSUME Inv, [Next]_vars PROVE [AT!Next]_(AT!vars)
  OBVIOUS
<1>1. ASSUME NEW r \in Requests, Put(r) PROVE AT!Next
  BY <1>1, PutRefines DEF AT!Next
<1>2. CASE putHdrWr
  BY <1>2, putHdrWrRefines DEF AT!Next
<1>3. CASE \/ doDRAMCmd \/ procHeader \/ TakeResp \/ StoreValue
           \/ writeHeader \/ doWrAck
  BY <1>3, QuietTable DEF AT!vars
<1>4. CASE doArbRespRd
  BY <1>4, doArbRespRdTable DEF AT!vars
<1>5. CASE DramRead
  BY <1>5, DramReadTable DEF AT!vars
<1>6. CASE doArbRespWr
  BY <1>6, doArbRespWrTable DEF AT!vars
<1>7. CASE DramWrite
  BY <1>7, DramWriteTable DEF AT!vars
<1>8. CASE UNCHANGED vars
  <2>1. UNCHANGED << reqs, dramQ, dram, stages, resps, nWrArb >>
    BY <1>8 DEF vars
  <2>2. PendingSame
    BY <2>1 DEF PendingSame, Pending, Queued
  <2>3. Table' = Table
    BY <2>1, <2>2, TableFrame
  <2> QED BY <2>1, <2>3 DEF AT!vars
<1> QED BY <1>1, <1>2, <1>3, <1>4, <1>5, <1>6, <1>7, <1>8 DEF Next, Rules

(* The pipeline implements the atomic table: whatever overlaps in it, its  *)
(* answers are those of the accepted requests executed one at a time, in   *)
(* the order they were accepted.                                           *)
THEOREM PipelineImplementsAtomicTable == Spec => ImplementsAtomicTable
<1>1. Init => AT!Init
  BY InitRefines
<1>2. Inv /\ [Next]_vars => [AT!Next]_(AT!vars)
  BY StepRefines
<1>3. Spec => []Inv
  BY InvHolds
<1> QED BY <1>1, <1>2, <1>3, PTL DEF Spec, AT!Spec, ImplementsAtomicTable
=============================================================================
