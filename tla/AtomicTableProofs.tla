-------------------------- MODULE AtomicTableProofs --------------------------
(***************************************************************************)
(* Proofs about the atomic table, for any number of ways, rows and         *)
(* requests: what a GET may answer, and when a key may be lost.            *)
(***************************************************************************)
EXTENDS AtomicTable, HeaderLogicProofs

(* How far the requests and the answers have come. *)
LEMMA Lengths ==
  ASSUME TypeOK
  PROVE  Len(reqs) \in Nat /\ Len(resps) \in Nat /\ Len(resps) <= Len(reqs)
BY DEF TypeOK

LEMMA ReqType ==
  ASSUME TypeOK, NEW i \in 1 .. Len(reqs)
  PROVE  reqs[i] \in Requests /\ reqs[i] \in Request /\ reqs[i].hv \in Rows
<1>1. reqs[i] \in Requests
  BY DEF TypeOK
<1> QED BY <1>1, HeaderAssumption DEF Request

(* The keys stored are finitely many, and become more. *)
LEMMA StoredKeysFinite ==
  ASSUME NEW h, NEW n \in Nat
  PROVE  IsFiniteSet(StoredKeys(h, n))
<1> DEFINE S == { k \in 1 .. n : reqs[k].hv = h /\ reqs[k].op = "SET" }
           f == [ j \in S |-> << reqs[j].hvKey, reqs[j].key_size >> ]
<1>1. IsFiniteSet(S)
  <2>1. IsFiniteSet(1 .. n)
    BY FS_Interval
  <2> QED BY <2>1, FS_Subset
<1>2. f \in Surjection(S, StoredKeys(h, n))
  BY DEF Surjection, StoredKeys
<1> HIDE DEF S, f
<1> QED BY <1>1, <1>2, FS_Surjection

LEMMA StoredKeysGrow ==
  ASSUME NEW h, NEW n \in Nat
  PROVE  Cardinality(StoredKeys(h, n)) <= Cardinality(StoredKeys(h, n + 1))
<1>1. StoredKeys(h, n) \subseteq StoredKeys(h, n + 1)
  <2>1. \A k \in 1 .. n : k \in 1 .. n + 1
    OBVIOUS
  <2> QED BY <2>1 DEF StoredKeys
<1> QED BY <1>1, StoredKeysFinite, FS_Subset

(* When a SET finds every way of its row in use by another key, the row    *)
(* has had more keys than ways.                                            *)
LEMMA FullRow ==
  ASSUME IInv, NEW i \in 1 .. Len(reqs), i = Len(resps) + 1,
         reqs[i].op = "SET",
         cmpMask(table[reqs[i].hv], reqs[i]) = {},
         \A w \in Ways : table[reqs[i].hv][w].keylen # 0
  PROVE  Cardinality(StoredKeys(reqs[i].hv, i)) > NumWays
<1> DEFINE r == reqs[i]
           row == table[r.hv]
           K == StoredKeys(r.hv, i)
           own == << r.hvKey, r.key_size >>
           f == [ w \in Ways |-> << row[w].hvKey, row[w].keylen >> ]
<1>1. TypeOK /\ Len(resps) \in Nat /\ i \in Nat /\ i = Len(resps) + 1
  BY Lengths DEF IInv
<1>2. r.hv \in Rows
  BY <1>1, ReqType
<1>3. IsFiniteSet(K)
  BY <1>1, StoredKeysFinite
<1>4. own \in K
  BY <1>1 DEF StoredKeys
<1>5. ASSUME NEW w \in Ways
      PROVE  f[w] \in K /\ f[w] # own
  <2> DEFINE j == row[w].valAddr
  <2>1. /\ j \in 1 .. Len(resps) /\ reqs[j].op = "SET" /\ HeaderOf(r.hv, w, j)
    BY <1>2, <1>5 DEF IInv, HeadersAreLastSets
  <2> HIDE DEF j
  <2>2. j \in 1 .. i
    BY <1>1, <2>1
  <2>3. f[w] = << reqs[j].hvKey, reqs[j].key_size >>
    BY <2>1 DEF HeaderOf
  <2>4. f[w] \in K
    BY <2>1, <2>2, <2>3 DEF StoredKeys, HeaderOf
  <2>5. row[w].keylen # r.key_size \/ row[w].hvKey # r.hvKey
    BY DEF cmpMask
  <2> QED BY <2>4, <2>5
<1>6. \A v, w \in Ways : f[v] = f[w] => v = w
  <2>1. OneHeaderPerKey
    BY DEF IInv
  <2>2. ASSUME NEW v \in Ways, NEW w \in Ways, f[v] = f[w] PROVE v = w
    <3>1. row[v].hvKey = row[w].hvKey /\ row[v].keylen = row[w].keylen
      BY <2>2
    <3> QED BY <1>2, <2>1, <3>1 DEF OneHeaderPerKey
  <2> QED BY <2>2
<1>7. f \in Injection(Ways, K \ {own})
  <2>1. f \in [ Ways -> K \ {own} ]
    BY <1>5
  <2> HIDE DEF f
  <2> QED BY <1>6, <2>1 DEF Injection, IsInjective
<1>8. IsFiniteSet(K \ {own}) /\ Cardinality(K \ {own}) = Cardinality(K) - 1
  BY <1>3, <1>4, FS_RemoveElement
<1>9. Cardinality(Ways) = NumWays
  BY HeaderAssumption, FS_Interval DEF Ways
<1>10. Cardinality(Ways) <= Cardinality(K \ {own})
  <2> HIDE DEF f, K, own
  <2> QED BY <1>7, <1>8, FS_Injection
<1>11. Cardinality(K) \in Nat
  BY <1>3, FS_CardinalityType
<1> QED BY <1>8, <1>9, <1>10, <1>11, HeaderAssumption

-----------------------------------------------------------------------------
(* The step that executes request i, in terms of the row it changes. *)
LEMMA DoStep ==
  ASSUME IInv, Do
  PROVE  LET i == Len(resps) + 1
             r == reqs[i]
         IN  /\ i \in 1 .. Len(reqs) /\ i \in Nat
             /\ r \in Requests /\ r \in Request /\ r.hv \in Rows
             /\ table[r.hv] \in Row /\ OneHeader(table[r.hv])
             /\ Updated(table[r.hv], r, i) \in Row
             /\ table' \in [ Rows -> Row ]
             /\ table'[r.hv] = Updated(table[r.hv], r, i)
             /\ \A h \in Rows \ {r.hv} : table'[h] = table[h]
             /\ resps' \in Seq(Response) /\ Len(resps') = i
             /\ resps'[i] = retval(HdrWrReq(table[r.hv], r))
             /\ \A k \in 1 .. Len(resps) : resps'[k] = resps[k] /\ k # i
             /\ \A k \in 1 .. Len(resps') : k \in 1 .. Len(resps) \/ k = i
             /\ reqs' = reqs
<1> DEFINE i == Len(resps) + 1
           r == reqs[i]
           row == table[r.hv]
           s == stage(HdrWrReq(row, r))
<1>1. TypeOK /\ Len(resps) \in Nat /\ Len(reqs) \in Nat /\ resps \in Seq(Response)
  BY Lengths DEF IInv, TypeOK
<1>2. i \in 1 .. Len(reqs) /\ i \in Nat
  BY <1>1 DEF Do
<1>3. r \in Requests /\ r \in Request /\ r.hv \in Rows
  BY <1>1, <1>2, ReqType
<1>4. row \in Row /\ OneHeader(row)
  BY <1>1, <1>3 DEF TypeOK, IInv, OneHeaderPerKey, OneHeader
<1>5. s \in Stage /\ retval(HdrWrReq(row, r)) \in Response
  BY <1>3, <1>4, HdrWrReqType, StageType
<1>6. Updated(row, r, i) \in Row
  BY <1>2, <1>3, <1>4, UpdatedType
<1>7. /\ resps' = Append(resps, retval(HdrWrReq(row, r)))
      /\ table' = IF s.doWrite
                  THEN [ table EXCEPT ![r.hv][s.idx] = WithAddr(s, i) ]
                  ELSE table
      /\ reqs' = reqs
  BY DEF Do
<1>8. /\ Updated(row, r, i) = IF s.doWrite
                              THEN [ row EXCEPT ![s.idx] = WithAddr(s, i) ]
                              ELSE row
  BY DEF Updated
<1> HIDE DEF s, r, i
<1>9. table' = [ table EXCEPT ![r.hv] = Updated(row, r, i) ]
  BY <1>1, <1>3, <1>7, <1>8 DEF TypeOK
<1>10. /\ table' \in [ Rows -> Row ]
       /\ table'[r.hv] = Updated(row, r, i)
       /\ \A h \in Rows \ {r.hv} : table'[h] = table[h]
  <2>1. table \in [ Rows -> Row ]
    BY <1>1 DEF TypeOK
  <2> QED BY <1>3, <1>6, <1>9, <2>1
<1>11. /\ resps' \in Seq(Response) /\ Len(resps') = i
       /\ resps'[i] = retval(HdrWrReq(row, r))
       /\ \A k \in 1 .. Len(resps) : resps'[k] = resps[k] /\ k # i
       /\ \A k \in 1 .. Len(resps') : k \in 1 .. Len(resps) \/ k = i
  BY <1>1, <1>5, <1>7 DEF i
<1> QED BY <1>2, <1>3, <1>4, <1>6, <1>7, <1>10, <1>11 DEF i, r

LEMMA DoHeaders ==
  ASSUME IInv, Do
  PROVE  OneHeaderPerKey' /\ HeadersAreLastSets'
<1> DEFINE i == Len(resps) + 1
           r == reqs[i]
           row == table[r.hv]
           new == Updated(row, r, i)
           Still(j) == \A k \in j + 1 .. i :
                         SameKey(reqs[k], reqs[j]) => reqs[k].op = "GET"
<1>1. /\ i \in 1 .. Len(reqs) /\ i \in Nat
      /\ r \in Requests /\ r \in Request /\ r.hv \in Rows
      /\ row \in Row /\ OneHeader(row)
      /\ table'[r.hv] = new
      /\ \A h \in Rows \ {r.hv} : table'[h] = table[h]
      /\ Len(resps') = i /\ i = Len(resps) + 1 /\ Len(resps) \in Nat
      /\ reqs' = reqs
  BY DoStep, Lengths DEF IInv
<1>2. \A j \in 1 .. Len(resps) :
        Unwritten(j) /\ (SameKey(r, reqs[j]) => r.op = "GET") => Still(j)
  <2>1. ASSUME NEW j \in 1 .. Len(resps),
               Unwritten(j), SameKey(r, reqs[j]) => r.op = "GET"
        PROVE  Still(j)
    <3>1. \A k \in j + 1 .. i : k = i \/ k \in j + 1 .. Len(resps)
      BY <1>1
    <3> QED BY <1>1, <2>1, <3>1 DEF Unwritten
  <2> QED BY <2>1
<1>3. Still(i)
  <2>1. i + 1 .. i = {}
    BY <1>1
  <2> QED BY <2>1
<1>4. i \in 1 .. Len(resps') /\ \A j \in 1 .. Len(resps) : j \in 1 .. Len(resps')
  BY <1>1
<1>5. r.key_size # 0
  BY <1>1 DEF Request
<1> DEFINE Owed(h, w, hdr) ==
             LET j == hdr.valAddr
             IN  /\ j \in 1 .. Len(resps')
                 /\ reqs[j].op = "SET"
                 /\ h = reqs[j].hv
                 /\ hdr.keylen = reqs[j].key_size
                 /\ hdr.hvKey = reqs[j].hvKey
                 /\ Still(j)
(* A header of another key stays owed. *)
<1>6. ASSUME NEW h \in Rows, NEW w \in Ways, table[h][w].keylen # 0,
             h # r.hv \/ w \notin cmpMask(row, r)
      PROVE  Owed(h, w, table[h][w])
  <2> DEFINE j == table[h][w].valAddr
  <2>1. /\ j \in 1 .. Len(resps) /\ reqs[j].op = "SET" /\ HeaderOf(h, w, j)
        /\ Unwritten(j)
    BY <1>6 DEF IInv, HeadersAreLastSets
  <2>2. ~ SameKey(r, reqs[j])
    BY <1>6, <2>1 DEF SameKey, HeaderOf, cmpMask
  <2> HIDE DEF r, i, Still
  <2> QED BY <1>2, <1>4, <2>1, <2>2 DEF HeaderOf
<1> DEFINE Good == /\ OneHeader(new)
                   /\ \A w \in Ways : new[w].keylen # 0 => Owed(r.hv, w, new[w])
<1>7. Good
  <2>1. CASE cmpMask(row, r) # {}
    <3>1. PICK m \in Ways :
           /\ cmpMask(row, r) = {m}
           /\ row[m].keylen = r.key_size /\ row[m].hvKey = r.hvKey
           /\ \A w \in Ways \ {m} : new[w] = row[w]
           /\ new[m].hvKey = r.hvKey
           /\ new[m].keylen = IF r.op = "DELETE" THEN 0 ELSE r.key_size
           /\ new[m].valAddr = IF r.op = "SET" THEN i ELSE row[m].valAddr
      <4> HIDE DEF i, r, row
      <4> QED BY <1>1, <2>1, UpdatedHit
    <3>2. OneHeader(new)
      <4> HIDE DEF new, r, row
      <4> QED BY <1>1, <3>1 DEF OneHeader, cmpMask
    <3>3. ASSUME NEW w \in Ways \ {m}, new[w].keylen # 0
          PROVE  Owed(r.hv, w, new[w])
      <4>1. new[w] = table[r.hv][w] /\ w \notin cmpMask(row, r)
        BY <3>1
      <4> HIDE DEF new, Owed, r, row
      <4> QED BY <1>1, <1>6, <3>3, <4>1
    <3>4. ASSUME new[m].keylen # 0, r.op = "SET"
          PROVE  Owed(r.hv, m, new[m])
      <4>1. /\ new[m].valAddr = i /\ new[m].keylen = r.key_size
            /\ new[m].hvKey = r.hvKey
        BY <3>1, <3>4
      <4> HIDE DEF new, i, Still
      <4> QED BY <1>3, <1>4, <3>4, <4>1 DEF r
    <3>5. ASSUME new[m].keylen # 0, r.op # "SET"
          PROVE  Owed(r.hv, m, new[m])
      <4> DEFINE j == row[m].valAddr
      <4>1. /\ new[m].valAddr = j /\ new[m].keylen = r.key_size
            /\ new[m].hvKey = r.hvKey /\ r.op = "GET"
        BY <1>1, <3>1, <3>5 DEF Request, Ops
      <4>2. row[m].keylen # 0
        BY <1>5, <3>1
      <4>3. /\ j \in 1 .. Len(resps) /\ reqs[j].op = "SET"
            /\ HeaderOf(r.hv, m, j) /\ Unwritten(j)
        BY <1>1, <4>2 DEF IInv, HeadersAreLastSets
      <4>4. Still(j)
        <5> HIDE DEF r, j, Still
        <5> QED BY <1>2, <4>1, <4>3
      <4> HIDE DEF new, i, Still
      <4> QED BY <1>4, <3>1, <4>1, <4>3, <4>4 DEF HeaderOf
    <3> HIDE DEF Owed, new, r, row
    <3> QED BY <3>2, <3>3, <3>4, <3>5
  <2>2. CASE cmpMask(row, r) = {} /\ r.op = "SET"
    <3>1. PICK m \in Ways :
           /\ \A w \in Ways \ {m} : new[w] = row[w]
           /\ new[m].hvKey = r.hvKey
           /\ new[m].keylen = r.key_size
           /\ new[m].valAddr = i
      <4> HIDE DEF i, r, row
      <4> QED BY <1>1, <2>2, UpdatedInsert
    <3>2. OneHeader(new)
      <4> HIDE DEF new, r, row
      <4> QED BY <1>1, <2>2, <3>1 DEF OneHeader, cmpMask
    <3>3. ASSUME NEW w \in Ways \ {m}, new[w].keylen # 0
          PROVE  Owed(r.hv, w, new[w])
      <4>1. new[w] = table[r.hv][w] /\ w \notin cmpMask(row, r)
        BY <2>2, <3>1
      <4> HIDE DEF new, Owed, r, row
      <4> QED BY <1>1, <1>6, <3>3, <4>1
    <3>4. Owed(r.hv, m, new[m])
      <4> HIDE DEF new, i, Still
      <4> QED BY <1>3, <1>4, <2>2, <3>1 DEF r
    <3> HIDE DEF Owed, new, r, row
    <3> QED BY <3>2, <3>3, <3>4
  <2>3. CASE cmpMask(row, r) = {} /\ r.op # "SET"
    <3>1. new = row
      <4> HIDE DEF i, r, row
      <4> QED BY <1>1, <2>3, UpdatedMiss
    <3> HIDE DEF new, Owed, r
    <3> QED BY <1>1, <1>6, <2>3, <3>1
  <2> QED BY <2>1, <2>2, <2>3
<1>8. OneHeaderPerKey'
  <2>1. OneHeaderPerKey /\ OneHeader(new)
    BY <1>7 DEF IInv
  <2> HIDE DEF new, r, row
  <2> QED BY <1>1, <2>1 DEF OneHeaderPerKey, OneHeader
<1>9. HeadersAreLastSets'
  <2>1. ASSUME NEW h \in Rows, NEW w \in Ways, table'[h][w].keylen # 0
        PROVE  Owed(h, w, table'[h][w])
    <3>1. CASE h = r.hv
      <4> HIDE DEF Owed, new, r
      <4> QED BY <1>1, <1>7, <2>1, <3>1
    <3>2. CASE h # r.hv
      <4> HIDE DEF Owed, new, r
      <4> QED BY <1>1, <1>6, <2>1, <3>2
    <3> QED BY <3>1, <3>2
  <2> HIDE DEF r, new, row
  <2> QED BY <1>1, <2>1 DEF HeadersAreLastSets, HeaderOf, Unwritten
<1> QED BY <1>8, <1>9

LEMMA DoStoredOrFull ==
  ASSUME IInv, Do
  PROVE  StoredOrFull'
<1> DEFINE i == Len(resps) + 1
           r == reqs[i]
           row == table[r.hv]
           new == Updated(row, r, i)
           Still(j) == \A k \in j + 1 .. i :
                         SameKey(reqs[k], reqs[j]) => reqs[k].op = "GET"
           Kept(j) == \E w \in Ways : /\ table'[reqs[j].hv][w].keylen = reqs[j].key_size
                                      /\ table'[reqs[j].hv][w].hvKey = reqs[j].hvKey
           Full(j) == Cardinality(StoredKeys(reqs[j].hv, i)) > NumWays
<1>1. /\ i \in 1 .. Len(reqs) /\ i \in Nat
      /\ r \in Requests /\ r \in Request /\ r.hv \in Rows
      /\ row \in Row /\ OneHeader(row)
      /\ table'[r.hv] = new
      /\ \A h \in Rows \ {r.hv} : table'[h] = table[h]
      /\ Len(resps') = i /\ i = Len(resps) + 1 /\ Len(resps) \in Nat
      /\ \A k \in 1 .. Len(resps') : k \in 1 .. Len(resps) \/ k = i
      /\ reqs' = reqs
  BY DoStep, Lengths DEF IInv
<1>2. \A j \in 1 .. Len(resps) : Cardinality(StoredKeys(reqs[j].hv, Len(resps))) > NumWays
                                 => Full(j)
  <2> SUFFICES ASSUME NEW j \in 1 .. Len(resps),
                      Cardinality(StoredKeys(reqs[j].hv, Len(resps))) > NumWays
               PROVE  Full(j)
    OBVIOUS
  <2> DEFINE h == reqs[j].hv
  <2>1. Cardinality(StoredKeys(h, Len(resps))) <= Cardinality(StoredKeys(h, i))
    BY <1>1, StoredKeysGrow
  <2>2. /\ Cardinality(StoredKeys(h, Len(resps))) \in Nat
        /\ Cardinality(StoredKeys(h, i)) \in Nat
    BY <1>1, StoredKeysFinite, FS_CardinalityType
  <2> HIDE DEF i
  <2> QED BY <2>1, <2>2, HeaderAssumption
<1>3. \A j \in 1 .. Len(resps) :
        Still(j) => /\ Unwritten(j)
                    /\ SameKey(r, reqs[j]) => r.op = "GET"
  BY <1>1 DEF Unwritten
<1>4. ASSUME NEW j \in 1 .. Len(resps), reqs[j].op = "SET", Still(j),
             NEW v \in Ways, HeaderOf(reqs[j].hv, v, j)
      PROVE  Kept(j) \/ Full(j)
  <2>1. /\ reqs[j].hv \in Rows /\ reqs[j].key_size # 0
        /\ table[reqs[j].hv][v].keylen = reqs[j].key_size
        /\ table[reqs[j].hv][v].hvKey = reqs[j].hvKey
    <3>1. j \in 1 .. Len(reqs)
      BY <1>1
    <3>2. reqs[j] \in Request /\ reqs[j].hv \in Rows
      BY <3>1, ReqType DEF IInv
    <3> QED BY <1>4, <3>2 DEF HeaderOf, Request
  <2>2. CASE reqs[j].hv # r.hv
    <3> HIDE DEF r
    <3> QED BY <1>1, <2>1, <2>2
  <2>3. CASE reqs[j].hv = r.hv /\ new[v] = row[v]
    <3> HIDE DEF new, r
    <3> QED BY <1>1, <2>1, <2>3
  <2>4. CASE reqs[j].hv = r.hv /\ cmpMask(row, r) # {}
    <3>1. PICK m \in Ways :
           /\ cmpMask(row, r) = {m}
           /\ row[m].keylen = r.key_size /\ row[m].hvKey = r.hvKey
           /\ \A w \in Ways \ {m} : new[w] = row[w]
           /\ new[m].hvKey = r.hvKey
           /\ new[m].keylen = IF r.op = "DELETE" THEN 0 ELSE r.key_size
      <4> HIDE DEF i, r, row
      <4> QED BY <1>1, <2>4, UpdatedHit
    <3>2. CASE v = m
      <4>1. SameKey(r, reqs[j])
        BY <2>1, <2>4, <3>1, <3>2 DEF SameKey
      <4>2. r.op = "GET"
        <5> HIDE DEF r, Still
        <5> QED BY <1>3, <1>4, <4>1
      <4> HIDE DEF new, r
      <4> QED BY <1>1, <2>1, <2>4, <3>1, <3>2, <4>2
    <3>3. CASE v # m
      BY <2>3, <2>4, <3>1, <3>3
    <3> QED BY <3>2, <3>3
  <2>5. CASE reqs[j].hv = r.hv /\ cmpMask(row, r) = {} /\ r.op = "SET"
    <3>1. PICK m \in Ways :
           /\ row[m].keylen = 0 \/ \A w \in Ways : row[w].keylen # 0
           /\ \A w \in Ways \ {m} : new[w] = row[w]
      <4> HIDE DEF i, r, row
      <4> QED BY <1>1, <2>5, UpdatedInsert
    <3>2. CASE v # m
      BY <2>3, <2>5, <3>1, <3>2
    <3>3. CASE v = m
      <4>1. \A w \in Ways : row[w].keylen # 0
        BY <2>1, <2>5, <3>1, <3>3
      <4>2. Cardinality(StoredKeys(r.hv, i)) > NumWays
        BY <1>1, <2>5, <4>1, FullRow
      <4> QED BY <2>5, <4>2
    <3> QED BY <3>2, <3>3
  <2>6. CASE reqs[j].hv = r.hv /\ cmpMask(row, r) = {} /\ r.op # "SET"
    <3>1. new = row
      <4> HIDE DEF i, r, row
      <4> QED BY <1>1, <2>6, UpdatedMiss
    <3> QED BY <2>3, <2>6, <3>1
  <2> QED BY <2>2, <2>4, <2>5, <2>6
<1>5. ASSUME r.op = "SET"
      PROVE  Kept(i)
  <2>1. PICK m \in Ways : new[m].hvKey = r.hvKey /\ new[m].keylen = r.key_size
    <3>1. CASE cmpMask(row, r) # {}
      <4>1. PICK m \in Ways :
             /\ new[m].hvKey = r.hvKey
             /\ new[m].keylen = IF r.op = "DELETE" THEN 0 ELSE r.key_size
        <5> HIDE DEF i, r, row
        <5> QED BY <1>1, <3>1, UpdatedHit
      <4> QED BY <1>5, <4>1
    <3>2. CASE cmpMask(row, r) = {}
      <4> HIDE DEF i, r, row
      <4> QED BY <1>1, <1>5, <3>2, UpdatedInsert
    <3> QED BY <3>1, <3>2
  <2> HIDE DEF new
  <2> QED BY <1>1, <2>1
<1>6. ASSUME NEW j \in 1 .. Len(resps'), reqs[j].op = "SET", Still(j)
      PROVE  Kept(j) \/ Full(j)
  <2>1. CASE j = i
    <3>1. Kept(i)
      BY <1>5, <1>6, <2>1
    <3> QED BY <2>1, <3>1
  <2>2. CASE j \in 1 .. Len(resps)
    <3>1. Unwritten(j)
      BY <1>3, <1>6, <2>2
    <3>2. \/ \E w \in Ways : HeaderOf(reqs[j].hv, w, j)
          \/ Cardinality(StoredKeys(reqs[j].hv, Len(resps))) > NumWays
      BY <1>6, <2>2, <3>1 DEF IInv, StoredOrFull
    <3> HIDE DEF Kept, Full, Still
    <3> QED BY <1>2, <1>4, <1>6, <2>2, <3>2
  <2> QED BY <1>1, <2>1, <2>2
<1> HIDE DEF r, new, row
<1> QED BY <1>1, <1>6 DEF StoredOrFull, HeaderOf, Unwritten, StoredKeys

(* The last of a set of requests. *)
LEMMA LastWriterIs ==
  ASSUME IInv, NEW i \in 1 .. Len(reqs), NEW j \in Writers(i),
         \A k \in Writers(i) : k <= j
  PROVE  LastWriter(i) = j
<1>1. Writers(i) \in SUBSET (0 .. Len(reqs)) /\ Len(reqs) \in Nat
  BY Lengths DEF IInv, Writers
<1>2. LastWriter(i) \in Writers(i) /\ \A k \in Writers(i) : k <= LastWriter(i)
  BY <1>1, Mask2Ind DEF LastWriter
<1>3. j <= LastWriter(i) /\ LastWriter(i) <= j /\ j \in Nat /\ LastWriter(i) \in Nat
  <2>1. Writers(i) \in SUBSET Nat
    BY <1>1
  <2> QED BY <1>2, <2>1
<1> QED BY <1>3

LEMMA LastWriterLast ==
  ASSUME IInv, NEW i \in 1 .. Len(reqs), Writers(i) # {}
  PROVE  /\ LastWriter(i) \in 1 .. i - 1
         /\ SameKey(reqs[LastWriter(i)], reqs[i])
         /\ \A k \in LastWriter(i) + 1 .. i - 1 :
              SameKey(reqs[k], reqs[i]) => reqs[k].op = "GET"
<1>1. Writers(i) \in SUBSET (0 .. Len(reqs)) /\ Len(reqs) \in Nat
  BY Lengths DEF IInv, Writers
<1>2. LastWriter(i) \in Writers(i) /\ \A k \in Writers(i) : k <= LastWriter(i)
  BY <1>1, Mask2Ind DEF LastWriter
<1>3. LastWriter(i) \in 1 .. i - 1 /\ SameKey(reqs[LastWriter(i)], reqs[i])
  BY <1>2 DEF Writers
<1>4. ASSUME NEW k \in LastWriter(i) + 1 .. i - 1, SameKey(reqs[k], reqs[i]),
             reqs[k].op # "GET"
      PROVE  FALSE
  <2>1. k \in 1 .. i - 1 /\ LastWriter(i) < k /\ ~ (k <= LastWriter(i))
    BY <1>3
  <2>2. k \in Writers(i)
    BY <1>4, <2>1 DEF Writers
  <2> QED BY <1>2, <2>1, <2>2
<1> QED BY <1>3, <1>4

LEMMA DoAnswers ==
  ASSUME IInv, Do
  PROVE  GetReadsLastSet' /\ LossNeedsFullRow'
<1> DEFINE i == Len(resps) + 1
           r == reqs[i]
           row == table[r.hv]
           a == retval(HdrWrReq(row, r))
<1>1. /\ i \in 1 .. Len(reqs) /\ i \in Nat
      /\ r \in Requests /\ r \in Request /\ r.hv \in Rows
      /\ row \in Row /\ OneHeader(row)
      /\ resps'[i] = a
      /\ \A k \in 1 .. Len(resps) : resps'[k] = resps[k]
      /\ \A k \in 1 .. Len(resps') : k \in 1 .. Len(resps) \/ k = i
      /\ reqs' = reqs
      /\ Len(resps) \in Nat
  BY DoStep, Lengths DEF IInv
<1>2. ASSUME r.op = "GET", a.status = "SUCCESS"
      PROVE  /\ Writers(i) # {}
             /\ reqs[LastWriter(i)].op = "SET"
             /\ a.value_cmd.addr = LastWriter(i)
  <2>1. cmpMask(row, r) # {}
    <3> SUFFICES ASSUME cmpMask(row, r) = {} PROVE FALSE
      OBVIOUS
    <3>1. a.status = "NOT_STORED"
      <4>1. r.op # "SET"
        BY <1>2
      <4> HIDE DEF r, i, row
      <4> QED BY <1>1, <4>1, UpdatedMiss
    <3> QED BY <1>2, <3>1
  <2>2. PICK m \in Ways : /\ row[m].keylen = r.key_size
                          /\ row[m].hvKey = r.hvKey
                          /\ r.op = "GET" => a.value_cmd.addr = row[m].valAddr
    <3> HIDE DEF r, i, row
    <3> QED BY <1>1, <2>1, UpdatedHit
  <2> DEFINE j == row[m].valAddr
  <2>3. r.key_size # 0
    BY <1>1 DEF Request
  <2>4. /\ j \in 1 .. Len(resps) /\ reqs[j].op = "SET"
        /\ HeaderOf(r.hv, m, j) /\ Unwritten(j)
    BY <1>1, <2>2, <2>3 DEF IInv, HeadersAreLastSets
  <2>5. SameKey(reqs[j], r)
    BY <2>2, <2>4 DEF SameKey, HeaderOf
  <2>6. j \in Writers(i)
    <3>1. j \in 1 .. i - 1 /\ reqs[j].op # "GET"
      BY <1>1, <2>4
    <3> HIDE DEF j, i
    <3> QED BY <2>5, <3>1 DEF Writers, r
  <2>7. \A k \in Writers(i) : k <= j
    <3> SUFFICES ASSUME NEW k \in Writers(i), ~ (k <= j) PROVE FALSE
      OBVIOUS
    <3>1. k \in 1 .. i - 1 /\ SameKey(reqs[k], r) /\ reqs[k].op # "GET"
      BY DEF Writers
    <3>2. k \in j + 1 .. Len(resps)
      <4> HIDE DEF j
      <4> QED BY <1>1, <2>4, <3>1
    <3>3. SameKey(reqs[k], reqs[j])
      BY <2>5, <3>1 DEF SameKey
    <3> HIDE DEF j
    <3> QED BY <2>4, <3>1, <3>2, <3>3 DEF Unwritten
  <2>8. LastWriter(i) = j
    <3> HIDE DEF j, i
    <3> QED BY <1>1, <2>6, <2>7, LastWriterIs
  <2> QED BY <1>2, <2>2, <2>4, <2>6, <2>8
<1>3. ASSUME r.op = "GET", a.status = "NOT_STORED", Writers(i) # {},
             reqs[LastWriter(i)].op = "SET"
      PROVE  Cardinality(StoredKeys(r.hv, i - 1)) > NumWays
  <2> DEFINE j == LastWriter(i)
  <2>1. cmpMask(row, r) = {}
    <3> SUFFICES ASSUME cmpMask(row, r) # {} PROVE FALSE
      OBVIOUS
    <3>1. a.status = "SUCCESS"
      <4> HIDE DEF r, i, row
      <4> QED BY <1>1, UpdatedHit
    <3> QED BY <1>3, <3>1
  <2>2. /\ j \in 1 .. i - 1 /\ SameKey(reqs[j], r)
        /\ \A k \in j + 1 .. i - 1 : SameKey(reqs[k], r) => reqs[k].op = "GET"
    BY <1>1, <1>3, LastWriterLast
  <2>3. i - 1 = Len(resps)
    BY <1>1
  <2>4. j \in 1 .. Len(resps) /\ Unwritten(j) /\ reqs[j].hv = r.hv
    <3> HIDE DEF i, j
    <3> QED BY <2>2, <2>3 DEF Unwritten, SameKey
  <2>5. \A w \in Ways : ~ HeaderOf(r.hv, w, j)
    BY <2>1, <2>2 DEF HeaderOf, SameKey, cmpMask
  <2> HIDE DEF i, j, r
  <2> QED BY <1>3, <2>3, <2>4, <2>5 DEF IInv, StoredOrFull, j
<1>4. \A n : Writers(n)' = Writers(n) /\ LastWriter(n)' = LastWriter(n)
  BY <1>1 DEF Writers, LastWriter
<1>5. \A h, n : StoredKeys(h, n)' = StoredKeys(h, n)
  BY <1>1 DEF StoredKeys
<1> HIDE DEF a, i
<1>6. GetReadsLastSet'
  <2>1. ASSUME NEW n \in 1 .. Len(resps'),
               reqs'[n].op = "GET", resps'[n].status = "SUCCESS"
        PROVE  /\ Writers(n)' # {}
               /\ reqs'[LastWriter(n)'].op = "SET"
               /\ resps'[n].value_cmd.addr = LastWriter(n)'
    <3>1. CASE n = i
      BY <1>1, <1>2, <1>4, <2>1, <3>1
    <3>2. CASE n \in 1 .. Len(resps)
      BY <1>1, <1>4, <2>1, <3>2 DEF IInv, GetReadsLastSet
    <3> QED BY <1>1, <3>1, <3>2
  <2> QED BY <2>1 DEF GetReadsLastSet
<1>7. LossNeedsFullRow'
  <2>1. ASSUME NEW n \in 1 .. Len(resps'),
               reqs'[n].op = "GET", resps'[n].status = "NOT_STORED",
               Writers(n)' # {}, reqs'[LastWriter(n)'].op = "SET"
        PROVE  Cardinality(StoredKeys(reqs[n].hv, n - 1)) > NumWays
    <3>1. CASE n = i
      BY <1>1, <1>3, <1>4, <2>1, <3>1
    <3>2. CASE n \in 1 .. Len(resps)
      BY <1>1, <1>4, <2>1, <3>2 DEF IInv, LossNeedsFullRow
    <3> QED BY <1>1, <3>1, <3>2
  <2> QED BY <1>1, <1>5, <2>1 DEF LossNeedsFullRow
<1> QED BY <1>6, <1>7

-----------------------------------------------------------------------------
LEMMA DoIInv ==
  ASSUME IInv, Do
  PROVE  IInv'
<1>1. TypeOK'
  <2>1. /\ table' \in [ Rows -> Row ] /\ resps' \in Seq(Response)
        /\ Len(resps') = Len(resps) + 1 /\ Len(resps) + 1 \in 1 .. Len(reqs)
        /\ reqs' = reqs
    BY DoStep
  <2>2. TypeOK /\ Len(reqs) \in Nat
    BY Lengths DEF IInv
  <2> QED BY <2>1, <2>2 DEF TypeOK
<1> QED BY <1>1, DoHeaders, DoStoredOrFull, DoAnswers DEF IInv

(* A new request changes nothing about those that were executed. *)
LEMMA PutIInv ==
  ASSUME IInv, NEW r \in Requests, Put(r)
  PROVE  IInv'
<1>1. /\ TypeOK /\ Len(reqs) \in Nat /\ Len(resps) \in Nat
      /\ Len(resps) <= Len(reqs) /\ reqs \in Seq(Requests)
  BY Lengths DEF IInv, TypeOK
<1>2. reqs' = Append(reqs, r) /\ table' = table /\ resps' = resps
  BY DEF Put
<1>3. /\ reqs' \in Seq(Requests) /\ Len(reqs') = Len(reqs) + 1
      /\ \A k \in 1 .. Len(reqs) : reqs'[k] = reqs[k]
  BY <1>1, <1>2
<1>4. \A k \in 1 .. Len(resps) : k \in 1 .. Len(reqs) /\ reqs'[k] = reqs[k]
  BY <1>1, <1>3
<1>5. TypeOK'
  BY <1>1, <1>2, <1>3 DEF TypeOK
<1>6. OneHeaderPerKey'
  BY <1>2 DEF IInv, OneHeaderPerKey
<1> DEFINE Still(j) == \A k \in j + 1 .. Len(resps) :
                         SameKey(reqs'[k], reqs'[j]) => reqs'[k].op = "GET"
<1>7. ASSUME NEW j \in 1 .. Len(resps)
      PROVE  Still(j) <=> Unwritten(j)
  <2>1. \A k \in j + 1 .. Len(resps) : k \in 1 .. Len(resps)
    BY <1>1
  <2> QED BY <1>2, <1>4, <2>1 DEF Unwritten
<1>8. HeadersAreLastSets'
  <2>1. ASSUME NEW h \in Rows, NEW w \in Ways, table[h][w].keylen # 0
        PROVE  LET j == table[h][w].valAddr
               IN  /\ j \in 1 .. Len(resps)
                   /\ reqs'[j].op = "SET"
                   /\ h = reqs'[j].hv
                   /\ table[h][w].keylen = reqs'[j].key_size
                   /\ table[h][w].hvKey = reqs'[j].hvKey
                   /\ Still(j)
    <3> DEFINE j == table[h][w].valAddr
    <3>1. /\ j \in 1 .. Len(resps) /\ reqs[j].op = "SET" /\ HeaderOf(h, w, j)
          /\ Unwritten(j)
      BY <2>1 DEF IInv, HeadersAreLastSets
    <3> HIDE DEF Still
    <3> QED BY <1>4, <1>7, <3>1 DEF HeaderOf
  <2> QED BY <1>2, <2>1 DEF HeadersAreLastSets, HeaderOf, Unwritten
<1>9. ASSUME NEW h, NEW n \in 0 .. Len(resps)
      PROVE  StoredKeys(h, n)' = StoredKeys(h, n)
  <2>1. \A k \in 1 .. n : reqs'[k] = reqs[k]
    BY <1>1, <1>4
  <2> QED BY <2>1 DEF StoredKeys
<1>10. StoredOrFull'
  <2>1. ASSUME NEW j \in 1 .. Len(resps), reqs'[j].op = "SET", Still(j)
        PROVE  \/ \E w \in Ways : HeaderOf(reqs[j].hv, w, j)
               \/ Cardinality(StoredKeys(reqs[j].hv, Len(resps))) > NumWays
    <3>1. reqs[j].op = "SET" /\ Unwritten(j)
      BY <1>4, <1>7, <2>1
    <3> QED BY <3>1 DEF IInv, StoredOrFull
  <2>2. \A h : StoredKeys(h, Len(resps))' = StoredKeys(h, Len(resps))
    <3>1. \A k \in 1 .. Len(resps) : reqs'[k] = reqs[k]
      BY <1>4
    <3> QED BY <1>2, <3>1 DEF StoredKeys
  <2>3. ASSUME NEW j \in 1 .. Len(resps)
        PROVE  StoredKeys(reqs[j].hv, Len(resps))' = StoredKeys(reqs[j].hv, Len(resps))
    <3>1. reqs'[j].hv = reqs[j].hv
      BY <1>4
    <3> QED BY <2>2, <3>1 DEF StoredKeys
  <2>4. ASSUME NEW j \in 1 .. Len(resps'), reqs'[j].op = "SET", Unwritten(j)'
        PROVE  \/ \E w \in Ways : HeaderOf(reqs[j].hv, w, j)'
               \/ Cardinality(StoredKeys(reqs[j].hv, Len(resps)))' > NumWays
    <3>1. j \in 1 .. Len(resps) /\ Still(j)
      BY <1>2, <2>4 DEF Unwritten
    <3>2. \A w \in Ways : HeaderOf(reqs[j].hv, w, j)' <=> HeaderOf(reqs[j].hv, w, j)
      BY <1>2, <1>4, <3>1 DEF HeaderOf
    <3> HIDE DEF Still
    <3> QED BY <2>1, <2>3, <2>4, <3>1, <3>2
  <2> QED BY <2>4 DEF StoredOrFull
<1>11. ASSUME NEW i \in 1 .. Len(resps)
       PROVE  Writers(i)' = Writers(i) /\ LastWriter(i)' = LastWriter(i)
  <2>1. reqs'[i] = reqs[i] /\ \A k \in 1 .. i - 1 : reqs'[k] = reqs[k]
    BY <1>1, <1>4
  <2>2. Writers(i)' = Writers(i)
    BY <2>1 DEF Writers, SameKey
  <2> QED BY <2>2 DEF LastWriter
<1>12. ASSUME NEW i \in 1 .. Len(resps), Writers(i) # {}
       PROVE  reqs'[LastWriter(i)] = reqs[LastWriter(i)]
  <2>1. i \in 1 .. Len(reqs)
    BY <1>4
  <2>2. LastWriter(i) \in 1 .. i - 1
    BY <1>12, <2>1, LastWriterLast
  <2>3. LastWriter(i) \in 1 .. Len(resps)
    BY <1>1, <2>2
  <2> QED BY <1>4, <2>3
<1>13. GetReadsLastSet'
  <2>1. ASSUME NEW i \in 1 .. Len(resps'),
               reqs'[i].op = "GET", resps'[i].status = "SUCCESS"
        PROVE  /\ Writers(i)' # {}
               /\ reqs'[LastWriter(i)'].op = "SET"
               /\ resps'[i].value_cmd.addr = LastWriter(i)'
    BY <1>2, <1>4, <1>11, <1>12, <2>1 DEF IInv, GetReadsLastSet
  <2> QED BY <2>1 DEF GetReadsLastSet
<1>14. LossNeedsFullRow'
  <2>1. ASSUME NEW i \in 1 .. Len(resps'),
               reqs'[i].op = "GET", resps'[i].status = "NOT_STORED",
               Writers(i)' # {}, reqs'[LastWriter(i)'].op = "SET"
        PROVE  Cardinality(StoredKeys(reqs[i].hv, i - 1)') > NumWays
    <3>1. reqs'[i] = reqs[i] /\ i - 1 \in 0 .. Len(resps)
      BY <1>1, <1>2, <1>4
    <3>2. StoredKeys(reqs[i].hv, i - 1)' = StoredKeys(reqs[i].hv, i - 1)
      <4>1. \A h : StoredKeys(h, i - 1)' = StoredKeys(h, i - 1)
        BY <1>9, <3>1
      <4> QED BY <3>1, <4>1 DEF StoredKeys
    <3> QED BY <1>2, <1>4, <1>11, <1>12, <2>1, <3>2 DEF IInv, LossNeedsFullRow
  <2> QED BY <2>1 DEF LossNeedsFullRow
<1> QED
  BY <1>5, <1>6, <1>8, <1>10, <1>13, <1>14 DEF IInv

LEMMA InitIInv == Init => IInv
<1> SUFFICES ASSUME Init PROVE IInv
  OBVIOUS
<1>1. TypeOK
  <2>1. ZeroRow \in Row
    BY DEF ZeroRow, ZeroHeader, Row, ItemHeader
  <2> QED BY <2>1 DEF Init, TypeOK
<1>2. \A h \in Rows : \A w \in Ways : table[h][w].keylen = 0
  BY DEF Init, ZeroRow, ZeroHeader
<1>3. Len(resps) = 0
  BY DEF Init
<1> QED
  BY <1>1, <1>2, <1>3 DEF IInv, OneHeaderPerKey, HeadersAreLastSets,
     StoredOrFull, GetReadsLastSet, LossNeedsFullRow

LEMMA NextIInv == IInv /\ [Next]_vars => IInv'
<1> SUFFICES ASSUME IInv, [Next]_vars PROVE IInv'
  OBVIOUS
<1>1. CASE UNCHANGED vars
  <2>1. UNCHANGED << reqs, table, resps >>
    BY <1>1 DEF vars
  <2>2. TypeOK' /\ OneHeaderPerKey' /\ HeadersAreLastSets'
    BY <2>1 DEF IInv, TypeOK, OneHeaderPerKey, HeadersAreLastSets, HeaderOf,
                Unwritten
  <2>3. StoredOrFull'
    BY <2>1 DEF IInv, StoredOrFull, HeaderOf, Unwritten, StoredKeys
  <2>4. GetReadsLastSet' /\ LossNeedsFullRow'
    <3>1. \A i : Writers(i)' = Writers(i) /\ LastWriter(i)' = LastWriter(i)
      BY <2>1 DEF Writers, LastWriter
    <3>2. \A h, n : StoredKeys(h, n)' = StoredKeys(h, n)
      BY <2>1 DEF StoredKeys
    <3> QED BY <2>1, <3>1, <3>2 DEF IInv, GetReadsLastSet, LossNeedsFullRow,
                                    StoredKeys
  <2> QED BY <2>2, <2>3, <2>4 DEF IInv
<1>2. ASSUME NEW r \in Requests, Put(r) PROVE IInv'
  BY <1>2, PutIInv
<1>3. CASE Do
  BY <1>3, DoIInv
<1> QED BY <1>1, <1>2, <1>3 DEF Next

(* The headers of the table are those of the last SETs of their keys,      *)
(* whatever the requests, the number of ways and the order of hits,        *)
(* insertions and evictions.                                               *)
THEOREM IInvHolds == Spec => []IInv
BY InitIInv, NextIInv, PTL DEF Spec

(* Requests, table and answers keep their types. *)
THEOREM TypeCorrect == Spec => []TypeOK
<1>1. IInv => TypeOK
  BY DEF IInv
<1> QED BY <1>1, IInvHolds, PTL

(* HeaderWriter never leaves a row with two live headers of one key.       *)
THEOREM OneHeaderPerKeyHolds == Spec => []OneHeaderPerKey
<1>1. IInv => OneHeaderPerKey
  BY DEF IInv
<1> QED BY <1>1, IInvHolds, PTL

(* A GET that succeeds reads the value of the last SET of its key, and no  *)
(* DELETE came after it.                                                   *)
THEOREM GetReadsLastSetHolds == Spec => []GetReadsLastSet
<1>1. IInv => GetReadsLastSet
  BY DEF IInv
<1> QED BY <1>1, IInvHolds, PTL

(* Only eviction from a full row loses a key: otherwise a GET after a SET  *)
(* finds it.                                                               *)
THEOREM LossNeedsFullRowHolds == Spec => []LossNeedsFullRow
<1>1. IInv => LossNeedsFullRow
  BY DEF IInv
<1> QED BY <1>1, IInvHolds, PTL
=============================================================================
