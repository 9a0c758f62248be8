-------------------------- MODULE HeaderLogicProofs --------------------------
(***************************************************************************)
(* Lemmas about the operators of HeaderLogic, for every number of ways.    *)
(***************************************************************************)
EXTENDS HeaderLogic, FiniteSets, FiniteSetTheorems, WellFoundedInduction,
        TLAPS

(* A non-empty set of naturals with an upper bound has a greatest element: *)
(* the sets of the elements above each of its elements are finite, and     *)
(* strict inclusion of finite sets is well founded.                        *)
LEMMA MaxExists ==
  ASSUME NEW N \in Nat, NEW M \in SUBSET (0 .. N), M # {}
  PROVE  \E i \in M : \A j \in M : j <= i
<1> DEFINE Above(i) == { j \in M : j > i }
           F == { Above(i) : i \in M }
           R == StrictSubsetOrdering(M)
<1>1. IsFiniteSet(M)
  <2>1. IsFiniteSet(0 .. N)
    BY FS_Interval
  <2> QED BY <2>1, FS_Subset
<1>2. F \subseteq FiniteSubsetsOf(M)
  <2>1. FiniteSubsetsOf(M) = SUBSET M
    BY <1>1, FS_FiniteSubsetsOfFinite
  <2> QED BY <2>1
<1>3. F # {}
  OBVIOUS
<1>4. IsWellFoundedOn(R, FiniteSubsetsOf(M))
  BY FS_StrictSubsetOrderingWellFounded
<1>5. \E X \in F : \A Y \in F : << Y, X >> \notin R
  <2> HIDE DEF F, R
  <2> QED BY <1>2, <1>3, <1>4, WFMin
<1>6. PICK i \in M : \A Y \in F : << Y, Above(i) >> \notin R
  BY <1>5
<1>7. \A j \in M : j <= i
  <2> SUFFICES ASSUME NEW j \in M, j > i PROVE FALSE
    OBVIOUS
  <2>1. j \in Above(i) /\ j \notin Above(j)
    OBVIOUS
  <2>2. Above(j) \subseteq Above(i)
    <3> SUFFICES ASSUME NEW k \in M, k > j PROVE k > i
      OBVIOUS
    <3> QED OBVIOUS
  <2>3. << Above(j), Above(i) >> \in R
    BY <2>1, <2>2 DEF StrictSubsetOrdering
  <2> QED BY <2>3, <1>6
<1> QED BY <1>7

(* mask2ind of a mask that is not empty is one of its bits, the highest.   *)
LEMMA Mask2Ind ==
  ASSUME NEW N \in Nat, NEW M \in SUBSET (0 .. N), M # {}
  PROVE  mask2ind(M) \in M /\ \A j \in M : j <= mask2ind(M)
BY MaxExists DEF mask2ind

(* findLRU yields a way, whatever the time stamps: the mask of way 0 keeps *)
(* its bit 0.                                                              *)
LEMMA FindLRUInWays ==
  ASSUME NEW ts \in [ Ways -> Nat ]
  PROVE  findLRU(ts) \in Ways
<1> DEFINE M == { k \in Ways : maskVec(ts)[k] # {} }
<1>1. 0 \in Ways
  BY HeaderAssumption DEF Ways
<1>2. 0 \in maskVec(ts)[0]
  BY <1>1 DEF maskVec
<1>3. M # {}
  BY <1>1, <1>2
<1>4. M \in SUBSET (0 .. NumWays - 1) /\ NumWays - 1 \in Nat
  BY HeaderAssumption DEF Ways
<1>5. mask2ind(M) \in M
  BY <1>3, <1>4, Mask2Ind
<1> QED BY <1>5 DEF findLRU

HdrWrReqT ==
  [ args : Requests, cmpMask : SUBSET Ways, idleMask : SUBSET Ways,
    oldHeaders : Row ]

LEMMA HdrWrReqType ==
  ASSUME NEW row \in Row, NEW r \in Requests
  PROVE  HdrWrReq(row, r) \in HdrWrReqT
BY DEF HdrWrReq, HdrWrReqT, cmpMask, idleMask

(* The way a request selects exists. *)
LEMMA IndInWays ==
  ASSUME NEW a \in HdrWrReqT
  PROVE  ind(a) \in Ways
<1> USE DEF HdrWrReqT
<1>1. NumWays - 1 \in Nat /\ Ways = 0 .. NumWays - 1
  BY HeaderAssumption DEF Ways
<1>2. CASE Hit(a)
  <2>1. mask2ind(a.cmpMask) \in a.cmpMask
    BY <1>1, <1>2, Mask2Ind DEF Hit
  <2> QED BY <2>1, <1>2 DEF ind
<1>3. CASE ~ Hit(a) /\ a.idleMask # {}
  <2>1. mask2ind(a.idleMask) \in a.idleMask
    BY <1>1, <1>3, Mask2Ind
  <2> QED BY <2>1, <1>3 DEF ind
<1>4. CASE ~ Hit(a) /\ a.idleMask = {}
  <2>1. [ i \in Ways |-> a.oldHeaders[i].currtime ] \in [ Ways -> Nat ]
    BY DEF Row, ItemHeader
  <2> QED BY <2>1, <1>4, FindLRUInWays DEF ind
<1> QED BY <1>2, <1>3, <1>4

(* HeaderWriter answers and updates with well-formed records. *)
LEMMA StageType ==
  ASSUME NEW a \in HdrWrReqT
  PROVE  stage(a) \in Stage /\ retval(a) \in Response
<1> DEFINE old == a.oldHeaders[ind(a)]
<1>1. old \in ItemHeader /\ ind(a) \in Ways
  BY IndInWays DEF HdrWrReqT, Row
<1>2. a.args \in Request
  BY HeaderAssumption DEF HdrWrReqT
<1>3. newhdr(a) \in ItemHeader
  <2>1. CASE Hit(a)
    BY <1>1, <1>2, <2>1 DEF newhdr, ItemHeader, Request
  <2>2. CASE ~ Hit(a)
    BY <1>2, <2>2 DEF newhdr, ItemHeader, Request
  <2> QED BY <2>1, <2>2
<1>4. stage(a) \in Stage
  <2>1. ZeroHeader \in ItemHeader
    BY DEF ZeroHeader, ItemHeader
  <2>2. 0 \in Ways
    BY HeaderAssumption DEF Ways
  <2> QED BY <1>1, <1>3, <2>1, <2>2 DEF stage, Stage
<1>5. retval(a) \in Response
  <2>1. value_cmd(a) \in [ kind : {"none", "read", "write"},
                           addr : Nat, numBytes : Nat ]
    BY <1>1, <1>2 DEF value_cmd, ItemHeader, Request
  <2> QED BY <2>1 DEF retval, Response
<1> QED BY <1>4, <1>5

(* The address completes a header. *)
LEMMA WithAddrType ==
  ASSUME NEW s \in Stage, NEW i \in Nat
  PROVE  WithAddr(s, i) \in ItemHeader
BY DEF WithAddr, Stage, ItemHeader

-----------------------------------------------------------------------------
(* The row after request r, when i is the address of its value. *)
Updated(row, r, i) ==
  LET s == stage(HdrWrReq(row, r))
  IN  IF s.doWrite THEN [ row EXCEPT ![s.idx] = WithAddr(s, i) ] ELSE row

OneHeader(row) ==
  \A v, w \in Ways :
    /\ row[v].keylen # 0
    /\ row[v].keylen = row[w].keylen
    /\ row[v].hvKey = row[w].hvKey
    => v = w

LEMMA UpdatedType ==
  ASSUME NEW row \in Row, NEW r \in Requests, NEW i \in Nat
  PROVE  Updated(row, r, i) \in Row
<1> DEFINE s == stage(HdrWrReq(row, r))
<1>1. s \in Stage
  BY HdrWrReqType, StageType
<1>2. s.idx \in Ways /\ WithAddr(s, i) \in ItemHeader
  BY <1>1, WithAddrType DEF Stage
<1> HIDE DEF s
<1>3. Updated(row, r, i) =
        IF s.doWrite THEN [ row EXCEPT ![s.idx] = WithAddr(s, i) ] ELSE row
  BY DEF Updated, s
<1> QED BY <1>2, <1>3 DEF Row

(* The key of a request that hits has one header, which stays or, after a  *)
(* DELETE, is free; the other headers do not change.                       *)
LEMMA UpdatedHit ==
  ASSUME NEW row \in Row, NEW r \in Requests, NEW i \in Nat,
         OneHeader(row), cmpMask(row, r) # {}
  PROVE  \E m \in Ways :
           /\ cmpMask(row, r) = {m}
           /\ row[m].keylen = r.key_size /\ row[m].hvKey = r.hvKey
           /\ \A w \in Ways \ {m} : Updated(row, r, i)[w] = row[w]
           /\ Updated(row, r, i)[m].hvKey = r.hvKey
           /\ Updated(row, r, i)[m].keylen =
                IF r.op = "DELETE" THEN 0 ELSE r.key_size
           /\ Updated(row, r, i)[m].valAddr =
                IF r.op = "SET" THEN i ELSE row[m].valAddr
           /\ Updated(row, r, i)[m].currtime = r.time_now
           /\ retval(HdrWrReq(row, r)).status = "SUCCESS"
           /\ r.op = "GET" =>
                retval(HdrWrReq(row, r)).value_cmd.addr = row[m].valAddr
<1> DEFINE a == HdrWrReq(row, r)
           m == ind(a)
           s == stage(a)
<1>1. /\ a.args = r /\ a.cmpMask = cmpMask(row, r) /\ a.oldHeaders = row
      /\ a \in HdrWrReqT
  BY HdrWrReqType DEF HdrWrReq
<1>2. Hit(a) /\ Succeeds(a)
  BY <1>1 DEF Hit, Succeeds
<1>3. m \in cmpMask(row, r) /\ m \in Ways
  <2>1. NumWays - 1 \in Nat /\ cmpMask(row, r) \in SUBSET (0 .. NumWays - 1)
    BY HeaderAssumption DEF cmpMask, Ways
  <2>2. mask2ind(cmpMask(row, r)) \in cmpMask(row, r)
    BY <2>1, Mask2Ind
  <2> QED BY <1>1, <1>2, <2>2 DEF ind, cmpMask
<1>4. row[m].keylen = r.key_size /\ row[m].hvKey = r.hvKey /\ r.key_size # 0
  BY <1>3, HeaderAssumption DEF cmpMask, Request
<1>5. cmpMask(row, r) = {m}
  BY <1>3, <1>4 DEF cmpMask, OneHeader
<1>6. s = [ doWrite |-> TRUE, newValue |-> r.op = "SET", idx |-> m,
            newhdr |-> newhdr(a) ]
  BY <1>1, <1>2 DEF stage
<1>7. newhdr(a) = [ row[m] EXCEPT !.currtime = r.time_now,
                      !.keylen = IF r.op = "DELETE" THEN 0 ELSE @ ]
  BY <1>1, <1>2 DEF newhdr
<1>8. row[m] \in ItemHeader
  BY <1>3 DEF Row
<1>9. Updated(row, r, i) = [ row EXCEPT ![m] = WithAddr(s, i) ]
  BY <1>6 DEF Updated
<1>10. Updated(row, r, i)[m] = WithAddr(s, i)
  BY <1>3, <1>9 DEF Row
<1>11. \A w \in Ways \ {m} : Updated(row, r, i)[w] = row[w]
  BY <1>9 DEF Row
<1>12. WithAddr(s, i) = IF r.op = "SET"
                        THEN [ newhdr(a) EXCEPT !.valAddr = i ] ELSE newhdr(a)
  <2>1. s.newhdr = newhdr(a)
    BY <1>6
  <2>2. CASE r.op = "SET"
    <3>1. s = [ doWrite |-> TRUE, newValue |-> TRUE, idx |-> m,
                newhdr |-> newhdr(a) ]
      BY <1>6, <2>2
    <3> QED BY <2>1, <2>2, <3>1 DEF WithAddr
  <2>3. CASE r.op # "SET"
    <3>1. s = [ doWrite |-> TRUE, newValue |-> FALSE, idx |-> m,
                newhdr |-> newhdr(a) ]
      BY <1>6, <2>3
    <3> QED BY <2>1, <2>3, <3>1 DEF WithAddr
  <2> QED BY <2>2, <2>3
<1>13. /\ WithAddr(s, i).hvKey = r.hvKey
       /\ WithAddr(s, i).keylen = IF r.op = "DELETE" THEN 0 ELSE r.key_size
       /\ WithAddr(s, i).valAddr = IF r.op = "SET" THEN i ELSE row[m].valAddr
       /\ WithAddr(s, i).currtime = r.time_now
  <2> HIDE DEF m, s, a
  <2> QED BY <1>4, <1>7, <1>8, <1>12 DEF ItemHeader
<1>14. retval(a).status = "SUCCESS"
  BY <1>2 DEF retval
<1>15. r.op = "GET" => retval(a).value_cmd.addr = row[m].valAddr
  BY <1>1, <1>2 DEF retval, value_cmd
<1> HIDE DEF m
<1> QED BY <1>3, <1>4, <1>5, <1>10, <1>11, <1>13, <1>14, <1>15

(* A SET that misses takes one way, and one in use only if all are. *)
LEMMA UpdatedInsert ==
  ASSUME NEW row \in Row, NEW r \in Requests, NEW i \in Nat,
         cmpMask(row, r) = {}, r.op = "SET"
  PROVE  \E m \in Ways :
           /\ row[m].keylen = 0 \/ \A w \in Ways : row[w].keylen # 0
           /\ \A w \in Ways \ {m} : Updated(row, r, i)[w] = row[w]
           /\ Updated(row, r, i)[m].hvKey = r.hvKey
           /\ Updated(row, r, i)[m].keylen = r.key_size
           /\ Updated(row, r, i)[m].valAddr = i
<1> DEFINE a == HdrWrReq(row, r)
           m == ind(a)
           s == stage(a)
<1>1. /\ a.args = r /\ a.cmpMask = cmpMask(row, r) /\ a.oldHeaders = row
      /\ a.idleMask = idleMask(row) /\ a \in HdrWrReqT
  BY HdrWrReqType DEF HdrWrReq
<1>2. ~ Hit(a) /\ Succeeds(a)
  BY <1>1 DEF Hit, Succeeds
<1>3. m \in Ways
  BY <1>1, IndInWays
<1>4. row[m].keylen = 0 \/ \A w \in Ways : row[w].keylen # 0
  <2>1. CASE idleMask(row) = {}
    BY <2>1 DEF idleMask
  <2>2. CASE idleMask(row) # {}
    <3>1. NumWays - 1 \in Nat /\ idleMask(row) \in SUBSET (0 .. NumWays - 1)
      BY HeaderAssumption DEF idleMask, Ways
    <3>2. mask2ind(idleMask(row)) \in idleMask(row)
      BY <2>2, <3>1, Mask2Ind
    <3>3. m = mask2ind(idleMask(row))
      BY <1>1, <1>2, <2>2 DEF ind
    <3> QED BY <3>2, <3>3 DEF idleMask
  <2> QED BY <2>1, <2>2
<1>5. s = [ doWrite |-> TRUE, newValue |-> TRUE, idx |-> m,
            newhdr |-> newhdr(a) ]
  BY <1>1, <1>2 DEF stage
<1>6. newhdr(a) = [ hvKey |-> r.hvKey, keylen |-> r.key_size,
                    currtime |-> r.time_now, nBytes |-> r.value_size,
                    valAddr |-> 0 ]
  BY <1>1, <1>2 DEF newhdr
<1>7. WithAddr(s, i) = [ newhdr(a) EXCEPT !.valAddr = i ]
  BY <1>5 DEF WithAddr
<1>8. /\ WithAddr(s, i).hvKey = r.hvKey
      /\ WithAddr(s, i).keylen = r.key_size
      /\ WithAddr(s, i).valAddr = i
  <2> HIDE DEF m, s, a
  <2> QED BY <1>6, <1>7
<1>9. Updated(row, r, i) = [ row EXCEPT ![m] = WithAddr(s, i) ]
  BY <1>5 DEF Updated
<1>10. Updated(row, r, i)[m] = WithAddr(s, i)
  BY <1>3, <1>9 DEF Row
<1>11. \A w \in Ways \ {m} : Updated(row, r, i)[w] = row[w]
  BY <1>9 DEF Row
<1> HIDE DEF m
<1> QED BY <1>3, <1>4, <1>8, <1>10, <1>11

(* Any other request that misses changes nothing. *)
LEMMA UpdatedMiss ==
  ASSUME NEW row \in Row, NEW r \in Requests, NEW i \in Nat,
         cmpMask(row, r) = {}, r.op # "SET"
  PROVE  /\ Updated(row, r, i) = row
         /\ retval(HdrWrReq(row, r)).status = "NOT_STORED"
<1> DEFINE a == HdrWrReq(row, r)
<1>1. ~ Succeeds(a)
  BY DEF HdrWrReq, Hit, Succeeds
<1>2. stage(a).doWrite = FALSE
  BY <1>1 DEF stage
<1> QED BY <1>1, <1>2 DEF Updated, retval
=============================================================================
