----------------------------- MODULE AtomicTable -----------------------------
(***************************************************************************)
(* What the hash table promises to the rest of BlueCache: requests are     *)
(* executed one at a time, in the order in which they were accepted, each  *)
(* on the table its predecessors left.  Hashtable.tla, the pipeline of the *)
(* code, is shown to implement this specification.                         *)
(*                                                                         *)
(* reqs and resps are the complete histories: request i is answered by     *)
(* resps[i].                                                               *)
(***************************************************************************)
EXTENDS HeaderLogic, Sequences, FiniteSets

CONSTANT MaxReqs   (* bound of the model: requests accepted in a behaviour *)

ASSUME MaxReqsAssumption == MaxReqs \in Nat

VARIABLES
  reqs,    (* accepted requests, with the time at which they were accepted *)
  table,   (* the table: one row of headers per hash value                 *)
  resps    (* answers, in the order of the requests                        *)

vars == << reqs, table, resps >>

Init ==
  /\ reqs = << >>
  /\ table = [ h \in Rows |-> ZeroRow ]
  /\ resps = << >>

(* Time does not go back between two requests (the bound of the model is   *)
(* within one day of mkLogicClock).                                        *)
Later(r) == reqs # << >> => reqs[Len(reqs)].time_now <= r.time_now

Put(r) ==
  /\ Len(reqs) < MaxReqs
  /\ Later(r)
  /\ reqs' = Append(reqs, r)
  /\ UNCHANGED << table, resps >>

Do ==
  LET i == Len(resps) + 1
      r == reqs[i]
      a == HdrWrReq(table[r.hv], r)
      s == stage(a)
  IN  /\ Len(resps) < Len(reqs)
      /\ resps' = Append(resps, retval(a))
      /\ table' = IF s.doWrite
                  THEN [ table EXCEPT ![r.hv][s.idx] = WithAddr(s, i) ]
                  ELSE table
      /\ UNCHANGED reqs

Next == (\E r \in Requests : Put(r)) \/ Do

Spec == Init /\ [][Next]_vars

FairSpec == Spec /\ WF_vars(Do)

-----------------------------------------------------------------------------
TypeOK ==
  /\ reqs \in Seq(Requests)
  /\ table \in [ Rows -> Row ]
  /\ resps \in Seq(Response)
  /\ Len(resps) <= Len(reqs)

(* No row ever holds two live headers for one key fingerprint: a SET or a  *)
(* GET could otherwise refresh one of them and a later GET answer with the *)
(* other (HeaderWriter takes the highest matching way).                    *)
OneHeaderPerKey ==
  \A h \in Rows : \A v, w \in Ways :
    /\ table[h][v].keylen # 0
    /\ table[h][v].keylen = table[h][w].keylen
    /\ table[h][v].hvKey = table[h][w].hvKey
    => v = w

(* The last request before i, if any, that stored or deleted the key of i. *)
Writers(i) ==
  { j \in 1 .. i - 1 : SameKey(reqs[j], reqs[i]) /\ reqs[j].op # "GET" }

LastWriter(i) == mask2ind(Writers(i))

(* A GET that succeeds reads the value of the most recent SET of its key,  *)
(* and never one from before a DELETE: overwriting, deleting, evicting and *)
(* re-inserting never leave an older header to be found.                   *)
GetReadsLastSet ==
  \A i \in 1 .. Len(resps) :
    reqs[i].op = "GET" /\ resps[i].status = "SUCCESS" =>
      /\ Writers(i) # {}
      /\ reqs[LastWriter(i)].op = "SET"
      /\ resps[i].value_cmd.addr = LastWriter(i)

(* The keys of row h that the first n requests have stored. *)
StoredKeys(h, n) ==
  { << reqs[j].hvKey, reqs[j].key_size >> :
      j \in { k \in 1 .. n : reqs[k].hv = h /\ reqs[k].op = "SET" } }

(* A key is lost only to a full row: a GET misses after a SET of its key   *)
(* only if more than NumWays keys of its row were stored before it.        *)
LossNeedsFullRow ==
  \A i \in 1 .. Len(resps) :
    /\ reqs[i].op = "GET"
    /\ resps[i].status = "NOT_STORED"
    /\ Writers(i) # {}
    /\ reqs[LastWriter(i)].op = "SET"
    => Cardinality(StoredKeys(reqs[i].hv, i - 1)) > NumWays

(* A GET reads as many bytes as the SET that stored the value wrote: key   *)
(* and value.  TestBluecache.cpp compares the two lengths.                 *)
GetReadsStoredLength ==
  \A i \in 1 .. Len(resps) :
    reqs[i].op = "GET" /\ resps[i].status = "SUCCESS" =>
      resps[i].value_cmd.numBytes =
        resps[resps[i].value_cmd.addr].value_cmd.numBytes

(* A live header that gives way to another key is the one that was used    *)
(* least recently in its row.  HeaderWriter says it evicts the smallest    *)
(* time stamp.                                                             *)
EvictsSmallestTime ==
  [][ \A h \in Rows : \A w \in Ways :
        /\ table[h][w].keylen # 0
        /\ table'[h][w].keylen # 0
        /\ << table[h][w].hvKey, table[h][w].keylen >>
             # << table'[h][w].hvKey, table'[h][w].keylen >>
        => \A v \in Ways : table[h][w].currtime <= table[h][v].currtime ]_vars

-----------------------------------------------------------------------------
(* What the table owes to the requests that were executed: the parts of    *)
(* the inductive invariant behind the properties above.                    *)

(* Header w of row h is live and of the key of request j. *)
HeaderOf(h, w, j) ==
  /\ h = reqs[j].hv
  /\ table[h][w].keylen = reqs[j].key_size
  /\ table[h][w].hvKey = reqs[j].hvKey

(* No request from j + 1 on that was executed has stored or deleted the    *)
(* key of j.                                                               *)
Unwritten(j) ==
  \A k \in j + 1 .. Len(resps) : SameKey(reqs[k], reqs[j]) => reqs[k].op = "GET"

(* A live header has the address of the last SET of its key. *)
HeadersAreLastSets ==
  \A h \in Rows : \A w \in Ways :
    LET j == table[h][w].valAddr
    IN  table[h][w].keylen # 0 =>
          /\ j \in 1 .. Len(resps)
          /\ reqs[j].op = "SET"
          /\ HeaderOf(h, w, j)
          /\ Unwritten(j)

(* A key that was stored and not deleted has a header, unless more keys    *)
(* than the row has ways were stored in it.                                *)
StoredOrFull ==
  \A j \in 1 .. Len(resps) :
    reqs[j].op = "SET" /\ Unwritten(j) =>
      \/ \E w \in Ways : HeaderOf(reqs[j].hv, w, j)
      \/ Cardinality(StoredKeys(reqs[j].hv, Len(resps))) > NumWays

IInv ==
  /\ TypeOK
  /\ OneHeaderPerKey
  /\ HeadersAreLastSets
  /\ StoredOrFull
  /\ GetReadsLastSet
  /\ LossNeedsFullRow
=============================================================================
