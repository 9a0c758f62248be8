----------------------------- MODULE HeaderLogic -----------------------------
(***************************************************************************)
(* The combinational logic of the hash table in bsv/hashtable_simple: how  *)
(* a request is compared with the NumWays item headers of its row          *)
(* (HeaderReader), which way it selects, what it answers and which header  *)
(* it writes back (HeaderWriter, with mask2ind and findLRU of              *)
(* HashtableTypes).  Bit masks over the ways are sets of ways.             *)
(*                                                                         *)
(* A value address is abstracted to the identity of the value it points    *)
(* to: the number of the SET request that stored it, 0 in a header nobody  *)
(* wrote.                                                                  *)
(***************************************************************************)
EXTENDS Integers

CONSTANTS
  NumWays,   (* headers per row: 512 / LineWidth = 4 in the code            *)
  Rows,      (* the hash values of the table, v.hv % hvMax                  *)
  Requests   (* the requests clients may make (a set of Request records)    *)

Ways == 0 .. NumWays - 1

Ops == {"GET", "SET", "DELETE"}

Request == [ op : Ops, hv : Rows, hvKey : Nat, key_size : Nat \ {0},
             value_size : Nat, time_now : Nat ]

ASSUME HeaderAssumption ==
  /\ NumWays \in Nat \ {0}
  /\ Requests \subseteq Request

ItemHeader == [ hvKey : Nat, keylen : Nat, currtime : Nat,
                nBytes : Nat, valAddr : Nat ]

Row == [ Ways -> ItemHeader ]

ZeroHeader == [ hvKey |-> 0, keylen |-> 0, currtime |-> 0,
                nBytes |-> 0, valAddr |-> 0 ]

ZeroRow == [ w \in Ways |-> ZeroHeader ]

(* What the row of a request identifies a key by: the first 20 bits of the *)
(* key and its length, not the key itself.                                 *)
SameKey(r, s) ==
  r.hv = s.hv /\ r.hvKey = s.hvKey /\ r.key_size = s.key_size

-----------------------------------------------------------------------------
(* The loop keeps the last index whose bit is set. *)
mask2ind(mask) == CHOOSE i \in mask : \A j \in mask : j <= i

(* replicate(1) sets bit 0 only of every mask, so the column of way 0 is   *)
(* the only one that a comparison can clear.                               *)
maskVec(timestamps) ==
  [ i \in Ways |-> { j \in {0} : ~ (timestamps[i] > timestamps[j]) } ]

findLRU(timestamps) == mask2ind({ k \in Ways : maskVec(timestamps)[k] # {} })

(* Mutant: the loop over the ways starts at 1.                             *)
cmpMaskSkipsFirst(row, r) ==
  { i \in Ways \ {0} : row[i].keylen = r.key_size /\ row[i].hvKey = r.hvKey }

cmpMask(row, r) ==
  { i \in Ways : row[i].keylen = r.key_size /\ row[i].hvKey = r.hvKey }

idleMask(row) == { i \in Ways : row[i].keylen = 0 }

(* The request HeaderReader passes on to HeaderWriter. *)
HdrWrReq(row, r) ==
  [ args |-> r, cmpMask |-> cmpMask(row, r), idleMask |-> idleMask(row),
    oldHeaders |-> row ]

-----------------------------------------------------------------------------
Hit(a) == a.cmpMask # {}

(* Mutant: an insertion does not look for an idle way.                     *)
indNoIdle(a) ==
  IF Hit(a) THEN mask2ind(a.cmpMask)
  ELSE findLRU([ i \in Ways |-> a.oldHeaders[i].currtime ])

(* ind: the way that matched, else an idle way, else the victim.  A miss   *)
(* that inserts nothing leaves ind undefined and does not use it.          *)
ind(a) ==
  IF Hit(a) THEN mask2ind(a.cmpMask)
  ELSE IF a.idleMask # {} THEN mask2ind(a.idleMask)
  ELSE findLRU([ i \in Ways |-> a.oldHeaders[i].currtime ])

Succeeds(a) == Hit(a) \/ a.args.op = "SET"

(* A hit writes the old header back with a new time (and keylen 0 for a    *)
(* DELETE); an insertion writes a header of the request's own.             *)
newhdr(a) ==
  LET old == a.oldHeaders[ind(a)]
  IN  IF Hit(a)
      THEN [ old EXCEPT !.currtime = a.args.time_now,
                        !.keylen   = IF a.args.op = "DELETE" THEN 0 ELSE @ ]
      ELSE [ hvKey |-> a.args.hvKey, keylen |-> a.args.key_size,
             currtime |-> a.args.time_now, nBytes |-> a.args.value_size,
             valAddr |-> 0 ]

(* The command for the value store that travels with the answer. *)
value_cmd(a) ==
  LET old == a.oldHeaders[ind(a)]
  IN  CASE a.args.op = "SET" ->
             [ kind |-> "write", addr |-> 0,
               numBytes |-> a.args.key_size + a.args.value_size ]
        [] a.args.op = "GET" /\ Hit(a) ->
             [ kind |-> "read", addr |-> old.valAddr,
               numBytes |-> old.nBytes + old.keylen ]
        [] OTHER -> [ kind |-> "none", addr |-> 0, numBytes |-> 0 ]

(* Mutant: a SET of a key that is present answers that it exists.          *)
retvalExists(a) ==
  [ status    |-> IF ~ Succeeds(a) THEN "NOT_STORED"
                  ELSE IF a.args.op = "SET" /\ Hit(a) THEN "KEY_EEXISTS"
                  ELSE "SUCCESS",
    value_cmd |-> value_cmd(a) ]

retval(a) ==
  [ status    |-> IF Succeeds(a) THEN "SUCCESS" ELSE "NOT_STORED",
    value_cmd |-> value_cmd(a) ]

(* Mutant: only a SET that misses waits for the address of its value.      *)
stageKeepsAddr(a) ==
  IF Succeeds(a)
  THEN [ doWrite |-> TRUE, newValue |-> a.args.op = "SET" /\ ~ Hit(a),
         idx |-> ind(a), newhdr |-> newhdr(a) ]
  ELSE [ doWrite |-> FALSE, newValue |-> FALSE,
         idx |-> 0, newhdr |-> ZeroHeader ]

(* What HeaderWriter queues for its second stage.  A request that fails    *)
(* writes nothing.                                                         *)
stage(a) ==
  IF Succeeds(a)
  THEN [ doWrite |-> TRUE, newValue |-> a.args.op = "SET",
         idx |-> ind(a), newhdr |-> newhdr(a) ]
  ELSE [ doWrite |-> FALSE, newValue |-> FALSE,
         idx |-> 0, newhdr |-> ZeroHeader ]

Response == [ status : {"SUCCESS", "NOT_STORED"},
              value_cmd : [ kind : {"none", "read", "write"},
                            addr : Nat, numBytes : Nat ] ]

Stage == [ doWrite : BOOLEAN, newValue : BOOLEAN,
           idx : Ways, newhdr : ItemHeader ]

(* The header of a stage once the value store has given the address of the *)
(* value stored by request i.                                              *)
WithAddr(s, i) ==
  IF s.newValue THEN [ s.newhdr EXCEPT !.valAddr = i ] ELSE s.newhdr
=============================================================================
