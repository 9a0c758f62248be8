----------------------------- MODULE MCHashtable -----------------------------
(* A small instance of Hashtable for TLC: two rows of one way, and two     *)
(* keys in the first, so that requests meet in a row, overwrite, miss,     *)
(* and evict, and requests of the other row overtake nothing.              *)
EXTENDS Hashtable

Req(o, h, key) ==
  [ op |-> o, hv |-> h, hvKey |-> key, key_size |-> 1,
    value_size |-> 1, time_now |-> 0 ]

MCRows == { 0, 1 }

MCRequests ==
  { Req("SET", 0, 1), Req("GET", 0, 1),
    Req("SET", 0, 2), Req("SET", 1, 1) }
=============================================================================
