---------------------------- MODULE MCAtomicTable ----------------------------
(* Small instances of AtomicTable for TLC. *)
EXTENDS AtomicTable

Req(o, key, size, time) ==
  [ op |-> o, hv |-> 0, hvKey |-> key[1], key_size |-> key[2],
    value_size |-> size, time_now |-> time ]

MCRows == { 0 }

(* Three keys of one row, two of them with the same leading bits, so that  *)
(* a row of two ways fills up and evicts.                                  *)
ThreeKeys == { << 1, 1 >>, << 1, 2 >>, << 2, 1 >> }

AllRequests ==
  { Req(o, k, 1, t) : o \in Ops, k \in ThreeKeys, t \in 0 .. 1 }

(* Values of two sizes under one key. *)
ResizeRequests ==
  { Req(o, << 1, 1 >>, s, 0) : o \in Ops, s \in 1 .. 2 }

(* Enough to fill a row of three ways, use its oldest header and store a   *)
(* fourth key.                                                             *)
EvictRequests ==
  { Req("SET", << k, 1 >>, 1, t) : k \in 1 .. 4, t \in 0 .. 1 }
    \cup { Req("GET", << 1, 1 >>, 1, t) : t \in 0 .. 1 }
=============================================================================
