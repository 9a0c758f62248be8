------------------------------ MODULE MCDevice ------------------------------
(***************************************************************************)
(* The command pipeline and the flash value store on small instances, one  *)
(* of the two in a behaviour.                                              *)
(*                                                                         *)
(* The pipeline gets every sequence of three GETs, SETs and EOMs, some     *)
(* with a DELETE, and a longer one in which an EOM finds commands before   *)
(* and behind it.  The store gets values that fill a buffer together, that *)
(* leave a page of it unused, that fill a block, and that fill the flash;  *)
(* they are read from the buffer in use, from the other one and from flash *)
(* while buffers are flushed and the second block is erased.  No block is  *)
(* bad, or one of chip 0, or two of the three (then the second virtual     *)
(* block erases the first one), or all of them.                            *)
(***************************************************************************)
EXTENDS Proc, FlashStore

MCScripts ==
  { << >> } \cup [ 1 .. 3 -> {"GET", "SET", "EOM"} ]
  \cup { << "GET", "DELETE", "EOM" >>, << "DELETE", "SET", "GET" >>,
         << "GET", "SET", "EOM", "GET" >> }

Write(n) == [ rnw |-> FALSE, n |-> n ]
Read(v)  == [ rnw |-> TRUE, n |-> v ]

ReadBoth == << Write(2), Write(1), Write(2), Read(1), Read(3) >>
Together == << Write(1), Write(1), Write(2), Read(2), Write(1), Read(1) >>
Unused   == << Write(1), Write(2), Read(1), Read(2), Write(1), Read(1) >>
Fill     == << Write(2), Write(2), Write(2), Write(2), Write(2), Write(2) >>

BadOf0(n) == { << 0, b >> : b \in 0 .. n - 1 }

(* Which requests come with which bad blocks. *)
Instances ==
  { << >>, ReadBoth, Together, Unused, Fill } \X { {} } \cup
  { << Unused, BadOf0(1) >>, << Together, BadOf0(2) >>, << Together, BadOf0(3) >> }

MCRequests  == { i[1] : i \in Instances }
MCBadBlocks == { i[2] : i \in Instances }

flash_store == << store_vars, server_vars >>

(* Only one of the two has something to do. *)
InPipeline == script # << >>

MCInit ==
  /\ Init /\ StoreInit
  /\ InPipeline <=> reqQ = << >>
  /\ << reqQ, bad >> \in Instances
  (* Erasing begins at the bad block, or at the last block, which wraps.   *)
  /\ nextPhysPtr[0] = IF bad = {} THEN Blocks - 1 ELSE 0

MCNext ==
  \/ InPipeline /\ Next /\ UNCHANGED flash_store
  \/ ~ InPipeline /\ StoreNext /\ UNCHANGED vars

(* The rules of the store, as those of the pipeline, only move requests    *)
(* on, which become fewer: it is enough that the rules do not stop.  Only  *)
(* on a chip without a good block erasing goes on for ever.                *)
MCSpec ==
  MCInit /\ [][MCNext]_<< vars, flash_store >> /\ WF_<< vars, flash_store >>(MCNext)
=============================================================================
