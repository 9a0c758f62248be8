--------------------------- MODULE TestAllRandMax ---------------------------
(***************************************************************************)
(* bsv/flashstr/Test_All_Rand_max: as TestAllSeqMax, with values of any    *)
(* size up to MaxLarge, read back in any order and more than once.         *)
(***************************************************************************)
EXTENDS ReadOneByOne

CONSTANT MaxLarge (* 2^20 bytes, by which dataBuf is larger than maxSz too  *)

WriteReq ==
  /\ at = "write"
  /\ \E n \in 1 .. MaxLarge : Write(n)
  /\ at' = "acklock"
  /\ UNCHANGED << mu, pageCnt, read_vars >>

MainWrites ==
  \/ WriteReq
  \/ (WaitHeld("acklock", "ackwait") \/ Record) /\ UNCHANGED read_vars

MainReads ==
  \/ \E i \in 1 .. Len(wrote) : ReadReq(i)
  \/ NewArray \/ SetLimit("readlock")
  \/ WaitHeld("readlock", "readwait") /\ UNCHANGED read_vars
  \/ Compare

RandMaxNext == exit = "" /\ (MainWrites \/ MainReads \/ Portal)
=============================================================================
