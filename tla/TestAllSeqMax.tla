---------------------------- MODULE TestAllSeqMax ---------------------------
(***************************************************************************)
(* bsv/flashstr/Test_All_Seq_max: values of one and a half pages and a     *)
(* byte, read in the order of writing.  The mutex is taken for each wait,  *)
(* after the request whose answer is waited for.                           *)
(***************************************************************************)
EXTENDS ReadOneByOne

WriteReq ==
  /\ at = "write"
  /\ Write((3 * PageSize) \div 2 + 1)
  /\ at' = "acklock"
  /\ UNCHANGED << mu, pageCnt, read_vars >>

MainWrites ==
  \/ WriteReq
  \/ (WaitHeld("acklock", "ackwait") \/ Record) /\ UNCHANGED read_vars

MainReads ==
  \/ ReadReq(nread + 1) \/ NewArray \/ SetLimit("readlock")
  \/ WaitHeld("readlock", "readwait") /\ UNCHANGED read_vars
  \/ Compare

SeqMaxNext == exit = "" /\ (MainWrites \/ MainReads \/ Portal)
=============================================================================
