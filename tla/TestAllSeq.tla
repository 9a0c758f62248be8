----------------------------- MODULE TestAllSeq -----------------------------
(***************************************************************************)
(* bsv/flashstr/Test_All_Seq: values of which none crosses a page, read in *)
(* the order in which they were written.                                   *)
(***************************************************************************)
EXTENDS ReadOneByOne

WriteReq ==
  /\ at = "write"
  /\ \E n \in 1 .. MaxValue :
       Write(FitPage(n)[1]) /\ pageCnt' = FitPage(n)[2]
  /\ at' = "ackwait"
  /\ UNCHANGED << mu, read_vars >>

MainWrites ==
  \/ WriteReq
  \/ (WaitUnheld("ackwait") \/ Record) /\ UNCHANGED read_vars

MainReads ==
  \/ ReadReq(nread + 1) \/ NewArray \/ SetLimit("readwait")
  \/ WaitUnheld("readwait") /\ UNCHANGED read_vars
  \/ Compare

SeqNext == exit = "" /\ (MainWrites \/ MainReads \/ Portal)
=============================================================================
