-------------------------- MODULE TestWriteBuffer ---------------------------
(***************************************************************************)
(* bsv/flashstr/Test_WriteBuffer: values that cross pages, of which the    *)
(* last ends where the buffer does, read in the order of writing.          *)
(***************************************************************************)
EXTENDS ReadOneByOne

(* A value that would reach the end of the buffer ends there. *)
FitBuffer(addr, n) == IF addr + n >= MaxSz THEN MaxSz - addr ELSE n

WriteReq ==
  /\ at = "write"
  /\ \E n \in 1 .. MaxValue : Write(FitBuffer(value.addr + value.size, n))
  /\ at' = "ackwait"
  /\ UNCHANGED << mu, pageCnt, read_vars >>

MainWrites ==
  \/ WriteReq
  \/ (WaitUnheld("ackwait") \/ Record) /\ UNCHANGED read_vars

MainReads ==
  \/ ReadReq(nread + 1) \/ NewArray \/ SetLimit("readwait")
  \/ WaitUnheld("readwait") /\ UNCHANGED read_vars
  \/ Compare

BufferNext == exit = "" /\ (MainWrites \/ MainReads \/ Portal)
=============================================================================
