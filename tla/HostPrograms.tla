---------------------------- MODULE HostPrograms ----------------------------
(***************************************************************************)
(* The benchmark programs, one program in a behaviour.  The programs with  *)
(* flash start again on the flash and the file that an earlier process     *)
(* left.  The FIFOs that overflow to the host, and the tests of the flash  *)
(* value store, share no variable with the rest and have behaviours of     *)
(* their own.                                                              *)
(***************************************************************************)
EXTENDS HostState

AR == INSTANCE TestAllRand
AS == INSTANCE TestAllSeq
WB == INSTANCE TestWriteBuffer
SM == INSTANCE TestAllSeqMax
RM == INSTANCE TestAllRandMax

TB == INSTANCE TestBluecache
BD == INSTANCE BetterDRAM
BS == INSTANCE BetterDRAMSticky
TF == INSTANCE TestBluecacheFlash
TL == INSTANCE TestBluecacheFinal
MU == INSTANCE Multi5678

StoreTests == { "TestAllRand", "TestAllSeq", "TestWriteBuffer", "TestAllSeqMax",
                "TestAllRandMax" }

TakeMuLate == { "TestAllSeqMax", "TestAllRandMax" }

(* The script of a program for some numbers of SETs and GETs (Final:       *)
(* requests and batches, Test_Bluecache: as many GETs as SETs).            *)
Script(p, n, g) ==
  CASE p = "TestBluecache"      -> TB!runtest(2 * g)
    [] p = "BetterDRAM"         -> BD!runtest(n, g)
    [] p = "BetterDRAMSticky"   -> BS!runtest(n, g)
    [] p = "TestBluecacheFlash" -> TF!runtest(n, g)
    [] p = "TestBluecacheFinal" -> TL!runtest(n, g)
    [] p = "Multi5678"          -> MU!runtest(n, g)
    [] OTHER                    -> << Step("give", "", 0) >>

(* The flash as a process leaves it that has formatted it, found no bad    *)
(* block and written nothing.                                              *)
Formatted ==
  /\ ProcessInit
  /\ erased = (0 .. Chips - 1) \X (0 .. Real - 1)
  /\ file = OnAllChips([ b \in 0 .. Blocks - 1 |->
                            IF b < Real THEN "FRESH" ELSE "UNINIT" ])
  /\ bad = {} /\ crashed = FALSE /\ twice = FALSE

(* A program begins with a blank flash and no requests, or with requests   *)
(* and a flash that was formatted before.                                  *)
Init ==
  /\ program \in Programs \cup StoreTests \cup { "HostFIFO" } /\ runs = 1
  /\ \/ FlashInit /\ BatchInit(Script(program, 0, 0))
     \/ Formatted /\ program \in Programs \cup { "HostFIFO" } /\ \E r \in Requests : BatchInit(Script(program, r[1], r[2]))
  /\ FifoInit /\ slabs = {}
  /\ StoreInit /\ AR!TagInit /\ AS!ReadInit

(* An ended or crashed program is started again on the same flash, without *)
(* requests.                                                               *)
RunAgain ==
  /\ program \in OnFlash /\ runs < MaxRuns
  /\ runs' = runs + 1
  /\ StartAgain(Script(program, 0, 0))
  /\ slabs' = {}
  /\ UNCHANGED << program, fifo, test >>

Is(p) == program = p /\ UNCHANGED << program, runs, fifo, test >>

IsFifo == program = "HostFIFO" /\ UNCHANGED << program, runs, batch, flash, slabs, test >>

IsTest(p) == program = p /\ UNCHANGED << program, runs, batch, flash, slabs, fifo >>

NoFlash == UNCHANGED flash

(* The threads of a process, the device, and the FIFOs. *)
Threads ==
  \/ Is("TestBluecache") /\ TB!Next
  \/ Is("BetterDRAM") /\ BD!Next
  \/ Is("BetterDRAMSticky") /\ BS!Next
  \/ Is("TestBluecacheFlash") /\ TF!Next
  \/ Is("TestBluecacheFinal") /\ TL!Next /\ NoFlash
  \/ Is("Multi5678") /\ MU!Next /\ NoFlash /\ UNCHANGED slabs
  \/ IsFifo /\ FifoRules
  \/ IsTest("TestAllRand") /\ AR!RandNext /\ UNCHANGED oneByOne
  \/ /\ \/ IsTest("TestAllSeq") /\ AS!SeqNext
        \/ IsTest("TestWriteBuffer") /\ WB!BufferNext
        \/ IsTest("TestAllSeqMax") /\ SM!SeqMaxNext
        \/ IsTest("TestAllRandMax") /\ RM!RandMaxNext
     /\ UNCHANGED tagged

Next ==
  \/ Threads
  \/ RunAgain
  \/ IsFifo /\ enq

Spec == Init /\ [][Next]_vars

(* Every thread is scheduled, the device goes on and the FPGA takes what   *)
(* its FIFOs hold; nobody need start a program again or enqueue anything.  *)
(* Scripts, requests and elements only become fewer, so no behaviour is in *)
(* one state twice: it is enough that the threads together do not stop     *)
(* while one of them can go on.                                            *)
Fairness == WF_vars(Threads)

FairSpec == Spec /\ Fairness
-----------------------------------------------------------------------------
BatchesAnswered == [][BatchAnswered]_vars

(* The tests of the flash value store. A value read back is the value      *)
(* written, also when its tag is given out again while it is compared;     *)
(* only the tests that take the mutex after readReq fail or crash, and     *)
(* only after a word that came before its array and its limit were set.    *)
ReadsPass == exit \in { "failed", "crashed" } => early /\ program \in TakeMuLate

(* The main thread never sleeps for ever where it keeps the mutex from the *)
(* request to the wait: Test_All_Rand does, and the tests that never lock  *)
(* the mutex do so from their second wait on, as a wait returns with it.   *)
SleepsOnlyIf ==
  Unwakeable =>
    \/ program \in TakeMuLate
    \/ program \in { "TestAllSeq", "TestWriteBuffer" } /\ wrote = << >>

(* A value written ends in the buffer it is copied to, and in the tests    *)
(* that heed pages in the page where it begins.                            *)
ValuesInPlace ==
  at = "ackwaited" =>
    /\ value.addr + value.size <= MaxSz + (IF program \in TakeMuLate THEN MaxLarge ELSE 0)
    /\ program \in { "TestAllRand", "TestAllSeq" } =>
         (value.addr % PageSize) + value.size <= PageSize

(* A process gets to the end of its script, a FIFO is emptied and a test   *)
(* ends, unless a test sleeps for ever (see SleepsOnlyIf) or one of four   *)
(* things has happened: a signal came before the wait for it,       *)
(* an answer to an EOM ended at the end of a response buffer, the flash    *)
(* was formatted a second time in the process, or, in the program without  *)
(* a response thread, both rings are full.  These are the only ways in     *)
(* which the programs hang.                                                *)
Finishes ==
  []<>(\/ CASE program \in Programs -> script = << >>
            [] program = "HostFIFO" -> Len(deqd) = enqd
            [] program \in StoreTests -> exit # "" \/ Unwakeable
       \/ unheard
       \/ ~ EomInside
       \/ FormattedAgain
       \/ program = "TestBluecache" /\ Choked)
=============================================================================
