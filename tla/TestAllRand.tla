---------------------------- MODULE TestAllRand -----------------------------
(***************************************************************************)
(* bsv/flashstr/Test_All_Rand: values of which none crosses a page; reads  *)
(* of values picked at random, as many at a time as there are tags, which  *)
(* the main thread takes and getVal frees.                                 *)
(***************************************************************************)
EXTENDS StoreTest

CONSTANT NumTests (* numTests: reads in all                                 *)

VARIABLES
  readTagTable,  (* busy, addr and numBytes of each tag                     *)
  tagArray,      (* rdArray: the words received for each tag                *)
  numWords,      (* how many there will be                                  *)
  getting,       (* where getVal is, with which tag and what it has read    *)
  issued, testCnt (* reads begun and finished                                *)

tag_vars == << readTagTable, tagArray, numWords, getting, issued, testCnt >>

Tags == 0 .. NumTags - 1

NoValue == [ addr |-> 0, size |-> 0 ]

TagInit ==
  /\ readTagTable = [ t \in Tags |-> [ busy |-> FALSE, value |-> NoValue ] ]
  /\ tagArray = [ t \in Tags |-> << >> ]
  /\ numWords = [ t \in Tags |-> 0 ]
  /\ getting = [ step |-> "no", tag |-> 0, value |-> NoValue ]
  /\ issued = 0 /\ testCnt = 0

-----------------------------------------------------------------------------
(* The mutex is held from before the request until the wait. *)
WriteReq ==
  /\ at = "write" /\ mu = "free"
  /\ mu' = "main" /\ at' = "ackwait"
  /\ \E n \in 1 .. PageSize :
       Write(FitPage(n)[1]) /\ pageCnt' = FitPage(n)[2]
  /\ UNCHANGED tag_vars

MainWrites ==
  \/ WriteReq
  \/ (CondWait("ackwait") \/ Wake("ackwait", "free") \/ Record) /\ UNCHANGED tag_vars

(* getNextTag and readReq in one section: the first tag that is not busy. *)
ReadReq ==
  /\ at = "read" /\ mu = "free" /\ issued < NumTests
  /\ \E t \in Tags, i \in 1 .. Len(wrote) :
       /\ ~ readTagTable[t].busy
       /\ \A u \in 0 .. t - 1 : readTagTable[u].busy
       /\ readTagTable' = [ readTagTable EXCEPT ![t] = [ busy |-> TRUE, value |-> wrote[i] ] ]
       /\ reads' = reads \cup { ReadFrom(t, wrote[i]) }
       /\ rdAddr' = wrote[i].addr
  /\ issued' = issued + 1
  /\ UNCHANGED << at, mu, asleep, value, pageCnt, wrote, acks, exit, tagArray,
                  numWords, getting, testCnt >>

-----------------------------------------------------------------------------
(* A word: the first one of a read makes room for all. *)
getVal ==
  /\ getting.step = "no"
  /\ \E r \in reads :
       LET t == r.tag
       IN  /\ tagArray[t] = << >> => mu = "free"
           /\ numWords' = IF tagArray[t] # << >> THEN numWords
                          ELSE [ numWords EXCEPT ![t] = NumWords(readTagTable[t].value.size) ]
           /\ tagArray' = [ tagArray EXCEPT ![t] = Append(@, << r.addr, r.k >>) ]
           /\ reads' = AfterWord(r)
           /\ getting' = [ getting EXCEPT !.tag = t,
                             !.step = IF Len(tagArray'[t]) = numWords'[t] THEN "free" ELSE "no" ]
  /\ UNCHANGED << at, mu, asleep, value, pageCnt, rdAddr, wrote, acks, exit,
                  readTagTable, issued, testCnt >>

(* After the last word: the tag is free while its words are compared. *)
FreeTag ==
  /\ getting.step = "free" /\ mu = "free"
  /\ readTagTable' = [ readTagTable EXCEPT ![getting.tag].busy = FALSE ]
  /\ getting' = [ getting EXCEPT !.step = "compare",
                                 !.value = readTagTable[getting.tag].value ]
  /\ UNCHANGED << store_vars, tagArray, numWords, issued, testCnt >>

(* Mutant: what is compared with is looked up after the tag was freed. *)
ExpectedLate == WordsOf(readTagTable[getting.tag].value)

Expected == WordsOf(getting.value)

Compare ==
  /\ getting.step = "compare"
  /\ testCnt' = testCnt + 1
  /\ exit' = IF tagArray[getting.tag] # Expected THEN "failed"
             ELSE IF testCnt' = NumTests THEN "passed" ELSE ""
  /\ tagArray' = [ tagArray EXCEPT ![getting.tag] = << >> ]
  /\ getting' = [ step |-> "no", tag |-> 0, value |-> NoValue ]
  /\ UNCHANGED << at, mu, asleep, value, pageCnt, rdAddr, wrote, acks, reads,
                  readTagTable, numWords, issued >>

RandNext ==
  /\ exit = ""
  /\ \/ MainWrites
     \/ ReadReq
     \/ getVal \/ FreeTag \/ Compare
     \/ wrAck /\ getting.step = "no" /\ UNCHANGED tag_vars
=============================================================================
