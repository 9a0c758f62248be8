---------------------------- MODULE ReadOneByOne ----------------------------
(***************************************************************************)
(* The tests of the flash value store that read one value after another,   *)
(* bsv/flashstr/Test_WriteBuffer, Test_All_Seq, Test_All_Seq_max and       *)
(* Test_All_Rand_max: the main thread asks for a value, then makes the     *)
(* array that getVal fills, then waits until getVal has filled it.  The    *)
(* lines are those of Test_All_Seq.                                        *)
(***************************************************************************)
EXTENDS StoreTest

VARIABLES
  rdArray,               (* the array for the words of the read             *)
  burstCnt, burstLimit,  (* words in it, and how many there will be         *)
  idCnt,                 (* reads that getVal has seen the end of           *)
  nread,                 (* reads that the main thread has compared         *)
  early                  (* a word came before its array and burstLimit      *)

read_vars == << rdArray, burstCnt, burstLimit, idCnt, nread, early >>

ReadInit ==
  /\ rdArray = << >> /\ burstCnt = 0 /\ burstLimit = 0 /\ idCnt = 0
  /\ nread = 0 /\ early = FALSE

-----------------------------------------------------------------------------
(* A value is asked for by its address; the tag is the number of the read. *)
ReadReq(i) ==
  /\ at = "read"
  /\ rdAddr' = wrote[i].addr
  /\ value' = [ value EXCEPT !.size = wrote[i].size ]
  /\ reads' = { ReadFrom(nread % NumTags, wrote[i]) }
  /\ at' = "array"
  /\ UNCHANGED << mu, asleep, pageCnt, wrote, acks, exit, read_vars >>

NewArray ==
  /\ at = "array"
  /\ rdArray' = [ k \in 1 .. NumWords(value.size) |-> << >> ]
  /\ at' = "limit"
  /\ UNCHANGED << mu, asleep, value, pageCnt, rdAddr, wrote, acks, reads, exit,
                  burstCnt, burstLimit, idCnt, nread, early >>

SetLimit(next) ==
  /\ at = "limit"
  /\ burstLimit' = NumWords(value.size)
  /\ at' = next
  /\ UNCHANGED << mu, asleep, value, pageCnt, rdAddr, wrote, acks, reads, exit,
                  rdArray, burstCnt, idCnt, nread, early >>

(* An early word is written into the array of the read before, which is    *)
(* dropped, or through a pointer that nobody has set; or it is compared    *)
(* with the number of words of the read before.                            *)
getVal ==
  /\ mu = "free"
  /\ \E r \in reads :
       /\ reads' = AfterWord(r)
       /\ early' = (early \/ at \in { "array", "limit" })
       /\ rdArray' = IF at = "array" THEN rdArray
                     ELSE [ rdArray EXCEPT ![burstCnt + 1] = << r.addr, r.k >> ]
       /\ LET last == burstCnt + 1 = burstLimit
          IN  /\ burstCnt' = IF last THEN 0 ELSE burstCnt + 1
              /\ idCnt' = IF last THEN idCnt + 1 ELSE idCnt
              /\ asleep' = (asleep /\ ~ last)
       /\ exit' = IF at = "array" /\ rdArray = << >> THEN "crashed"
                  ELSE IF idCnt % NumTags # r.tag THEN "failed" ELSE ""
  /\ UNCHANGED << at, mu, value, pageCnt, rdAddr, wrote, acks, burstLimit, nread >>

Compare ==
  /\ at = "readwaited"
  /\ nread' = nread + 1
  /\ exit' = IF rdArray # WordsOf([ addr |-> rdAddr, size |-> value.size ]) THEN "failed"
             ELSE IF nread' = Len(wrote) THEN "passed" ELSE ""
  /\ at' = "read"
  /\ UNCHANGED << mu, asleep, value, pageCnt, rdAddr, wrote, acks, reads,
                  rdArray, burstCnt, burstLimit, idCnt, early >>

Portal == getVal \/ (wrAck /\ UNCHANGED read_vars)

-----------------------------------------------------------------------------
(* Mutant: the mutex is released after the first wait. *)
WaitUnheldReleases(place) == CondWait(place) \/ Wake(place, "free")

(* A wait by a thread that never locks mu: it holds mu only once it has    *)
(* waited, and then until it waits again.                                  *)
WaitUnheld(place) == CondWait(place) \/ Wake(place, "main")

(* A wait between a lock and an unlock that surround nothing else. *)
WaitHeld(lock, place) == Lock(lock, place) \/ CondWait(place) \/ Wake(place, "free")
=============================================================================
