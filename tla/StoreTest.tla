----------------------------- MODULE StoreTest ------------------------------
(***************************************************************************)
(* What the host tests of the flash value store in bsv/flashstr have       *)
(* in common.  The main thread writes values until its buffer is full,     *)
(* waiting after each for the address at which the store has put it, and   *)
(* then reads them back; the callbacks wrAck and getVal run in the thread  *)
(* of the portal.  The two share a mutex and condition variables, of which *)
(* the main thread waits for one at a time.                                *)
(*                                                                         *)
(* The data of a value is told by its address: word k of the value at a is *)
(* << a, k >>.  The store is external: the Simple.bsv of these tests calls *)
(* methods (readVal, writeAck, dramBurstSz) that FlashValueStore.bsv no    *)
(* longer has, and the store they were written for is known only by what   *)
(* the tests expect of it.  It appends values, and sends the words of a    *)
(* read in order but those of different reads in any order.                *)
(***************************************************************************)
EXTENDS Integers, SequencesExt

CONSTANTS
  WordSize,  (* 8 bytes                                                     *)
  PageSize,  (* pageSize                                                    *)
  MaxSz,     (* maxSz: when so much has been written, writing ends          *)
  MaxValue,  (* the largest value where it is not a page                    *)
  NumTags    (* tags of reads: NUM_TAGS, and the 7 bits of a tag            *)

ASSUME StoreTestAssumption ==
  /\ {WordSize, PageSize, MaxSz, MaxValue, NumTags} \subseteq Nat \ {0}
  /\ MaxSz % PageSize = 0

VARIABLES
  at,       (* where the main thread is                                     *)
  mu,       (* the thread that holds mu, or "free"                          *)
  asleep,   (* the main thread is in the queue of a condition variable      *)
  value,    (* addr and numBytes: of the value being written or read        *)
  pageCnt,  (* bytes written to the page                                    *)
  rdAddr,   (* the address last acknowledged, or being read                 *)
  wrote,    (* addrVec, sizeVec, wrOffsetVec                                *)
  acks,     (* addresses that the store has still to report                 *)
  reads,    (* reads of which the store has still words to send             *)
  exit      (* how the process ended, "" while it runs                      *)

store_vars == << at, mu, asleep, value, pageCnt, rdAddr, wrote, acks, reads, exit >>

StoreInit ==
  /\ at = "write" /\ mu = "free" /\ asleep = FALSE
  /\ value = [ addr |-> 0, size |-> 0 ] /\ pageCnt = 0 /\ rdAddr = 0
  /\ wrote = << >> /\ acks = << >> /\ reads = {} /\ exit = ""

-----------------------------------------------------------------------------
(* (int)ceil(numBytes/8.0) *)
NumWords(size) == (size + WordSize - 1) \div WordSize

WordsOf(v) == [ k \in 1 .. NumWords(v.size) |-> << v.addr, k >> ]

(* Mutant: what is left of the page does not bound the value. *)
FitPageNot(n) == << n, (pageCnt + n) % PageSize >>

(* A value that would reach the end of the page ends there: its size, and  *)
(* pageCnt after it.                                                       *)
FitPage(n) ==
  IF pageCnt + n >= PageSize THEN << PageSize - pageCnt, 0 >>
                             ELSE << n, pageCnt + n >>

(* writeReq and the words of a value after the one before. *)
Write(n) ==
  /\ value' = [ addr |-> value.addr + value.size, size |-> n ]
  /\ acks' = Append(acks, value'.addr)
  /\ UNCHANGED << rdAddr, wrote, reads, exit, asleep >>

(* pthread_cond_wait: release mu and sleep.  If the caller does not hold   *)
(* mu, which is undefined, releasing it has no effect.                     *)
CondWait(place) ==
  /\ at = place
  /\ mu' = "free" /\ asleep' = TRUE
  /\ at' = place \o "ing"
  /\ UNCHANGED << value, pageCnt, rdAddr, wrote, acks, reads, exit >>

(* Awake and with mu again, which is then kept or released. *)
Wake(place, holder) ==
  /\ at = place \o "ing" /\ ~ asleep /\ mu = "free"
  /\ mu' = holder
  /\ at' = place \o "ed"
  /\ UNCHANGED << asleep, value, pageCnt, rdAddr, wrote, acks, reads, exit >>

Lock(place, next) ==
  /\ at = place /\ mu = "free"
  /\ mu' = "main" /\ at' = next
  /\ UNCHANGED << asleep, value, pageCnt, rdAddr, wrote, acks, reads, exit >>

(* The value has been acknowledged: note where it is.  The next one is     *)
(* written, or all are there to be read.                                   *)
Record ==
  /\ at = "ackwaited"
  /\ wrote' = Append(wrote, [ addr |-> rdAddr, size |-> value.size ])
  /\ at' = IF value.addr + value.size < MaxSz THEN "write" ELSE "read"
  /\ UNCHANGED << mu, asleep, value, pageCnt, rdAddr, acks, reads, exit >>

(* The callback for a value written. *)
wrAck ==
  /\ acks # << >> /\ mu = "free"
  /\ rdAddr' = Head(acks)
  /\ acks' = Tail(acks)
  /\ asleep' = FALSE
  /\ UNCHANGED << at, mu, value, pageCnt, wrote, reads, exit >>

-----------------------------------------------------------------------------
(* readReq: the store has these words to send. *)
ReadFrom(tag, v) == [ tag |-> tag, addr |-> v.addr, k |-> 1, n |-> NumWords(v.size) ]

(* The words of a read after its next one has been sent. *)
AfterWord(r) ==
  (reads \ {r}) \cup (IF r.k < r.n THEN { [ r EXCEPT !.k = @ + 1 ] } ELSE {})
-----------------------------------------------------------------------------
(* The main thread sleeps and nothing is on its way that would wake it. *)
Unwakeable == asleep /\ exit = "" /\ acks = << >> /\ reads = {}
=============================================================================
