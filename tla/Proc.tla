-------------------------------- MODULE Proc --------------------------------
(***************************************************************************)
(* The command pipeline of the device, bsv/Proc_128.bsv, with its tags     *)
(* (flashstr/TagAlloc.bsv) and the buffer that keeps the key and the       *)
(* opaque number of each GET that waits for its value                      *)
(* (KVStoreCompletionBuffer.bsv).  The hash table and the value store are  *)
(* seen from outside: the table answers commands in order and gives the    *)
(* command for the value store with the answer; the store takes commands   *)
(* in order and answers reads in any order.  One action is one rule.       *)
(*                                                                         *)
(* A command is known by its number, which is also its opaque number.  The *)
(* FIFOs keep the order of the commands, so that most are the commands     *)
(* between two numbers.  A key or a value is one word.                     *)
(***************************************************************************)
EXTENDS Integers, SequencesExt

CONSTANTS
  NumTags,    (* tags 0 .. NumTags - 1                                      *)
  NumStages,  (* numStages: depth of the long FIFOs                         *)
  FifoDepth,  (* depth of a mkFIFO                                          *)
  KeyValDepth, (* depth of keyValFifo                                       *)
  Scripts     (* bound of the model: what the host may send, as sequences   *)
              (* of opcodes                                                 *)

Opcodes == {"GET", "SET", "DELETE", "EOM"}

ASSUME ProcAssumption ==
  /\ {NumTags, NumStages, FifoDepth, KeyValDepth} \subseteq Nat \ {0}
  /\ Scripts \subseteq Seq(Opcodes)

Tags == 0 .. NumTags - 1

VARIABLES
  script,     (* what the host sends                                        *)
  cmds,       (* the opcodes of the commands whose header was received      *)
  stall, inFlightCmds,
  nTok,       (* the commands up to nTok have their words in keyValFifo     *)
  newTag, initialized, freeTagQ, (* TagAlloc                                *)
  nextTagQ,   (* tags given out for the next commands of hash2table         *)
  tag,        (* the tags of the commands that are past doTable             *)
  found,      (* what the table found for each command that it answered     *)
  nFlash,     (* doConnectFlash has passed on the commands up to nFlash     *)
  nVal,       (* doVal has handled the commands up to nVal                  *)
  nKV,        (* deqKV has moved the words of the commands up to nKV        *)
  nWr,        (* doWrReq has written the entries of the GETs up to nWr      *)
  entry,      (* statusLUT and keyBuf: the GET whose entry each tag has, or *)
              (* 0                                                          *)
  reading,    (* GETs whose value is being read                             *)
  burst,      (* GETs in the order in which their values came               *)
  nBurst,     (* of these, those that readCmplBuf has taken                 *)
  status,     (* the entry that was read for each of these                  *)
  keys,       (* the key that was read for each, as the GET it is of        *)
  nCmp,       (* those paired by reqkeyCmp                                  *)
  match,      (* what doCheckKeys found for each                            *)
  nIn, nOut,  (* answered: the commands of inOrderResp up to nIn, nOut GETs *)
              (* of outOrderResp                                            *)
  late        (* the GETs whose value came before their entry was written    *)

front == << script, cmds, stall, inFlightCmds, nTok >>
tags  == << newTag, initialized, freeTagQ, nextTagQ, tag >>
table == << found, nFlash, nVal, nKV >>
cmplBuf == << nWr, entry, nBurst, status, keys, late >>
store == << reading, burst >>
answer == << nCmp, match, nIn, nOut >>
vars  == << front, tags, table, cmplBuf, store, answer >>

Init ==
  /\ script \in Scripts
  /\ cmds = << >> /\ stall = FALSE /\ inFlightCmds = 0 /\ nTok = 0
  /\ newTag = 0 /\ initialized = FALSE /\ freeTagQ = << >> /\ nextTagQ = << >>
  /\ tag = << >>
  /\ found = << >> /\ nFlash = 0 /\ nVal = 0 /\ nKV = 0
  /\ nWr = 0 /\ entry = [ t \in Tags |-> 0 ] /\ nBurst = 0 /\ status = << >>
  /\ keys = << >> /\ late = {}
  /\ reading = {} /\ burst = << >>
  /\ nCmp = 0 /\ match = << >> /\ nIn = 0 /\ nOut = 0

-----------------------------------------------------------------------------
IsEom(i) == cmds[i] = "EOM"

(* A GET that the table found: the only command that waits for a value.    *)
(* found is "same" when the value is that of the key asked for, "other"    *)
(* when only the part of the key that the table compares is the same.      *)
Waits(i) == cmds[i] = "GET" /\ found[i] \in {"same", "other"}

(* The commands after n, up to m, that satisfy P; the first of them.       *)
Within(n, m, P(_)) == { i \in n + 1 .. m : P(i) }

First(S) == CHOOSE i \in S : \A j \in S : i <= j

-----------------------------------------------------------------------------
Accept ==
  /\ Len(cmds) < Len(script)
  /\ nTok = Len(cmds)
  /\ Len(cmds) - Len(tag) < NumStages
  /\ Len(cmds) - Len(tag) - Len(nextTagQ) < FifoDepth
  /\ cmds' = Append(cmds, script[Len(cmds) + 1])
  /\ inFlightCmds' = inFlightCmds + 1
  /\ UNCHANGED << script, nTok, tags, table, cmplBuf, store, answer >>

(* The header of a command, which comes when the parser has passed on the  *)
(* words of the command before it.                                         *)
doHash ==
  /\ ~ stall
  /\ Accept
  /\ stall' = (Last(cmds') = "EOM")

(* The other branch: after an EOM the pipeline is drained.                 *)
doHashDrained ==
  /\ stall /\ inFlightCmds = 0
  /\ stall' = FALSE
  /\ UNCHANGED << script, cmds, inFlightCmds, nTok, tags, table, cmplBuf, store, answer >>

(* The parser passes the words of a command to keyValFifo and to the hash. *)
keyValPipe ==
  /\ nTok < Len(cmds)
  /\ IsEom(nTok + 1) \/ Cardinality({ i \in nKV + 1 .. nTok : ~ IsEom(i) }) < KeyValDepth
  /\ nTok' = nTok + 1
  /\ UNCHANGED << script, cmds, stall, inFlightCmds, tags, table, cmplBuf, store, answer >>

-----------------------------------------------------------------------------
(* Mutant: it is forgotten that every tag has been given out once.         *)
doAllocTagAgain ==
  /\ Len(tag) + Len(nextTagQ) < Len(cmds)
  /\ Len(nextTagQ) < NumStages
  /\ newTag' = (newTag + 1) % NumTags
  /\ nextTagQ' = Append(nextTagQ, newTag)
  /\ UNCHANGED << initialized, freeTagQ, tag, front, table, cmplBuf, store, answer >>

(* Every tag is new once, and used again when it has been returned.        *)
doAllocTag ==
  /\ Len(tag) + Len(nextTagQ) < Len(cmds)
  /\ Len(nextTagQ) < NumStages
  /\ IF initialized
     THEN /\ freeTagQ # << >>
          /\ nextTagQ' = Append(nextTagQ, Head(freeTagQ))
          /\ freeTagQ' = Tail(freeTagQ)
          /\ UNCHANGED << newTag, initialized >>
     ELSE /\ nextTagQ' = Append(nextTagQ, newTag)
          /\ newTag' = (newTag + 1) % NumTags
          /\ initialized' = (newTag = NumTags - 1)
          /\ UNCHANGED freeTagQ
  /\ UNCHANGED << tag, front, table, cmplBuf, store, answer >>

(* The next command, hashed, gets the next tag and is asked of the table.  *)
doTable ==
  LET i == Len(tag) + 1
  IN  /\ i <= Len(cmds) /\ nextTagQ # << >>
      /\ IsEom(i) \/ i <= nTok
      /\ Len(tag) - nVal < NumStages
      /\ tag' = Append(tag, Head(nextTagQ))
      /\ nextTagQ' = Tail(nextTagQ)
      /\ UNCHANGED << newTag, initialized, freeTagQ, front, table, cmplBuf,
                      store, answer >>

-----------------------------------------------------------------------------
(* The table answers a command, and has one for the value store if there   *)
(* is a value to be read or written.                                       *)
Answers(i) ==
  CASE cmds[i] = "GET" -> {"miss", "same", "other"}
    [] cmds[i] = "SET" -> {"stored"}
    [] cmds[i] = "DELETE" -> {"miss", "deleted"}
    [] IsEom(i) -> {"none"}

TableAnswer ==
  LET i == Len(found) + 1
  IN  /\ i <= Len(tag)
      /\ Len(found) - nVal < NumStages
      /\ \E a \in Answers(i) : found' = Append(found, a)
      /\ UNCHANGED << nFlash, nVal, nKV, front, tags, cmplBuf, store, answer >>

NeedsStore(i) == cmds[i] = "SET" \/ Waits(i)

(* Mutant: the tag of a GET is returned when its value is asked for.       *)
doConnectFlashReturns ==
  LET S == Within(nFlash, Len(found), NeedsStore)
  IN  /\ S # {}
      /\ nFlash' = First(S)
      /\ reading' = IF Waits(First(S)) THEN reading \cup {First(S)} ELSE reading
      /\ freeTagQ' = IF Waits(First(S)) THEN Append(freeTagQ, tag[First(S)])
                     ELSE freeTagQ
      /\ UNCHANGED << newTag, initialized, nextTagQ, tag, found, nVal, nKV,
                      burst, front, cmplBuf, answer >>

doConnectFlash ==
  LET S == Within(nFlash, Len(found), NeedsStore)
  IN  /\ S # {}
      /\ nFlash' = First(S)
      /\ reading' = IF Waits(First(S)) THEN reading \cup {First(S)} ELSE reading
      /\ UNCHANGED << found, nVal, nKV, burst, front, tags, cmplBuf, answer >>

(* The answer of the table: a GET that waits is handed to the completion   *)
(* buffer, any other command is answered in the order of the commands; the *)
(* words of the command may leave keyValFifo.                              *)
InOrder(i) == ~ Waits(i)

doVal ==
  LET i == nVal + 1
  IN  /\ i <= Len(found)
      /\ Cardinality({ j \in nKV + 1 .. nVal : ~ IsEom(j) }) < NumStages
      /\ IF Waits(i)
         THEN Cardinality(Within(nWr, nVal, Waits)) < FifoDepth
         ELSE Cardinality(Within(nIn, nVal, InOrder)) < NumStages
      /\ nVal' = i
      /\ UNCHANGED << found, nFlash, nKV, front, tags, cmplBuf, store, answer >>

(* The words of a command leave keyValFifo: the value of a SET goes to the *)
(* store, which takes it after the command for it, the key of a GET that   *)
(* waits goes to the completion buffer, others are dropped.                *)
deqKV ==
  LET S == { i \in nKV + 1 .. nVal : ~ IsEom(i) }
      i == First(S)
  IN  /\ S # {} /\ i <= nTok
      /\ cmds[i] = "SET" => i <= nFlash
      /\ Waits(i) => Cardinality(Within(nWr, nKV, Waits)) < FifoDepth
      /\ nKV' = i
      /\ UNCHANGED << found, nFlash, nVal, front, tags, cmplBuf, store, answer >>

-----------------------------------------------------------------------------
(* The completion buffer writes an entry when it has the key. *)
doWrReq ==
  LET S == Within(nWr, nKV, Waits)
      i == First(S)
  IN  /\ S # {}
      /\ nWr' = i
      /\ entry' = [ entry EXCEPT ![tag[i]] = i ]
      /\ UNCHANGED << nBurst, status, keys, late, front, tags, table, store, answer >>

(* The store sends the value of a GET, whose size and tag come first. *)
StoreAnswer ==
  /\ Len(burst) - nBurst < FifoDepth
  /\ \E i \in reading :
        /\ burst' = Append(burst, i)
        /\ reading' = reading \ {i}
  /\ UNCHANGED << front, tags, table, cmplBuf, answer >>

(* Its entry is read. *)
readCmplBuf ==
  LET i == burst[nBurst + 1]
  IN  /\ nBurst < Len(burst)
      /\ nBurst - nCmp < FifoDepth /\ nBurst - Len(keys) < FifoDepth
      /\ nBurst' = nBurst + 1
      /\ status' = Append(status, entry[tag[i]])
      /\ late' = IF i <= nWr THEN late ELSE late \cup {i}
      /\ UNCHANGED << nWr, entry, keys, front, tags, table, store, answer >>

(* Its key is read, later. *)
doRdReq ==
  /\ Len(keys) < nBurst
  /\ Len(keys) - Len(match) < FifoDepth
  /\ keys' = Append(keys, entry[tag[burst[Len(keys) + 1]]])
  /\ UNCHANGED << nWr, entry, nBurst, status, late, front, tags, table, store, answer >>

(* The entry is paired with the size of the value. *)
reqkeyCmp ==
  /\ nCmp < nBurst
  /\ nCmp - Len(match) < NumStages
  /\ nCmp' = nCmp + 1
  /\ UNCHANGED << match, nIn, nOut, front, tags, table, cmplBuf, store >>

(* The key is compared with the key that is stored with the value.         *)
doCheckKeys ==
  LET n == Len(match) + 1
  IN  /\ n <= nCmp /\ n <= Len(keys)
      /\ Len(match) - nOut < FifoDepth
      /\ \E m \in BOOLEAN :
            /\ keys[n] = burst[n] => m = (found[burst[n]] = "same")
            /\ match' = Append(match, m)
      /\ UNCHANGED << nCmp, nIn, nOut, front, tags, table, cmplBuf, store >>

-----------------------------------------------------------------------------
Respond(i) ==
  /\ inFlightCmds' = inFlightCmds - 1
  /\ freeTagQ' = Append(freeTagQ, tag[i])
  /\ UNCHANGED << script, cmds, stall, nTok, newTag, initialized, nextTagQ, tag,
                  table, cmplBuf, store, nCmp, match >>

(* Mutants: an EOM is answered when it is the oldest of inOrderResp, or    *)
(* when nothing is in flight.                                              *)
MayRespondAtOnce(i) == TRUE
MayRespondNever(i) == ~ IsEom(i) \/ inFlightCmds = 0

MayRespond(i) == ~ IsEom(i) \/ inFlightCmds = 1

(* doResp, granted to inOrderResp or to outOrderResp. *)
doRespInOrder ==
  LET S == Within(nIn, nVal, InOrder)
  IN  /\ S # {} /\ MayRespond(First(S))
      /\ nIn' = First(S)
      /\ Respond(First(S))
      /\ UNCHANGED nOut

doRespOutOrder ==
  /\ nOut < Len(match)
  /\ nOut' = nOut + 1
  /\ Respond(burst[nOut + 1])
  /\ UNCHANGED nIn

-----------------------------------------------------------------------------
Next ==
  \/ doHash \/ doHashDrained \/ keyValPipe
  \/ doAllocTag \/ doTable \/ TableAnswer \/ doConnectFlash \/ doVal \/ deqKV
  \/ doWrReq \/ StoreAnswer \/ readCmplBuf \/ doRdReq
  \/ reqkeyCmp \/ doCheckKeys
  \/ doRespInOrder \/ doRespOutOrder

Spec == Init /\ [][Next]_vars

(* A rule that can fire does, the table and the store answer, and the host *)
(* takes answers.  Every rule moves a command on, so that it is enough     *)
(* that the rules together do not stop while one of them can fire.         *)
Fairness == WF_vars(Next)

FairSpec == Spec /\ Fairness
-----------------------------------------------------------------------------
Answered(i) ==
  IF i <= Len(found) /\ Waits(i) THEN i \in { burst[k] : k \in 1 .. nOut } ELSE i <= nIn

(* The commands that hold a tag. *)
Holders == { i \in 1 .. Len(tag) : ~ Answered(i) }

(* Each tag is new, free, about to be given to a command, or held by one   *)
(* command that is not answered, and in one of these places only.          *)
TagsExact ==
  LET new == IF initialized THEN {} ELSE newTag .. NumTags - 1
      places == SetToSeq(new) \o freeTagQ \o nextTagQ
  IN  /\ Len(places) + Cardinality(Holders) = NumTags
      /\ ToSet(places) \cup { tag[i] : i \in Holders } = Tags

(* An EOM is answered after every command before it and before every       *)
(* command after it, though GETs are answered out of order.  The host      *)
(* relies on this to know that nothing is outstanding.                     *)
EomLast ==
  \A i, j \in 1 .. Len(cmds) :
    i < j => /\ IsEom(j) /\ Answered(j) => Answered(i)
             /\ IsEom(i) /\ Answered(j) => Answered(i)

(* A GET is answered with its own opaque number, and with a success if and *)
(* only if the value that was read is stored under its key, unless the     *)
(* value came before the entry of the GET was written.                     *)
OwnAnswer ==
  \A k \in 1 .. Len(match) :
    \/ burst[k] \in late
    \/ status[k] = burst[k] /\ match[k] = (found[burst[k]] = "same")

(* Every command is answered. *)
AllAnswered == <>[](\A i \in 1 .. Len(script) : i <= Len(cmds) /\ Answered(i))

-----------------------------------------------------------------------------
(* The parts of the inductive invariant behind these properties. *)

Outcomes == {"miss", "same", "other", "stored", "deleted", "none"}

TypeOK ==
  /\ script \in Scripts /\ cmds \in Seq(Opcodes) /\ stall \in BOOLEAN
  /\ inFlightCmds \in Nat /\ nTok \in Nat /\ nFlash \in Nat /\ nVal \in Nat
  /\ nKV \in Nat /\ nWr \in Nat /\ nBurst \in Nat /\ nCmp \in Nat
  /\ nIn \in Nat /\ nOut \in Nat
  /\ newTag \in Tags /\ initialized \in BOOLEAN
  /\ freeTagQ \in Seq(Tags) /\ nextTagQ \in Seq(Tags) /\ tag \in Seq(Tags)
  /\ found \in Seq(Outcomes)
  /\ entry \in [ Tags -> Nat ]
  /\ reading \subseteq Nat /\ burst \in Seq(Nat)
  /\ status \in Seq(Nat) /\ keys \in Seq(Nat) /\ match \in Seq(BOOLEAN)

(* The commands pass the stages in order, and so do the answered GETs. *)
Counters ==
  /\ Len(cmds) <= Len(script)
  /\ nKV <= nVal /\ nVal <= Len(found) /\ nFlash <= Len(found)
  /\ Len(found) <= Len(tag) /\ Len(tag) + Len(nextTagQ) <= Len(cmds)
  /\ nWr <= nKV /\ nIn <= nVal
  /\ nOut <= Len(match) /\ Len(match) <= nCmp /\ Len(match) <= Len(keys)
  /\ nCmp <= nBurst /\ Len(keys) <= nBurst
  /\ nBurst = Len(status) /\ nBurst <= Len(burst)

(* The store reads each value once, and for a GET that waits for it. *)
Bursts ==
  /\ \A k \in 1 .. Len(burst) : burst[k] \in 1 .. nFlash /\ Waits(burst[k])
  /\ \A k, l \in 1 .. Len(burst) : burst[k] = burst[l] => k = l
  /\ \A i \in reading : /\ i \in 1 .. nFlash /\ Waits(i)
                        /\ \A k \in 1 .. Len(burst) : burst[k] # i

(* The tags never given out, and where all tags are. *)
NewTags == IF initialized THEN {} ELSE newTag .. NumTags - 1

HeldTags == { tag[i] : i \in Holders }

TagsCounted ==
  /\ Cardinality(NewTags) + Len(freeTagQ) + Len(nextTagQ) + Cardinality(Holders)
       = NumTags
  /\ NewTags \cup ToSet(freeTagQ) \cup ToSet(nextTagQ) \cup HeldTags = Tags

(* A tag is given to another command after its command was answered. *)
TagReuse ==
  \A i, j \in 1 .. Len(tag) : i < j /\ tag[i] = tag[j] => Answered(i)

(* The entry of a GET stays until it is answered. *)
EntryOwn ==
  \A i \in 1 .. nWr : Waits(i) /\ ~ Answered(i) => entry[tag[i]] = i

(* What was read for a value that did not come too early is of its GET. *)
ReadOwn ==
  /\ \A k \in 1 .. nBurst :
       burst[k] \in late \/ (burst[k] <= nWr /\ status[k] = burst[k])
  /\ \A k \in 1 .. Len(keys) : burst[k] \in late \/ keys[k] = burst[k]
  /\ \A k \in 1 .. Len(match) :
       burst[k] \in late \/ match[k] = (found[burst[k]] = "same")

Unanswered == { i \in 1 .. Len(cmds) : ~ Answered(i) }

(* The number of commands in flight is exact, and an EOM that is not       *)
(* answered keeps the next command out.                                    *)
InFlightExact == inFlightCmds = Cardinality(Unanswered)

EomBlocks ==
  \A i \in 1 .. Len(cmds) : IsEom(i) /\ ~ Answered(i) => stall /\ i = Len(cmds)

IInv ==
  /\ TypeOK
  /\ Counters
  /\ Bursts
  /\ TagsCounted
  /\ TagReuse
  /\ EntryOwn
  /\ ReadOwn
  /\ InFlightExact
  /\ EomBlocks
  /\ EomLast
=============================================================================
