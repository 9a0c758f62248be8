----------------------------- MODULE ProcProofs -----------------------------
(***************************************************************************)
(* Proofs about the command pipeline, module Proc: its inductive invariant *)
(* IInv, and from it that the tags are kept exactly, that an EOM is        *)
(* answered last, and that a GET is answered for its own key.  There is a  *)
(* lemma for each rule; before them, the facts on minima, sequences and    *)
(* cardinalities that they need, and the frame of each part of IInv.       *)
(***************************************************************************)
EXTENDS Proc, FiniteSetTheorems, WellFoundedInduction, TLAPS

(* A non-empty set of naturals has a least element: the sets of those      *)
(* below each of its elements are finite, and strict inclusion of finite   *)
(* sets is well founded.                                                   *)
LEMMA MinExists ==
  ASSUME NEW S \in SUBSET Nat, S # {}
  PROVE  \E i \in S : \A j \in S : i <= j
<1> DEFINE Below(i) == { j \in S : j < i }
           F == { Below(i) : i \in S }
           R == StrictSubsetOrdering(Nat)
<1>1. F \subseteq FiniteSubsetsOf(Nat) /\ F # {}
  <2>1. ASSUME NEW i \in S PROVE IsFiniteSet(Below(i)) /\ Below(i) \in SUBSET Nat
    <3>1. IsFiniteSet(0 .. i)
      BY FS_Interval
    <3>2. Below(i) \in SUBSET (0 .. i)
      <4>1. \A j \in S : j < i => j \in 0 .. i
        OBVIOUS
      <4> QED BY <4>1
    <3>3. Below(i) \in SUBSET Nat
      OBVIOUS
    <3> HIDE DEF Below
    <3> QED BY <3>1, <3>2, <3>3, FS_Subset
  <2> QED BY <2>1 DEF FiniteSubsetsOf
<1>2. IsWellFoundedOn(R, FiniteSubsetsOf(Nat))
  BY FS_StrictSubsetOrderingWellFounded
<1>3. \E X \in F : \A Y \in F : << Y, X >> \notin R
  <2> HIDE DEF F, R
  <2> QED BY <1>1, <1>2, WFMin
<1>4. PICK i \in S : \A Y \in F : << Y, Below(i) >> \notin R
  BY <1>3
<1>5. ASSUME NEW j \in S, j < i PROVE FALSE
  <2>1. j \in Below(i) /\ j \notin Below(j)
    BY <1>5
  <2>2. Below(j) \subseteq Below(i)
    <3>1. \A k \in S : k < j => k < i
      BY <1>5
    <3> QED BY <3>1
  <2>3. << Below(j), Below(i) >> \in R
    BY <2>1, <2>2 DEF StrictSubsetOrdering
  <2> QED BY <2>3, <1>4
<1> QED BY <1>5

LEMMA FirstIs ==
  ASSUME NEW S \in SUBSET Nat, S # {}
  PROVE  First(S) \in S /\ \A j \in S : First(S) <= j
BY MinExists DEF First

(* A sequence has at least as many places as different elements. *)
LEMMA ToSetBound ==
  ASSUME NEW T, NEW s \in Seq(T)
  PROVE  IsFiniteSet(ToSet(s)) /\ Cardinality(ToSet(s)) <= Len(s)
<1>1. s \in Surjection(1 .. Len(s), ToSet(s))
  BY DEF Surjection, ToSet
<1>2. ExistsSurjection(1 .. Len(s), ToSet(s)) /\ Len(s) \in Nat
  BY <1>1 DEF ExistsSurjection
<1> QED BY <1>2, FS_NatSurjection, FS_SurjCardinalityBound

LEMMA SetToSeqIs ==
  ASSUME NEW S, IsFiniteSet(S)
  PROVE  /\ SetToSeq(S) \in Seq(S)
         /\ Len(SetToSeq(S)) = Cardinality(S)
         /\ ToSet(SetToSeq(S)) = S
<1> DEFINE n == Cardinality(S)
<1>1. ExistsBijection(1 .. n, S) /\ n \in Nat
  BY FS_CardinalityType
<1>2. PICK f : f \in Bijection(1 .. n, S)
  BY <1>1 DEF ExistsBijection
<1>3. f \in [ 1 .. n -> S ] /\ IsInjective(f)
  BY <1>2 DEF Bijection, Injection, IsInjective
<1> DEFINE g == SetToSeq(S)
<1>4. g \in [ 1 .. n -> S ] /\ IsInjective(g)
  BY <1>3 DEF SetToSeq
<1>5. g \in Injection(1 .. n, S)
  BY <1>4 DEF Injection, IsInjective
<1>6. IsFiniteSet(1 .. n) /\ Cardinality(1 .. n) = n
  BY <1>1, FS_Interval
<1>7. g \in Surjection(1 .. n, S)
  <2> HIDE DEF g
  <2> QED BY <1>5, <1>6, FS_Injection
<1> HIDE DEF g
<1>8. g \in Seq(S) /\ Len(g) = n /\ DOMAIN g = 1 .. n
  BY <1>1, <1>4
<1>9. ToSet(g) = S
  BY <1>7, <1>8 DEF ToSet, Surjection
<1> QED BY <1>8, <1>9 DEF g

-----------------------------------------------------------------------------
(* What every step keeps: the histories only grow.                         *)

Extends(s, t) == Len(s) <= Len(t) /\ \A k \in 1 .. Len(s) : t[k] = s[k]

Grows ==
  /\ Extends(cmds, cmds') /\ Extends(tag, tag')
  /\ Extends(found, found') /\ Extends(burst, burst')
  /\ TypeOK' /\ Counters'

LEMMA AppendExtends ==
  ASSUME NEW T, NEW s \in Seq(T), NEW e \in T
  PROVE  /\ Append(s, e) \in Seq(T) /\ Len(Append(s, e)) = Len(s) + 1
         /\ Extends(s, Append(s, e))
         /\ Append(s, e)[Len(s) + 1] = e
         /\ Len(s) \in Nat
         /\ \A k \in 1 .. Len(s) + 1 : k \in 1 .. Len(s) \/ k = Len(s) + 1
BY DEF Extends

LEMMA Lengths ==
  ASSUME IInv
  PROVE  /\ Len(cmds) \in Nat /\ Len(script) \in Nat /\ Len(tag) \in Nat
         /\ Len(nextTagQ) \in Nat /\ Len(freeTagQ) \in Nat /\ Len(found) \in Nat
         /\ Len(burst) \in Nat /\ Len(status) \in Nat /\ Len(keys) \in Nat
         /\ Len(match) \in Nat
         /\ inFlightCmds \in Nat /\ nTok \in Nat /\ nFlash \in Nat /\ nVal \in Nat
         /\ nKV \in Nat /\ nWr \in Nat /\ nBurst \in Nat /\ nCmp \in Nat
         /\ nIn \in Nat /\ nOut \in Nat
<1>1. TypeOK /\ script \in Seq(Opcodes)
  BY ProcAssumption DEF IInv, TypeOK
<1> QED BY <1>1 DEF TypeOK

LEMMA Order ==
  ASSUME IInv
  PROVE  /\ Len(cmds) <= Len(script)
         /\ nKV <= nVal /\ nVal <= Len(found) /\ nFlash <= Len(found)
         /\ Len(found) <= Len(tag) /\ Len(tag) + Len(nextTagQ) <= Len(cmds)
         /\ Len(tag) <= Len(cmds)
         /\ nWr <= nKV /\ nIn <= nVal
         /\ nOut <= Len(match) /\ Len(match) <= nCmp /\ Len(match) <= Len(keys)
         /\ nCmp <= nBurst /\ Len(keys) <= nBurst
         /\ nBurst = Len(status) /\ nBurst <= Len(burst)
<1>1. Counters
  BY DEF IInv
<1> QED BY <1>1, Lengths DEF Counters

(* The same as places of the histories. *)
LEMMA Places ==
  ASSUME IInv
  PROVE  /\ 1 .. nOut \subseteq 1 .. Len(burst)
         /\ 1 .. Len(match) \subseteq 1 .. nBurst
         /\ 1 .. Len(keys) \subseteq 1 .. nBurst
         /\ 1 .. nBurst \subseteq 1 .. Len(burst)
         /\ 1 .. nFlash \subseteq 1 .. Len(found)
         /\ 1 .. nWr \subseteq 1 .. Len(found)
         /\ 1 .. nIn \subseteq 1 .. Len(found)
         /\ 1 .. Len(found) \subseteq 1 .. Len(tag)
         /\ 1 .. Len(tag) \subseteq 1 .. Len(cmds)
         /\ 1 .. Len(cmds) \subseteq Nat \ {0}
<1> DEFINE Upto(m, n) == 1 .. m \subseteq 1 .. n
<1>1. \A m, n \in Nat : m <= n => Upto(m, n)
  OBVIOUS
<1> HIDE DEF Upto
<1>2. /\ nOut \in Nat /\ nBurst \in Nat /\ nFlash \in Nat /\ nWr \in Nat
      /\ nIn \in Nat /\ nVal \in Nat /\ nKV \in Nat
      /\ Len(burst) \in Nat /\ Len(match) \in Nat /\ Len(keys) \in Nat
      /\ Len(found) \in Nat /\ Len(tag) \in Nat /\ Len(cmds) \in Nat
  BY Lengths
<1>3. /\ nOut <= Len(match) /\ Len(match) <= Len(keys) /\ Len(keys) <= nBurst
      /\ nBurst <= Len(burst) /\ nFlash <= Len(found) /\ nWr <= nKV
      /\ nKV <= nVal /\ nIn <= nVal /\ nVal <= Len(found)
      /\ Len(found) <= Len(tag) /\ Len(tag) <= Len(cmds)
  BY Order
<1>4. nOut <= Len(burst) /\ Len(match) <= nBurst
  BY <1>2, <1>3
<1>5. nWr <= Len(found) /\ nIn <= Len(found)
  BY <1>2, <1>3
<1>6. /\ Upto(nOut, Len(burst)) /\ Upto(Len(match), nBurst)
      /\ Upto(Len(keys), nBurst) /\ Upto(nBurst, Len(burst))
  BY <1>1, <1>2, <1>3, <1>4
<1>7. /\ Upto(nFlash, Len(found)) /\ Upto(nWr, Len(found))
      /\ Upto(nIn, Len(found)) /\ Upto(Len(found), Len(tag))
      /\ Upto(Len(tag), Len(cmds))
  BY <1>1, <1>2, <1>3, <1>5
<1>8. 1 .. Len(cmds) \subseteq Nat \ {0}
  BY <1>2
<1> QED BY <1>6, <1>7, <1>8 DEF Upto

(* The values that came are those of commands that the table answered. *)
LEMMA BurstIs ==
  ASSUME IInv, NEW k \in 1 .. Len(burst)
  PROVE  /\ burst[k] \in 1 .. nFlash /\ burst[k] \in 1 .. Len(found)
         /\ burst[k] \in 1 .. Len(tag) /\ burst[k] \in 1 .. Len(cmds)
         /\ burst[k] \in Nat \ {0} /\ Waits(burst[k])
<1>1. burst[k] \in 1 .. nFlash /\ Waits(burst[k])
  BY DEF IInv, Bursts
<1> QED BY <1>1, Places

-----------------------------------------------------------------------------
(* Frames: a step that leaves the variables of a part alone keeps it.      *)

AnsweredKept == \A i \in Nat \ {0} : Answered(i)' <=> Answered(i)
AnsweredMore == \A i \in Nat \ {0} : Answered(i) => Answered(i)'

(* Once the table has answered, what a command waits for does not change.  *)
LEMMA WaitsKept ==
  ASSUME IInv, Grows, NEW i \in 1 .. Len(found)
  PROVE  /\ Waits(i)' <=> Waits(i)
         /\ cmds'[i] = cmds[i] /\ found'[i] = found[i] /\ tag'[i] = tag[i]
<1>1. i \in 1 .. Len(cmds) /\ i \in 1 .. Len(tag)
  BY Places
<1> QED BY <1>1 DEF Grows, Extends, Waits

LEMMA AnsweredSame ==
  ASSUME IInv, Grows, nIn' = nIn, nOut' = nOut
  PROVE  AnsweredKept
<1> SUFFICES ASSUME NEW i \in Nat \ {0}
             PROVE  Answered(i)' <=> Answered(i)
  BY DEF AnsweredKept
<1>1. \A k \in 1 .. nOut : burst'[k] = burst[k] /\ burst[k] \in 1 .. Len(found)
  <2> TAKE k \in 1 .. nOut
  <2>1. k \in 1 .. Len(burst)
    BY Places
  <2> QED BY <2>1, BurstIs DEF Grows, Extends
<1>2. { burst[k] : k \in 1 .. nOut }' = { burst[k] : k \in 1 .. nOut }
  BY <1>1
<1>3. /\ Len(found) <= Len(found') /\ Len(found') \in Nat /\ Len(found) \in Nat
      /\ nIn \in Nat
  BY Lengths DEF Grows, Extends, TypeOK
<1>4. CASE i <= Len(found)
  <2>1. i \in 1 .. Len(found) /\ i <= Len(found')
    BY <1>3, <1>4
  <2>2. Waits(i)' <=> Waits(i)
    BY <2>1, WaitsKept
  <2> QED BY <1>2, <1>4, <2>1, <2>2 DEF Answered
<1>5. CASE ~ (i <= Len(found))
  <2>1. ~ (i <= nIn)
    <3>1. i <= nIn => i \in 1 .. nIn
      BY <1>3
    <3>2. i \notin 1 .. Len(found)
      BY <1>3, <1>5
    <3> QED BY <3>1, <3>2, Places
  <2>2. i \notin { burst[k] : k \in 1 .. nOut }
    BY <1>1, <1>5
  <2> QED BY <1>2, <1>5, <2>1, <2>2 DEF Answered
<1> QED BY <1>4, <1>5

LEMMA BurstsFrame ==
  ASSUME IInv, Grows, UNCHANGED << nFlash, reading, burst >>
  PROVE  Bursts'
<1>1. \A i \in 1 .. nFlash : i \in 1 .. Len(found)
  BY Places
<1>2. \A i \in 1 .. nFlash : Waits(i)' <=> Waits(i)
  BY <1>1, WaitsKept
<1> QED BY <1>2 DEF Bursts, IInv

LEMMA TagsFrame ==
  ASSUME IInv, AnsweredKept, UNCHANGED tags
  PROVE  TagsCounted' /\ TagReuse'
<1>1. UNCHANGED << newTag, initialized, freeTagQ, nextTagQ, tag >>
  BY DEF tags
<1>2. Holders' = Holders
  <2>1. \A i \in 1 .. Len(tag) : Answered(i)' <=> Answered(i)
    BY Places DEF AnsweredKept
  <2> QED BY <1>1, <2>1 DEF Holders
<1>3. HeldTags' = HeldTags /\ NewTags' = NewTags
  BY <1>1, <1>2 DEF HeldTags, NewTags
<1>4. TagsCounted'
  BY <1>1, <1>2, <1>3 DEF TagsCounted, IInv
<1>5. TagReuse'
  BY <1>1, Places DEF TagReuse, AnsweredKept, IInv
<1> QED BY <1>4, <1>5

LEMMA EntryFrame ==
  ASSUME IInv, Grows, AnsweredMore, UNCHANGED << nWr, entry >>
  PROVE  EntryOwn'
<1>1. \A i \in 1 .. nWr : i \in 1 .. Len(found) /\ i \in Nat \ {0}
  BY Places
<1> QED BY <1>1, WaitsKept DEF EntryOwn, AnsweredMore, IInv

LEMMA ReadFrame ==
  ASSUME IInv, Grows, UNCHANGED << nBurst, status, keys, match, late >>,
         nWr <= nWr'
  PROVE  ReadOwn'
<1>1. \A k \in 1 .. nBurst :
        /\ k \in 1 .. Len(burst) /\ burst'[k] = burst[k]
        /\ burst[k] \in 1 .. Len(found)
        /\ found'[burst[k]] = found[burst[k]]
  <2> TAKE k \in 1 .. nBurst
  <2>1. k \in 1 .. Len(burst)
    BY Places
  <2>2. burst'[k] = burst[k] /\ burst[k] \in 1 .. Len(found)
    BY <2>1, BurstIs DEF Grows, Extends
  <2> QED BY <2>1, <2>2, WaitsKept
<1>2. /\ \A k \in 1 .. Len(keys) : k \in 1 .. nBurst
      /\ \A k \in 1 .. Len(match) : k \in 1 .. nBurst
  BY Places
<1>3. nWr' \in Nat
  BY DEF Grows, TypeOK
<1>4. \A k \in 1 .. nBurst : burst[k] <= nWr => burst[k] <= nWr'
  <2> TAKE k \in 1 .. nBurst
  <2>1. burst[k] \in Nat
    BY <1>1, Places
  <2>2. nWr \in Nat
    BY Lengths
  <2> QED BY <1>3, <2>1, <2>2
<1> QED BY <1>1, <1>2, <1>4 DEF ReadOwn, IInv

LEMMA EomFrame ==
  ASSUME IInv, AnsweredKept, UNCHANGED << cmds, stall, inFlightCmds >>
  PROVE  InFlightExact' /\ EomBlocks' /\ EomLast'
<1>1. Unanswered' = Unanswered
  <2>1. \A i \in 1 .. Len(cmds) : Answered(i)' <=> Answered(i)
    BY Places DEF AnsweredKept
  <2> QED BY <2>1 DEF Unanswered
<1>2. \A i \in 1 .. Len(cmds) : /\ Answered(i)' <=> Answered(i)
                                /\ IsEom(i)' <=> IsEom(i)
  BY Places DEF AnsweredKept, IsEom
<1> QED BY <1>1, <1>2 DEF InFlightExact, EomBlocks, EomLast, IInv

LEMMA KeptIsMore == AnsweredKept => AnsweredMore
BY DEF AnsweredKept, AnsweredMore

LEMMA SameExtends ==
  ASSUME IInv
  PROVE  /\ cmds' = cmds => Extends(cmds, cmds')
         /\ tag' = tag => Extends(tag, tag')
         /\ found' = found => Extends(found, found')
         /\ burst' = burst => Extends(burst, burst')
<1>1. /\ Len(cmds) \in Nat /\ Len(tag) \in Nat /\ Len(found) \in Nat
      /\ Len(burst) \in Nat
  BY Lengths
<1> QED BY <1>1 DEF Extends

LEMMA QuietInv ==
  ASSUME IInv, Grows,
         UNCHANGED << cmds, inFlightCmds, stall, tags, nFlash, reading, burst,
                      nWr, entry, nBurst, status, keys, match, late, nIn, nOut >>
  PROVE  IInv'
<1>1. AnsweredKept /\ AnsweredMore
  BY AnsweredSame, KeptIsMore
<1>2. nWr <= nWr'
  BY Lengths
<1> QED BY <1>1, <1>2, BurstsFrame, TagsFrame, EntryFrame, ReadFrame, EomFrame
        DEF IInv, Grows

-----------------------------------------------------------------------------
(* The rules that only move a counter. *)

LEMMA keyValPipeInv ==
  ASSUME IInv, keyValPipe
  PROVE  IInv'
<1>1. UNCHANGED << script, cmds, stall, inFlightCmds, tags, table, cmplBuf, store,
                   answer >> /\ nTok' = nTok + 1
  BY DEF keyValPipe
<1>2. TypeOK'
  BY <1>1 DEF IInv, TypeOK, tags, table, cmplBuf, store, answer
<1>3. Counters'
  BY <1>1 DEF IInv, Counters, tags, table, cmplBuf, store, answer
<1>4. Grows
  BY <1>1, <1>2, <1>3, SameExtends DEF Grows, tags, table, store
<1> QED BY <1>1, <1>4, QuietInv DEF table, cmplBuf, store, answer

LEMMA doValInv ==
  ASSUME IInv, doVal
  PROVE  IInv'
<1>1. /\ UNCHANGED << found, nFlash, nKV, front, tags, cmplBuf, store, answer >>
      /\ nVal' = nVal + 1 /\ nVal + 1 <= Len(found)
  BY DEF doVal
<1>2. TypeOK'
  BY <1>1 DEF IInv, TypeOK, tags, front, cmplBuf, store, answer
<1>3. Counters'
  <2>1. nVal \in Nat /\ nKV \in Nat /\ nIn \in Nat
    BY Lengths
  <2> QED BY <1>1, <2>1 DEF IInv, Counters, tags, front, cmplBuf, store, answer
<1>4. Grows
  BY <1>1, <1>2, <1>3, SameExtends DEF Grows, tags, front, store
<1> QED BY <1>1, <1>4, QuietInv DEF front, cmplBuf, store, answer

LEMMA deqKVInv ==
  ASSUME IInv, deqKV
  PROVE  IInv'
<1> DEFINE S == { i \in nKV + 1 .. nVal : ~ IsEom(i) }
<1>1. /\ UNCHANGED << found, nFlash, nVal, front, tags, cmplBuf, store, answer >>
      /\ nKV' = First(S) /\ S # {}
  BY DEF deqKV
<1>2. nKV' \in nKV + 1 .. nVal
  <2>1. nKV \in Nat /\ nVal \in Nat
    BY Lengths
  <2>2. S \in SUBSET Nat
    BY <2>1
  <2>3. First(S) \in S
    BY <1>1, <2>2, FirstIs
  <2> QED BY <1>1, <2>3
<1> HIDE DEF S
<1>3. nKV' \in Nat /\ nKV <= nKV' /\ nKV' <= nVal /\ nKV \in Nat /\ nWr \in Nat
  <2>1. nKV \in Nat /\ nVal \in Nat /\ nWr \in Nat
    BY Lengths
  <2> QED BY <1>2, <2>1
<1>4. TypeOK'
  BY <1>1, <1>3 DEF IInv, TypeOK, tags, front, cmplBuf, store, answer
<1>5. Counters'
  BY <1>1, <1>3 DEF IInv, Counters, tags, front, cmplBuf, store, answer
<1>6. Grows
  BY <1>1, <1>4, <1>5, SameExtends DEF Grows, tags, front, store
<1> QED BY <1>1, <1>6, QuietInv DEF front, cmplBuf, store, answer

LEMMA reqkeyCmpInv ==
  ASSUME IInv, reqkeyCmp
  PROVE  IInv'
<1>1. /\ UNCHANGED << match, nIn, nOut, front, tags, table, cmplBuf, store >>
      /\ nCmp' = nCmp + 1 /\ nCmp < nBurst
  BY DEF reqkeyCmp
<1>2. TypeOK'
  BY <1>1 DEF IInv, TypeOK, tags, front, cmplBuf, store, table
<1>3. Counters'
  <2>1. nCmp \in Nat /\ nBurst \in Nat /\ Len(match) \in Nat
    BY Lengths
  <2> QED BY <1>1, <2>1 DEF IInv, Counters, tags, front, cmplBuf, store, table
<1>4. Grows
  BY <1>1, <1>2, <1>3, SameExtends DEF Grows, tags, front, store, table
<1> QED BY <1>1, <1>4, QuietInv DEF front, cmplBuf, store, table

LEMMA TableAnswerInv ==
  ASSUME IInv, TableAnswer
  PROVE  IInv'
<1> DEFINE i == Len(found) + 1
<1>1. PICK a \in Answers(i) : found' = Append(found, a)
  BY DEF TableAnswer
<1>2. /\ UNCHANGED << nFlash, nVal, nKV, front, tags, cmplBuf, store, answer >>
      /\ i <= Len(tag)
  BY DEF TableAnswer
<1>3. a \in Outcomes
  <2>1. i \in Nat /\ Len(tag) \in Nat
    BY Lengths
  <2>2. i \in 1 .. Len(tag)
    BY <1>2, <2>1
  <2> HIDE DEF i
  <2>3. i \in 1 .. Len(cmds)
    BY <2>2, Places
  <2>4. cmds[i] \in Opcodes
    BY <2>3 DEF IInv, TypeOK
  <2> QED BY <2>4 DEF Answers, Outcomes, Opcodes, IsEom
<1>4. /\ found' \in Seq(Outcomes) /\ Len(found') = i /\ Extends(found, found')
      /\ Len(found) \in Nat
  BY <1>1, <1>3, AppendExtends DEF IInv, TypeOK
<1>5. TypeOK'
  BY <1>2, <1>4 DEF IInv, TypeOK, tags, front, cmplBuf, store, answer
<1>6. Counters'
  <2>1. nVal <= Len(found') /\ nFlash <= Len(found') /\ Len(found') <= Len(tag)
    <3>1. nVal \in Nat /\ nFlash \in Nat /\ nVal <= Len(found) /\ nFlash <= Len(found)
      BY Lengths, Order
    <3> QED BY <1>2, <1>4, <3>1
  <2> QED BY <1>2, <2>1 DEF IInv, Counters, tags, front, cmplBuf, store, answer
<1>7. Grows
  BY <1>2, <1>4, <1>5, <1>6, SameExtends DEF Grows, tags, front, store
<1> QED BY <1>2, <1>7, QuietInv DEF front, cmplBuf, store, answer

-----------------------------------------------------------------------------
(* Commands that are not answered, and how many. *)

LEMMA NotAnswered ==
  ASSUME IInv, NEW i \in Nat, i > Len(found)
  PROVE  ~ Answered(i)
<1>1. Len(found) \in Nat /\ nIn \in Nat
  BY Lengths
<1>2. nIn <= Len(found)
  <2>1. nVal \in Nat /\ nIn <= nVal /\ nVal <= Len(found)
    BY Lengths, Order
  <2> QED BY <1>1, <2>1
<1> QED BY <1>1, <1>2 DEF Answered

LEMMA BurstNotAnswered ==
  ASSUME IInv, NEW k \in 1 .. Len(burst), k > nOut
  PROVE  ~ Answered(burst[k])
<1>1. burst[k] \in 1 .. Len(found) /\ Waits(burst[k])
  BY BurstIs
<1>2. Len(found) \in Nat /\ nOut \in Nat
  BY Lengths
<1>3. burst[k] \notin { burst[l] : l \in 1 .. nOut }
  <2> SUFFICES ASSUME NEW l \in 1 .. nOut, burst[k] = burst[l] PROVE FALSE
    OBVIOUS
  <2>1. l \in 1 .. Len(burst)
    BY Places
  <2>2. k = l
    BY <2>1 DEF IInv, Bursts
  <2> QED BY <1>2, <2>2
<1> QED BY <1>1, <1>2, <1>3 DEF Answered

LEMMA Finite ==
  ASSUME IInv
  PROVE  /\ IsFiniteSet(Unanswered) /\ Cardinality(Unanswered) \in Nat
         /\ IsFiniteSet(Holders) /\ Cardinality(Holders) \in Nat
         /\ IsFiniteSet(NewTags) /\ Cardinality(NewTags) \in Nat
<1>1. Len(cmds) \in Nat /\ Len(tag) \in Nat
  BY Lengths
<1>2. IsFiniteSet(1 .. Len(cmds)) /\ IsFiniteSet(1 .. Len(tag))
  BY <1>1, FS_Interval
<1>3. IsFiniteSet(Unanswered)
  BY <1>2, FS_Subset DEF Unanswered
<1>4. IsFiniteSet(Holders)
  BY <1>2, FS_Subset DEF Holders
<1>5. IsFiniteSet(NewTags)
  <2>1. newTag \in Int /\ NumTags - 1 \in Int
    BY ProcAssumption DEF IInv, TypeOK, Tags
  <2>2. IsFiniteSet(newTag .. NumTags - 1)
    BY <2>1, FS_Interval
  <2> QED BY <2>2, FS_EmptySet DEF NewTags
<1> QED BY <1>3, <1>4, <1>5, FS_CardinalityType

-----------------------------------------------------------------------------
(* The commands that come. *)

LEMMA doHashInv ==
  ASSUME IInv, doHash
  PROVE  IInv'
<1>0. PICK n \in Nat : n = Len(cmds) + 1
  BY Lengths
<1> DEFINE op == script[n]
<1>1. /\ ~ stall /\ stall' = (Last(cmds') = "EOM")
      /\ Len(cmds) < Len(script) /\ cmds' = Append(cmds, op)
      /\ inFlightCmds' = inFlightCmds + 1
      /\ UNCHANGED << script, nTok, tags, table, cmplBuf, store, answer >>
  BY <1>0 DEF doHash, Accept
<1>2. op \in Opcodes
  <2>1. script \in Seq(Opcodes) /\ n \in 1 .. Len(script)
    <3>1. Len(cmds) \in Nat /\ Len(script) \in Nat
      BY Lengths
    <3> QED BY <1>0, <1>1, <3>1, ProcAssumption DEF IInv, TypeOK
  <2> QED BY <2>1
<1>3. /\ cmds' \in Seq(Opcodes) /\ Len(cmds') = n /\ Extends(cmds, cmds')
      /\ cmds'[n] = op /\ Len(cmds) \in Nat
  BY <1>0, <1>1, <1>2, AppendExtends DEF IInv, TypeOK
<1>4. stall' = (op = "EOM")
  BY <1>1, <1>3 DEF Last
<1>5. TypeOK'
  BY <1>1, <1>3, <1>4 DEF IInv, TypeOK, tags, table, cmplBuf, store, answer
<1>6. Counters'
  <2>1. Len(tag) + Len(nextTagQ) \in Nat /\ Len(script) \in Nat
    BY Lengths
  <2>2. Len(tag) + Len(nextTagQ) <= Len(cmds)
    BY Order
  <2>3. Len(tag) + Len(nextTagQ) <= Len(cmds') /\ Len(cmds') <= Len(script)
    BY <1>0, <1>1, <1>3, <2>1, <2>2
  <2> QED BY <1>1, <2>3 DEF IInv, Counters, tags, table, cmplBuf, store, answer
<1>7. Grows
  BY <1>1, <1>3, <1>5, <1>6, SameExtends DEF Grows, tags, table, store
<1>8. AnsweredKept /\ AnsweredMore
  BY <1>1, <1>7, AnsweredSame, KeptIsMore DEF answer
<1>9. nWr' = nWr /\ nWr <= nWr'
  <2>1. nWr \in Nat
    BY Lengths
  <2> QED BY <1>1, <2>1 DEF cmplBuf
<1>10. Bursts' /\ TagsCounted' /\ TagReuse' /\ EntryOwn' /\ ReadOwn'
  BY <1>1, <1>7, <1>8, <1>9, BurstsFrame, TagsFrame, EntryFrame, ReadFrame
     DEF table, store, cmplBuf, answer
<1>11. n \in Nat \ {0} /\ n \notin 1 .. Len(cmds) /\ 1 .. Len(cmds') = 1 .. Len(cmds) \cup {n}
  BY <1>0, <1>3
<1> HIDE DEF op
<1>12. ~ Answered(n) /\ ~ Answered(n)'
  <2>1. n > Len(found)
    <3>1. Len(found) \in Nat /\ Len(tag) \in Nat
          /\ Len(found) <= Len(tag) /\ Len(tag) <= Len(cmds)
      BY Lengths, Order
    <3> QED BY <1>0, <1>3, <3>1
  <2>2. ~ Answered(n)
    BY <1>11, <2>1, NotAnswered
  <2> QED BY <1>8, <1>11, <2>2 DEF AnsweredKept
<1>13. \A i \in 1 .. Len(cmds) :
         (Answered(i)' <=> Answered(i)) /\ (IsEom(i)' <=> IsEom(i))
  BY <1>3, <1>8, Places DEF AnsweredKept, Extends, IsEom
<1>14. InFlightExact'
  <2>1. Unanswered' = Unanswered \cup {n} /\ n \notin Unanswered
    BY <1>11, <1>12, <1>13 DEF Unanswered
  <2>2. Cardinality(Unanswered') = Cardinality(Unanswered) + 1
    BY <2>1, Finite, FS_AddElement
  <2> QED BY <1>1, <2>2 DEF InFlightExact, IInv
<1>15. \A i \in 1 .. Len(cmds) : IsEom(i) => Answered(i)
  BY <1>1 DEF IInv, EomBlocks
<1>16. EomBlocks'
  <2> SUFFICES ASSUME NEW i \in 1 .. Len(cmds'), IsEom(i)', ~ Answered(i)'
               PROVE  stall' /\ i = Len(cmds')
    BY DEF EomBlocks
  <2>1. i = n
    BY <1>11, <1>13, <1>15
  <2> QED BY <1>3, <1>4, <2>1 DEF IsEom
<1>17. EomLast'
  <2> SUFFICES ASSUME NEW i \in 1 .. Len(cmds'), NEW j \in 1 .. Len(cmds'), i < j
               PROVE  /\ IsEom(j)' /\ Answered(j)' => Answered(i)'
                      /\ IsEom(i)' /\ Answered(j)' => Answered(i)'
    BY DEF EomLast
  <2>1. CASE j = n
    BY <1>12, <2>1
  <2>2. CASE j # n
    <3>1. j \in 1 .. Len(cmds) /\ i \in 1 .. Len(cmds)
      BY <1>3, <1>11, <2>2
    <3> QED BY <1>13, <3>1 DEF IInv, EomLast
  <2> QED BY <2>1, <2>2
<1> QED BY <1>5, <1>6, <1>10, <1>14, <1>16, <1>17 DEF IInv

LEMMA doHashDrainedInv ==
  ASSUME IInv, doHashDrained
  PROVE  IInv'
<1>1. /\ inFlightCmds = 0 /\ stall' = FALSE
      /\ UNCHANGED << script, cmds, inFlightCmds, nTok, tags, table, cmplBuf, store,
                      answer >>
  BY DEF doHashDrained
<1>2. TypeOK' /\ Counters'
  BY <1>1 DEF IInv, TypeOK, Counters, tags, table, cmplBuf, store, answer
<1>3. Grows
  BY <1>1, <1>2, SameExtends DEF Grows, tags, table, store
<1>4. AnsweredKept /\ AnsweredMore
  BY <1>1, <1>3, AnsweredSame, KeptIsMore DEF answer
<1>5. nWr' = nWr /\ nWr <= nWr'
  BY <1>1, Lengths DEF cmplBuf
<1>6. Bursts' /\ TagsCounted' /\ TagReuse' /\ EntryOwn' /\ ReadOwn'
  BY <1>1, <1>3, <1>4, <1>5, BurstsFrame, TagsFrame, EntryFrame, ReadFrame
     DEF table, store, cmplBuf, answer
<1>7. Unanswered = {}
  <2>1. Cardinality(Unanswered) = 0
    BY <1>1 DEF InFlightExact, IInv
  <2> QED BY <2>1, Finite, FS_EmptySet
<1>8. \A i \in 1 .. Len(cmds) : Answered(i)' /\ Answered(i)
  BY <1>4, <1>7, Places DEF AnsweredKept, Unanswered
<1>9. InFlightExact' /\ EomBlocks' /\ EomLast'
  <2>1. Unanswered' = Unanswered
    BY <1>1, <1>7, <1>8 DEF Unanswered
  <2> QED BY <1>1, <1>8, <2>1 DEF InFlightExact, EomBlocks, EomLast, IInv
<1> QED BY <1>2, <1>6, <1>9 DEF IInv

-----------------------------------------------------------------------------
(* The places of the tags. *)

LEMMA ToSetAppend ==
  ASSUME NEW T, NEW s \in Seq(T), NEW e \in T
  PROVE  ToSet(Append(s, e)) = ToSet(s) \cup {e}
<1>1. /\ \A k \in 1 .. Len(s) : Append(s, e)[k] = s[k] /\ k \in 1 .. Len(s) + 1
      /\ Append(s, e)[Len(s) + 1] = e
      /\ \A k \in 1 .. Len(s) + 1 : k \in 1 .. Len(s) \/ k = Len(s) + 1
      /\ Len(s) + 1 \in 1 .. Len(s) + 1
  OBVIOUS
<1>2. DOMAIN s = 1 .. Len(s) /\ DOMAIN Append(s, e) = 1 .. Len(s) + 1
  OBVIOUS
<1>3. \A x : x \in ToSet(Append(s, e)) <=> x \in ToSet(s) \/ x = e
  BY <1>1, <1>2 DEF ToSet
<1> QED BY <1>3

LEMMA ToSetTail ==
  ASSUME NEW T, NEW s \in Seq(T), s # << >>
  PROVE  /\ Head(s) \in T /\ Tail(s) \in Seq(T) /\ Len(Tail(s)) = Len(s) - 1
         /\ Len(s) \in Nat \ {0}
         /\ ToSet(s) = ToSet(Tail(s)) \cup {Head(s)}
<1>1. Len(s) \in Nat \ {0} /\ Head(s) = s[1] /\ Head(s) \in T
      /\ Tail(s) \in Seq(T) /\ Len(Tail(s)) = Len(s) - 1
  OBVIOUS
<1>2. \A k \in 1 .. Len(s) - 1 : Tail(s)[k] = s[k + 1] /\ k + 1 \in 1 .. Len(s)
  BY <1>1
<1>3. \A k \in 1 .. Len(s) : k = 1 \/ (k - 1 \in 1 .. Len(s) - 1 /\ k = (k - 1) + 1)
  BY <1>1
<1>4. DOMAIN s = 1 .. Len(s) /\ DOMAIN Tail(s) = 1 .. Len(s) - 1 /\ 1 \in 1 .. Len(s)
  BY <1>1
<1>5. \A x : x \in ToSet(s) <=> x \in ToSet(Tail(s)) \/ x = Head(s)
  <2> TAKE x
  <2>1. ASSUME NEW k \in 1 .. Len(s), x = s[k]
        PROVE  x \in ToSet(Tail(s)) \/ x = Head(s)
    <3>1. CASE k = 1
      BY <1>1, <2>1, <3>1
    <3>2. CASE k # 1
      <4>1. k - 1 \in 1 .. Len(s) - 1 /\ x = Tail(s)[k - 1]
        BY <1>2, <1>3, <2>1, <3>2
      <4> QED BY <1>4, <4>1 DEF ToSet
    <3> QED BY <3>1, <3>2
  <2>2. ASSUME NEW k \in 1 .. Len(s) - 1, x = Tail(s)[k]
        PROVE  x \in ToSet(s)
    BY <1>2, <1>4, <2>2 DEF ToSet
  <2>3. Head(s) \in ToSet(s)
    BY <1>1, <1>4 DEF ToSet
  <2> QED BY <1>4, <2>1, <2>2, <2>3 DEF ToSet
<1> QED BY <1>1, <1>5

LEMMA UnionBound ==
  ASSUME NEW S, NEW T, IsFiniteSet(S), IsFiniteSet(T)
  PROVE  /\ IsFiniteSet(S \cup T)
         /\ Cardinality(S \cup T) <= Cardinality(S) + Cardinality(T)
<1>1. /\ IsFiniteSet(S \cup T)
      /\ Cardinality(S \cup T) = Cardinality(S) + Cardinality(T) - Cardinality(S \cap T)
  BY FS_Union
<1>2. IsFiniteSet(S \cap T)
  BY FS_Intersection
<1>3. Cardinality(S \cap T) \in Nat /\ Cardinality(S) \in Nat /\ Cardinality(T) \in Nat
  BY <1>2, FS_CardinalityType
<1> QED BY <1>1, <1>3

LEMMA HeldTagsBound ==
  ASSUME IInv
  PROVE  IsFiniteSet(HeldTags) /\ Cardinality(HeldTags) <= Cardinality(Holders)
<1> DEFINE f == [ i \in Holders |-> tag[i] ]
<1>1. f \in Surjection(Holders, HeldTags)
  BY DEF Surjection, HeldTags
<1> HIDE DEF f
<1> QED BY <1>1, Finite, FS_Surjection

(* A tag that waits to be given out is not held: there would be fewer tags *)
(* than there are.                                                         *)
LEMMA NextTagNotHeld ==
  ASSUME IInv, nextTagQ # << >>
  PROVE  Head(nextTagQ) \notin HeldTags
<1> SUFFICES ASSUME Head(nextTagQ) \in HeldTags PROVE FALSE
  OBVIOUS
<1> DEFINE A == NewTags
           B == ToSet(freeTagQ)
           C == ToSet(Tail(nextTagQ))
           D == HeldTags
<1>1. /\ nextTagQ \in Seq(Tags) /\ freeTagQ \in Seq(Tags)
      /\ Cardinality(A) + Len(freeTagQ) + Len(nextTagQ) + Cardinality(Holders)
           = NumTags
      /\ Tags = A \cup B \cup ToSet(nextTagQ) \cup D
  BY DEF IInv, TypeOK, TagsCounted
<1>2. /\ Tail(nextTagQ) \in Seq(Tags) /\ Len(Tail(nextTagQ)) = Len(nextTagQ) - 1
      /\ ToSet(nextTagQ) = C \cup {Head(nextTagQ)}
  BY <1>1, ToSetTail
<1>3. Tags = ((A \cup B) \cup C) \cup D
  BY <1>1, <1>2
<1>4. IsFiniteSet(A) /\ Cardinality(A) \in Nat /\ Cardinality(Holders) \in Nat
  BY Finite
<1>5. /\ IsFiniteSet(B) /\ Cardinality(B) <= Len(freeTagQ)
      /\ IsFiniteSet(C) /\ Cardinality(C) <= Len(nextTagQ) - 1
  BY <1>1, <1>2, ToSetBound
<1>6. IsFiniteSet(D) /\ Cardinality(D) <= Cardinality(Holders)
  BY HeldTagsBound
<1>7. Cardinality(Tags) = NumTags
  <2>1. NumTags \in Nat /\ NumTags # 0
    BY ProcAssumption
  <2>2. Cardinality(0 .. NumTags - 1) = NumTags
    BY <2>1, FS_Interval
  <2> QED BY <2>2 DEF Tags
<1> HIDE DEF A, B, C, D
<1>8. /\ IsFiniteSet(A \cup B)
      /\ Cardinality(A \cup B) <= Cardinality(A) + Cardinality(B)
  BY <1>4, <1>5, UnionBound
<1>9. /\ IsFiniteSet((A \cup B) \cup C)
      /\ Cardinality((A \cup B) \cup C) <= Cardinality(A \cup B) + Cardinality(C)
  BY <1>5, <1>8, UnionBound
<1>10. /\ IsFiniteSet(Tags)
       /\ Cardinality(Tags) <= Cardinality((A \cup B) \cup C) + Cardinality(D)
  BY <1>3, <1>6, <1>9, UnionBound
<1>11. /\ Cardinality(B) \in Nat /\ Cardinality(C) \in Nat /\ Cardinality(D) \in Nat
       /\ Cardinality(A \cup B) \in Nat /\ Cardinality((A \cup B) \cup C) \in Nat
       /\ Cardinality(Tags) \in Nat
  BY <1>5, <1>6, <1>8, <1>9, <1>10, FS_CardinalityType
<1>12. Len(freeTagQ) \in Nat /\ Len(nextTagQ) \in Nat
  BY Lengths
<1> QED BY <1>1, <1>4, <1>5, <1>6, <1>7, <1>8, <1>9, <1>10, <1>11, <1>12

LEMMA doAllocTagInv ==
  ASSUME IInv, doAllocTag
  PROVE  IInv'
<1>1. /\ Len(tag) + Len(nextTagQ) < Len(cmds)
      /\ UNCHANGED << tag, front, table, cmplBuf, store, answer >>
  BY DEF doAllocTag
<1>2. /\ nextTagQ \in Seq(Tags) /\ freeTagQ \in Seq(Tags) /\ newTag \in Tags
      /\ Len(nextTagQ) \in Nat /\ Len(freeTagQ) \in Nat
      /\ Cardinality(NewTags) \in Nat /\ Cardinality(Holders) \in Nat
      /\ initialized \in BOOLEAN
      /\ Cardinality(NewTags) + Len(freeTagQ) + Len(nextTagQ) + Cardinality(Holders)
           = NumTags
      /\ NewTags \cup ToSet(freeTagQ) \cup ToSet(nextTagQ) \cup HeldTags = Tags
  BY Lengths, Finite DEF IInv, TypeOK, TagsCounted
<1>3. PICK t \in Tags :
        /\ nextTagQ' = Append(nextTagQ, t)
        /\ freeTagQ' \in Seq(Tags) /\ newTag' \in Tags /\ initialized' \in BOOLEAN
        /\ Cardinality(NewTags') + Len(freeTagQ')
             = Cardinality(NewTags) + Len(freeTagQ) - 1
        /\ NewTags' \cup ToSet(freeTagQ') \cup {t} = NewTags \cup ToSet(freeTagQ)
  <2>1. CASE initialized
    <3>1. /\ freeTagQ # << >> /\ nextTagQ' = Append(nextTagQ, Head(freeTagQ))
          /\ freeTagQ' = Tail(freeTagQ) /\ UNCHANGED << newTag, initialized >>
      BY <2>1 DEF doAllocTag
    <3>2. /\ Head(freeTagQ) \in Tags /\ Tail(freeTagQ) \in Seq(Tags)
          /\ Len(Tail(freeTagQ)) = Len(freeTagQ) - 1
          /\ ToSet(freeTagQ) = ToSet(Tail(freeTagQ)) \cup {Head(freeTagQ)}
      BY <1>2, <3>1, ToSetTail
    <3>3. NewTags' = NewTags
      BY <3>1 DEF NewTags
    <3> QED BY <1>2, <3>1, <3>2, <3>3
  <2>2. CASE ~ initialized
    <3>1. /\ nextTagQ' = Append(nextTagQ, newTag) /\ newTag' = (newTag + 1) % NumTags
          /\ initialized' = (newTag = NumTags - 1) /\ freeTagQ' = freeTagQ
      BY <2>2 DEF doAllocTag
    <3>2. NumTags \in Nat \ {0} /\ newTag \in 0 .. NumTags - 1
      BY <1>2, ProcAssumption DEF Tags
    <3>3. newTag' \in Tags
      BY <3>1, <3>2 DEF Tags
    <3>4. NewTags = newTag .. NumTags - 1 /\ newTag \in NewTags
      BY <2>2, <3>2 DEF NewTags
    <3>5. NewTags' = NewTags \ {newTag}
      <4>1. CASE newTag = NumTags - 1
        <5>1. initialized' = TRUE
          BY <3>1, <4>1
        <5>2. NewTags' = {}
          BY <5>1 DEF NewTags
        <5>3. newTag .. NumTags - 1 = {newTag}
          BY <3>2, <4>1
        <5> QED BY <3>4, <5>2, <5>3
      <4>2. CASE newTag # NumTags - 1
        <5>1. newTag + 1 < NumTags /\ newTag + 1 \in Nat
          BY <3>2, <4>2
        <5>2. (newTag + 1) % NumTags = newTag + 1
          BY <3>2, <5>1
        <5>3. NewTags' = newTag + 1 .. NumTags - 1
          BY <3>1, <4>2, <5>2 DEF NewTags
        <5> QED BY <3>2, <3>4, <5>3
      <4> QED BY <4>1, <4>2
    <3>6. Cardinality(NewTags') = Cardinality(NewTags) - 1
      BY <3>4, <3>5, Finite, FS_RemoveElement
    <3>7. NewTags' \cup {newTag} = NewTags
      BY <3>4, <3>5
    <3>8. initialized' \in BOOLEAN
      BY <3>1
    <3>9. /\ Cardinality(NewTags') + Len(freeTagQ')
               = Cardinality(NewTags) + Len(freeTagQ) - 1
          /\ NewTags' \cup ToSet(freeTagQ') \cup {newTag}
               = NewTags \cup ToSet(freeTagQ)
      <4>1. freeTagQ' = freeTagQ /\ Len(freeTagQ) \in Nat
        BY <1>2, <3>1
      <4>2. Cardinality(NewTags) \in Nat
        BY <1>2
      <4> QED BY <3>6, <3>7, <4>1, <4>2
    <3> QED BY <1>2, <3>1, <3>3, <3>8, <3>9
  <2> QED BY <1>2, <2>1, <2>2
<1>4. /\ nextTagQ' \in Seq(Tags) /\ Len(nextTagQ') = Len(nextTagQ) + 1
      /\ ToSet(nextTagQ') = ToSet(nextTagQ) \cup {t}
  BY <1>2, <1>3, AppendExtends, ToSetAppend
<1>5. TypeOK'
  BY <1>1, <1>3, <1>4 DEF IInv, TypeOK, front, table, cmplBuf, store, answer
<1>6. Counters'
  <2>1. Len(tag) + Len(nextTagQ') <= Len(cmds)
    <3>1. Len(tag) \in Nat /\ Len(cmds) \in Nat
      BY Lengths
    <3> QED BY <1>1, <1>2, <1>4, <3>1
  <2> QED BY <1>1, <2>1 DEF IInv, Counters, front, table, cmplBuf, store, answer
<1>7. Grows
  BY <1>1, <1>5, <1>6, SameExtends DEF Grows, front, table, store
<1>8. AnsweredKept /\ AnsweredMore
  BY <1>1, <1>7, AnsweredSame, KeptIsMore DEF answer
<1>9. nWr' = nWr /\ nWr <= nWr'
  <2>1. nWr \in Nat
    BY Lengths
  <2> QED BY <1>1, <2>1 DEF cmplBuf
<1>10. /\ Bursts' /\ EntryOwn' /\ ReadOwn'
       /\ InFlightExact' /\ EomBlocks' /\ EomLast'
  BY <1>1, <1>7, <1>8, <1>9, BurstsFrame, EntryFrame, ReadFrame, EomFrame
     DEF front, table, store, cmplBuf, answer
<1>11. Holders' = Holders /\ HeldTags' = HeldTags
  <2>1. \A i \in 1 .. Len(tag) : Answered(i)' <=> Answered(i)
    BY <1>8, Places DEF AnsweredKept
  <2>2. Holders' = Holders
    BY <1>1, <2>1 DEF Holders
  <2> QED BY <1>1, <2>2 DEF HeldTags
<1>12. TagReuse'
  BY <1>1, <1>8, Places DEF TagReuse, AnsweredKept, IInv
<1>13. TagsCounted'
  <2>1. Cardinality(NewTags') + Len(freeTagQ') + Len(nextTagQ') + Cardinality(Holders')
          = NumTags
    <3>1. Len(freeTagQ') \in Nat
      BY <1>3
    <3>2. IsFiniteSet(NewTags')
      <4>1. newTag' \in Int /\ NumTags - 1 \in Int
        BY <1>3, ProcAssumption DEF Tags
      <4>2. IsFiniteSet(newTag' .. NumTags - 1)
        BY <4>1, FS_Interval
      <4> QED BY <4>2, FS_EmptySet DEF NewTags
    <3>3. Cardinality(NewTags') \in Nat
      BY <3>2, FS_CardinalityType
    <3> QED BY <1>2, <1>3, <1>4, <1>11, <3>1, <3>3
  <2>2. NewTags' \cup ToSet(freeTagQ') \cup ToSet(nextTagQ') \cup HeldTags' = Tags
    BY <1>2, <1>3, <1>4, <1>11
  <2> QED BY <2>1, <2>2 DEF TagsCounted
<1> QED BY <1>5, <1>6, <1>10, <1>12, <1>13 DEF IInv

LEMMA doTableInv ==
  ASSUME IInv, doTable
  PROVE  IInv'
<1>0. PICK n \in Nat : n = Len(tag) + 1
  BY Lengths
<1> DEFINE t == Head(nextTagQ)
<1>1. /\ n <= Len(cmds) /\ nextTagQ # << >>
      /\ tag' = Append(tag, t) /\ nextTagQ' = Tail(nextTagQ)
      /\ UNCHANGED << newTag, initialized, freeTagQ, front, table, cmplBuf,
                      store, answer >>
  BY <1>0 DEF doTable
<1>2. /\ nextTagQ \in Seq(Tags) /\ tag \in Seq(Tags)
      /\ Cardinality(NewTags) \in Nat /\ Cardinality(Holders) \in Nat
      /\ Len(freeTagQ) \in Nat
      /\ Cardinality(NewTags) + Len(freeTagQ) + Len(nextTagQ) + Cardinality(Holders)
           = NumTags
      /\ NewTags \cup ToSet(freeTagQ) \cup ToSet(nextTagQ) \cup HeldTags = Tags
  BY Lengths, Finite DEF IInv, TypeOK, TagsCounted
<1>3. /\ t \in Tags /\ nextTagQ' \in Seq(Tags) /\ Len(nextTagQ') = Len(nextTagQ) - 1
      /\ Len(nextTagQ) \in Nat \ {0}
      /\ ToSet(nextTagQ) = ToSet(nextTagQ') \cup {t}
  BY <1>1, <1>2, ToSetTail
<1>4. t \notin HeldTags
  BY <1>1, NextTagNotHeld
<1> HIDE DEF t
<1>5. /\ tag' \in Seq(Tags) /\ Len(tag') = n /\ Extends(tag, tag') /\ tag'[n] = t
      /\ Len(tag) \in Nat
  BY <1>0, <1>1, <1>2, <1>3, AppendExtends
<1>6. TypeOK'
  BY <1>1, <1>3, <1>5 DEF IInv, TypeOK, front, table, cmplBuf, store, answer
<1>7. Counters'
  <2>1. Len(tag') + Len(nextTagQ') <= Len(cmds) /\ Len(found) <= Len(tag')
    <3>1. /\ Len(cmds) \in Nat /\ Len(found) \in Nat /\ Len(found) <= Len(tag)
          /\ Len(tag) + Len(nextTagQ) <= Len(cmds)
      BY Lengths, Order
    <3> QED BY <1>0, <1>3, <1>5, <3>1
  <2> QED BY <1>1, <2>1 DEF IInv, Counters, front, table, cmplBuf, store, answer
<1>8. Grows
  BY <1>1, <1>5, <1>6, <1>7, SameExtends DEF Grows, front, table, store
<1>9. AnsweredKept /\ AnsweredMore
  BY <1>1, <1>8, AnsweredSame, KeptIsMore DEF answer
<1>10. nWr' = nWr /\ nWr <= nWr'
  <2>1. nWr \in Nat
    BY Lengths
  <2> QED BY <1>1, <2>1 DEF cmplBuf
<1>11. /\ Bursts' /\ EntryOwn' /\ ReadOwn'
       /\ InFlightExact' /\ EomBlocks' /\ EomLast'
  BY <1>1, <1>8, <1>9, <1>10, BurstsFrame, EntryFrame, ReadFrame, EomFrame
     DEF front, table, store, cmplBuf, answer
<1>12. /\ n \in Nat \ {0} /\ n \notin 1 .. Len(tag)
       /\ 1 .. Len(tag') = 1 .. Len(tag) \cup {n}
       /\ \A i \in 1 .. Len(tag) : i < n /\ tag'[i] = tag[i]
  BY <1>0, <1>5 DEF Extends
<1>13. ~ Answered(n) /\ ~ Answered(n)'
  <2>1. n > Len(found)
    <3>1. Len(found) \in Nat /\ Len(found) <= Len(tag)
      BY Lengths, Order
    <3> QED BY <1>0, <1>5, <3>1
  <2>2. ~ Answered(n)
    BY <2>1, NotAnswered
  <2> QED BY <1>9, <1>12, <2>2 DEF AnsweredKept
<1>14. \A i \in 1 .. Len(tag) : Answered(i)' <=> Answered(i)
  BY <1>9, Places DEF AnsweredKept
<1>15. Holders' = Holders \cup {n} /\ n \notin Holders
  BY <1>12, <1>13, <1>14 DEF Holders
<1>16. HeldTags' = HeldTags \cup {t}
  <2>1. \A i \in Holders : tag'[i] = tag[i]
    BY <1>12 DEF Holders
  <2> QED BY <1>5, <1>15, <2>1 DEF HeldTags
<1>17. NewTags' = NewTags
  BY <1>1 DEF NewTags
<1>18. TagsCounted'
  <2>1. Cardinality(Holders') = Cardinality(Holders) + 1
    BY <1>15, Finite, FS_AddElement
  <2>2. Cardinality(NewTags') + Len(freeTagQ') + Len(nextTagQ') + Cardinality(Holders')
          = NumTags
    BY <1>1, <1>2, <1>3, <1>17, <2>1
  <2>3. NewTags' \cup ToSet(freeTagQ') \cup ToSet(nextTagQ') \cup HeldTags' = Tags
    BY <1>1, <1>2, <1>3, <1>16, <1>17
  <2> QED BY <2>2, <2>3 DEF TagsCounted
<1>19. TagReuse'
  <2> SUFFICES ASSUME NEW i \in 1 .. Len(tag'), NEW j \in 1 .. Len(tag'),
                      i < j, tag'[i] = tag'[j]
               PROVE  Answered(i)'
    BY DEF TagReuse
  <2>1. i \in 1 .. Len(tag)
    BY <1>0, <1>5, <1>12
  <2>2. CASE j = n
    <3>1. tag[i] = t
      BY <1>5, <1>12, <2>1, <2>2
    <3>2. Answered(i)
      BY <1>4, <2>1, <3>1 DEF HeldTags, Holders
    <3> QED BY <1>14, <2>1, <3>2
  <2>3. CASE j # n
    <3>1. j \in 1 .. Len(tag)
      BY <1>12, <2>3
    <3>2. Answered(i)
      BY <1>12, <2>1, <3>1 DEF IInv, TagReuse
    <3> QED BY <1>14, <2>1, <3>2
  <2> QED BY <2>2, <2>3
<1> QED BY <1>6, <1>7, <1>11, <1>18, <1>19 DEF IInv

-----------------------------------------------------------------------------
(* The value store and the completion buffer. *)

LEMMA doConnectFlashInv ==
  ASSUME IInv, doConnectFlash
  PROVE  IInv'
<1> DEFINE S == Within(nFlash, Len(found), NeedsStore)
<1>0. PICK f : f = First(S)
  OBVIOUS
<1>1. /\ S # {} /\ nFlash' = f
      /\ reading' = IF Waits(f) THEN reading \cup {f} ELSE reading
      /\ UNCHANGED << found, nVal, nKV, burst, front, tags, cmplBuf, answer >>
  BY <1>0 DEF doConnectFlash
<1>2. f \in nFlash + 1 .. Len(found)
  <2>1. nFlash \in Nat
    BY Lengths
  <2>2. S \in SUBSET Nat
    BY <2>1 DEF Within
  <2>3. f \in S
    BY <1>0, <1>1, <2>2, FirstIs
  <2> QED BY <2>3 DEF Within
<1> HIDE DEF S
<1>3. /\ f \in Nat /\ nFlash < f /\ f <= Len(found) /\ nFlash \in Nat
      /\ f \in 1 .. f /\ f \in 1 .. Len(found)
  <2>1. nFlash \in Nat /\ Len(found) \in Nat
    BY Lengths
  <2> QED BY <1>2, <2>1
<1>4. TypeOK'
  BY <1>1, <1>3 DEF IInv, TypeOK, front, tags, cmplBuf, answer
<1>5. Counters'
  BY <1>1, <1>3 DEF IInv, Counters, front, tags, cmplBuf, answer
<1>6. Grows
  BY <1>1, <1>4, <1>5, SameExtends DEF Grows, front, tags
<1>7. AnsweredKept /\ AnsweredMore
  BY <1>1, <1>6, AnsweredSame, KeptIsMore DEF answer
<1>8. nWr' = nWr /\ nWr <= nWr'
  <2>1. nWr \in Nat
    BY Lengths
  <2> QED BY <1>1, <2>1 DEF cmplBuf
<1>9. /\ TagsCounted' /\ TagReuse' /\ EntryOwn' /\ ReadOwn'
      /\ InFlightExact' /\ EomBlocks' /\ EomLast'
  BY <1>1, <1>6, <1>7, <1>8, TagsFrame, EntryFrame, ReadFrame, EomFrame
     DEF front, cmplBuf, answer
<1>10. \A i \in 1 .. nFlash : i \in 1 .. f /\ i # f
  BY <1>3
<1>11. \A i \in 1 .. Len(found) : Waits(i)' <=> Waits(i)
  BY <1>6, WaitsKept
<1>12. \A i \in 1 .. nFlash : Waits(i)' <=> Waits(i)
  BY <1>11, Places
<1>13. Bursts'
  <2>1. Bursts
    BY DEF IInv
  <2>2. \A k \in 1 .. Len(burst) :
          burst[k] \in 1 .. f /\ Waits(burst[k])' /\ burst[k] # f
    <3> TAKE k \in 1 .. Len(burst)
    <3>1. PICK i \in 1 .. nFlash : i = burst[k] /\ Waits(i)
      BY <2>1 DEF Bursts
    <3>2. Waits(i)' /\ i \in 1 .. f /\ i # f
      BY <1>10, <1>12, <3>1
    <3>3. burst'[k] = i
      BY <1>1, <3>1
    <3> QED BY <3>1, <3>2, <3>3 DEF Waits
  <2>3. ASSUME NEW i \in reading'
        PROVE  i \in 1 .. f /\ Waits(i)' /\ \A k \in 1 .. Len(burst) : burst[k] # i
    <3>1. CASE i \in reading
      BY <1>10, <1>12, <2>1, <3>1 DEF Bursts
    <3>2. CASE i \notin reading
      <4>1. i = f /\ Waits(f)
        BY <1>1, <3>2
      <4> QED BY <1>3, <1>11, <2>2, <4>1
    <3> QED BY <3>1, <3>2
  <2>4. \A k, l \in 1 .. Len(burst) : burst[k] = burst[l] => k = l
    BY <2>1 DEF Bursts
  <2> QED BY <1>1, <2>2, <2>3, <2>4 DEF Bursts
<1> QED BY <1>4, <1>5, <1>9, <1>13 DEF IInv

LEMMA StoreAnswerInv ==
  ASSUME IInv, StoreAnswer
  PROVE  IInv'
<1>0. PICK i \in reading : burst' = Append(burst, i) /\ reading' = reading \ {i}
  BY DEF StoreAnswer
<1>1. UNCHANGED << front, tags, table, cmplBuf, answer >>
  BY DEF StoreAnswer
<1>2. /\ i \in Nat /\ i \in 1 .. nFlash /\ Waits(i)
      /\ \A k \in 1 .. Len(burst) : burst[k] # i
  BY DEF IInv, TypeOK, Bursts
<1>3. /\ burst' \in Seq(Nat) /\ Len(burst') = Len(burst) + 1
      /\ Extends(burst, burst') /\ burst'[Len(burst) + 1] = i
      /\ Len(burst) \in Nat
      /\ \A k \in 1 .. Len(burst) + 1 : k \in 1 .. Len(burst) \/ k = Len(burst) + 1
  BY <1>0, <1>2, AppendExtends DEF IInv, TypeOK
<1>4. TypeOK'
  BY <1>0, <1>1, <1>3 DEF IInv, TypeOK, front, tags, table, cmplBuf, answer
<1>5. Counters'
  <2>1. nBurst <= Len(burst') /\ nBurst \in Nat
    <3>1. nBurst \in Nat /\ nBurst <= Len(burst)
      BY Lengths, Order
    <3> QED BY <1>3, <3>1
  <2> QED BY <1>1, <2>1 DEF IInv, Counters, front, tags, table, cmplBuf, answer
<1>6. Grows
  BY <1>1, <1>3, <1>4, <1>5, SameExtends DEF Grows, front, tags, table
<1>7. AnsweredKept /\ AnsweredMore
  BY <1>1, <1>6, AnsweredSame, KeptIsMore DEF answer
<1>8. nWr' = nWr /\ nWr <= nWr'
  <2>1. nWr \in Nat
    BY Lengths
  <2> QED BY <1>1, <2>1 DEF cmplBuf
<1>9. /\ TagsCounted' /\ TagReuse' /\ EntryOwn' /\ ReadOwn'
      /\ InFlightExact' /\ EomBlocks' /\ EomLast'
  BY <1>1, <1>6, <1>7, <1>8, TagsFrame, EntryFrame, ReadFrame, EomFrame
     DEF front, cmplBuf, answer
<1>10. \A j \in 1 .. nFlash : Waits(j)' <=> Waits(j)
  BY <1>6, Places, WaitsKept
<1>11. Bursts'
  <2>1. Bursts /\ nFlash' = nFlash
    BY <1>1 DEF IInv, table
  <2>2. \A k \in 1 .. Len(burst) : burst'[k] = burst[k]
    BY <1>3 DEF Extends
  <2>3. \A k \in 1 .. Len(burst') : burst'[k] \in 1 .. nFlash /\ Waits(burst[k])'
    <3> TAKE k \in 1 .. Len(burst')
    <3>1. PICK j \in 1 .. nFlash : j = burst'[k] /\ Waits(j)
      BY <1>2, <1>3, <2>1, <2>2 DEF Bursts
    <3>2. Waits(j)'
      BY <1>10, <3>1
    <3> QED BY <3>1, <3>2 DEF Waits
  <2>4. \A k, l \in 1 .. Len(burst') : burst'[k] = burst'[l] => k = l
    BY <1>2, <1>3, <2>1, <2>2 DEF Bursts
  <2>5. ASSUME NEW j \in reading'
        PROVE  /\ j \in 1 .. nFlash /\ Waits(j)'
               /\ \A k \in 1 .. Len(burst') : burst'[k] # j
    BY <1>0, <1>3, <1>10, <2>1, <2>2 DEF Bursts
  <2> QED BY <2>1, <2>3, <2>4, <2>5 DEF Bursts
<1> QED BY <1>4, <1>5, <1>9, <1>11 DEF IInv

(* The entry that doWrReq writes has the tag of no other GET that waits.   *)
LEMMA doWrReqInv ==
  ASSUME IInv, doWrReq
  PROVE  IInv'
<1> DEFINE S == Within(nWr, nKV, Waits)
<1>0. PICK f : f = First(S)
  OBVIOUS
<1>1. /\ S # {} /\ nWr' = f /\ entry' = [ entry EXCEPT ![tag[f]] = f ]
      /\ UNCHANGED << nBurst, status, keys, late, front, tags, table, store, answer >>
  BY <1>0 DEF doWrReq
<1>2. /\ nWr \in Nat /\ nKV \in Nat /\ nKV <= Len(found) /\ Len(found) \in Nat
  <2>1. nVal \in Nat /\ nKV <= nVal /\ nVal <= Len(found)
    BY Lengths, Order
  <2>2. nWr \in Nat /\ nKV \in Nat /\ Len(found) \in Nat
    BY Lengths
  <2> QED BY <2>1, <2>2
<1>3. /\ f \in nWr + 1 .. nKV /\ Waits(f)
      /\ \A i \in nWr + 1 .. nKV : Waits(i) => f <= i
  <2>1. S \in SUBSET Nat
    BY <1>2 DEF Within
  <2>2. f \in S /\ \A j \in S : f <= j
    BY <1>0, <1>1, <2>1, FirstIs
  <2> QED BY <2>2 DEF Within
<1> HIDE DEF S
<1>4. f \in Nat \ {0} /\ nWr < f /\ f <= nKV /\ f \in 1 .. Len(found) /\ nWr <= nWr'
  BY <1>1, <1>2, <1>3
<1>5. f \in 1 .. Len(tag) /\ tag[f] \in Tags /\ entry \in [ Tags -> Nat ]
  <2>1. f \in 1 .. Len(tag)
    BY <1>4, Places
  <2> QED BY <2>1 DEF IInv, TypeOK
<1>6. TypeOK'
  BY <1>1, <1>4, <1>5 DEF IInv, TypeOK, front, tags, table, store, answer
<1>7. Counters'
  BY <1>1, <1>4 DEF IInv, Counters, front, tags, table, store, answer
<1>8. Grows
  BY <1>1, <1>6, <1>7, SameExtends DEF Grows, front, tags, table, store
<1>9. AnsweredKept /\ AnsweredMore
  BY <1>1, <1>8, AnsweredSame, KeptIsMore DEF answer
<1>10. /\ Bursts' /\ TagsCounted' /\ TagReuse' /\ ReadOwn'
       /\ InFlightExact' /\ EomBlocks' /\ EomLast'
  BY <1>1, <1>4, <1>8, <1>9, BurstsFrame, TagsFrame, ReadFrame, EomFrame
     DEF front, table, store, answer
<1>11. EntryOwn'
  <2> SUFFICES ASSUME NEW i \in 1 .. f, Waits(i)', ~ Answered(i)'
               PROVE  entry'[tag'[i]] = i
    BY <1>1 DEF EntryOwn
  <2>1. i \in 1 .. Len(found) /\ i \in 1 .. Len(tag) /\ i \in Nat \ {0} /\ i <= f
    <3>1. i \in 1 .. Len(found)
      BY <1>2, <1>4
    <3> QED BY <3>1, <1>4, Places
  <2>2. Waits(i) /\ tag'[i] = tag[i] /\ ~ Answered(i)
    BY <1>8, <1>9, <2>1, WaitsKept DEF AnsweredKept
  <2>3. CASE i = f
    BY <1>1, <1>5, <2>2, <2>3
  <2>4. CASE i # f
    <3>1. i < f
      BY <1>4, <2>1, <2>4
    <3>2. i \in 1 .. nWr
      BY <1>2, <1>3, <1>4, <2>1, <2>2, <3>1
    <3>3. tag[i] # tag[f]
      BY <1>5, <2>1, <2>2, <3>1 DEF IInv, TagReuse
    <3>4. entry[tag[i]] = i
      BY <2>2, <3>2 DEF IInv, EntryOwn
    <3>5. tag[i] \in Tags
      BY <2>1 DEF IInv, TypeOK
    <3> QED BY <1>1, <1>5, <2>2, <3>3, <3>4, <3>5
  <2> QED BY <2>3, <2>4
<1> QED BY <1>6, <1>7, <1>10, <1>11 DEF IInv

(* A value whose GET has its entry finds it: the GET is not answered yet.  *)
LEMMA EntryIs ==
  ASSUME IInv, NEW k \in 1 .. Len(burst), k > nOut, burst[k] <= nWr
  PROVE  entry[tag[burst[k]]] = burst[k]
<1>1. /\ ~ Answered(burst[k]) /\ Waits(burst[k]) /\ burst[k] \in Nat \ {0}
      /\ nWr \in Nat
  BY BurstNotAnswered, BurstIs, Lengths
<1>2. burst[k] \in 1 .. nWr
  BY <1>1
<1> QED BY <1>1, <1>2 DEF IInv, EntryOwn

LEMMA EntryType ==
  ASSUME IInv, NEW k \in 1 .. Len(burst)
  PROVE  entry[tag[burst[k]]] \in Nat
<1>1. burst[k] \in 1 .. Len(tag)
  BY BurstIs
<1>2. tag[burst[k]] \in Tags
  BY <1>1 DEF IInv, TypeOK
<1> QED BY <1>2 DEF IInv, TypeOK

LEMMA readCmplBufInv ==
  ASSUME IInv, readCmplBuf
  PROVE  IInv'
<1>0. PICK k \in Nat : k = nBurst + 1
  <2>1. nBurst \in Nat
    BY Lengths
  <2> QED BY <2>1
<1>1. PICK i : i = burst[k]
  OBVIOUS
<1>2. /\ nBurst < Len(burst) /\ nBurst' = k
      /\ status' = Append(status, entry[tag[i]])
      /\ late' = IF i <= nWr THEN late ELSE late \cup {i}
      /\ UNCHANGED << nWr, entry, keys, front, tags, table, store, answer >>
  BY <1>0, <1>1 DEF readCmplBuf
<1>3. /\ nBurst \in Nat /\ nOut \in Nat /\ nOut <= nBurst /\ Len(burst) \in Nat
      /\ Len(status) = nBurst
  <2>1. /\ nOut <= Len(match) /\ Len(match) <= Len(keys) /\ Len(keys) <= nBurst
        /\ nBurst = Len(status)
    BY Order
  <2>2. /\ nBurst \in Nat /\ nOut \in Nat /\ Len(match) \in Nat /\ Len(keys) \in Nat
        /\ Len(burst) \in Nat
    BY Lengths
  <2> QED BY <2>1, <2>2
<1>4. k \in 1 .. Len(burst) /\ k > nOut
  BY <1>0, <1>2, <1>3
<1>5. entry[tag[i]] \in Nat
  BY <1>1, <1>4, EntryType
<1>6. /\ status' \in Seq(Nat) /\ Len(status') = k /\ status'[k] = entry[tag[i]]
      /\ \A l \in 1 .. nBurst : status'[l] = status[l]
  <2>1. status \in Seq(Nat) /\ Len(status) + 1 = k
    BY <1>0, <1>3 DEF IInv, TypeOK
  <2> QED BY <1>2, <1>3, <1>5, <2>1, AppendExtends DEF Extends
<1>7. TypeOK'
  BY <1>2, <1>6 DEF IInv, TypeOK, front, tags, table, store, answer
<1>8. Counters'
  <2>1. nBurst' = Len(status') /\ nBurst' <= Len(burst) /\ nBurst <= nBurst'
    BY <1>0, <1>2, <1>3, <1>6
  <2>2. nCmp <= nBurst' /\ Len(keys) <= nBurst'
    <3>1. nCmp \in Nat /\ Len(keys) \in Nat /\ nCmp <= nBurst /\ Len(keys) <= nBurst
      BY Lengths, Order
    <3> QED BY <1>0, <1>2, <1>3, <3>1
  <2> QED BY <1>2, <2>1, <2>2 DEF IInv, Counters, front, tags, table, store, answer
<1>9. Grows
  BY <1>2, <1>7, <1>8, SameExtends DEF Grows, front, tags, table, store
<1>10. AnsweredKept /\ AnsweredMore
  BY <1>2, <1>9, AnsweredSame, KeptIsMore DEF answer
<1>11. /\ Bursts' /\ TagsCounted' /\ TagReuse' /\ EntryOwn'
       /\ InFlightExact' /\ EomBlocks' /\ EomLast'
  BY <1>2, <1>9, <1>10, BurstsFrame, TagsFrame, EntryFrame, EomFrame
     DEF front, table, store, answer
<1>12. ReadOwn'
  <2>1. /\ burst' = burst /\ found' = found /\ match' = match /\ keys' = keys
        /\ nWr' = nWr
    BY <1>2 DEF store, table, answer
  <2>2. ReadOwn /\ \A x \in late : x \in late'
    BY <1>2 DEF IInv
  <2>3. \A l \in 1 .. k : l \in 1 .. nBurst \/ l = k
    BY <1>0, <1>3
  <2>4. burst[k] \in late' \/ (burst[k] <= nWr /\ status'[k] = burst[k])
    <3>1. CASE i <= nWr
      BY <1>1, <1>4, <1>6, <3>1, EntryIs
    <3>2. CASE ~ (i <= nWr)
      BY <1>1, <1>2, <3>2
    <3> QED BY <3>1, <3>2
  <2>5. \A l \in 1 .. k :
          burst[l] \in late' \/ (burst[l] <= nWr /\ status'[l] = burst[l])
    BY <1>6, <2>2, <2>3, <2>4 DEF ReadOwn
  <2>6. /\ \A l \in 1 .. Len(keys) : burst[l] \in late' \/ keys[l] = burst[l]
        /\ \A l \in 1 .. Len(match) :
             burst[l] \in late' \/ match[l] = (found[burst[l]] = "same")
    BY <2>2 DEF ReadOwn
  <2> QED BY <1>2, <2>1, <2>5, <2>6 DEF ReadOwn
<1> QED BY <1>7, <1>8, <1>11, <1>12 DEF IInv

LEMMA doRdReqInv ==
  ASSUME IInv, doRdReq
  PROVE  IInv'
<1>0. PICK k \in Nat : k = Len(keys) + 1
  BY Lengths
<1>1. /\ Len(keys) < nBurst /\ keys' = Append(keys, entry[tag[burst[k]]])
      /\ UNCHANGED << nWr, entry, nBurst, status, late, front, tags, table, store,
                      answer >>
  BY <1>0 DEF doRdReq
<1>2. /\ nBurst \in Nat /\ nOut \in Nat /\ nOut <= Len(keys) /\ Len(keys) \in Nat
      /\ nBurst <= Len(burst) /\ Len(burst) \in Nat
  <2>1. nOut <= Len(match) /\ Len(match) <= Len(keys) /\ nBurst <= Len(burst)
    BY Order
  <2>2. /\ nBurst \in Nat /\ nOut \in Nat /\ Len(match) \in Nat /\ Len(keys) \in Nat
        /\ Len(burst) \in Nat
    BY Lengths
  <2> QED BY <2>1, <2>2
<1>3. k \in 1 .. Len(burst) /\ k > nOut /\ k \in 1 .. nBurst
  BY <1>0, <1>1, <1>2
<1>4. entry[tag[burst[k]]] \in Nat
  BY <1>3, EntryType
<1>5. /\ keys' \in Seq(Nat) /\ Len(keys') = k /\ keys'[k] = entry[tag[burst[k]]]
      /\ \A l \in 1 .. Len(keys) : keys'[l] = keys[l]
  BY <1>0, <1>1, <1>4, AppendExtends DEF IInv, TypeOK, Extends
<1>6. TypeOK'
  BY <1>1, <1>5 DEF IInv, TypeOK, front, tags, table, store, answer
<1>7. Counters'
  <2>1. Len(keys') <= nBurst /\ Len(keys) <= Len(keys')
    BY <1>0, <1>1, <1>2, <1>5
  <2>2. Len(match) <= Len(keys')
    <3>1. Len(match) \in Nat /\ Len(match) <= Len(keys)
      BY Lengths, Order
    <3> QED BY <1>0, <1>2, <1>5, <3>1
  <2> QED BY <1>1, <2>1, <2>2 DEF IInv, Counters, front, tags, table, store, answer
<1>8. Grows
  BY <1>1, <1>6, <1>7, SameExtends DEF Grows, front, tags, table, store
<1>9. AnsweredKept /\ AnsweredMore
  BY <1>1, <1>8, AnsweredSame, KeptIsMore DEF answer
<1>10. /\ Bursts' /\ TagsCounted' /\ TagReuse' /\ EntryOwn'
       /\ InFlightExact' /\ EomBlocks' /\ EomLast'
  BY <1>1, <1>8, <1>9, BurstsFrame, TagsFrame, EntryFrame, EomFrame
     DEF front, table, store, answer
<1>11. ReadOwn'
  <2>1. burst' = burst /\ found' = found /\ match' = match
    BY <1>1 DEF store, table, answer
  <2>2. ReadOwn
    BY DEF IInv
  <2>3. \A l \in 1 .. k : l \in 1 .. Len(keys) \/ l = k
    BY <1>0, <1>2
  <2>4. burst[k] \in late \/ keys'[k] = burst[k]
    <3>1. burst[k] \in late \/ burst[k] <= nWr
      BY <1>3, <2>2 DEF ReadOwn
    <3> QED BY <1>3, <1>5, <3>1, EntryIs
  <2>5. \A l \in 1 .. k : burst[l] \in late \/ keys'[l] = burst[l]
    BY <1>5, <2>2, <2>3, <2>4 DEF ReadOwn
  <2> QED BY <1>1, <1>5, <2>1, <2>2, <2>5 DEF ReadOwn
<1> QED BY <1>6, <1>7, <1>10, <1>11 DEF IInv

LEMMA doCheckKeysInv ==
  ASSUME IInv, doCheckKeys
  PROVE  IInv'
<1>0. PICK n \in Nat : n = Len(match) + 1
  BY Lengths
<1>1. /\ n <= nCmp /\ n <= Len(keys)
      /\ UNCHANGED << nCmp, nIn, nOut, front, tags, table, cmplBuf, store >>
  BY <1>0 DEF doCheckKeys
<1>2. PICK m \in BOOLEAN : /\ keys[n] = burst[n] => m = (found[burst[n]] = "same")
                           /\ match' = Append(match, m)
  BY <1>0 DEF doCheckKeys
<1>3. /\ match' \in Seq(BOOLEAN) /\ Len(match') = n /\ match'[n] = m
      /\ \A l \in 1 .. Len(match) : match'[l] = match[l]
      /\ Len(match) \in Nat
  BY <1>0, <1>2, AppendExtends DEF IInv, TypeOK, Extends
<1>4. TypeOK'
  BY <1>1, <1>3 DEF IInv, TypeOK, front, tags, table, store, cmplBuf
<1>5. Counters'
  <2>1. nOut <= Len(match')
    <3>1. nOut \in Nat /\ nOut <= Len(match)
      BY Lengths, Order
    <3> QED BY <1>0, <1>3, <3>1
  <2> QED BY <1>1, <1>3, <2>1
          DEF IInv, Counters, front, tags, table, store, cmplBuf
<1>6. Grows
  BY <1>1, <1>4, <1>5, SameExtends DEF Grows, front, tags, table, store
<1>7. AnsweredKept /\ AnsweredMore
  BY <1>1, <1>6, AnsweredSame, KeptIsMore
<1>8. /\ Bursts' /\ TagsCounted' /\ TagReuse' /\ EntryOwn'
      /\ InFlightExact' /\ EomBlocks' /\ EomLast'
  BY <1>1, <1>6, <1>7, BurstsFrame, TagsFrame, EntryFrame, EomFrame
     DEF front, table, store, cmplBuf
<1>9. ReadOwn'
  <2>1. /\ burst' = burst /\ found' = found /\ keys' = keys /\ late' = late
        /\ nBurst' = nBurst /\ status' = status /\ nWr' = nWr
    BY <1>1 DEF store, table, cmplBuf
  <2>2. ReadOwn
    BY DEF IInv
  <2>3. \A l \in 1 .. n : l \in 1 .. Len(match) \/ l = n
    BY <1>0, <1>3
  <2>4. n \in 1 .. Len(keys)
    <3>1. Len(keys) \in Nat
      BY Lengths
    <3> QED BY <1>0, <1>1, <1>3, <3>1
  <2>5. burst[n] \in late \/ match'[n] = (found[burst[n]] = "same")
    BY <1>2, <1>3, <2>2, <2>4 DEF ReadOwn
  <2>6. \A l \in 1 .. n : burst[l] \in late \/ match'[l] = (found[burst[l]] = "same")
    BY <1>3, <2>2, <2>3, <2>5 DEF ReadOwn
  <2> QED BY <1>3, <2>1, <2>2, <2>6 DEF ReadOwn
<1> QED BY <1>4, <1>5, <1>8, <1>9 DEF IInv

-----------------------------------------------------------------------------
(* The answers. *)

(* An answer returns the tag of its command, which no other command holds, *)
(* and counts the command out.                                             *)
LEMMA RespondInv ==
  ASSUME IInv, NEW r \in Holders, Respond(r),
         \A j \in Nat \ {0} : Answered(j)' <=> (Answered(j) \/ j = r),
         MayRespond(r),
         nIn' \in Nat, nOut' \in Nat, nIn' <= nVal, nOut' <= Len(match)
  PROVE  IInv'
<1>1. /\ inFlightCmds' = inFlightCmds - 1 /\ freeTagQ' = Append(freeTagQ, tag[r])
      /\ UNCHANGED << script, cmds, stall, nTok, newTag, initialized, nextTagQ, tag,
                      table, cmplBuf, store, nCmp, match >>
  BY DEF Respond
<1>2. /\ r \in 1 .. Len(tag) /\ r \in 1 .. Len(cmds) /\ r \in Nat \ {0}
      /\ ~ Answered(r)
  BY Places DEF Holders
<1>3. AnsweredMore
  BY DEF AnsweredMore
<1>4. tag[r] \in Tags /\ freeTagQ \in Seq(Tags)
  BY <1>2 DEF IInv, TypeOK
<1>5. /\ freeTagQ' \in Seq(Tags) /\ Len(freeTagQ') = Len(freeTagQ) + 1
      /\ ToSet(freeTagQ') = ToSet(freeTagQ) \cup {tag[r]}
  BY <1>1, <1>4, AppendExtends, ToSetAppend
<1>6. r \in Unanswered /\ Unanswered' = Unanswered \ {r}
  <2>1. \A j \in 1 .. Len(cmds) : Answered(j)' <=> (Answered(j) \/ j = r)
    BY Places
  <2> QED BY <1>1, <1>2, <2>1 DEF Unanswered
<1>7. /\ Cardinality(Unanswered') = Cardinality(Unanswered) - 1
      /\ inFlightCmds = Cardinality(Unanswered) /\ Cardinality(Unanswered) \in Nat
      /\ Cardinality(Unanswered) # 0
  <2>1. Cardinality(Unanswered') = Cardinality(Unanswered) - 1
    BY <1>6, Finite, FS_RemoveElement
  <2>2. Cardinality(Unanswered) # 0
    BY <1>6, Finite, FS_EmptySet
  <2> QED BY <2>1, <2>2, Finite DEF IInv, InFlightExact
<1>8. inFlightCmds' \in Nat /\ InFlightExact'
  BY <1>1, <1>7 DEF InFlightExact
<1>9. TypeOK'
  BY <1>1, <1>5, <1>8 DEF IInv, TypeOK, table, cmplBuf, store
<1>10. Counters'
  BY <1>1 DEF IInv, Counters, table, cmplBuf, store
<1>11. Grows
  BY <1>1, <1>9, <1>10, SameExtends DEF Grows, table, store
<1>12. Bursts' /\ EntryOwn' /\ ReadOwn'
  <2>1. nWr \in Nat
    BY Lengths
  <2>2. nWr' = nWr /\ nWr <= nWr'
    BY <1>1, <2>1 DEF cmplBuf
  <2> QED BY <1>1, <1>3, <1>11, <2>2, BurstsFrame, EntryFrame, ReadFrame
          DEF table, store, cmplBuf
<1>13. TagReuse'
  BY <1>1, <1>3, Places DEF TagReuse, AnsweredMore, IInv
<1>14. Holders' = Holders \ {r}
  <2>1. \A j \in 1 .. Len(tag) : Answered(j)' <=> (Answered(j) \/ j = r)
    BY Places
  <2> QED BY <1>1, <2>1 DEF Holders
<1>15. NewTags' = NewTags /\ HeldTags = HeldTags' \cup {tag[r]}
  <2>1. NewTags' = NewTags
    BY <1>1 DEF NewTags
  <2>2. HeldTags' = { tag[j] : j \in Holders \ {r} }
    BY <1>1, <1>14 DEF HeldTags
  <2> QED BY <2>1, <2>2 DEF HeldTags
<1>16. TagsCounted'
  <2>1. TagsCounted
    BY DEF IInv
  <2>2. Cardinality(Holders') = Cardinality(Holders) - 1
    BY <1>14, Finite, FS_RemoveElement
  <2>3. /\ Cardinality(Holders) \in Nat /\ Cardinality(NewTags) \in Nat
        /\ Len(freeTagQ) \in Nat /\ Len(nextTagQ) \in Nat
    BY Finite, Lengths
  <2>4. Cardinality(NewTags') + Len(freeTagQ') + Len(nextTagQ') + Cardinality(Holders')
          = NumTags
    <3>1. Cardinality(NewTags) + Len(freeTagQ) + Len(nextTagQ)
            + Cardinality(Holders) = NumTags
      BY <2>1 DEF TagsCounted
    <3>2. nextTagQ' = nextTagQ
      BY <1>1
    <3>3. Len(nextTagQ') = Len(nextTagQ)
      BY <3>2
    <3>4. NewTags' = NewTags
      BY <1>15
    <3>5. Cardinality(NewTags') = Cardinality(NewTags)
      BY <3>4
    <3> QED BY <1>5, <2>2, <2>3, <3>1, <3>3, <3>5
  <2>5. NewTags' \cup ToSet(freeTagQ') \cup ToSet(nextTagQ') \cup HeldTags' = Tags
    BY <1>1, <1>5, <1>15, <2>1 DEF TagsCounted
  <2> QED BY <2>4, <2>5 DEF TagsCounted
<1>17. \A i \in 1 .. Len(cmds) : /\ Answered(i)' <=> (Answered(i) \/ i = r)
                                 /\ IsEom(i)' <=> IsEom(i)
  BY <1>1, Places DEF IsEom
<1>18. EomBlocks'
  BY <1>1, <1>17 DEF EomBlocks, IInv
<1>19. IsEom(r) => \A i \in 1 .. Len(cmds) : i # r => Answered(i)
  <2> SUFFICES ASSUME IsEom(r), NEW i \in 1 .. Len(cmds), i # r, ~ Answered(i)
               PROVE  FALSE
    OBVIOUS
  <2>1. Cardinality(Unanswered') = 0
    BY <1>7 DEF MayRespond
  <2>2. IsFiniteSet(Unanswered')
    BY <1>6, Finite, FS_RemoveElement
  <2>3. Unanswered' = {}
    BY <2>1, <2>2, FS_EmptySet
  <2>4. i \in Unanswered'
    BY <1>6 DEF Unanswered
  <2> QED BY <2>3, <2>4
<1>20. EomLast'
  <2> SUFFICES ASSUME NEW i \in 1 .. Len(cmds), NEW j \in 1 .. Len(cmds), i < j
               PROVE  /\ IsEom(j)' /\ Answered(j)' => Answered(i)'
                      /\ IsEom(i)' /\ Answered(j)' => Answered(i)'
    BY <1>1 DEF EomLast
  <2>1. CASE Answered(j)
    BY <1>17, <2>1 DEF IInv, EomLast
  <2>2. CASE ~ Answered(j) /\ j = r
    <3>1. (i # j /\ j # Len(cmds)) \/ (j = Len(cmds) /\ i # Len(cmds))
      OBVIOUS
    <3>2. IsEom(j) => Answered(i)
      BY <1>19, <2>2
    <3>3. IsEom(i) => Answered(i)
      <4>1. i # Len(cmds)
        <5>1. Len(cmds) \in Nat
          BY Lengths
        <5> QED BY <5>1
      <4> QED BY <4>1 DEF IInv, EomBlocks
    <3> QED BY <1>17, <3>2, <3>3
  <2>3. CASE ~ Answered(j) /\ j # r
    BY <1>17, <2>3
  <2> QED BY <2>1, <2>2, <2>3
<1> QED BY <1>8, <1>9, <1>10, <1>12, <1>13, <1>16, <1>18, <1>20 DEF IInv

(* The commands between the last that was answered in order and the next   *)
(* are GETs that wait for their values.                                    *)
LEMMA doRespInOrderInv ==
  ASSUME IInv, doRespInOrder
  PROVE  IInv'
<1> DEFINE S == Within(nIn, nVal, InOrder)
<1>0. PICK f : f = First(S)
  OBVIOUS
<1>1. S # {} /\ MayRespond(f) /\ nIn' = f /\ Respond(f) /\ nOut' = nOut
  BY <1>0 DEF doRespInOrder
<1>2. /\ nIn \in Nat /\ nVal \in Nat /\ nOut \in Nat /\ Len(found) \in Nat
      /\ nVal <= Len(found) /\ nOut <= Len(match)
  <2>1. nVal <= Len(found) /\ nOut <= Len(match)
    BY Order
  <2> QED BY <2>1, Lengths
<1>3. /\ f \in nIn + 1 .. nVal /\ ~ Waits(f)
      /\ \A i \in nIn + 1 .. nVal : ~ Waits(i) => f <= i
  <2>1. S \in SUBSET Nat
    BY <1>2 DEF Within
  <2>2. f \in S /\ \A j \in S : f <= j
    BY <1>0, <1>1, <2>1, FirstIs
  <2> QED BY <2>2 DEF Within, InOrder
<1> HIDE DEF S
<1>4. f \in Nat \ {0} /\ nIn < f /\ f <= nVal /\ f \in 1 .. Len(found)
  BY <1>2, <1>3
<1>5. UNCHANGED << cmds, found, burst >>
  BY <1>1 DEF Respond, table, store
<1>6. \A j \in Nat \ {0} : Answered(j)' <=> (Answered(j) \/ j = f)
  <2> TAKE j \in Nat \ {0}
  <2>1. CASE j <= Len(found) /\ Waits(j)
    <3>1. j # f
      BY <1>3, <2>1
    <3>2. Answered(j) <=> j \in { burst[k] : k \in 1 .. nOut }
      BY <2>1 DEF Answered
    <3>3. Answered(j)' <=> j \in { burst[k] : k \in 1 .. nOut }
      BY <1>1, <1>5, <2>1 DEF Answered, Waits
    <3> QED BY <3>1, <3>2, <3>3
  <2>2. CASE ~ (j <= Len(found) /\ Waits(j))
    <3>1. Answered(j) <=> j <= nIn
      BY <2>2 DEF Answered
    <3>2. Answered(j)' <=> j <= f
      BY <1>1, <1>5, <2>2 DEF Answered, Waits
    <3>3. ~ (nIn < j /\ j < f)
      <4> SUFFICES ASSUME nIn < j, j < f PROVE FALSE
        OBVIOUS
      <4>1. j \in nIn + 1 .. nVal /\ j <= Len(found)
        BY <1>2, <1>4
      <4> QED BY <1>3, <1>4, <2>2, <4>1
    <3> QED BY <1>2, <1>4, <3>1, <3>2, <3>3
  <2> QED BY <2>1, <2>2
<1>7. f \in Holders
  <2>1. f \in 1 .. Len(tag)
    BY <1>4, Places
  <2>2. ~ Answered(f)
    BY <1>2, <1>3, <1>4 DEF Answered
  <2> QED BY <2>1, <2>2 DEF Holders
<1> QED BY <1>1, <1>2, <1>4, <1>6, <1>7, RespondInv

LEMMA doRespOutOrderInv ==
  ASSUME IInv, doRespOutOrder
  PROVE  IInv'
<1>0. PICK k \in Nat : k = nOut + 1
  <2>1. nOut \in Nat
    BY Lengths
  <2> QED BY <2>1
<1>1. PICK b : b = burst[k]
  OBVIOUS
<1>2. nOut < Len(match) /\ nOut' = k /\ Respond(b) /\ nIn' = nIn
  BY <1>0, <1>1 DEF doRespOutOrder
<1>3. /\ nOut \in Nat /\ nIn \in Nat /\ nIn <= nVal /\ Len(match) \in Nat
      /\ nVal \in Nat
  <2>1. nIn <= nVal
    BY Order
  <2> QED BY <2>1, Lengths
<1>4. k \in 1 .. Len(burst) /\ k > nOut /\ k <= Len(match)
  <2>1. k \in 1 .. Len(match)
    BY <1>0, <1>2, <1>3
  <2>2. k \in 1 .. Len(burst)
    BY <2>1, Places
  <2> QED BY <1>0, <1>3, <2>1, <2>2
<1>5. /\ b \in Nat \ {0} /\ b \in 1 .. Len(found) /\ b \in 1 .. Len(tag)
      /\ Waits(b) /\ ~ Answered(b)
  BY <1>1, <1>4, BurstIs, BurstNotAnswered
<1>6. UNCHANGED << cmds, found, burst >>
  BY <1>2 DEF Respond, table, store
<1>7. b <= Len(found) /\ Len(found) \in Nat
  <2>1. Len(found) \in Nat
    BY Lengths
  <2> QED BY <1>5, <2>1
<1>8. { burst[l] : l \in 1 .. k } = { burst[l] : l \in 1 .. nOut } \cup {b}
  <2>1. 1 .. k = 1 .. nOut \cup {k}
    BY <1>0, <1>3
  <2> QED BY <1>1, <2>1
<1>9. \A j \in Nat \ {0} : Answered(j)' <=> (Answered(j) \/ j = b)
  <2> TAKE j \in Nat \ {0}
  <2>1. CASE j <= Len(found) /\ Waits(j)
    <3>1. Answered(j) <=> j \in { burst[l] : l \in 1 .. nOut }
      BY <2>1 DEF Answered
    <3>2. Answered(j)' <=> j \in { burst[l] : l \in 1 .. k }
      BY <1>2, <1>6, <2>1 DEF Answered, Waits
    <3> QED BY <1>8, <3>1, <3>2
  <2>2. CASE ~ (j <= Len(found) /\ Waits(j))
    <3>1. Answered(j) <=> j <= nIn
      BY <2>2 DEF Answered
    <3>2. Answered(j)' <=> j <= nIn
      BY <1>2, <1>6, <2>2 DEF Answered, Waits
    <3>3. j # b
      BY <1>5, <1>7, <2>2
    <3> QED BY <3>1, <3>2, <3>3
  <2> QED BY <2>1, <2>2
<1>10. b \in Holders /\ MayRespond(b)
  BY <1>5 DEF Holders, MayRespond, IsEom, Waits
<1> QED BY <1>0, <1>2, <1>3, <1>4, <1>9, <1>10, RespondInv

-----------------------------------------------------------------------------
(* The invariant. *)

LEMMA InitInv == Init => IInv
<1> SUFFICES ASSUME Init PROVE IInv
  OBVIOUS
<1>0. /\ NumTags \in Nat \ {0} /\ script \in Seq(Opcodes)
  BY ProcAssumption DEF Init
<1>1. TypeOK
  <2>1. /\ 0 \in Tags /\ << >> \in Seq(Tags) /\ << >> \in Seq(Opcodes)
        /\ << >> \in Seq(Outcomes) /\ << >> \in Seq(Nat) /\ << >> \in Seq(BOOLEAN)
        /\ [ t \in Tags |-> 0 ] \in [ Tags -> Nat ]
    BY <1>0 DEF Tags
  <2> QED BY <2>1 DEF Init, TypeOK
<1>2. Counters
  <2>1. Len(script) \in Nat
    BY <1>0
  <2> QED BY <2>1 DEF Init, Counters
<1>3. Bursts
  BY DEF Init, Bursts
<1>4. Holders = {} /\ Unanswered = {}
  BY DEF Init, Holders, Unanswered
<1>5. NewTags = Tags
  BY DEF Init, NewTags, Tags
<1>6. TagsCounted
  <2>1. Cardinality({}) = 0
    BY FS_EmptySet
  <2>2. Cardinality(0 .. NumTags - 1) = NumTags
    BY <1>0, FS_Interval
  <2>3. HeldTags = {}
    BY <1>4 DEF HeldTags
  <2>4. freeTagQ = << >> /\ nextTagQ = << >>
    BY DEF Init
  <2>5. ToSet(freeTagQ) = {} /\ ToSet(nextTagQ) = {}
    BY <2>4 DEF ToSet
  <2>6. Cardinality(NewTags) = NumTags /\ Cardinality(Holders) = 0
    BY <1>4, <1>5, <2>1, <2>2 DEF Tags
  <2> QED BY <1>0, <1>5, <2>3, <2>4, <2>5, <2>6 DEF TagsCounted
<1>7. TagReuse /\ EntryOwn /\ EomBlocks /\ EomLast
  BY DEF Init, TagReuse, EntryOwn, EomBlocks, EomLast
<1>8. ReadOwn
  BY DEF Init, ReadOwn
<1>9. InFlightExact
  BY <1>4, FS_EmptySet DEF Init, InFlightExact
<1> QED BY <1>1, <1>2, <1>3, <1>6, <1>7, <1>8, <1>9 DEF IInv

LEMMA StutterInv ==
  ASSUME IInv, UNCHANGED vars
  PROVE  IInv'
<1>1. UNCHANGED << front, tags, table, cmplBuf, store, answer >>
  BY DEF vars
<1>2. TypeOK' /\ Counters'
  BY <1>1 DEF IInv, TypeOK, Counters, front, tags, table, cmplBuf, store, answer
<1>3. Grows
  BY <1>1, <1>2, SameExtends DEF Grows, front, tags, table, store
<1> QED BY <1>1, <1>3, QuietInv DEF front, table, cmplBuf, store, answer

LEMMA NextInv ==
  ASSUME IInv, [Next]_vars
  PROVE  IInv'
BY doHashInv, doHashDrainedInv, keyValPipeInv, doAllocTagInv, doTableInv,
   TableAnswerInv, doConnectFlashInv, doValInv, deqKVInv, doWrReqInv,
   StoreAnswerInv, readCmplBufInv, doRdReqInv, reqkeyCmpInv, doCheckKeysInv,
   doRespInOrderInv, doRespOutOrderInv, StutterInv
   DEF Next

(* In every behaviour of the command pipeline, for any number of tags, any *)
(* depths of the FIFOs and any commands of the host, the inductive         *)
(* invariant holds.                                                        *)
THEOREM IInvHolds == Spec => []IInv
<1>1. Init => IInv
  BY InitInv
<1>2. IInv /\ [Next]_vars => IInv'
  BY NextInv
<1> QED BY <1>1, <1>2, PTL DEF Spec

LEMMA ConcatIs ==
  ASSUME NEW T, NEW s \in Seq(T), NEW t \in Seq(T)
  PROVE  /\ s \o t \in Seq(T) /\ Len(s \o t) = Len(s) + Len(t)
         /\ ToSet(s \o t) = ToSet(s) \cup ToSet(t)
         /\ Len(s) \in Nat /\ Len(t) \in Nat
<1>1. /\ s \o t \in Seq(T) /\ Len(s \o t) = Len(s) + Len(t)
      /\ Len(s) \in Nat /\ Len(t) \in Nat
  OBVIOUS
<1>2. /\ DOMAIN s = 1 .. Len(s) /\ DOMAIN t = 1 .. Len(t)
      /\ DOMAIN (s \o t) = 1 .. Len(s) + Len(t)
  BY <1>1
<1>3. /\ \A k \in 1 .. Len(s) : (s \o t)[k] = s[k] /\ k \in 1 .. Len(s) + Len(t)
      /\ \A k \in 1 .. Len(t) : /\ (s \o t)[Len(s) + k] = t[k]
                                /\ Len(s) + k \in 1 .. Len(s) + Len(t)
      /\ \A k \in 1 .. Len(s) + Len(t) :
           k \in 1 .. Len(s) \/ (k - Len(s) \in 1 .. Len(t) /\ k = Len(s) + (k - Len(s)))
  BY <1>1
<1>4. ASSUME NEW x \in ToSet(s \o t) PROVE x \in ToSet(s) \cup ToSet(t)
  <2>1. PICK k \in 1 .. Len(s) + Len(t) : x = (s \o t)[k]
    BY <1>2 DEF ToSet
  <2>2. CASE k \in 1 .. Len(s)
    BY <1>2, <1>3, <2>1, <2>2 DEF ToSet
  <2>3. CASE k \notin 1 .. Len(s)
    <3>1. k - Len(s) \in 1 .. Len(t) /\ x = t[k - Len(s)]
      BY <1>3, <2>1, <2>3
    <3> QED BY <1>2, <3>1 DEF ToSet
  <2> QED BY <2>2, <2>3
<1>5. ASSUME NEW x \in ToSet(s) PROVE x \in ToSet(s \o t)
  BY <1>2, <1>3 DEF ToSet
<1>6. ASSUME NEW x \in ToSet(t) PROVE x \in ToSet(s \o t)
  BY <1>2, <1>3 DEF ToSet
<1> QED BY <1>1, <1>4, <1>5, <1>6

(* No tag is lost and none is in two places (TagAlloc.bsv and the rules of *)
(* Proc_128.bsv that take and return tags): the new, the free, those about *)
(* to be given and those of the commands that are not answered are, taken  *)
(* together, each tag once.                                                *)
THEOREM TagsExactHolds == Spec => []TagsExact
<1>1. IInv => TagsExact
  <2> SUFFICES ASSUME IInv PROVE TagsExact
    OBVIOUS
  <2> DEFINE new == IF initialized THEN {} ELSE newTag .. NumTags - 1
             a == SetToSeq(new)
  <2>1. new = NewTags
    BY DEF NewTags
  <2>2. /\ a \in Seq(new) /\ Len(a) = Cardinality(NewTags) /\ ToSet(a) = NewTags
        /\ Cardinality(NewTags) \in Nat /\ Cardinality(Holders) \in Nat
    <3>1. IsFiniteSet(new)
      BY <2>1, Finite
    <3> HIDE DEF new
    <3> QED BY <2>1, <3>1, Finite, SetToSeqIs
  <2>3. TagsCounted /\ freeTagQ \in Seq(Tags) /\ nextTagQ \in Seq(Tags)
    BY DEF IInv, TypeOK
  <2>4. a \in Seq(Tags)
    <3>1. new \subseteq Tags
      BY <2>1, <2>3 DEF TagsCounted
    <3> HIDE DEF new, a
    <3> QED BY <2>2, <3>1
  <2> HIDE DEF a, new
  <2>5. /\ a \o freeTagQ \in Seq(Tags)
        /\ Len(a \o freeTagQ) = Len(a) + Len(freeTagQ)
        /\ ToSet(a \o freeTagQ) = ToSet(a) \cup ToSet(freeTagQ)
        /\ Len(freeTagQ) \in Nat
    BY <2>3, <2>4, ConcatIs
  <2> DEFINE b == a \o freeTagQ
  <2>6. /\ Len(b \o nextTagQ) = Len(b) + Len(nextTagQ)
        /\ ToSet(b \o nextTagQ) = ToSet(b) \cup ToSet(nextTagQ)
        /\ Len(nextTagQ) \in Nat
    <3>1. b \in Seq(Tags)
      BY <2>5
    <3> HIDE DEF b
    <3> QED BY <2>3, <3>1, ConcatIs
  <2>7. Len((a \o freeTagQ) \o nextTagQ) + Cardinality(Holders) = NumTags
    BY <2>2, <2>3, <2>5, <2>6 DEF TagsCounted
  <2>8. ToSet((a \o freeTagQ) \o nextTagQ) \cup { tag[i] : i \in Holders } = Tags
    BY <2>2, <2>3, <2>5, <2>6 DEF TagsCounted, HeldTags
  <2> QED BY <2>7, <2>8 DEF TagsExact, a, new
<1> QED BY <1>1, IInvHolds, PTL

(* An EOM is answered after every command before it and before every       *)
(* command after it (doResp of Proc_128.bsv, which waits for inFlightCmds  *)
(* to be 1, and doHash, which stalls after an EOM).                        *)
THEOREM EomLastHolds == Spec => []EomLast
<1>1. IInv => EomLast
  BY DEF IInv
<1> QED BY <1>1, IInvHolds, PTL

(* A GET is answered with its own opaque number and by the comparison with *)
(* its own key (KVStoreCompletionBuffer.bsv), unless its value came before *)
(* its entry was written.                                                  *)
THEOREM OwnAnswerHolds == Spec => []OwnAnswer
<1>1. IInv => OwnAnswer
  <2> SUFFICES ASSUME IInv PROVE OwnAnswer
    OBVIOUS
  <2>1. \A k \in 1 .. Len(match) : k \in 1 .. nBurst
    BY Places
  <2> QED BY <2>1 DEF IInv, ReadOwn, OwnAnswer
<1> QED BY <1>1, IInvHolds, PTL

(* The types of the variables. *)
THEOREM TypeCorrect == Spec => []TypeOK
<1>1. IInv => TypeOK
  BY DEF IInv
<1> QED BY <1>1, IInvHolds, PTL
=============================================================================
