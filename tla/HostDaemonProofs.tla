-------------------------- MODULE HostDaemonProofs --------------------------
(***************************************************************************)
(* Proofs about the host daemon, module HostDaemon.                        *)
(*                                                                         *)
(* The two rings of DMA buffers: RingInv is inductive; from it, a request  *)
(* buffer is filled only when the device is done with it, and an answer    *)
(* buffer is written only when it has been read to the end.                *)
(*                                                                         *)
(* The answers in those buffers: StreamInv, inductive relative to RingInv, *)
(* says that the buffers are windows on one stream of answers; from it,    *)
(* the response thread reads a header where the device wrote one.          *)
(*                                                                         *)
(* The requests and answers on their way: AccountInv, inductive relative   *)
(* to both, says how many each client and outstanding_requests stand for;  *)
(* from it, the types, and that none is lost or repeated.                  *)
(***************************************************************************)
EXTENDS HostDaemon, SequenceTheorems, FiniteSetTheorems, WellFoundedInduction, TLAPS

-----------------------------------------------------------------------------
(* The arithmetic of the pointers. *)

Pointers == 0 .. 2 * NumBufs - 1

LEMMA Bound == NumBufs \in Nat \ {0} /\ 2 * NumBufs \in Nat \ {0}
BY DaemonAssumption

LEMMA ModSmall ==
  ASSUME NEW n \in Nat \ {0}, NEW x \in 0 .. n - 1
  PROVE  x % n = x
OBVIOUS

LEMMA ModUnique ==
  ASSUME NEW n \in Nat \ {0}, NEW x \in 0 .. n - 1
  PROVE  (x + n) % n = x /\ (x - n) % n = x
OBVIOUS

LEMMA IncrIs ==
  ASSUME NEW p \in Pointers
  PROVE  Incr(p) = IF p = 2 * NumBufs - 1 THEN 0 ELSE p + 1
<1>1. CASE p = 2 * NumBufs - 1
  <2>1. p + 1 = 0 + 2 * NumBufs /\ 0 \in 0 .. 2 * NumBufs - 1
    BY <1>1, Bound
  <2>2. (0 + 2 * NumBufs) % (2 * NumBufs) = 0
    BY <2>1, Bound, ModUnique
  <2> QED BY <1>1, <2>1, <2>2 DEF Incr
<1>2. CASE p # 2 * NumBufs - 1
  <2>1. p + 1 \in 0 .. 2 * NumBufs - 1
    BY <1>2, Bound DEF Pointers
  <2>2. (p + 1) % (2 * NumBufs) = p + 1
    BY <2>1, Bound, ModSmall
  <2> QED BY <1>2, <2>2 DEF Incr
<1> QED BY <1>1, <1>2

LEMMA BufferOf ==
  ASSUME NEW p \in Pointers
  PROVE  p % NumBufs = (IF p < NumBufs THEN p ELSE p - NumBufs)
<1>1. CASE p < NumBufs
  <2>1. p \in 0 .. NumBufs - 1
    BY <1>1, Bound DEF Pointers
  <2>2. p % NumBufs = p
    BY <2>1, Bound, ModSmall
  <2> QED BY <1>1, <2>2
<1>2. CASE ~ (p < NumBufs)
  <2>1. p - NumBufs \in 0 .. NumBufs - 1 /\ p = (p - NumBufs) + NumBufs
    BY <1>2, Bound DEF Pointers
  <2>2. ((p - NumBufs) + NumBufs) % NumBufs = p - NumBufs
    BY <2>1, Bound, ModUnique
  <2> QED BY <1>2, <2>1, <2>2
<1> QED BY <1>1, <1>2

LEMMA SlotIs ==
  ASSUME NEW e \in Pointers, NEW j \in 0 .. NumBufs - 1
  PROVE  /\ Slot(e, j) \in Buffers
         /\ \A k \in 0 .. NumBufs - 1 : Slot(e, j) = Slot(e, k) => j = k
BY Bound DEF Slot, Pointers, Buffers

LEMMA SlotIncr ==
  ASSUME NEW e \in Pointers, NEW j \in Nat, j < NumBufs
  PROVE  Incr(e) \in Pointers /\ (j > 0 => Slot(Incr(e), j - 1) = Slot(e, j))
<1>1. Incr(e) = IF e = 2 * NumBufs - 1 THEN 0 ELSE e + 1
  BY IncrIs
<1> QED BY <1>1, Bound DEF Slot, Pointers

LEMMA SlotLast ==
  ASSUME NEW e \in Pointers
  PROVE  Slot(Incr(e), NumBufs - 1) = Slot(e, 0)
<1>1. Incr(e) = IF e = 2 * NumBufs - 1 THEN 0 ELSE e + 1
  BY IncrIs
<1> QED BY <1>1, Bound DEF Slot, Pointers

(* A thread that finds a buffer idle takes the one after those that are    *)
(* away.                                                                   *)
LEMMA Take ==
  ASSUME NEW e \in Pointers, NEW d \in Pointers, NEW n \in Nat, RingAt(e, d, n),
         e # d
  PROVE  /\ n < NumBufs /\ Incr(d) \in Pointers /\ RingAt(e, Incr(d), n + 1)
         /\ d % NumBufs = Slot(e, n)
<1>1. n < NumBufs
  BY Bound DEF RingAt, Pointers
<1>2. Incr(d) = IF d = 2 * NumBufs - 1 THEN 0 ELSE d + 1
  BY IncrIs
<1>3. Incr(d) \in Pointers /\ RingAt(e, Incr(d), n + 1)
  BY <1>1, <1>2, Bound DEF RingAt, Pointers
<1>4. d % NumBufs = IF d < NumBufs THEN d ELSE d - NumBufs
  BY BufferOf
<1>5. d % NumBufs = Slot(e, n)
  BY <1>1, <1>4, Bound DEF RingAt, Slot, Pointers
<1> QED BY <1>1, <1>3, <1>5

(* The oldest of those away is reported. *)
LEMMA ReportAt ==
  ASSUME NEW e \in Pointers, NEW d \in Pointers, NEW n \in Nat, RingAt(e, d, n),
         n > 0
  PROVE  Incr(e) \in Pointers /\ RingAt(Incr(e), d, n - 1)
<1>1. Incr(e) = IF e = 2 * NumBufs - 1 THEN 0 ELSE e + 1
  BY IncrIs
<1> QED BY <1>1, Bound DEF RingAt, Pointers

-----------------------------------------------------------------------------
(* The buffers that are away, as two queues. *)

LEMMA PassOn ==
  ASSUME NEW e, NEW a \in Seq(Buffers), NEW b \in Seq(Buffers), Queued(e, a, b),
         b # << >>
  PROVE  /\ Append(a, Head(b)) \in Seq(Buffers) /\ Tail(b) \in Seq(Buffers)
         /\ Len(Append(a, Head(b))) = Len(a) + 1 /\ Len(Tail(b)) = Len(b) - 1
         /\ Len(a) \in Nat /\ Len(b) \in Nat \ {0}
         /\ Queued(e, Append(a, Head(b)), Tail(b))
<1> DEFINE a1 == Append(a, Head(b))
           b1 == Tail(b)
<1>1. /\ Len(a) \in Nat /\ Len(b) \in Nat \ {0} /\ Head(b) = b[1]
      /\ Head(b) \in Buffers
  OBVIOUS
<1>2. /\ a1 \in Seq(Buffers) /\ Len(a1) = Len(a) + 1 /\ a1[Len(a) + 1] = b[1]
      /\ \A k \in 1 .. Len(a) : a1[k] = a[k]
  BY <1>1
<1>3. /\ b1 \in Seq(Buffers) /\ Len(b1) = Len(b) - 1
      /\ \A k \in 1 .. Len(b) - 1 : b1[k] = b[k + 1]
  BY <1>1
<1> HIDE DEF a1, b1
<1>4. \A k \in 1 .. Len(a1) : a1[k] = Slot(e, k - 1)
  <2> TAKE k \in 1 .. Len(a1)
  <2>1. CASE k \in 1 .. Len(a)
    BY <1>2, <2>1 DEF Queued
  <2>2. CASE k \notin 1 .. Len(a)
    <3>1. k = Len(a) + 1 /\ k - 1 = Len(a) + 1 - 1
      BY <1>1, <1>2, <2>2
    <3>2. b[1] = Slot(e, Len(a) + 1 - 1)
      BY <1>1 DEF Queued
    <3> QED BY <1>2, <3>1, <3>2
  <2> QED BY <2>1, <2>2
<1>5. \A k \in 1 .. Len(b1) : b1[k] = Slot(e, Len(a1) + k - 1)
  <2> TAKE k \in 1 .. Len(b1)
  <2>1. k + 1 \in 1 .. Len(b) /\ Len(a) + (k + 1) - 1 = Len(a1) + k - 1
    BY <1>1, <1>2, <1>3
  <2>2. b[k + 1] = Slot(e, Len(a) + (k + 1) - 1)
    BY <2>1 DEF Queued
  <2> QED BY <1>3, <2>1, <2>2
<1>6. Queued(e, a1, b1)
  BY <1>4, <1>5 DEF Queued
<1> QED BY <1>1, <1>2, <1>3, <1>6 DEF a1, b1

LEMMA Report ==
  ASSUME NEW e \in Pointers, NEW a \in Seq(Buffers), NEW b \in Seq(Buffers),
         Queued(e, a, b), a # << >>, Len(a) + Len(b) <= NumBufs
  PROVE  /\ Tail(a) \in Seq(Buffers) /\ Len(Tail(a)) = Len(a) - 1
         /\ Len(a) \in Nat \ {0} /\ Len(b) \in Nat
         /\ Queued(Incr(e), Tail(a), b)
<1> DEFINE a1 == Tail(a)
           f == Incr(e)
<1>1. /\ Len(a) \in Nat \ {0} /\ Len(b) \in Nat
      /\ a1 \in Seq(Buffers) /\ Len(a1) = Len(a) - 1
      /\ \A k \in 1 .. Len(a) - 1 : a1[k] = a[k + 1]
  OBVIOUS
<1> HIDE DEF a1
<1>2. \A j \in Nat : j > 0 /\ j < NumBufs => Slot(f, j - 1) = Slot(e, j)
  BY SlotIncr
<1> HIDE DEF f
<1>3. \A k \in 1 .. Len(a1) : a1[k] = Slot(f, k - 1)
  <2> TAKE k \in 1 .. Len(a1)
  <2>1. k + 1 \in 1 .. Len(a) /\ (k + 1) - 1 = k /\ k \in Nat /\ k > 0 /\ k < NumBufs
    BY <1>1, Bound
  <2>2. a[k + 1] = Slot(e, k)
    BY <2>1 DEF Queued
  <2> QED BY <1>1, <1>2, <2>1, <2>2
<1>4. \A k \in 1 .. Len(b) : b[k] = Slot(f, Len(a1) + k - 1)
  <2> TAKE k \in 1 .. Len(b)
  <2> DEFINE j == Len(a) + k - 1
  <2>1. j \in Nat /\ j > 0 /\ j < NumBufs /\ j - 1 = Len(a1) + k - 1
    BY <1>1, Bound
  <2>2. b[k] = Slot(e, j)
    BY DEF Queued
  <2> HIDE DEF j
  <2> QED BY <1>2, <2>1, <2>2
<1>5. Queued(f, a1, b)
  BY <1>3, <1>4 DEF Queued
<1> QED BY <1>1, <1>5 DEF a1, f

LEMMA HandOver ==
  ASSUME NEW e, NEW a \in Seq(Buffers), NEW b \in Seq(Buffers), Queued(e, a, b),
         NEW x \in Buffers, x = Slot(e, Len(a) + Len(b))
  PROVE  /\ Append(b, x) \in Seq(Buffers) /\ Len(Append(b, x)) = Len(b) + 1
         /\ Len(a) \in Nat /\ Len(b) \in Nat
         /\ Queued(e, a, Append(b, x))
<1> DEFINE b1 == Append(b, x)
<1>1. /\ Len(a) \in Nat /\ Len(b) \in Nat
      /\ b1 \in Seq(Buffers) /\ Len(b1) = Len(b) + 1 /\ b1[Len(b) + 1] = x
      /\ \A k \in 1 .. Len(b) : b1[k] = b[k]
  OBVIOUS
<1> HIDE DEF b1
<1>2. \A k \in 1 .. Len(b1) : b1[k] = Slot(e, Len(a) + k - 1)
  <2> TAKE k \in 1 .. Len(b1)
  <2>1. CASE k \in 1 .. Len(b)
    BY <1>1, <2>1 DEF Queued
  <2>2. CASE k \notin 1 .. Len(b)
    <3>1. k = Len(b) + 1 /\ Len(a) + k - 1 = Len(a) + Len(b)
      BY <1>1, <2>2
    <3> QED BY <1>1, <3>1
  <2> QED BY <2>1, <2>2
<1>3. Queued(e, a, b1)
  BY <1>2 DEF Queued
<1> QED BY <1>1, <1>3 DEF b1

(* The buffers further on are none of these. *)
LEMMA NotQueued ==
  ASSUME NEW e \in Pointers, NEW a \in Seq(Buffers), NEW b \in Seq(Buffers),
         Queued(e, a, b), NEW j \in Nat, Len(a) + Len(b) <= j, j < NumBufs
  PROVE  Slot(e, j) \notin ToSet(a) /\ Slot(e, j) \notin ToSet(b)
<1>1. Len(a) \in Nat /\ Len(b) \in Nat /\ DOMAIN a = 1 .. Len(a) /\ DOMAIN b = 1 .. Len(b)
  OBVIOUS
<1>2. \A i \in 0 .. NumBufs - 1 : i # j => Slot(e, i) # Slot(e, j)
  <2>1. j \in 0 .. NumBufs - 1
    BY Bound
  <2> QED BY <2>1, SlotIs
<1>3. \A k \in 1 .. Len(a) : a[k] # Slot(e, j)
  <2> TAKE k \in 1 .. Len(a)
  <2>1. k - 1 \in 0 .. NumBufs - 1 /\ k - 1 # j
    BY <1>1, Bound
  <2> QED BY <1>2, <2>1 DEF Queued
<1>4. \A k \in 1 .. Len(b) : b[k] # Slot(e, j)
  <2> TAKE k \in 1 .. Len(b)
  <2>1. Len(a) + k - 1 \in 0 .. NumBufs - 1 /\ Len(a) + k - 1 # j
    BY <1>1, Bound
  <2> QED BY <1>2, <2>1 DEF Queued
<1> QED BY <1>1, <1>3, <1>4 DEF ToSet

LEMMA BufsIs ==
  ASSUME NEW T, NEW q \in Seq([ buf : Buffers, msgs : T ])
  PROVE  /\ Bufs(q) \in Seq(Buffers) /\ Len(Bufs(q)) = Len(q) /\ Len(q) \in Nat
         /\ \A x \in [ buf : Buffers, msgs : T ] :
              Bufs(Append(q, x)) = Append(Bufs(q), x.buf)
         /\ q # << >> => /\ Bufs(q) # << >> /\ Bufs(Tail(q)) = Tail(Bufs(q))
                         /\ Head(q).buf = Head(Bufs(q))
<1> DEFINE R == [ buf : Buffers, msgs : T ]
<1>1. /\ Len(q) \in Nat /\ Bufs(q) = [ k \in 1 .. Len(q) |-> q[k].buf ]
      /\ \A k \in 1 .. Len(q) : q[k] \in R /\ q[k].buf \in Buffers
  <2>1. Len(q) \in Nat /\ \A k \in 1 .. Len(q) : q[k] \in R
    <3>1. q \in Seq(R)
      OBVIOUS
    <3> HIDE DEF R
    <3> QED BY <3>1
  <2>2. \A x \in R : x.buf \in Buffers
    OBVIOUS
  <2> QED BY <2>1, <2>2 DEF Bufs
<1>2. Bufs(q) \in Seq(Buffers) /\ Len(Bufs(q)) = Len(q)
  BY <1>1
<1>3. ASSUME NEW x \in R PROVE Bufs(Append(q, x)) = Append(Bufs(q), x.buf)
  <2>1. /\ Append(q, x) \in Seq(R) /\ Len(Append(q, x)) = Len(q) + 1
        /\ x.buf \in Buffers
    OBVIOUS
  <2>2. /\ Append(Bufs(q), x.buf) \in Seq(Buffers)
        /\ Len(Append(Bufs(q), x.buf)) = Len(q) + 1
    BY <1>2, <2>1
  <2>3. \A k \in 1 .. Len(q) + 1 : Append(q, x)[k].buf = Append(Bufs(q), x.buf)[k]
    <3> TAKE k \in 1 .. Len(q) + 1
    <3>1. CASE k \in 1 .. Len(q)
      <4>1. Append(q, x)[k] = q[k]
        BY <1>1, <3>1
      <4>2. Append(Bufs(q), x.buf)[k] = Bufs(q)[k]
        BY <1>2, <2>1, <3>1
      <4> QED BY <1>1, <3>1, <4>1, <4>2
    <3>2. CASE k \notin 1 .. Len(q)
      <4>1. k = Len(q) + 1
        BY <1>1, <3>2
      <4>2. Append(q, x)[k] = x
        BY <4>1
      <4>3. Append(Bufs(q), x.buf)[k] = x.buf
        BY <1>2, <2>1, <4>1
      <4> QED BY <4>2, <4>3
    <3> QED BY <3>1, <3>2
  <2>4. Bufs(Append(q, x)) = [ k \in 1 .. Len(q) + 1 |-> Append(q, x)[k].buf ]
    BY <2>1 DEF Bufs
  <2>5. Append(Bufs(q), x.buf) = [ k \in 1 .. Len(q) + 1 |-> Append(Bufs(q), x.buf)[k] ]
    BY <2>2
  <2> QED BY <2>3, <2>4, <2>5
<1>4. ASSUME q # << >>
      PROVE  /\ Bufs(q) # << >> /\ Bufs(Tail(q)) = Tail(Bufs(q))
             /\ Head(q).buf = Head(Bufs(q))
  <2>1. /\ Tail(q) \in Seq(R) /\ Len(Tail(q)) = Len(q) - 1 /\ Len(q) # 0
        /\ \A k \in 1 .. Len(q) - 1 : Tail(q)[k] = q[k + 1]
        /\ Head(q) = q[1]
    BY <1>1, <1>4
  <2>2. Bufs(q) # << >>
    BY <1>1, <1>2, <2>1
  <2>3. /\ Tail(Bufs(q)) \in Seq(Buffers) /\ Len(Tail(Bufs(q))) = Len(q) - 1
        /\ \A k \in 1 .. Len(q) - 1 : Tail(Bufs(q))[k] = Bufs(q)[k + 1]
        /\ Head(Bufs(q)) = Bufs(q)[1]
    BY <1>2, <2>2
  <2>4. \A k \in 1 .. Len(q) - 1 : Tail(q)[k].buf = Tail(Bufs(q))[k]
    <3> TAKE k \in 1 .. Len(q) - 1
    <3>1. k + 1 \in 1 .. Len(q)
      BY <1>1
    <3> QED BY <1>1, <2>1, <2>3, <3>1
  <2>5. Bufs(Tail(q)) = [ k \in 1 .. Len(q) - 1 |-> Tail(q)[k].buf ]
    BY <2>1 DEF Bufs
  <2>6. Tail(Bufs(q)) = [ k \in 1 .. Len(q) - 1 |-> Tail(Bufs(q))[k] ]
    <3> DEFINE s == Tail(Bufs(q))
    <3>1. s \in Seq(Buffers) /\ Len(s) = Len(q) - 1
      BY <2>3
    <3> HIDE DEF s
    <3>2. s = [ k \in 1 .. Len(s) |-> s[k] ]
      BY <3>1
    <3> QED BY <3>1, <3>2 DEF s
  <2>7. Head(q).buf = Head(Bufs(q))
    <3>1. 1 \in 1 .. Len(q)
      BY <1>1, <2>1
    <3> QED BY <1>1, <2>1, <2>3, <3>1
  <2> QED BY <2>2, <2>4, <2>5, <2>6, <2>7
<1> QED BY <1>1, <1>2, <1>3, <1>4

-----------------------------------------------------------------------------
(* Frames. *)

Places == {"idle", "write", "getBuffer", "register", "wait", "decide", "flush",
           "getNext", "set"}

(* A step of one thread that has the mutex, takes it or gives it back.     *)
LEMMA ThreadStep ==
  ASSUME RingTypes, LockHeld, NEW t \in Threads, NEW s \in Places,
         lock = t \/ lock = None,
         pc' = [ pc EXCEPT ![t] = s ],
         lock' = t \/ (lock' = None /\ s \in {"idle", "wait"})
  PROVE  /\ pc' \in [ Threads -> Places ] /\ lock' \in Threads \cup {None}
         /\ LockHeld'
         /\ Filling <=> currSrc # -1 /\ pc[t] \notin {"getBuffer", "getNext"}
         /\ Filling' <=> currSrc' # -1 /\ s \notin {"getBuffer", "getNext"}
<1>1. pc \in [ Threads -> Places ] /\ None \notin Threads
  BY DaemonAssumption DEF RingTypes, Places
<1>2. \A u \in Threads : u # t => pc[u] \in {"idle", "wait"}
  BY <1>1 DEF LockHeld
<1>3. pc' \in [ Threads -> Places ] /\ pc'[t] = s
  BY <1>1
<1>4. \A u \in Threads : u # t => pc'[u] = pc[u]
  BY <1>1
<1>5. LockHeld'
  <2> SUFFICES ASSUME NEW u \in Threads, pc'[u] \notin {"idle", "wait"}
               PROVE  lock' = u
    BY DEF LockHeld
  <2>1. u = t
    BY <1>2, <1>4
  <2> QED BY <1>3, <2>1
<1>6. Filling <=> currSrc # -1 /\ pc[t] \notin {"getBuffer", "getNext"}
  BY <1>2 DEF Filling
<1>7. Filling' <=> currSrc' # -1 /\ s \notin {"getBuffer", "getNext"}
  BY <1>2, <1>3, <1>4 DEF Filling
<1> QED BY <1>3, <1>5, <1>6, <1>7

LEMMA SourceFrame ==
  ASSUME RingInv, UNCHANGED << currSrc, rdDeq, rdEnq, readQ, rdDoneQ >>,
         Filling' <=> Filling
  PROVE  SourceRing'
<1>1. Bufs(readQ)' = Bufs(readQ)
  BY DEF Bufs
<1> QED BY <1>1 DEF RingInv, SourceRing

LEMMA AnswerFrame ==
  ASSUME RingInv, UNCHANGED << currDst, wrDeq, wrEnq, wrDoneQ, writeBaseQ >>,
         Reading' <=> Reading
  PROVE  AnswerRing'
BY DEF RingInv, AnswerRing

(* What a step that leaves the answer ring alone has to keep, and one that *)
(* leaves the request ring alone.                                          *)
LEMMA HostStep ==
  ASSUME RingInv, UNCHANGED << decode, wrEnq, wrDoneQ, writeBaseQ >>,
         RingTypes', LockHeld', SourceRing'
  PROVE  RingInv'
<1>1. Reading' <=> Reading
  BY DEF Reading, decode
<1>2. AnswerRing'
  BY <1>1, AnswerFrame DEF decode
<1> QED BY <1>2 DEF RingInv

LEMMA AnswerStep ==
  ASSUME RingInv, UNCHANGED << lock, pc, currSrc, rdDeq, rdEnq, readQ, rdDoneQ >>,
         RingTypes', AnswerRing'
  PROVE  RingInv'
<1>1. Filling' <=> Filling
  BY DEF Filling
<1>2. SourceRing' /\ LockHeld'
  BY <1>1, SourceFrame DEF RingInv, LockHeld
<1> QED BY <1>2 DEF RingInv

(* A step of a thread that does not touch the ring. *)
LEMMA QuietStep ==
  ASSUME RingInv, NEW t \in Threads, NEW s \in Places,
         lock = t \/ lock = None,
         pc' = [ pc EXCEPT ![t] = s ],
         lock' = t \/ (lock' = None /\ s \in {"idle", "wait"}),
         pc[t] \notin {"getBuffer", "getNext"}, s \notin {"getBuffer", "getNext"},
         msg' \in Message, src' \in Seq(Message),
         UNCHANGED << currSrc, rdDeq, decode, device, rdEnq, wrEnq >>
  PROVE  RingInv'
<1>1. RingTypes /\ LockHeld
  BY DEF RingInv
<1>2. /\ pc' \in [ Threads -> Places ] /\ lock' \in Threads \cup {None}
      /\ LockHeld' /\ (Filling' <=> Filling)
  BY <1>1, ThreadStep
<1>3. RingTypes'
  BY <1>1, <1>2 DEF RingTypes, Places, decode, device
<1>4. SourceRing'
  BY <1>2, SourceFrame DEF device
<1> QED BY <1>2, <1>3, <1>4, HostStep DEF device

(* The mutex is with a thread that is inside. *)
LEMMA Inside ==
  ASSUME RingInv, NEW t \in Threads, pc[t] \notin {"idle", "wait"}
  PROVE  lock = t
BY DEF RingInv, LockHeld

-----------------------------------------------------------------------------
(* The request ring. *)

LEMMA TakeSource ==
  ASSUME RingInv, NEW t \in Threads, pc[t] \in {"getBuffer", "getNext"},
         NEW s \in Places, s \notin {"getBuffer", "getNext", "idle", "wait"},
         waitIdleReadBuffer(t, s)
  PROVE  RingInv'
<1>1. /\ rdEnq # rdDeq /\ currSrc' = rdDeq % NumBufs /\ rdDeq' = Incr(rdDeq)
      /\ pc' = [ pc EXCEPT ![t] = s ]
      /\ UNCHANGED << lock, msg, todo, src, srcOff, batched, old, client, shared,
                      decode, device >>
  BY DEF waitIdleReadBuffer
<1>2. RingTypes /\ LockHeld /\ SourceRing /\ lock = t
  BY Inside DEF RingInv
<1>3. /\ pc' \in [ Threads -> Places ] /\ lock' \in Threads \cup {None}
      /\ LockHeld' /\ ~ Filling /\ (Filling' <=> currSrc' # -1)
  BY <1>1, <1>2, ThreadStep
<1> DEFINE n == Len(rdDoneQ) + Len(readQ)
<1>4. n \in Nat /\ rdEnq \in Pointers /\ rdDeq \in Pointers
  BY <1>2 DEF RingTypes, Pointers
<1>5. RingAt(rdEnq, rdDeq, n) /\ Queued(rdEnq, rdDoneQ, Bufs(readQ))
  BY <1>2, <1>3 DEF SourceRing
<1>6. /\ rdDeq' \in Pointers /\ n < NumBufs /\ RingAt(rdEnq, rdDeq', n + 1)
      /\ currSrc' = Slot(rdEnq, n)
  <2> HIDE DEF n
  <2> QED BY <1>1, <1>4, <1>5, Take
<1>7. currSrc' \in Buffers
  <2>1. n \in 0 .. NumBufs - 1
    BY <1>4, <1>6, Bound
  <2> HIDE DEF n
  <2> QED BY <1>4, <1>6, <2>1, SlotIs
<1>8. Filling'
  BY <1>3, <1>7, Bound DEF Buffers
<1>9. RingTypes'
  BY <1>1, <1>2, <1>3, <1>6, <1>7 DEF RingTypes, Places, Pointers, shared, decode, device
<1>10. SourceRing'
  <2>1. UNCHANGED << rdEnq, rdDoneQ, readQ >>
    BY <1>1 DEF shared, device
  <2>2. Bufs(readQ)' = Bufs(readQ)
    BY <2>1 DEF Bufs
  <2> QED BY <1>5, <1>6, <1>8, <2>1, <2>2 DEF SourceRing
<1> QED BY <1>1, <1>3, <1>9, <1>10, HostStep DEF shared, device

LEMMA SendSource ==
  ASSUME RingInv, NEW t \in Threads, pc[t] \in {"write", "flush"},
         currSrc # -1, NEW ms \in Seq(Message),
         readQ' = Append(readQ, [ buf |-> currSrc, msgs |-> ms ]),
         NEW s \in {"getBuffer", "getNext"}, pc' = [ pc EXCEPT ![t] = s ],
         src' = << >>,
         UNCHANGED << lock, msg, currSrc, rdDeq, shared, decode, rdDoneQ,
                      writeBaseQ, wrDoneQ >>
  PROVE  RingInv'
<1>1. RingTypes /\ LockHeld /\ SourceRing /\ lock = t /\ s \in Places
  BY Inside DEF RingInv, Places
<1>2. /\ pc' \in [ Threads -> Places ] /\ lock' \in Threads \cup {None}
      /\ LockHeld' /\ Filling /\ ~ Filling'
  BY <1>1, ThreadStep
<1> DEFINE T == Seq(Message)
           x == [ buf |-> currSrc, msgs |-> ms ]
<1>3. /\ currSrc \in Buffers /\ rdDoneQ \in Seq(Buffers)
      /\ readQ \in Seq([ buf : Buffers, msgs : T ])
  BY <1>1 DEF RingTypes
<1>4. x \in [ buf : Buffers, msgs : T ]
  BY <1>3
<1>5. readQ' \in Seq([ buf : Buffers, msgs : T ]) /\ Len(readQ') = Len(readQ) + 1
      /\ Len(readQ) \in Nat /\ Len(rdDoneQ) \in Nat
  <2> DEFINE R == [ buf : Buffers, msgs : T ]
  <2>1. x \in R /\ readQ \in Seq(R) /\ readQ' = Append(readQ, x)
    BY <1>3, <1>4
  <2>2. rdDoneQ \in Seq(Buffers)
    BY <1>3
  <2> HIDE DEF R, x
  <2>3. readQ' \in Seq(R) /\ Len(readQ') = Len(readQ) + 1 /\ Len(readQ) \in Nat
    BY <2>1
  <2> QED BY <2>2, <2>3 DEF R
<1> HIDE DEF T
<1>6. /\ Bufs(readQ) \in Seq(Buffers) /\ Len(Bufs(readQ)) = Len(readQ)
      /\ Bufs(Append(readQ, x)) = Append(Bufs(readQ), x.buf)
  BY <1>3, <1>4, BufsIs
<1>7. Bufs(readQ)' = Append(Bufs(readQ), currSrc)
  <2>1. Bufs(readQ') = Append(Bufs(readQ), currSrc)
    BY <1>6
  <2> QED BY <2>1 DEF Bufs
<1>8. /\ RingAt(rdEnq, rdDeq, Len(rdDoneQ) + Len(readQ) + 1)
      /\ Queued(rdEnq, rdDoneQ, Bufs(readQ))
      /\ currSrc = Slot(rdEnq, Len(rdDoneQ) + Len(readQ))
  BY <1>1, <1>2 DEF SourceRing
<1>9. Queued(rdEnq, rdDoneQ, Append(Bufs(readQ), currSrc))
  BY <1>3, <1>6, <1>8, HandOver
<1>10. UNCHANGED << rdEnq, wrEnq >>
  BY DEF shared
<1>11. SourceRing'
  <2>1. Len(rdDoneQ) + Len(readQ) + 1 = Len(rdDoneQ') + Len(readQ')
    BY <1>5
  <2> QED BY <1>2, <1>7, <1>8, <1>9, <1>10, <2>1 DEF SourceRing
<1>12. RingTypes'
  BY <1>1, <1>2, <1>5, <1>10 DEF RingTypes, Places, decode, T
<1> QED BY <1>2, <1>10, <1>11, <1>12, HostStep

LEMMA DeviceReadInv ==
  ASSUME RingInv, DeviceRead
  PROVE  RingInv'
<1>1. /\ readQ # << >> /\ rdDoneQ' = Append(rdDoneQ, Head(readQ).buf)
      /\ readQ' = Tail(readQ)
      /\ UNCHANGED << host, client, shared, decode, outQ, writeBaseQ, dst, wrDoneQ >>
  BY DEF DeviceRead
<1>2. RingTypes /\ LockHeld /\ SourceRing
  BY DEF RingInv
<1> DEFINE T == Seq(Message)
           R == [ buf : Buffers, msgs : T ]
<1>3. rdDoneQ \in Seq(Buffers) /\ readQ \in Seq(R)
  BY <1>2 DEF RingTypes
<1>4. readQ' \in Seq(R) /\ Len(readQ') = Len(readQ) - 1 /\ Len(readQ) \in Nat \ {0}
  <2> HIDE DEF R
  <2> QED BY <1>1, <1>3
<1>5. /\ Bufs(readQ) \in Seq(Buffers) /\ Len(Bufs(readQ)) = Len(readQ)
      /\ Bufs(readQ) # << >> /\ Bufs(Tail(readQ)) = Tail(Bufs(readQ))
      /\ Head(readQ).buf = Head(Bufs(readQ))
  <2> HIDE DEF T
  <2> QED BY <1>1, <1>3, BufsIs
<1>6. Bufs(readQ)' = Tail(Bufs(readQ)) /\ rdDoneQ' = Append(rdDoneQ, Head(Bufs(readQ)))
  <2>1. Bufs(readQ') = Tail(Bufs(readQ))
    BY <1>1, <1>5
  <2> QED BY <1>1, <1>5, <2>1 DEF Bufs
<1>7. Queued(rdEnq, rdDoneQ, Bufs(readQ))
  BY <1>2 DEF SourceRing
<1>8. /\ rdDoneQ' \in Seq(Buffers) /\ Len(rdDoneQ') = Len(rdDoneQ) + 1
      /\ Len(rdDoneQ) \in Nat
      /\ Queued(rdEnq, rdDoneQ', Tail(Bufs(readQ)))
  BY <1>3, <1>5, <1>6, <1>7, PassOn
<1>9. UNCHANGED << lock, pc, msg, src, currSrc, rdDeq, rdEnq, wrEnq >>
  BY <1>1 DEF host, shared
<1>10. (Filling' <=> Filling) /\ LockHeld'
  BY <1>2, <1>9 DEF Filling, LockHeld
<1>11. SourceRing'
  <2>1. Len(rdDoneQ') + Len(readQ') = Len(rdDoneQ) + Len(readQ)
    BY <1>4, <1>8
  <2> QED BY <1>2, <1>6, <1>8, <1>9, <1>10, <2>1 DEF SourceRing
<1>12. RingTypes'
  BY <1>1, <1>2, <1>4, <1>8, <1>9 DEF RingTypes, decode
<1> QED BY <1>1, <1>9, <1>10, <1>11, <1>12, HostStep

LEMMA rdDoneInv ==
  ASSUME RingInv, rdDone
  PROVE  RingInv'
<1>1. /\ rdDoneQ # << >> /\ rdEnq' = Incr(rdEnq) /\ rdDoneQ' = Tail(rdDoneQ)
      /\ UNCHANGED << host, client, wrEnq, decode, readQ, writeBaseQ, wrDoneQ >>
  BY DEF rdDone
<1>2. RingTypes /\ LockHeld /\ SourceRing
  BY DEF RingInv
<1> DEFINE T == Seq(Message)
           n == Len(rdDoneQ) + Len(readQ)
<1>3. /\ rdDoneQ \in Seq(Buffers) /\ readQ \in Seq([ buf : Buffers, msgs : T ])
      /\ rdEnq \in Pointers /\ rdDeq \in Pointers
  BY <1>2 DEF RingTypes, Pointers
<1>4. Bufs(readQ) \in Seq(Buffers) /\ Len(Bufs(readQ)) = Len(readQ)
      /\ Len(readQ) \in Nat
  <2> HIDE DEF T
  <2> QED BY <1>3, BufsIs
<1>5. PICK m \in Nat : m = IF Filling THEN n + 1 ELSE n
  BY <1>3, <1>4
<1>6. /\ RingAt(rdEnq, rdDeq, m) /\ Queued(rdEnq, rdDoneQ, Bufs(readQ))
      /\ Filling => currSrc = Slot(rdEnq, n)
  BY <1>2, <1>5 DEF SourceRing
<1>7. n <= NumBufs /\ n \in Nat \ {0} /\ m <= NumBufs /\ (Filling => n < NumBufs)
  <2>1. m \in 0 .. NumBufs
    BY <1>6 DEF RingAt
  <2>2. Len(rdDoneQ) \in Nat \ {0}
    BY <1>1, <1>3
  <2> QED BY <1>4, <1>5, <2>1, <2>2, Bound
<1>8. /\ rdDoneQ' \in Seq(Buffers) /\ Len(rdDoneQ') = Len(rdDoneQ) - 1
      /\ Len(rdDoneQ) \in Nat
      /\ Queued(rdEnq', rdDoneQ', Bufs(readQ))
  BY <1>1, <1>3, <1>4, <1>6, <1>7, Report
<1>9. m > 0
  BY <1>5, <1>7
<1>10. rdEnq' \in Pointers /\ RingAt(rdEnq', rdDeq, m - 1)
  BY <1>1, <1>3, <1>6, <1>9, ReportAt
<1>11. Filling => currSrc = Slot(rdEnq', n - 1)
  <2> HIDE DEF n
  <2> QED BY <1>1, <1>3, <1>6, <1>7, SlotIncr
<1>12. UNCHANGED << lock, pc, msg, src, currSrc, rdDeq >>
  BY <1>1 DEF host
<1>13. (Filling' <=> Filling) /\ LockHeld'
  BY <1>2, <1>12 DEF Filling, LockHeld
<1>14. SourceRing'
  <2>1. Len(rdDoneQ') + Len(readQ') = n - 1
    BY <1>1, <1>4, <1>8
  <2>2. m - 1 = IF Filling THEN (n - 1) + 1 ELSE n - 1
    BY <1>5, <1>7
  <2>3. Bufs(readQ)' = Bufs(readQ)
    BY <1>1 DEF Bufs
  <2> HIDE DEF n
  <2>4. CASE Filling
    BY <1>8, <1>10, <1>11, <1>12, <1>13, <2>1, <2>2, <2>3, <2>4 DEF SourceRing
  <2>5. CASE ~ Filling
    BY <1>8, <1>10, <1>11, <1>12, <1>13, <2>1, <2>2, <2>3, <2>5 DEF SourceRing
  <2> QED BY <2>4, <2>5
<1>15. RingTypes'
  BY <1>1, <1>2, <1>8, <1>10, <1>12 DEF RingTypes, Pointers, decode
<1> QED BY <1>1, <1>13, <1>14, <1>15, HostStep

-----------------------------------------------------------------------------
(* The answer ring. *)

LEMMA doDMAWriteInv ==
  ASSUME RingInv, doDMAWrite
  PROVE  RingInv'
<1>1. /\ writeBaseQ # << >> /\ wrDoneQ' = Append(wrDoneQ, Head(writeBaseQ))
      /\ writeBaseQ' = Tail(writeBaseQ)
      /\ UNCHANGED << host, client, shared, decode, readQ, rdDoneQ >>
  BY DEF doDMAWrite
<1>2. RingTypes /\ AnswerRing
  BY DEF RingInv
<1>3. /\ wrDoneQ \in Seq(Buffers) /\ writeBaseQ \in Seq(Buffers)
      /\ Queued(wrEnq, wrDoneQ, writeBaseQ)
  BY <1>2 DEF RingTypes, AnswerRing
<1>4. /\ wrDoneQ' \in Seq(Buffers) /\ writeBaseQ' \in Seq(Buffers)
      /\ Len(wrDoneQ') = Len(wrDoneQ) + 1 /\ Len(writeBaseQ') = Len(writeBaseQ) - 1
      /\ Len(wrDoneQ) \in Nat /\ Len(writeBaseQ) \in Nat \ {0}
      /\ Queued(wrEnq, wrDoneQ', writeBaseQ')
  BY <1>1, <1>3, PassOn
<1>5. UNCHANGED << lock, pc, msg, src, currSrc, rdDeq, rdEnq, wrEnq, wrDeq, currDst >>
  BY <1>1 DEF host, shared, decode
<1>6. Reading' <=> Reading
  BY <1>1 DEF Reading, decode
<1>7. AnswerRing'
  <2>1. Len(wrDoneQ') + Len(writeBaseQ') = Len(wrDoneQ) + Len(writeBaseQ)
    BY <1>4
  <2> QED BY <1>2, <1>4, <1>5, <1>6, <2>1 DEF AnswerRing
<1>8. RingTypes'
  BY <1>1, <1>2, <1>4, <1>5 DEF RingTypes
<1> QED BY <1>1, <1>5, <1>7, <1>8, AnswerStep

LEMMA wrDoneInv ==
  ASSUME RingInv, wrDone
  PROVE  RingInv'
<1>1. /\ wrDoneQ # << >> /\ wrEnq' = Incr(wrEnq) /\ wrDoneQ' = Tail(wrDoneQ)
      /\ UNCHANGED << host, rdEnq, decode, readQ, rdDoneQ, writeBaseQ >>
  BY DEF wrDone
<1>2. RingTypes /\ AnswerRing
  BY DEF RingInv
<1> DEFINE n == Len(wrDoneQ) + Len(writeBaseQ)
<1>3. /\ wrDoneQ \in Seq(Buffers) /\ writeBaseQ \in Seq(Buffers)
      /\ wrEnq \in Pointers /\ wrDeq \in Pointers
      /\ Len(wrDoneQ) \in Nat /\ Len(writeBaseQ) \in Nat
  BY <1>2 DEF RingTypes, Pointers
<1>4. PICK m \in Nat : m = IF Reading THEN n + 1 ELSE n
  BY <1>3
<1>5. /\ RingAt(wrEnq, wrDeq, m) /\ Queued(wrEnq, wrDoneQ, writeBaseQ)
      /\ Reading => currDst = Slot(wrEnq, n)
  BY <1>2, <1>4 DEF AnswerRing
<1>6. n <= NumBufs /\ n \in Nat \ {0} /\ m <= NumBufs /\ (Reading => n < NumBufs)
  <2>1. m \in 0 .. NumBufs
    BY <1>5 DEF RingAt
  <2>2. Len(wrDoneQ) \in Nat \ {0}
    BY <1>1, <1>3
  <2> QED BY <1>3, <1>4, <2>1, <2>2, Bound
<1>7. /\ wrDoneQ' \in Seq(Buffers) /\ Len(wrDoneQ') = Len(wrDoneQ) - 1
      /\ Queued(wrEnq', wrDoneQ', writeBaseQ)
  BY <1>1, <1>3, <1>5, <1>6, Report
<1>8. m > 0
  BY <1>4, <1>6
<1>9. wrEnq' \in Pointers /\ RingAt(wrEnq', wrDeq, m - 1)
  BY <1>1, <1>3, <1>5, <1>8, ReportAt
<1>10. Reading => currDst = Slot(wrEnq', n - 1)
  <2> HIDE DEF n
  <2> QED BY <1>1, <1>3, <1>5, <1>6, SlotIncr
<1>11. UNCHANGED << lock, pc, msg, src, currSrc, rdDeq, wrDeq, currDst >>
  BY <1>1 DEF host, decode
<1>12. Reading' <=> Reading
  BY <1>1 DEF Reading, decode
<1>13. AnswerRing'
  <2>1. Len(wrDoneQ') + Len(writeBaseQ') = n - 1
    BY <1>1, <1>3, <1>7
  <2>2. m - 1 = IF Reading THEN (n - 1) + 1 ELSE n - 1
    BY <1>4, <1>6
  <2> HIDE DEF n
  <2>3. CASE Reading
    BY <1>1, <1>7, <1>9, <1>10, <1>11, <1>12, <2>1, <2>2, <2>3 DEF AnswerRing
  <2>4. CASE ~ Reading
    BY <1>1, <1>7, <1>9, <1>10, <1>11, <1>12, <2>1, <2>2, <2>4 DEF AnswerRing
  <2> QED BY <2>3, <2>4
<1>14. RingTypes'
  BY <1>1, <1>2, <1>7, <1>9, <1>11 DEF RingTypes, Pointers
<1> QED BY <1>1, <1>11, <1>13, <1>14, AnswerStep

LEMMA ReadFullInv ==
  ASSUME RingInv, ReadFull
  PROVE  RingInv'
<1>1. /\ dpc = "read" /\ dpc' = "getBuffer"
      /\ UNCHANGED << host, client, shared, currDst, wrDeq, readQ, rdDoneQ, wrDoneQ >>
      /\ IF currDst # -1 THEN writeBaseQ' = Append(writeBaseQ, currDst)
         ELSE UNCHANGED writeBaseQ
  BY DEF ReadFull
<1>2. RingTypes /\ AnswerRing
  BY DEF RingInv
<1>3. UNCHANGED << lock, pc, msg, src, currSrc, rdDeq, rdEnq, wrEnq >>
  BY <1>1 DEF host, shared
<1>4. ~ Reading' /\ (Reading <=> currDst # -1)
  BY <1>1 DEF Reading
<1>5. CASE currDst = -1
  <2>1. UNCHANGED writeBaseQ
    BY <1>1, <1>5
  <2>2. AnswerRing'
    BY <1>1, <1>3, <1>4, <1>5, <2>1, AnswerFrame
  <2>3. RingTypes'
    BY <1>1, <1>2, <1>3, <2>1 DEF RingTypes
  <2> QED BY <1>1, <1>3, <2>2, <2>3, AnswerStep
<1>6. CASE currDst # -1
  <2>1. /\ wrDoneQ \in Seq(Buffers) /\ writeBaseQ \in Seq(Buffers)
        /\ currDst \in Buffers /\ Queued(wrEnq, wrDoneQ, writeBaseQ)
        /\ currDst = Slot(wrEnq, Len(wrDoneQ) + Len(writeBaseQ))
        /\ RingAt(wrEnq, wrDeq, Len(wrDoneQ) + Len(writeBaseQ) + 1)
    BY <1>2, <1>4, <1>6 DEF RingTypes, AnswerRing
  <2>2. writeBaseQ' = Append(writeBaseQ, currDst)
    BY <1>1, <1>6
  <2>3. /\ writeBaseQ' \in Seq(Buffers) /\ Len(writeBaseQ') = Len(writeBaseQ) + 1
        /\ Len(wrDoneQ) \in Nat /\ Len(writeBaseQ) \in Nat
        /\ Queued(wrEnq, wrDoneQ, writeBaseQ')
    BY <2>1, <2>2, HandOver
  <2>4. AnswerRing'
    <3>1. Len(wrDoneQ) + Len(writeBaseQ) + 1 = Len(wrDoneQ') + Len(writeBaseQ')
      BY <1>1, <2>3
    <3> QED BY <1>1, <1>3, <1>4, <2>1, <2>3, <3>1 DEF AnswerRing
  <2>5. RingTypes'
    BY <1>1, <1>2, <1>3, <2>3 DEF RingTypes
  <2> QED BY <1>1, <1>3, <2>4, <2>5, AnswerStep
<1> QED BY <1>5, <1>6

LEMMA waitIdleWriteBufferInv ==
  ASSUME RingInv, waitIdleWriteBuffer
  PROVE  RingInv'
<1>1. /\ dpc = "getBuffer" /\ wrEnq # wrDeq /\ currDst' = wrDeq % NumBufs
      /\ wrDeq' = Incr(wrDeq) /\ dpc' \in {"read", "handle"}
      /\ UNCHANGED << host, rdEnq, wrEnq, device >>
  BY DEF waitIdleWriteBuffer
<1>2. RingTypes /\ AnswerRing
  BY DEF RingInv
<1> DEFINE n == Len(wrDoneQ) + Len(writeBaseQ)
<1>3. n \in Nat /\ wrEnq \in Pointers /\ wrDeq \in Pointers
  BY <1>2 DEF RingTypes, Pointers
<1>4. ~ Reading
  BY <1>1 DEF Reading
<1>5. RingAt(wrEnq, wrDeq, n) /\ Queued(wrEnq, wrDoneQ, writeBaseQ)
  BY <1>2, <1>4 DEF AnswerRing
<1>6. /\ wrDeq' \in Pointers /\ n < NumBufs /\ RingAt(wrEnq, wrDeq', n + 1)
      /\ currDst' = Slot(wrEnq, n)
  <2> HIDE DEF n
  <2> QED BY <1>1, <1>3, <1>5, Take
<1>7. currDst' \in Buffers
  <2>1. n \in 0 .. NumBufs - 1
    BY <1>3, <1>6, Bound
  <2> HIDE DEF n
  <2> QED BY <1>3, <1>6, <2>1, SlotIs
<1>8. Reading'
  BY <1>1, <1>7, Bound DEF Reading, Buffers
<1>9. UNCHANGED << lock, pc, msg, src, currSrc, rdDeq, readQ, rdDoneQ, wrDoneQ,
                   writeBaseQ >>
  BY <1>1 DEF host, device
<1>10. AnswerRing'
  BY <1>1, <1>5, <1>6, <1>8, <1>9 DEF AnswerRing
<1>11. RingTypes'
  BY <1>1, <1>2, <1>6, <1>7, <1>9 DEF RingTypes, Pointers
<1> QED BY <1>1, <1>9, <1>10, <1>11, AnswerStep

(* The steps of decode_response and of the device that leave both rings    *)
(* alone.                                                                  *)
LEMMA AnswerQuiet ==
  ASSUME RingInv,
         UNCHANGED << host, rdEnq, wrEnq, currDst, wrDeq, readQ, rdDoneQ, wrDoneQ,
                      writeBaseQ >>,
         (dpc # "getBuffer" /\ dpc' # "getBuffer") \/ dpc' = dpc
  PROVE  RingInv'
<1>1. UNCHANGED << lock, pc, msg, src, currSrc, rdDeq >>
  BY DEF host
<1>2. Reading' <=> Reading
  BY DEF Reading
<1>3. AnswerRing'
  BY <1>2, AnswerFrame
<1>4. RingTypes'
  BY <1>1 DEF RingInv, RingTypes
<1> QED BY <1>1, <1>3, <1>4, AnswerStep

LEMMA DecodeResponseInv ==
  ASSUME RingInv, DecodeResponse
  PROVE  RingInv'
<1>1. CASE ReadRest
  BY <1>1, AnswerQuiet DEF ReadRest, shared, device
<1>2. CASE HandleValueFollows
  BY <1>2, AnswerQuiet DEF HandleValueFollows, shared, device
<1>3. CASE HandleAnswer
  BY <1>3, AnswerQuiet DEF HandleAnswer, shared, device
<1>4. CASE HandleEom
  BY <1>4, AnswerQuiet DEF HandleEom, shared, device
<1>5. CASE CountAnswer
  BY <1>5, AnswerQuiet DEF CountAnswer, shared, device
<1> QED BY <1>1, <1>2, <1>3, <1>4, <1>5, ReadFullInv, waitIdleWriteBufferInv
        DEF DecodeResponse

LEMMA DeviceInv ==
  ASSUME RingInv, Device
  PROVE  RingInv'
<1>1. ASSUME NEW i \in 1 .. Len(devQ), NEW body \in BodySizes \cup {0}, Answer(i, body)
      PROVE  RingInv'
  BY <1>1, AnswerQuiet DEF Answer, shared, decode
<1> QED BY <1>1, DeviceReadInv, doDMAWriteInv, rdDoneInv, wrDoneInv DEF Device, FPGA

-----------------------------------------------------------------------------
(* The threads of the host. *)

LEMMA MessageIs ==
  /\ EOM \in Message
  /\ \A c \in Clients, op \in Ops : [ from |-> c, op |-> op ] \in Message
BY DEF Message

LEMMA SrcAppend ==
  ASSUME RingInv
  PROVE  src \in Seq(Message) /\ Append(src, msg) \in Seq(Message) /\ msg \in Message
<1>1. src \in Seq(Message) /\ msg \in Message
  BY DEF RingInv, RingTypes
<1> QED BY <1>1

LEMMA ClientInv ==
  ASSUME RingInv, NEW c \in Clients,
         (\E op \in Ops : Send(c, op)) \/ Register(c) \/ Return(c)
  PROVE  RingInv'
<1>0. c \in Threads /\ RingTypes /\ LockHeld
  BY DEF Threads, RingInv
<1>1. ASSUME NEW op \in Ops, Send(c, op) PROVE RingInv'
  <2>1. /\ pc[c] = "idle" /\ lock = None /\ lock' = c
        /\ msg' = [ from |-> c, op |-> op ] /\ pc' = [ pc EXCEPT ![c] = "write" ]
        /\ UNCHANGED << src, currSrc, rdDeq, rdEnq, wrEnq, decode, device >>
    BY <1>1 DEF Send, BeginWrite
  <2>2. msg' \in Message /\ src' \in Seq(Message)
    BY <2>1, MessageIs, SrcAppend
  <2> QED BY <1>0, <2>1, <2>2, QuietStep DEF Places
<1>2. CASE Register(c)
  <2>1. /\ pc[c] = "register" /\ lock' = None
        /\ pc' = [ pc EXCEPT ![c] = "wait" ]
        /\ UNCHANGED << msg, src, currSrc, rdDeq, shared, decode, device >>
    BY <1>2 DEF Register
  <2>2. lock = c
    BY <1>0, <2>1, Inside
  <2>3. msg' \in Message /\ src' \in Seq(Message) /\ UNCHANGED << rdEnq, wrEnq >>
    BY <2>1, SrcAppend DEF shared
  <2> QED BY <1>0, <2>1, <2>2, <2>3, QuietStep DEF Places
<1>3. CASE Return(c)
  <2>1. /\ pc[c] = "wait" /\ pc' = [ pc EXCEPT ![c] = "idle" ]
        /\ UNCHANGED << lock, msg, src, currSrc, rdDeq, rdEnq, wrEnq, decode, device >>
    BY <1>3 DEF Return
  <2>2. pc \in [ Threads -> Places ]
    BY <1>0 DEF RingTypes, Places
  <2>3. /\ pc' \in [ Threads -> Places ] /\ pc'[c] = "idle"
        /\ \A t \in Threads : t # c => pc'[t] = pc[t]
    BY <1>0, <2>1, <2>2 DEF Places
  <2>4. LockHeld' /\ (Filling' <=> Filling)
    BY <1>0, <2>1, <2>3 DEF LockHeld, Filling
  <2>5. RingTypes'
    BY <1>0, <2>1, <2>3 DEF RingTypes, Places, decode, device
  <2>6. SourceRing'
    BY <2>1, <2>4, SourceFrame DEF device
  <2> QED BY <2>1, <2>4, <2>5, <2>6, HostStep DEF device
<1> QED BY <1>1, <1>2, <1>3

LEMMA AfterWriteIs == AfterWrite \in {"flush", "register"}
BY DEF AfterWrite

LEMMA WriteInv ==
  ASSUME RingInv, NEW t \in Threads, Write(t)
  PROVE  RingInv'
<1>1. CASE WriteRest(t)
  <2>1. /\ pc[t] = "write" /\ src' = Append(src, msg)
        /\ pc' = [ pc EXCEPT ![t] = AfterWrite ]
        /\ UNCHANGED << lock, msg, currSrc, rdDeq, shared, decode, device >>
    BY <1>1 DEF WriteRest
  <2>2. lock = t
    BY <2>1, Inside
  <2>3. msg' \in Message /\ src' \in Seq(Message) /\ UNCHANGED << rdEnq, wrEnq >>
    BY <2>1, SrcAppend DEF shared
  <2> QED BY <2>1, <2>2, <2>3, AfterWriteIs, QuietStep DEF Places
<1>2. CASE WriteFull(t)
  <2>1. /\ pc[t] = "write" /\ src' = << >>
        /\ pc' = [ pc EXCEPT ![t] = "getBuffer" ]
        /\ UNCHANGED << lock, msg, currSrc, rdDeq, shared, decode, rdDoneQ,
                        writeBaseQ, wrDoneQ >>
    BY <1>2 DEF WriteFull
  <2>2. CASE currSrc # -1
    <3>1. PICK ms \in { src, Append(src, msg) } :
            readQ' = Append(readQ, [ buf |-> currSrc, msgs |-> ms ])
      BY <1>2, <2>2 DEF WriteFull, startRead
    <3>2. ms \in Seq(Message)
      BY SrcAppend
    <3> QED BY <2>1, <2>2, <3>1, <3>2, SendSource
  <2>3. CASE currSrc = -1
    <3>1. UNCHANGED readQ
      BY <1>2, <2>3 DEF WriteFull
    <3>2. RingTypes /\ LockHeld /\ lock = t /\ None # t
      BY <2>1, Inside, DaemonAssumption DEF RingInv
    <3>3. /\ pc' \in [ Threads -> Places ] /\ lock' \in Threads \cup {None}
          /\ LockHeld' /\ (Filling' <=> Filling)
      BY <2>1, <2>3, <3>2, ThreadStep DEF Places
    <3>4. UNCHANGED << rdEnq, wrEnq >> /\ << >> \in Seq(Message)
      BY <2>1 DEF shared
    <3>5. RingTypes'
      BY <2>1, <3>1, <3>2, <3>3, <3>4 DEF RingTypes, Places, decode
    <3>6. SourceRing'
      BY <2>1, <3>1, <3>3, <3>4, SourceFrame
    <3> QED BY <2>1, <3>3, <3>4, <3>5, <3>6, HostStep
  <2> QED BY <2>2, <2>3
<1>3. CASE WriteGetBuffer(t)
  <2>1. pc[t] = "getBuffer"
    BY <1>3 DEF WriteGetBuffer
  <2>2. PICK s \in {"write", "flush", "register"} : waitIdleReadBuffer(t, s)
    BY <1>3, AfterWriteIs DEF WriteGetBuffer
  <2> QED BY <2>1, <2>2, TakeSource DEF Places
<1> QED BY <1>1, <1>2, <1>3 DEF Write

LEMMA FlushPassInv ==
  ASSUME RingInv, FlushPass
  PROVE  RingInv'
<1>0. Flusher \in Threads /\ Flusher # None
  BY DaemonAssumption DEF Threads
<1>1. CASE FlushLock
  <2>1. /\ pc[Flusher] = "idle" /\ lock = None /\ lock' = Flusher
        /\ pc' = [ pc EXCEPT ![Flusher] = "decide" ]
        /\ UNCHANGED << msg, src, currSrc, rdDeq, rdEnq, wrEnq, decode, device >>
    BY <1>1 DEF FlushLock
  <2>2. msg' \in Message /\ src' \in Seq(Message)
    BY <2>1, SrcAppend
  <2> QED BY <1>0, <2>1, <2>2, QuietStep DEF Places
<1>2. CASE FlushNothing \/ FlushEnd
  <2>1. /\ pc[Flusher] \in {"decide", "set"} /\ lock' = None
        /\ pc' = [ pc EXCEPT ![Flusher] = "idle" ]
        /\ UNCHANGED << msg, src, currSrc, rdDeq, rdEnq, wrEnq, decode, device >>
    BY <1>2 DEF FlushNothing, FlushEnd, EndPass, shared
  <2>2. lock = Flusher
    BY <1>0, <2>1, Inside
  <2>3. msg' \in Message /\ src' \in Seq(Message)
    BY <2>1, SrcAppend
  <2> QED BY <1>0, <2>1, <2>2, <2>3, QuietStep DEF Places
<1>3. CASE FlushBegin
  <2>1. /\ pc[Flusher] = "decide" /\ msg' = EOM
        /\ pc' = [ pc EXCEPT ![Flusher] = "write" ]
        /\ UNCHANGED << lock, src, currSrc, rdDeq, rdEnq, wrEnq, decode, device >>
    BY <1>3 DEF FlushBegin, BeginWrite
  <2>2. lock = Flusher
    BY <1>0, <2>1, Inside
  <2>3. msg' \in Message /\ src' \in Seq(Message)
    BY <2>1, SrcAppend, MessageIs
  <2> QED BY <1>0, <2>1, <2>2, <2>3, QuietStep DEF Places
<1>4. CASE FlushSend(Flusher)
  <2>1. /\ pc[Flusher] = "flush"
        /\ UNCHANGED << lock, msg, currSrc, rdDeq, shared, decode, rdDoneQ,
                        writeBaseQ, wrDoneQ, devQ, outQ, dst >>
    BY <1>4 DEF FlushSend
  <2>2. CASE srcOff > 0 /\ currSrc # -1
    <3>1. /\ readQ' = Append(readQ, [ buf |-> currSrc, msgs |-> src ])
          /\ src' = << >> /\ pc' = [ pc EXCEPT ![Flusher] = "getNext" ]
      BY <1>4, <2>2 DEF FlushSend, startRead
    <3> QED BY <1>0, <2>1, <2>2, <3>1, SrcAppend, SendSource
  <2>3. CASE ~ (srcOff > 0 /\ currSrc # -1)
    <3>1. /\ pc' = [ pc EXCEPT ![Flusher] = "set" ]
          /\ UNCHANGED << readQ, src >>
      BY <1>4, <2>3 DEF FlushSend
    <3>2. lock = Flusher
      BY <1>0, <2>1, Inside
    <3>3. /\ msg' \in Message /\ src' \in Seq(Message)
          /\ UNCHANGED << rdEnq, wrEnq, device >>
      BY <2>1, <3>1, SrcAppend DEF shared, device
    <3> QED BY <1>0, <2>1, <3>1, <3>2, <3>3, QuietStep DEF Places
  <2> QED BY <2>2, <2>3
<1>5. CASE FlushGetBuffer(Flusher)
  BY <1>0, <1>5, TakeSource DEF FlushGetBuffer, Places
<1> QED BY <1>1, <1>2, <1>3, <1>4, <1>5 DEF FlushPass

-----------------------------------------------------------------------------
(* The invariant. *)

LEMMA InitInv == Init => RingInv
<1> SUFFICES ASSUME Init PROVE RingInv
  OBVIOUS
<1>1. /\ lock = None /\ pc = [ t \in Threads |-> "idle" ] /\ msg = EOM
      /\ src = << >> /\ currSrc = -1 /\ rdDeq = 0 /\ rdEnq = NumBufs /\ wrEnq = 0
      /\ currDst = -1 /\ wrDeq = 0 /\ readQ = << >> /\ rdDoneQ = << >>
      /\ writeBaseQ = AllBuffers /\ wrDoneQ = << >>
  BY DEF Init, StartState
<1>2. /\ AllBuffers \in Seq(Buffers) /\ Len(AllBuffers) = NumBufs
      /\ \A k \in 1 .. NumBufs : AllBuffers[k] = k - 1
  BY Bound DEF AllBuffers, Buffers
<1>3. RingTypes
  <2>1. 0 \in 0 .. 2 * NumBufs - 1 /\ NumBufs \in 0 .. 2 * NumBufs - 1
    BY Bound
  <2> QED BY <1>1, <1>2, <2>1, MessageIs DEF RingTypes
<1>4. LockHeld
  BY <1>1 DEF LockHeld
<1>5. ~ Filling /\ ~ Reading
  BY <1>1 DEF Filling, Reading
<1>6. SourceRing
  <2>1. Len(rdDoneQ) = 0 /\ Len(readQ) = 0 /\ Len(Bufs(readQ)) = 0
    BY <1>1 DEF Bufs
  <2>2. RingAt(rdEnq, rdDeq, 0)
    BY <1>1, Bound DEF RingAt
  <2>3. Queued(rdEnq, rdDoneQ, Bufs(readQ))
    BY <2>1 DEF Queued
  <2> QED BY <1>5, <2>1, <2>2, <2>3 DEF SourceRing
<1>7. AnswerRing
  <2>1. Len(wrDoneQ) = 0 /\ Len(writeBaseQ) = NumBufs
    BY <1>1, <1>2
  <2>2. RingAt(wrEnq, wrDeq, NumBufs)
    BY <1>1, Bound DEF RingAt
  <2>3. Queued(wrEnq, wrDoneQ, writeBaseQ)
    <3>1. \A k \in 1 .. NumBufs : writeBaseQ[k] = Slot(0, 0 + k - 1)
      BY <1>1, <1>2, Bound DEF Slot
    <3> QED BY <1>1, <2>1, <3>1 DEF Queued
  <2> QED BY <1>5, <2>1, <2>2, <2>3, Bound DEF AnswerRing
<1> QED BY <1>3, <1>4, <1>6, <1>7 DEF RingInv

LEMMA StutterInv ==
  ASSUME RingInv, UNCHANGED vars
  PROVE  RingInv'
BY AnswerQuiet DEF vars, shared, decode, device

LEMMA NextInv ==
  ASSUME RingInv, [Next]_vars
  PROVE  RingInv'
BY ClientInv, WriteInv, FlushPassInv, DeviceInv, DecodeResponseInv, StutterInv
   DEF Next

(* Every behaviour of the daemon keeps the invariant of the rings.         *)
THEOREM RingInvHolds == Spec => []RingInv
<1>1. RingInv /\ [Next]_vars => RingInv'
  BY NextInv
<1> QED BY <1>1, InitInv, PTL DEF Spec

(* A request is never written into a buffer that the device still has      *)
(* (waitIdleReadBuffer, startRead and rdDone of bluecachedaemon.cpp), for  *)
(* any number of clients, buffers and requests.                            *)
THEOREM SourceBufferFreeHolds == Spec => []SourceBufferFree
<1>1. RingInv => SourceBufferFree
  <2> SUFFICES ASSUME RingInv,
                      \A t \in Threads : pc[t] \notin {"getBuffer", "getNext"}
               PROVE  /\ currSrc \notin { readQ[i].buf : i \in 1 .. Len(readQ) }
                      /\ currSrc \notin ToSet(rdDoneQ)
    BY DEF SourceBufferFree
  <2> DEFINE T == Seq(Message)
             n == Len(rdDoneQ) + Len(readQ)
  <2>1. RingTypes /\ SourceRing
    BY DEF RingInv
  <2>2. /\ rdDoneQ \in Seq(Buffers) /\ readQ \in Seq([ buf : Buffers, msgs : T ])
        /\ rdEnq \in Pointers
    BY <2>1 DEF RingTypes, Pointers
  <2>3. Bufs(readQ) \in Seq(Buffers) /\ Len(Bufs(readQ)) = Len(readQ)
        /\ Len(readQ) \in Nat
    <3> HIDE DEF T
    <3> QED BY <2>2, BufsIs
  <2>4. ToSet(Bufs(readQ)) = { readQ[i].buf : i \in 1 .. Len(readQ) }
    BY <2>3 DEF ToSet, Bufs
  <2>5. CASE currSrc = -1
    <3>1. \A b \in Buffers : b # -1
      BY Bound DEF Buffers
    <3>2. ToSet(rdDoneQ) \subseteq Buffers /\ ToSet(Bufs(readQ)) \subseteq Buffers
      BY <2>2, <2>3 DEF ToSet
    <3> QED BY <2>4, <2>5, <3>1, <3>2
  <2>6. CASE currSrc # -1
    <3>1. Filling
      BY <2>6 DEF Filling
    <3>2. /\ RingAt(rdEnq, rdDeq, n + 1) /\ Queued(rdEnq, rdDoneQ, Bufs(readQ))
          /\ currSrc = Slot(rdEnq, n)
      BY <2>1, <3>1 DEF SourceRing
    <3>3. n \in Nat /\ n < NumBufs /\ Len(rdDoneQ) + Len(Bufs(readQ)) <= n
      BY <2>2, <2>3, <3>2, Bound DEF RingAt
    <3> HIDE DEF n, T
    <3> QED BY <2>2, <2>3, <2>4, <3>2, <3>3, NotQueued
  <2> QED BY <2>5, <2>6
<1> QED BY <1>1, RingInvHolds, PTL

(* An unread answer is never overwritten (waitIdleWriteBuffer, wrDone and  *)
(* the buffers that dmaBufMemreadBuf gives back).                          *)
THEOREM AnswersNotOverwrittenHolds == Spec => []AnswersNotOverwritten
<1>1. RingInv => AnswersNotOverwritten
  <2> SUFFICES ASSUME RingInv PROVE AnswersNotOverwritten
    OBVIOUS
  <2> DEFINE n == Len(wrDoneQ) + Len(writeBaseQ)
             M == 2 * NumBufs
  <2>1. RingTypes /\ AnswerRing
    BY DEF RingInv
  <2>2. /\ wrDoneQ \in Seq(Buffers) /\ writeBaseQ \in Seq(Buffers)
        /\ wrEnq \in Pointers /\ wrDeq \in Pointers /\ n \in Nat
        /\ Queued(wrEnq, wrDoneQ, writeBaseQ)
    BY <2>1 DEF RingTypes, Pointers, AnswerRing
  <2>3. \A j \in Nat : n <= j /\ j < NumBufs => Slot(wrEnq, j) \notin ToSet(writeBaseQ)
    BY <2>2, NotQueued
  <2>4. dpc # "getBuffer" => currDst \notin ToSet(writeBaseQ)
    <3>1. CASE currDst = -1
      <4>1. \A b \in Buffers : b # -1
        BY Bound DEF Buffers
      <4>2. ToSet(writeBaseQ) \subseteq Buffers
        BY <2>2 DEF ToSet
      <4> QED BY <3>1, <4>1, <4>2
    <3>2. CASE currDst # -1 /\ dpc # "getBuffer"
      <4>1. Reading
        BY <3>2 DEF Reading
      <4>2. RingAt(wrEnq, wrDeq, n + 1) /\ currDst = Slot(wrEnq, n)
        BY <2>1, <4>1 DEF AnswerRing
      <4>3. n < NumBufs
        BY <2>2, <4>2, Bound DEF RingAt
      <4> HIDE DEF n
      <4> QED BY <2>2, <2>3, <4>2, <4>3
    <3> QED BY <3>1, <3>2
  <2>5. ASSUME NEW p \in 0 .. M - 1, (p - wrDeq) % M < (wrEnq - wrDeq) % M
        PROVE  p % NumBufs \notin ToSet(writeBaseQ)
    <3>1. PICK m \in {n, n + 1} : RingAt(wrEnq, wrDeq, m)
      BY <2>1 DEF AnswerRing
    <3>2. \A x \in -M + 1 .. M - 1 : x % M = IF x < 0 THEN x + M ELSE x
      <4> TAKE x \in -M + 1 .. M - 1
      <4>1. M \in Nat \ {0}
        BY Bound
      <4> HIDE DEF M
      <4>2. CASE x < 0
        <5>1. x + M \in 0 .. M - 1 /\ x = (x + M) - M
          BY <4>1, <4>2
        <5>2. ((x + M) - M) % M = x + M
          BY <4>1, <5>1, ModUnique
        <5> QED BY <4>2, <5>1, <5>2
      <4>3. CASE ~ (x < 0)
        <5>1. x \in 0 .. M - 1
          BY <4>1, <4>3
        <5> QED BY <4>1, <4>3, <5>1, ModSmall
      <4> QED BY <4>2, <4>3
    <3>3. p - wrDeq \in -M + 1 .. M - 1 /\ wrEnq - wrDeq \in -M + 1 .. M - 1
      BY <2>2, Bound DEF Pointers
    <3>4. p \in Pointers /\ p % NumBufs = IF p < NumBufs THEN p ELSE p - NumBufs
      BY BufferOf DEF Pointers
    <3>5. PICK u \in 0 .. M - 1 : /\ u = IF p - wrDeq < 0 THEN p - wrDeq + M ELSE p - wrDeq
                                  /\ u < IF wrEnq - wrDeq < 0 THEN wrEnq - wrDeq + M
                                         ELSE wrEnq - wrDeq
      <4>1. (p - wrDeq) % M \in 0 .. M - 1
        <5>1. M \in Nat \ {0} /\ p - wrDeq \in Int
          BY <2>2, Bound DEF Pointers
        <5> HIDE DEF M
        <5> QED BY <5>1
      <4> HIDE DEF M
      <4> QED BY <2>5, <3>2, <3>3, <4>1
    <3>6. m + u \in Nat /\ n <= m + u /\ m + u < NumBufs
      BY <2>2, <3>1, <3>4, <3>5, Bound DEF RingAt, Pointers
    <3>7. p % NumBufs = Slot(wrEnq, m + u)
      <4>1. PICK e \in Nat, d \in Nat, b \in Nat, w \in Nat :
              /\ e = wrEnq /\ d = wrDeq /\ b = NumBufs /\ w = m + u /\ w < b /\ e < 2 * b
              /\ p \in Nat /\ p < 2 * b
              /\ p = u + d \/ p = u + d - 2 * b
              /\ d = e + m - b \/ d = e + m + b
        <5>1. /\ wrEnq \in Nat /\ wrDeq \in Nat /\ NumBufs \in Nat /\ wrEnq < 2 * NumBufs
              /\ p \in Nat /\ p < 2 * NumBufs
          BY <2>2, Bound DEF Pointers
        <5>2. wrDeq = wrEnq + m - NumBufs \/ wrDeq = wrEnq + m + NumBufs
          BY <3>1 DEF RingAt
        <5>3. p = u + wrDeq \/ p = u + wrDeq - 2 * NumBufs
          BY <3>5, <5>1
        <5> QED BY <3>6, <5>1, <5>2, <5>3
      <4>2. p = e + w - b \/ p = e + w + b \/ p = e + w - 3 * b
        BY <2>2, <4>1
      <4>3. Slot(wrEnq, m + u) = LET s == IF e < b THEN e ELSE e - b
                                 IN  IF s + w < b THEN s + w ELSE s + w - b
        BY <4>1 DEF Slot
      <4>4. p % NumBufs = IF p < b THEN p ELSE p - b
        BY <3>4, <4>1
      <4> QED BY <4>1, <4>2, <4>3, <4>4
    <3> HIDE DEF n
    <3> QED BY <2>3, <3>6, <3>7
  <2> DEFINE unread == { p \in 0 .. 2 * NumBufs - 1 :
                (p - wrDeq) % (2 * NumBufs) < (wrEnq - wrDeq) % (2 * NumBufs) }
  <2>7. \A p \in unread : p % NumBufs \notin ToSet(writeBaseQ)
    BY <2>5
  <2> QED BY <2>4, <2>7 DEF AnswersNotOverwritten
<1> QED BY <1>1, RingInvHolds, PTL

-----------------------------------------------------------------------------
(* The stream of answers.  S is all that the device has ever put into      *)
(* outQ; window c of it, of the size of a buffer, is the c-th buffer that  *)
(* the device writes, counted from 0; N windows have been taken by the     *)
(* response thread.                                                        *)

Units == [ m : Message, body : Nat, k : Nat ]

Start(c) == c * BufSize

(* After p units the next one, if any, is a header. *)
HeaderAt(S, p) == p \in 0 .. Len(S) /\ (p < Len(S) => S[p + 1].k = 1)

(* Unit i is the header of an answer that is there as a whole. *)
AnswerAt(S, i) ==
  /\ i + S[i].body \in 1 .. Len(S)
  /\ \A j \in 0 .. S[i].body : S[i + j].m = S[i].m /\ S[i + j].k = j + 1

(* The next header after an EOM at i is the first unit of a buffer. *)
SkipTo(S, i, p) == HeaderAt(S, p) /\ \A j \in i + 1 .. p : S[j].k # 1

(* Behind it comes another answer, or behind an EOM the next buffer. *)
NextAt(S, i) ==
  /\ S[i].m.op # "EOM" => HeaderAt(S, i + S[i].body)
  /\ S[i].m.op = "EOM" =>
       /\ S[i].body = 0
       /\ \A c \in Nat : Start(c) < i /\ i <= Start(c + 1) => SkipTo(S, i, Start(c + 1))

Framed(S) ==
  /\ HeaderAt(S, 0)
  /\ \A i \in 1 .. Len(S) : S[i].k = 1 => AnswerAt(S, i) /\ NextAt(S, i)

(* Buffers of the answer ring that the response thread does not have to    *)
(* take: those it gave back, the one it reads and those not reported yet.  *)
Away == LET n == Len(wrDoneQ) + Len(writeBaseQ) IN IF Reading THEN n + 1 ELSE n

(* The number of windows the device has written. *)
Written(N) == N + (NumBufs - Away) + Len(wrDoneQ)

(* d is a piece of the stream, after x units. *)
PieceAt(S, d, x) == \A i \in 1 .. Len(d) : d[i] = S[x + i]

Window(S, b, c) == Len(dst[b]) = BufSize /\ PieceAt(S, dst[b], Start(c))

(* The windows that the buffers hold, from the one being read to those     *)
(* whose wrDone is on its way, and what is still in outQ.                  *)
Windows(S, N) ==
  /\ Reading => N > 0 /\ Window(S, currDst, N - 1)
  /\ \A j \in 0 .. NumBufs - Away - 1 : Window(S, Slot(wrEnq, Away + j), N + j)
  /\ \A k \in 1 .. Len(wrDoneQ) :
       Window(S, wrDoneQ[k], N + (NumBufs - Away) + k - 1)
  /\ Len(S) = Start(Written(N)) + Len(outQ)
  /\ PieceAt(S, outQ, Start(Written(N)))

(* How much of the stream the response thread has read. *)
Pos(N) == IF dpc = "getBuffer" THEN Start(N) ELSE Start(N) + dstOff - BufSize

(* The answers before this place have been handled. *)
ReadTo(N) == IF dpc = "count" THEN Pos(N) ELSE Pos(N) - Len(units)

(* The response thread has read the header, and the value if that is what  *)
(* it reads, of an answer from its beginning.                              *)
ReaderAt(S, N) ==
  IF dpc = "count" THEN HeaderAt(S, Pos(N))
  ELSE /\ HeaderAt(S, Pos(N) - Len(units)) /\ Pos(N) <= Len(S)
       /\ PieceAt(S, units, Pos(N) - Len(units))
       /\ part = "body" => units # << >>
       /\ Len(units) + need = IF part = "body" THEN 1 + units[1].body ELSE 1

StreamTypes ==
  /\ devQ \in Seq(Message) /\ outQ \in Seq(Units) /\ units \in Seq(Units)
  /\ dst \in [ Buffers -> Seq(Units) ]
  /\ dpc \in { "read", "getBuffer", "handle", "count" }
  /\ part \in { "header", "body" } /\ need \in Nat /\ dstOff \in 0 .. BufSize
  /\ dpc = "read" => need > 0
  /\ dpc = "handle" => need = 0
  /\ dpc = "getBuffer" => dstOff = 0
  /\ dpc \in { "handle", "count" } => currDst # -1
  /\ currDst = -1 => dpc = "getBuffer" \/ dstOff = BufSize

StreamInvFor(S, N) == Framed(S) /\ Windows(S, N) /\ ReaderAt(S, N)

StreamInv ==
  StreamTypes /\ \E S \in Seq(Units), N \in Nat : StreamInvFor(S, N)

-----------------------------------------------------------------------------
(* The arithmetic of windows. *)

LEMMA Times ==
  ASSUME NEW n \in Nat
  PROVE  Start(n) \in Nat /\ Start(n + 1) = Start(n) + BufSize /\ Start(0) = 0
<1>1. BufSize \in Nat
  BY DaemonAssumption
<1> QED BY <1>1 DEF Start

LEMMA Monotone ==
  ASSUME NEW b \in Nat, NEW c \in Nat, b < c
  PROVE  Start(b) + BufSize <= Start(c)
<1>1. BufSize \in Nat
  BY DaemonAssumption
<1>2. PICK d \in Nat : c = b + 1 + d
  <2>1. c - b - 1 \in Nat /\ c = b + 1 + (c - b - 1)
    OBVIOUS
  <2> QED BY <2>1
<1>3. (b + 1 + d) * BufSize = b * BufSize + BufSize + d * BufSize
  BY <1>1
<1>4. d * BufSize \in Nat /\ b * BufSize \in Nat
  BY <1>1
<1> QED BY <1>1, <1>2, <1>3, <1>4 DEF Start

(* A unit is in one window. *)
LEMMA OneWindow ==
  ASSUME NEW b \in Nat, NEW c \in Nat, NEW x \in Nat,
         Start(b) < x, x <= Start(b) + BufSize, Start(c) < x, x <= Start(c) + BufSize
  PROVE  b = c
<1>1. Start(b) \in Nat /\ Start(c) \in Nat /\ BufSize \in Nat
  BY Times, DaemonAssumption
<1>2. CASE b < c
  BY <1>1, <1>2, Monotone
<1>3. CASE c < b
  BY <1>1, <1>3, Monotone
<1> QED BY <1>2, <1>3

(* What the device adds to fill the buffer of an EOM. *)
LEMMA Padding ==
  ASSUME NEW x \in Nat
  PROVE  /\ x % BufSize \in 0 .. BufSize - 1
         /\ \E d \in Nat : x = Start(d) + (x % BufSize)
<1> DEFINE B == BufSize
<1>1. B \in Nat \ {0}
  BY DaemonAssumption
<1> HIDE DEF B
<1>2. x % B \in 0 .. B - 1 /\ x \div B \in Nat
  BY <1>1
<1>3. x = B * (x \div B) + (x % B)
  BY <1>1
<1>4. B * (x \div B) = (x \div B) * B
  BY <1>1, <1>2
<1> QED BY <1>2, <1>3, <1>4 DEF Start, B

LEMMA StartSum ==
  ASSUME NEW b \in Nat, NEW c \in Nat
  PROVE  Start(b + c) = Start(b) + Start(c)
<1>1. BufSize \in Nat
  BY DaemonAssumption
<1> QED BY <1>1 DEF Start

-----------------------------------------------------------------------------
(* The stream grows by answers. *)

LEMMA Joined ==
  ASSUME NEW T, NEW s \in Seq(T), NEW t \in Seq(T)
  PROVE  /\ s \o t \in Seq(T) /\ Len(s) \in Nat /\ Len(t) \in Nat
         /\ Len(s \o t) = Len(s) + Len(t)
         /\ \A i \in 1 .. Len(s) : (s \o t)[i] = s[i]
         /\ \A i \in 1 .. Len(t) : (s \o t)[Len(s) + i] = t[i]
OBVIOUS

LEMMA Piece ==
  ASSUME NEW T, NEW s \in Seq(T), NEW o \in Nat, NEW t \in Nat, o + t <= Len(s)
  PROVE  /\ SubSeq(s, o + 1, o + t) \in Seq(T) /\ Len(SubSeq(s, o + 1, o + t)) = t
         /\ \A i \in 1 .. t : SubSeq(s, o + 1, o + t)[i] = s[o + i]
<1>1. \A i \in o + 1 .. o + t : s[i] \in T
  OBVIOUS
<1>2. /\ SubSeq(s, o + 1, o + t) \in Seq(T)
      /\ Len(SubSeq(s, o + 1, o + t)) = IF o + 1 <= o + t THEN (o + t) - (o + 1) + 1 ELSE 0
      /\ \A i \in 1 .. (o + t) - (o + 1) + 1 : SubSeq(s, o + 1, o + t)[i] = s[(o + 1) + i - 1]
  BY <1>1, SubSeqProperties
<1>3. (o + t) - (o + 1) + 1 = t /\ \A i \in 1 .. t : (o + 1) + i - 1 = o + i
  OBVIOUS
<1>4. (IF o + 1 <= o + t THEN (o + t) - (o + 1) + 1 ELSE 0) = t
  OBVIOUS
<1> QED BY <1>2, <1>3, <1>4

(* What Answer adds, with n units of padding. *)
Grown(s, m, body, n) ==
  s \o [ k \in 1 .. 1 + body |-> Unit(m, body, k) ] \o [ k \in 1 .. n |-> Pad ]

GrowsTo(s, t, m, body, n) ==
  /\ t \in Seq(Units) /\ Len(s) \in Nat /\ Len(t) = Len(s) + 1 + body + n
  /\ \A i \in 1 .. Len(s) : t[i] = s[i]
  /\ \A k \in 1 .. 1 + body : t[Len(s) + k] = Unit(m, body, k)
  /\ \A k \in 1 .. n : t[Len(s) + 1 + body + k] = Pad

LEMMA GrownIs ==
  ASSUME NEW s \in Seq(Units), NEW m \in Message, NEW body \in Nat, NEW n \in Nat
  PROVE  GrowsTo(s, Grown(s, m, body, n), m, body, n)
<1> DEFINE a == [ k \in 1 .. 1 + body |-> Unit(m, body, k) ]
           p == [ k \in 1 .. n |-> Pad ]
<1>1. \A k \in Nat : Unit(m, body, k) \in Units
  BY DEF Unit, Units
<1>2. Pad \in Units
  <2>1. EOM \in Message
    BY DEF Message
  <2> QED BY <2>1 DEF Pad, Unit, Units
<1>3. a \in Seq(Units) /\ Len(a) = 1 + body /\ \A k \in 1 .. 1 + body : a[k] = Unit(m, body, k)
  BY <1>1
<1>4. p \in Seq(Units) /\ Len(p) = n /\ \A k \in 1 .. n : p[k] = Pad
  BY <1>2
<1>5. Grown(s, m, body, n) = (s \o a) \o p
  BY DEF Grown
<1> HIDE DEF a, p
<1> DEFINE t == s \o a
<1>6. /\ t \in Seq(Units) /\ Len(s) \in Nat /\ Len(t) = Len(s) + 1 + body
      /\ \A i \in 1 .. Len(s) : t[i] = s[i]
      /\ \A k \in 1 .. 1 + body : t[Len(s) + k] = a[k]
  <2>1. /\ t \in Seq(Units) /\ Len(s) \in Nat /\ Len(t) = Len(s) + Len(a)
        /\ \A i \in 1 .. Len(s) : t[i] = s[i]
        /\ \A k \in 1 .. Len(a) : t[Len(s) + k] = a[k]
    BY <1>3, Joined
  <2> QED BY <1>3, <2>1
<1> HIDE DEF t
<1>7. /\ t \o p \in Seq(Units) /\ Len(t \o p) = Len(t) + n
      /\ \A i \in 1 .. Len(t) : (t \o p)[i] = t[i]
      /\ \A k \in 1 .. n : (t \o p)[Len(t) + k] = p[k]
  <2>1. /\ t \o p \in Seq(Units) /\ Len(t \o p) = Len(t) + Len(p)
        /\ \A i \in 1 .. Len(t) : (t \o p)[i] = t[i]
        /\ \A k \in 1 .. Len(p) : (t \o p)[Len(t) + k] = p[k]
    <3>1. t \in Seq(Units) /\ p \in Seq(Units)
      BY <1>4, <1>6
    <3> QED BY <3>1, Joined
  <2> QED BY <1>4, <2>1
<1>8. \A i \in 1 .. Len(s) : i \in 1 .. Len(t)
  BY <1>6
<1>9. \A k \in 1 .. 1 + body : Len(s) + k \in 1 .. Len(t)
  BY <1>6
<1>10. Grown(s, m, body, n) = t \o p
  BY <1>5 DEF t
<1> DEFINE w == Grown(s, m, body, n)
<1>11. w \in Seq(Units) /\ Len(w) = Len(s) + 1 + body + n
  BY <1>6, <1>7, <1>10
<1>12. \A i \in 1 .. Len(s) : w[i] = s[i]
  BY <1>6, <1>7, <1>8, <1>10
<1>13. \A k \in 1 .. 1 + body : w[Len(s) + k] = Unit(m, body, k)
  BY <1>3, <1>6, <1>7, <1>9, <1>10
<1>14. \A k \in 1 .. n : w[Len(s) + 1 + body + k] = Pad
  BY <1>4, <1>6, <1>7, <1>10
<1> HIDE DEF w
<1>15. GrowsTo(s, w, m, body, n)
  BY <1>6, <1>11, <1>12, <1>13, <1>14 DEF GrowsTo
<1> QED BY <1>15 DEF w

LEMMA HeaderKept ==
  ASSUME NEW S, NEW T, NEW n \in Nat, Len(S) \in Nat, Len(T) = Len(S) + n, n > 0,
         \A i \in 1 .. Len(S) : T[i] = S[i], T[Len(S) + 1].k = 1,
         NEW p, HeaderAt(S, p)
  PROVE  HeaderAt(T, p)
<1>1. p \in 0 .. Len(S) /\ (p < Len(S) => S[p + 1].k = 1)
  BY DEF HeaderAt
<1>2. CASE p < Len(S)
  <2>1. p + 1 \in 1 .. Len(S) /\ p \in 0 .. Len(T)
    BY <1>1, <1>2
  <2> QED BY <1>1, <1>2, <2>1 DEF HeaderAt
<1>3. CASE ~ (p < Len(S))
  <2>1. p = Len(S) /\ p \in 0 .. Len(T)
    BY <1>1, <1>3
  <2> QED BY <2>1 DEF HeaderAt
<1> QED BY <1>2, <1>3

LEMMA FramedGrows ==
  ASSUME NEW S \in Seq(Units), NEW m \in Message, NEW body \in Nat, NEW n \in Nat,
         NEW T, GrowsTo(S, T, m, body, n), Framed(S), body > 0 => m.op = "GET", m.op # "EOM" => n = 0,
         m.op = "EOM" => \E c \in Nat : /\ Start(c) < Len(S) + 1
                                        /\ Len(S) + 1 <= Start(c + 1)
                                        /\ Start(c + 1) = Len(S) + 1 + n
  PROVE  Framed(T) /\ \A p : HeaderAt(S, p) => HeaderAt(T, p)
<1> DEFINE L == Len(S)
<1>1. /\ T \in Seq(Units) /\ L \in Nat /\ Len(T) = L + 1 + body + n
      /\ \A i \in 1 .. L : T[i] = S[i]
      /\ \A k \in 1 .. 1 + body : T[L + k] = Unit(m, body, k)
      /\ \A k \in 1 .. n : T[L + 1 + body + k] = Pad
  BY DEF GrowsTo
<1>2. T[L + 1] = Unit(m, body, 1)
  BY <1>1
<1>3. T[L + 1].k = 1 /\ T[L + 1].m = m /\ T[L + 1].body = body
  BY <1>2 DEF Unit
<1>4. \A p : HeaderAt(S, p) => HeaderAt(T, p)
  <2>1. Len(T) = L + (1 + body + n) /\ 1 + body + n \in Nat /\ 1 + body + n > 0
    BY <1>1
  <2> QED BY <1>1, <1>3, <2>1, HeaderKept
<1>5. HeaderAt(T, 0)
  BY <1>4 DEF Framed
<1>6. ASSUME NEW i \in 1 .. L, T[i].k = 1
      PROVE  AnswerAt(T, i) /\ NextAt(T, i)
  <2>1. T[i] = S[i] /\ AnswerAt(S, i) /\ NextAt(S, i)
    BY <1>1, <1>6 DEF Framed
  <2>2. S[i] \in Units
    OBVIOUS
  <2>3. i + S[i].body \in 1 .. L /\ S[i].body \in Nat
    BY <2>1, <2>2 DEF AnswerAt, Units
  <2>4. i + S[i].body \in 1 .. Len(T)
    BY <1>1, <2>3
  <2>5. \A j \in 0 .. S[i].body : T[i + j] = S[i + j]
    <3> TAKE j \in 0 .. S[i].body
    <3>1. i + j \in 1 .. L
      BY <1>1, <2>3
    <3> QED BY <1>1, <3>1
  <2>6. AnswerAt(T, i)
    BY <2>1, <2>4, <2>5 DEF AnswerAt
  <2>7. NextAt(T, i)
    <3>1. ASSUME NEW p \in Nat, SkipTo(S, i, p) PROVE SkipTo(T, i, p)
      <4>0. HeaderAt(S, p) /\ p \in 0 .. L
        BY <3>1 DEF SkipTo, HeaderAt
      <4>1. HeaderAt(S, p) /\ HeaderAt(T, p) /\ p <= L
        BY <1>1, <1>4, <4>0
      <4>2. ASSUME NEW j \in i + 1 .. p PROVE T[j].k # 1
        <5>1. j \in 1 .. L
          BY <1>1, <4>1
        <5> QED BY <1>1, <3>1, <5>1 DEF SkipTo
      <4> QED BY <4>1, <4>2 DEF SkipTo
    <3>2. ASSUME NEW c \in Nat PROVE Start(c + 1) \in Nat
      <4>1. c + 1 \in Nat
        OBVIOUS
      <4> QED BY <4>1, Times
    <3> QED BY <1>4, <2>1, <3>1, <3>2 DEF NextAt
  <2> QED BY <2>6, <2>7
<1>7. AnswerAt(T, L + 1)
  <2>1. L + 1 + body \in 1 .. Len(T)
    BY <1>1
  <2>2. \A j \in 0 .. body : T[L + 1 + j] = Unit(m, body, j + 1)
    <3> TAKE j \in 0 .. body
    <3>1. j + 1 \in 1 .. 1 + body /\ L + 1 + j = L + (j + 1)
      BY <1>1
    <3> QED BY <1>1, <3>1
  <2>3. \A j \in 0 .. body : T[L + 1 + j].m = m /\ T[L + 1 + j].k = j + 1
    <3>1. \A k : Unit(m, body, k).m = m /\ Unit(m, body, k).k = k
      BY DEF Unit
    <3> QED BY <2>2, <3>1
  <2> QED BY <1>3, <2>1, <2>3 DEF AnswerAt
<1>8. NextAt(T, L + 1)
  <2>1. CASE m.op # "EOM"
    <3>1. L + 1 + body = Len(T) /\ Len(T) \in 0 .. Len(T) /\ ~ (Len(T) < Len(T))
      BY <1>1, <2>1
    <3>2. HeaderAt(T, L + 1 + body)
      BY <3>1 DEF HeaderAt
    <3> QED BY <1>3, <2>1, <3>2 DEF NextAt
  <2>2. CASE m.op = "EOM"
    <3>1. body = 0
      BY <2>2
    <3>2. PICK c \in Nat : /\ Start(c) < L + 1 /\ L + 1 <= Start(c + 1)
                           /\ Start(c + 1) = L + 1 + n
      BY <2>2
    <3>3. SkipTo(T, L + 1, Start(c + 1))
      <4>1. Start(c + 1) = Len(T) /\ Len(T) \in 0 .. Len(T) /\ ~ (Len(T) < Len(T))
        BY <1>1, <3>1, <3>2
      <4>2. ASSUME NEW j \in L + 2 .. Len(T) PROVE T[j].k # 1
        <5>1. PICK k \in 1 .. n : j = L + 1 + body + k
          <6>1. j - (L + 1 + body) \in 1 .. n /\ j = L + 1 + body + (j - (L + 1 + body))
            BY <1>1, <3>1
          <6> QED BY <6>1
        <5>2. T[j] = Pad
          BY <1>1, <5>1
        <5> QED BY <5>2 DEF Pad, Unit
      <4>3. (L + 1) + 1 = L + 2
        BY <1>1
      <4> QED BY <4>1, <4>2, <4>3 DEF HeaderAt, SkipTo
    <3>4. ASSUME NEW b \in Nat, Start(b) < L + 1, L + 1 <= Start(b + 1)
          PROVE  b = c
      <4>1. Start(b + 1) = Start(b) + BufSize /\ Start(c + 1) = Start(c) + BufSize
        BY Times
      <4>2. L + 1 \in Nat
        BY <1>1
      <4> QED BY <3>2, <3>4, <4>1, <4>2, OneWindow
    <3> QED BY <1>3, <2>2, <3>1, <3>3, <3>4 DEF NextAt
  <2> QED BY <2>1, <2>2
<1>9. ASSUME NEW i \in 1 .. Len(T), T[i].k = 1
      PROVE  i \in 1 .. L \/ i = L + 1
  <2>1. SUFFICES ASSUME i > L + 1 PROVE FALSE
    BY <1>1
  <2>2. CASE i <= L + 1 + body
    <3>1. PICK k \in 1 .. 1 + body : i = L + k
      <4>1. i - L \in 1 .. 1 + body /\ i = L + (i - L)
        BY <1>1, <2>1, <2>2
      <4> QED BY <4>1
    <3>2. T[i] = Unit(m, body, k)
      BY <1>1, <3>1
    <3>3. T[i].k = k
      BY <3>2 DEF Unit
    <3> QED BY <1>1, <1>9, <2>1, <3>1, <3>3
  <2>3. CASE i > L + 1 + body
    <3>1. PICK k \in 1 .. n : i = L + 1 + body + k
      <4>1. i - (L + 1 + body) \in 1 .. n /\ i = L + 1 + body + (i - (L + 1 + body))
        BY <1>1, <2>3
      <4> QED BY <4>1
    <3>2. T[i].k = 0
      BY <1>1, <3>1 DEF Pad, Unit
    <3> QED BY <1>9, <3>2
  <2> QED BY <1>1, <2>2, <2>3
<1>10. Framed(T)
  BY <1>5, <1>6, <1>7, <1>8, <1>9 DEF Framed
<1> QED BY <1>4, <1>10

LEMMA Shift ==
  ASSUME NEW x \in Nat, NEW o \in Nat, NEW p \in Nat, NEW l \in Nat, NEW i \in Nat,
         p + l = x + o
  PROVE  x + (o + i) = p + (l + i)
OBVIOUS

(* To us, read from the stream after p units, come t units of the window d *)
(* that begins after x units, behind its first o.                          *)
ReadOn(S, us, p, d, x, o, t, r) ==
  /\ us \in Seq(Units) /\ d \in Seq(Units) /\ x \in Nat /\ o \in Nat /\ t \in Nat
  /\ Len(d) = BufSize /\ o + t <= BufSize /\ PieceAt(S, d, x)
  /\ p \in Nat /\ p + Len(us) = x + o /\ PieceAt(S, us, p)
  /\ r = us \o SubSeq(d, o + 1, o + t)

LEMMA ReadUnits ==
  ASSUME NEW S, NEW us, NEW p, NEW d, NEW x, NEW o, NEW t, NEW r,
         ReadOn(S, us, p, d, x, o, t, r)
  PROVE  /\ r \in Seq(Units) /\ Len(r) = Len(us) + t
         /\ \A j \in 1 .. Len(us) : r[j] = us[j]
         /\ PieceAt(S, r, p)
<1>a. /\ us \in Seq(Units) /\ d \in Seq(Units) /\ x \in Nat /\ o \in Nat /\ t \in Nat
      /\ Len(d) = BufSize /\ o + t <= Len(d) /\ PieceAt(S, d, x)
      /\ p \in Nat /\ p + Len(us) = x + o /\ PieceAt(S, us, p)
      /\ r = us \o SubSeq(d, o + 1, o + t)
  BY DEF ReadOn
<1> DEFINE q == SubSeq(d, o + 1, o + t)
<1>0. r = us \o q
  BY <1>a
<1>1. BufSize \in Nat /\ Len(us) \in Nat
  BY <1>a, DaemonAssumption
<1>2. q \in Seq(Units) /\ Len(q) = t /\ \A i \in 1 .. t : q[i] = d[o + i]
  BY <1>a, Piece
<1> HIDE DEF q
<1>3. /\ r \in Seq(Units) /\ Len(r) = Len(us) + t
      /\ \A j \in 1 .. Len(us) : r[j] = us[j]
      /\ \A i \in 1 .. t : r[Len(us) + i] = q[i]
  <2>1. /\ r \in Seq(Units) /\ Len(r) = Len(us) + Len(q)
        /\ \A j \in 1 .. Len(us) : r[j] = us[j]
        /\ \A i \in 1 .. Len(q) : r[Len(us) + i] = q[i]
    <3>1. us \in Seq(Units) /\ q \in Seq(Units)
      BY <1>a, <1>2
    <3>2. /\ us \o q \in Seq(Units) /\ Len(us \o q) = Len(us) + Len(q)
          /\ \A j \in 1 .. Len(us) : (us \o q)[j] = us[j]
          /\ \A i \in 1 .. Len(q) : (us \o q)[Len(us) + i] = q[i]
      BY <3>1, Joined
    <3> QED BY <1>0, <3>2
  <2> QED BY <1>2, <2>1
<1>4. PieceAt(S, r, p)
  <2> SUFFICES ASSUME NEW j \in 1 .. Len(r) PROVE r[j] = S[p + j]
    BY DEF PieceAt
  <2>1. CASE j \in 1 .. Len(us)
    BY <1>a, <1>3, <2>1 DEF PieceAt
  <2>2. CASE j \notin 1 .. Len(us)
    <3>1. PICK i \in 1 .. t : j = Len(us) + i
      <4>1. j - Len(us) \in 1 .. t /\ j = Len(us) + (j - Len(us))
        BY <1>a, <1>1, <1>3, <2>2
      <4> QED BY <4>1
    <3>2. o + i \in 1 .. BufSize /\ x + (o + i) = p + j
      <4>1. o + i \in 1 .. BufSize /\ i \in Nat
        BY <1>a, <1>1
      <4>2. x + (o + i) = p + (Len(us) + i)
        <5>1. PICK l \in Nat : l = Len(us)
          BY <1>1
        <5>2. p + l = x + o
          BY <1>a, <5>1
        <5>3. i \in Nat
          OBVIOUS
        <5>4. x + (o + i) = p + (l + i)
          BY <1>a, <5>2, <5>3, Shift
        <5> QED BY <5>1, <5>4
      <4> QED BY <3>1, <4>1, <4>2
    <3>3. r[j] = d[o + i] /\ d[o + i] = S[x + (o + i)]
      BY <1>a, <1>2, <1>3, <3>1, <3>2 DEF PieceAt
    <3> QED BY <3>2, <3>3
  <2> QED BY <2>1, <2>2
<1> QED BY <1>1, <1>3, <1>4

-----------------------------------------------------------------------------
(* What a step keeps that leaves a part alone. *)

LEMMA AwayIs ==
  ASSUME RingInv
  PROVE  /\ Away \in Nat /\ Away <= NumBufs /\ wrEnq \in Pointers /\ wrDeq \in Pointers
         /\ wrDoneQ \in Seq(Buffers) /\ writeBaseQ \in Seq(Buffers)
         /\ Len(wrDoneQ) \in Nat /\ Len(writeBaseQ) \in Nat
         /\ RingAt(wrEnq, wrDeq, Away) /\ Queued(wrEnq, wrDoneQ, writeBaseQ)
         /\ Reading => /\ Away = Len(wrDoneQ) + Len(writeBaseQ) + 1
                       /\ currDst = Slot(wrEnq, Len(wrDoneQ) + Len(writeBaseQ))
         /\ ~ Reading => Away = Len(wrDoneQ) + Len(writeBaseQ)
         /\ currDst \in Buffers \cup {-1}
<1>1. RingTypes /\ AnswerRing
  BY DEF RingInv
<1>2. /\ wrDoneQ \in Seq(Buffers) /\ writeBaseQ \in Seq(Buffers)
      /\ wrEnq \in Pointers /\ wrDeq \in Pointers /\ currDst \in Buffers \cup {-1}
  BY <1>1 DEF RingTypes, Pointers
<1>3. Len(wrDoneQ) \in Nat /\ Len(writeBaseQ) \in Nat
  BY <1>2
<1>4. Away = IF Reading THEN Len(wrDoneQ) + Len(writeBaseQ) + 1
             ELSE Len(wrDoneQ) + Len(writeBaseQ)
  BY DEF Away
<1>5. Away \in Nat
  BY <1>3, <1>4
<1>6. RingAt(wrEnq, wrDeq, Away)
  BY <1>1 DEF AnswerRing, Away
<1>7. Away <= NumBufs
  BY <1>5, <1>6, Bound DEF RingAt
<1>8. /\ Queued(wrEnq, wrDoneQ, writeBaseQ)
      /\ Reading => currDst = Slot(wrEnq, Len(wrDoneQ) + Len(writeBaseQ))
  BY <1>1 DEF AnswerRing
<1> QED BY <1>2, <1>3, <1>4, <1>5, <1>6, <1>7, <1>8

LEMMA WrittenIs ==
  ASSUME RingInv, NEW N \in Nat
  PROVE  /\ Written(N) \in Nat /\ N <= Written(N) /\ Start(N) <= Start(Written(N))
         /\ NumBufs - Away \in Nat
<1>1. NumBufs - Away \in Nat
  BY AwayIs, Bound
<1>2. Written(N) \in Nat /\ N <= Written(N)
  <2>1. Len(wrDoneQ) \in Nat
    BY AwayIs
  <2> QED BY <1>1, <2>1 DEF Written
<1>3. Start(N) <= Start(Written(N))
  <2>1. CASE N = Written(N)
    <3>1. Start(N) \in Nat
      BY Times
    <3> QED BY <2>1, <3>1
  <2>2. CASE N < Written(N)
    <3>1. Start(N) + BufSize <= Start(Written(N))
      BY <1>2, <2>2, Monotone
    <3>2. BufSize \in Nat /\ Start(N) \in Nat /\ Start(Written(N)) \in Nat
      BY <1>2, Times, DaemonAssumption
    <3> QED BY <3>1, <3>2
  <2> QED BY <1>2, <2>1, <2>2
<1> QED BY <1>1, <1>2, <1>3

LEMMA WindowsFrame ==
  ASSUME NEW S, NEW N, Windows(S, N),
         UNCHANGED << currDst, wrEnq, wrDoneQ, writeBaseQ, dst, outQ >>,
         Reading' <=> Reading
  PROVE  Windows(S, N)'
<1>1. Away' = Away
  BY DEF Away
<1>2. Written(N)' = Written(N)
  BY <1>1 DEF Written
<1>3. \A b, c : Window(S, b, c)' <=> Window(S, b, c)
  BY DEF Window
<1> QED BY <1>1, <1>2, <1>3 DEF Windows

(* The steps that leave the stream and its reader alone. *)
LEMMA StreamQuiet ==
  ASSUME StreamInv, UNCHANGED << decode, wrEnq, wrDoneQ, writeBaseQ, dst, outQ >>,
         devQ' \in Seq(Message)
  PROVE  StreamInv'
<1>1. UNCHANGED << dpc, part, need, units, currDst, dstOff >>
  BY DEF decode
<1>2. StreamTypes'
  BY <1>1 DEF StreamInv, StreamTypes
<1>3. Reading' <=> Reading
  BY <1>1 DEF Reading
<1>4. ASSUME NEW S \in Seq(Units), NEW N \in Nat, StreamInvFor(S, N)
      PROVE  StreamInvFor(S, N)'
  <2>1. Windows(S, N)'
    BY <1>1, <1>3, <1>4, WindowsFrame DEF StreamInvFor
  <2>2. Pos(N)' = Pos(N)
    BY <1>1 DEF Pos
  <2>3. ReaderAt(S, N)'
    BY <1>1, <1>4, <2>2 DEF StreamInvFor, ReaderAt
  <2> QED BY <1>4, <2>1, <2>3 DEF StreamInvFor
<1> QED BY <1>2, <1>4 DEF StreamInv

-----------------------------------------------------------------------------
(* The response thread. *)

LEMMA ReaderPlace ==
  ASSUME RingInv, StreamTypes, NEW S \in Seq(Units), NEW N \in Nat,
         StreamInvFor(S, N)
  PROVE  /\ Start(N) \in Nat /\ Start(N) <= Len(S) /\ Len(S) \in Nat
         /\ BufSize \in Nat /\ BufSize > 0 /\ Len(units) \in Nat
         /\ dstOff \in Nat /\ dstOff <= BufSize
         /\ Reading => /\ N - 1 \in Nat /\ Start(N) = Start(N - 1) + BufSize
                       /\ Start(N - 1) \in Nat /\ Window(S, currDst, N - 1)
                       /\ dst[currDst] \in Seq(Units)
<1>1. Start(N) \in Nat /\ BufSize \in Nat \ {0} /\ Len(S) \in Nat
  BY Times, DaemonAssumption
<1>2. Start(N) <= Len(S)
  <2>1. Len(S) = Start(Written(N)) + Len(outQ)
    BY DEF StreamInvFor, Windows
  <2>2. Written(N) \in Nat /\ Start(N) <= Start(Written(N))
    BY WrittenIs
  <2>3. Start(Written(N)) \in Nat
    BY <2>2, Times
  <2>4. Len(outQ) \in Nat
    BY DEF StreamTypes
  <2> QED BY <1>1, <2>1, <2>2, <2>3, <2>4
<1>3. Len(units) \in Nat /\ dstOff \in Nat /\ dstOff <= BufSize
  BY <1>1 DEF StreamTypes
<1>4. ASSUME Reading
      PROVE  /\ N - 1 \in Nat /\ Start(N) = Start(N - 1) + BufSize
             /\ Start(N - 1) \in Nat /\ Window(S, currDst, N - 1)
             /\ dst[currDst] \in Seq(Units)
  <2>1. N > 0 /\ Window(S, currDst, N - 1)
    BY <1>4 DEF StreamInvFor, Windows
  <2>2. N - 1 \in Nat /\ (N - 1) + 1 = N
    BY <2>1
  <2>3. Start((N - 1) + 1) = Start(N - 1) + BufSize /\ Start(N - 1) \in Nat
    BY <2>2, Times
  <2>4. currDst \in Buffers
    BY <1>4, AwayIs DEF Reading
  <2> QED BY <2>1, <2>2, <2>3, <2>4 DEF StreamTypes
<1> QED BY <1>1, <1>2, <1>3, <1>4

LEMMA ReadRestStream ==
  ASSUME RingInv, StreamTypes, NEW S \in Seq(Units), NEW N \in Nat,
         StreamInvFor(S, N), ReadRest
  PROVE  StreamTypes' /\ StreamInvFor(S, N)' /\ ReadTo(N)' = ReadTo(N)
<1>1. /\ dpc = "read" /\ dstOff + need < BufSize
      /\ units' = units \o SubSeq(dst[currDst], dstOff + 1, dstOff + need)
      /\ dstOff' = dstOff + need /\ need' = 0 /\ dpc' = "handle"
      /\ UNCHANGED << part, currDst, wrEnq, wrDoneQ, writeBaseQ, dst, outQ, devQ >>
  BY DEF ReadRest, shared, device
<1>2. /\ Framed(S) /\ Windows(S, N) /\ ReaderAt(S, N)
      /\ need \in Nat /\ units \in Seq(Units)
  BY DEF StreamInvFor, StreamTypes
<1>3. /\ Start(N) \in Nat /\ Start(N) <= Len(S) /\ Len(S) \in Nat
      /\ BufSize \in Nat /\ BufSize > 0 /\ Len(units) \in Nat
      /\ dstOff \in Nat /\ dstOff <= BufSize
  BY ReaderPlace
<1>4. currDst # -1
  <2>1. dstOff # BufSize
    BY <1>1, <1>2, <1>3
  <2> QED BY <1>1, <2>1 DEF StreamTypes
<1>5. Reading /\ Reading'
  BY <1>1, <1>4 DEF Reading
<1>6. /\ N - 1 \in Nat /\ Start(N) = Start(N - 1) + BufSize /\ Start(N - 1) \in Nat
      /\ Window(S, currDst, N - 1) /\ dst[currDst] \in Seq(Units)
  BY <1>5, ReaderPlace
<1>7. PICK p \in Nat : /\ Pos(N) - Len(units) = p /\ HeaderAt(S, p)
                       /\ PieceAt(S, units, p)
  <2>1. HeaderAt(S, Pos(N) - Len(units)) /\ PieceAt(S, units, Pos(N) - Len(units))
    BY <1>1, <1>2 DEF ReaderAt
  <2>2. Pos(N) - Len(units) \in Nat
    BY <2>1 DEF HeaderAt
  <2> QED BY <2>1, <2>2
<1>8. Pos(N) = Start(N - 1) + dstOff /\ p + Len(units) = Start(N - 1) + dstOff
  <2>1. Pos(N) = Start(N) + dstOff - BufSize
    BY <1>1 DEF Pos
  <2>2. Start(N) + dstOff - BufSize = Start(N - 1) + dstOff
    BY <1>3, <1>6
  <2>3. PICK y \in Nat : y = Start(N - 1) + dstOff
    <3>1. \A a \in Nat, b \in Nat : a + b \in Nat
      OBVIOUS
    <3>2. Start(N - 1) \in Nat /\ dstOff \in Nat
      BY <1>3, <1>6
    <3> QED BY <3>1, <3>2
  <2>4. PICK l \in Nat : l = Len(units)
    BY <1>3
  <2>5. y - l = p
    BY <1>7, <2>1, <2>2, <2>3, <2>4
  <2>6. p + l = y
    BY <2>5
  <2> QED BY <2>1, <2>2, <2>3, <2>4, <2>6
<1>9. /\ units' \in Seq(Units) /\ Len(units') = Len(units) + need
      /\ \A j \in 1 .. Len(units) : units'[j] = units[j]
      /\ PieceAt(S, units', p)
  <2> DEFINE d == dst[currDst]
             x == Start(N - 1)
  <2>1. d \in Seq(Units) /\ x \in Nat /\ Len(d) = BufSize
        /\ PieceAt(S, d, x)
    BY <1>6 DEF Window
  <2>2. dstOff \in Nat /\ dstOff + need <= BufSize
    BY <1>1, <1>2, <1>3
  <2>3. units' = units \o SubSeq(d, dstOff + 1, dstOff + need) /\ p + Len(units) = x + dstOff
    BY <1>1, <1>8
  <2>4. units \in Seq(Units) /\ PieceAt(S, units, p)
    BY <1>2, <1>7
  <2>5. need \in Nat
    BY <1>2
  <2> HIDE DEF d, x
  <2>6. ReadOn(S, units, p, d, x, dstOff, need, units')
    BY <1>3, <2>1, <2>2, <2>3, <2>4, <2>5 DEF ReadOn
  <2> QED BY <2>6, ReadUnits
<1>10. StreamTypes'
  <2>1. dstOff' \in 0 .. BufSize
    BY <1>1, <1>2, <1>3
  <2> QED BY <1>1, <1>4, <1>9, <2>1 DEF StreamTypes
<1>11. Windows(S, N)'
  BY <1>1, <1>2, <1>5, WindowsFrame
<1>12. ReaderAt(S, N)' /\ ReadTo(N)' = ReadTo(N)
  <2>1. Pos(N)' = Start(N) + dstOff' - BufSize
    BY <1>1 DEF Pos
  <2>2. PICK l \in Nat : l = Len(units)
    BY <1>3
  <2>3. Pos(N)' - Len(units') = p /\ Pos(N)' <= Len(S)
    <3>1. Start(N) + (dstOff + need) - BufSize = (p + l) + need
      <4>1. p + l = Start(N - 1) + dstOff
        BY <1>8, <2>2
      <4>2. Start(N) + (dstOff + need) - BufSize = (Start(N - 1) + dstOff) + need
        BY <1>2, <1>3, <1>6
      <4> QED BY <4>1, <4>2
    <3>2. Pos(N)' = (p + l) + need
      BY <1>1, <2>1, <3>1
    <3>3. (p + l) + need <= Len(S)
      BY <1>1, <1>2, <1>3, <3>1
    <3>4. Len(units') = l + need
      BY <1>9, <2>2
    <3>5. ((p + l) + need) - (l + need) = p
      BY <1>2, <2>2
    <3> QED BY <3>2, <3>3, <3>4, <3>5
  <2>4. part' = "body" => units' # << >> /\ units'[1] = units[1]
    <3>1. SUFFICES ASSUME part = "body" PROVE units' # << >> /\ units'[1] = units[1]
      BY <1>1
    <3>2. 1 \in 1 .. Len(units)
      BY <1>1, <1>2, <1>3, <3>1 DEF ReaderAt
    <3> QED BY <1>2, <1>3, <1>9, <3>2
  <2>5. Len(units') + need' = IF part' = "body" THEN 1 + units'[1].body ELSE 1
    <3>1. Len(units) + need = IF part = "body" THEN 1 + units[1].body ELSE 1
      BY <1>1, <1>2 DEF ReaderAt
    <3>2. Len(units') + need' = Len(units) + need
      BY <1>1, <1>2, <1>3, <1>9
    <3> QED BY <1>1, <2>4, <3>1, <3>2
  <2>6. ReadTo(N)' = ReadTo(N)
    BY <1>1, <1>7, <2>3 DEF ReadTo
  <2> QED BY <1>1, <1>7, <1>9, <2>3, <2>4, <2>5, <2>6 DEF ReaderAt
<1> QED BY <1>2, <1>10, <1>11, <1>12 DEF StreamInvFor

(* The buffers of the answer ring are different ones. *)
LEMMA Apart ==
  ASSUME RingInv
  PROVE  /\ \A j \in 0 .. NumBufs - Away - 1 :
              /\ Slot(wrEnq, Away + j) \in Buffers
              /\ Reading => Slot(wrEnq, Away + j) # currDst
              /\ writeBaseQ # << >> => Slot(wrEnq, Away + j) # Head(writeBaseQ)
         /\ \A k \in 1 .. Len(wrDoneQ) :
              /\ wrDoneQ[k] \in Buffers
              /\ Reading => wrDoneQ[k] # currDst
              /\ writeBaseQ # << >> => wrDoneQ[k] # Head(writeBaseQ)
         /\ Reading /\ writeBaseQ # << >> => currDst # Head(writeBaseQ)
<1>1. PICK d \in Nat, b \in Nat, a \in Nat :
        /\ d = Len(wrDoneQ) /\ b = Len(writeBaseQ) /\ a = Away /\ a <= NumBufs
        /\ d + b <= a /\ (Reading => a = d + b + 1)
  BY AwayIs
<1>2. /\ wrEnq \in Pointers /\ Queued(wrEnq, wrDoneQ, writeBaseQ)
      /\ writeBaseQ \in Seq(Buffers) /\ wrDoneQ \in Seq(Buffers)
  BY AwayIs
<1>3. Reading => currDst = Slot(wrEnq, d + b)
  BY <1>1, AwayIs
<1>4. writeBaseQ # << >> => b > 0 /\ Head(writeBaseQ) = Slot(wrEnq, d)
  <2>1. SUFFICES ASSUME writeBaseQ # << >>
                 PROVE  b > 0 /\ Head(writeBaseQ) = Slot(wrEnq, d)
    OBVIOUS
  <2>2. Len(writeBaseQ) > 0 /\ Head(writeBaseQ) = writeBaseQ[1] /\ 1 \in 1 .. Len(writeBaseQ)
    BY <1>2, <2>1
  <2>3. writeBaseQ[1] = Slot(wrEnq, d + 1 - 1)
    BY <1>1, <1>2, <2>2 DEF Queued
  <2>4. d + 1 - 1 = d
    OBVIOUS
  <2> QED BY <1>1, <2>2, <2>3, <2>4
<1>5. \A i \in 0 .. NumBufs - 1, j \in 0 .. NumBufs - 1 :
        Slot(wrEnq, i) \in Buffers /\ (i # j => Slot(wrEnq, i) # Slot(wrEnq, j))
  BY <1>2, SlotIs
<1>6. ASSUME NEW j \in 0 .. NumBufs - Away - 1
      PROVE  /\ Slot(wrEnq, Away + j) \in Buffers
             /\ Reading => Slot(wrEnq, Away + j) # currDst
             /\ writeBaseQ # << >> => Slot(wrEnq, Away + j) # Head(writeBaseQ)
  <2>1. a + j \in 0 .. NumBufs - 1
    BY <1>1, Bound
  <2>2. Slot(wrEnq, a + j) \in Buffers
    BY <1>5, <2>1
  <2>3. Reading => Slot(wrEnq, a + j) # Slot(wrEnq, d + b)
    <3>1. Reading => d + b \in 0 .. NumBufs - 1 /\ a + j # d + b
      BY <1>1, Bound
    <3> QED BY <1>5, <2>1, <3>1
  <2>4. writeBaseQ # << >> => Slot(wrEnq, a + j) # Slot(wrEnq, d)
    <3>1. b > 0 => d \in 0 .. NumBufs - 1 /\ a + j # d
      BY <1>1, Bound
    <3> QED BY <1>4, <1>5, <2>1, <3>1
  <2> QED BY <1>1, <1>3, <1>4, <2>2, <2>3, <2>4
<1>7. ASSUME NEW k \in 1 .. Len(wrDoneQ)
      PROVE  /\ wrDoneQ[k] \in Buffers
             /\ Reading => wrDoneQ[k] # currDst
             /\ writeBaseQ # << >> => wrDoneQ[k] # Head(writeBaseQ)
  <2>1. wrDoneQ[k] = Slot(wrEnq, k - 1) /\ wrDoneQ[k] \in Buffers
    BY <1>2 DEF Queued
  <2>2. k - 1 \in 0 .. NumBufs - 1 /\ k - 1 # d /\ k - 1 # d + b
    BY <1>1, Bound
  <2>3. Reading => wrDoneQ[k] # Slot(wrEnq, d + b)
    <3>1. Reading => d + b \in 0 .. NumBufs - 1
      BY <1>1, Bound
    <3> QED BY <1>5, <2>1, <2>2, <3>1
  <2>4. writeBaseQ # << >> => wrDoneQ[k] # Slot(wrEnq, d)
    <3>1. b > 0 => d \in 0 .. NumBufs - 1
      BY <1>1, Bound
    <3> QED BY <1>4, <1>5, <2>1, <2>2, <3>1
  <2> QED BY <1>3, <1>4, <2>1, <2>3, <2>4
<1>8. Reading /\ writeBaseQ # << >> => currDst # Head(writeBaseQ)
  <2>1. Reading /\ b > 0 =>
          d \in 0 .. NumBufs - 1 /\ d + b \in 0 .. NumBufs - 1 /\ d # d + b
    BY <1>1, Bound
  <2> QED BY <1>3, <1>4, <1>5, <2>1
<1> QED BY <1>6, <1>7, <1>8

LEMMA ReadFullStream ==
  ASSUME RingInv, StreamTypes, NEW S \in Seq(Units), NEW N \in Nat,
         StreamInvFor(S, N), ReadFull
  PROVE  StreamTypes' /\ StreamInvFor(S, N)' /\ ReadTo(N)' = ReadTo(N)
<1>1. /\ dpc = "read" /\ dpc' = "getBuffer" /\ dstOff' = 0
      /\ UNCHANGED << part, currDst, wrEnq, wrDoneQ, outQ, devQ >>
      /\ dstOff + need >= BufSize
  BY DEF ReadFull, shared
<1>2. /\ Framed(S) /\ Windows(S, N) /\ ReaderAt(S, N)
      /\ need \in Nat /\ units \in Seq(Units)
  BY DEF StreamInvFor, StreamTypes
<1>3. /\ Start(N) \in Nat /\ Start(N) <= Len(S) /\ Len(S) \in Nat
      /\ BufSize \in Nat /\ BufSize > 0 /\ Len(units) \in Nat
      /\ dstOff \in Nat /\ dstOff <= BufSize
  BY ReaderPlace
<1>4. Pos(N) = Start(N) + dstOff - BufSize /\ Pos(N)' = Start(N)
  BY <1>1 DEF Pos
<1>5. /\ HeaderAt(S, Pos(N) - Len(units)) /\ PieceAt(S, units, Pos(N) - Len(units))
      /\ part = "body" => units # << >>
      /\ Len(units) + need = IF part = "body" THEN 1 + units[1].body ELSE 1
  BY <1>1, <1>2 DEF ReaderAt
<1>6. ~ Reading'
  BY <1>1 DEF Reading
<1>7. CASE currDst = -1
  <2>1. UNCHANGED << units, need, writeBaseQ, dst >>
    BY <1>1, <1>7 DEF ReadFull
  <2>2. dstOff = BufSize
    BY <1>1, <1>7 DEF StreamTypes
  <2>3. Pos(N) = Start(N)
    BY <1>3, <1>4, <2>2
  <2>4. StreamTypes'
    BY <1>1, <1>3, <1>7, <2>1 DEF StreamTypes
  <2>5. Reading' <=> Reading
    BY <1>6, <1>7 DEF Reading
  <2>6. Windows(S, N)'
    BY <1>1, <1>2, <2>1, <2>5, WindowsFrame
  <2>7. ReaderAt(S, N)'
    BY <1>1, <1>3, <1>4, <1>5, <2>1, <2>3 DEF ReaderAt
  <2>8. ReadTo(N)' = ReadTo(N)
    BY <1>1, <1>4, <2>1, <2>3 DEF ReadTo
  <2> QED BY <1>2, <2>4, <2>6, <2>7, <2>8 DEF StreamInvFor
<1>8. CASE currDst # -1
  <2> DEFINE t == BufSize - dstOff
  <2>1. /\ units' = units \o SubSeq(dst[currDst], dstOff + 1, BufSize)
        /\ need' = need - t
        /\ writeBaseQ' = Append(writeBaseQ, currDst)
        /\ dst' = [ dst EXCEPT ![currDst] = << >> ]
    BY <1>1, <1>8 DEF ReadFull
  <2>2. t \in Nat /\ dstOff + t = BufSize /\ need' \in Nat /\ need' + t = need
    BY <1>1, <1>2, <1>3, <2>1
  <2> HIDE DEF t
  <2>3. Reading
    BY <1>1, <1>8 DEF Reading
  <2>4. /\ Start(N) = Start(N - 1) + BufSize /\ Start(N - 1) \in Nat
        /\ Window(S, currDst, N - 1) /\ dst[currDst] \in Seq(Units)
    BY <2>3, ReaderPlace
  <2>5. PICK p \in Nat : Pos(N) - Len(units) = p
    BY <1>5 DEF HeaderAt
  <2>6. p + Len(units) = Start(N - 1) + dstOff
    <3>1. PICK l \in Nat : l = Len(units)
      BY <1>3
    <3>2. PICK y \in Nat : y = Start(N - 1) + dstOff
      BY <1>3, <2>4
    <3>3. Start(N) + dstOff - BufSize = Start(N - 1) + dstOff
      BY <1>3, <2>4
    <3>4. y - l = p
      BY <1>4, <2>5, <3>1, <3>2, <3>3
    <3>5. p + l = y
      BY <3>4
    <3> QED BY <3>1, <3>2, <3>5
  <2>7. /\ units' \in Seq(Units) /\ Len(units') = Len(units) + t
        /\ \A j \in 1 .. Len(units) : units'[j] = units[j]
        /\ PieceAt(S, units', p)
    <3>1. ReadOn(S, units, p, dst[currDst], Start(N - 1), dstOff, t, units')
      <4>1. Len(dst[currDst]) = BufSize /\ PieceAt(S, dst[currDst], Start(N - 1))
        BY <2>4 DEF Window
      <4>2. dstOff + t <= BufSize
        BY <1>3, <2>2
      <4>3. PieceAt(S, units, p)
        BY <1>5, <2>5
      <4> QED BY <1>2, <1>3, <2>1, <2>2, <2>4, <2>6, <4>1, <4>2, <4>3 DEF ReadOn
    <3> QED BY <3>1, ReadUnits
  <2>8. currDst \in Buffers
    BY <1>8, AwayIs
  <2>9. dst' \in [ Buffers -> Seq(Units) ] /\ \A b \in Buffers : b # currDst => dst'[b] = dst[b]
    <3>1. dst \in [ Buffers -> Seq(Units) ] /\ << >> \in Seq(Units)
      BY DEF StreamTypes
    <3> QED BY <2>1, <3>1
  <2>10. StreamTypes'
    BY <1>1, <1>3, <1>8, <2>2, <2>7, <2>9 DEF StreamTypes
  <2>11. Away' = Away /\ Written(N)' = Written(N)
    <3>1. Len(writeBaseQ') = Len(writeBaseQ) + 1 /\ Len(wrDoneQ') = Len(wrDoneQ)
      BY <1>1, <2>1, AwayIs
    <3>2. Away' = Len(wrDoneQ') + Len(writeBaseQ')
      BY <1>6 DEF Away
    <3>3. Away = Len(wrDoneQ) + Len(writeBaseQ) + 1
          /\ Len(wrDoneQ) \in Nat /\ Len(writeBaseQ) \in Nat
      BY <2>3, AwayIs
    <3>4. Away' = Away
      BY <3>1, <3>2, <3>3
    <3> QED BY <1>1, <3>4 DEF Written
  <2>12. Windows(S, N)'
    <3>1. \A c : \A b \in Buffers : b # currDst /\ Window(S, b, c) => Window(S, b, c)'
      BY <2>9 DEF Window
    <3>2. \A j \in 0 .. NumBufs - Away - 1 : Window(S, Slot(wrEnq, Away + j), N + j)'
      <4> TAKE j \in 0 .. NumBufs - Away - 1
      <4>1. Slot(wrEnq, Away + j) \in Buffers /\ Slot(wrEnq, Away + j) # currDst
        BY <2>3, Apart
      <4>2. Window(S, Slot(wrEnq, Away + j), N + j)
        BY <1>2 DEF Windows
      <4>3. Slot(wrEnq, Away + j)' = Slot(wrEnq, Away + j)
        BY <1>1, <2>11
      <4> QED BY <3>1, <4>1, <4>2, <4>3
    <3>3. \A k \in 1 .. Len(wrDoneQ) : Window(S, wrDoneQ[k], N + (NumBufs - Away) + k - 1)'
      <4> TAKE k \in 1 .. Len(wrDoneQ)
      <4>1. wrDoneQ[k] \in Buffers /\ wrDoneQ[k] # currDst
        BY <2>3, Apart
      <4>2. Window(S, wrDoneQ[k], N + (NumBufs - Away) + k - 1)
        BY <1>2 DEF Windows
      <4> QED BY <1>1, <2>11, <3>1, <4>1, <4>2
    <3> QED BY <1>1, <1>2, <1>6, <2>11, <3>2, <3>3 DEF Windows
  <2>13. ReaderAt(S, N)' /\ ReadTo(N)' = ReadTo(N)
    <3>1. PICK l \in Nat : l = Len(units)
      BY <1>3
    <3>2. Pos(N)' - Len(units') = p
      <4>1. Start(N) = (p + l) + t
        <5>1. Start(N - 1) + BufSize = (Start(N - 1) + dstOff) + t
          <6>1. \A x \in Nat, o \in Nat, u \in Nat : x + (o + u) = (x + o) + u
            OBVIOUS
          <6>2. Start(N - 1) \in Nat /\ dstOff \in Nat /\ t \in Nat
            BY <1>3, <2>2, <2>4
          <6> QED BY <2>2, <6>1, <6>2
        <5> QED BY <2>4, <2>6, <3>1, <5>1
      <4>2. Len(units') = l + t
        BY <2>7, <3>1
      <4>3. ((p + l) + t) - (l + t) = p
        BY <2>2
      <4> QED BY <1>4, <4>1, <4>2, <4>3
    <3>3. part' = "body" => units' # << >> /\ units'[1] = units[1]
      <4>1. SUFFICES ASSUME part = "body" PROVE units' # << >> /\ units'[1] = units[1]
        BY <1>1
      <4>2. 1 \in 1 .. Len(units)
        BY <1>2, <1>5, <4>1
      <4>3. Len(units') > 0
        BY <1>3, <2>2, <2>7, <4>2
      <4> QED BY <2>7, <4>2, <4>3
    <3>4. Len(units') + need' = IF part' = "body" THEN 1 + units'[1].body ELSE 1
      <4>1. Len(units') + need' = Len(units) + need
        BY <1>3, <2>2, <2>7
      <4> QED BY <1>1, <1>5, <3>3, <4>1
    <3>5. ReadTo(N)' = ReadTo(N)
      BY <1>1, <2>5, <3>2 DEF ReadTo
    <3> QED BY <1>1, <1>3, <1>4, <1>5, <2>5, <2>7, <3>2, <3>3, <3>4, <3>5 DEF ReaderAt
  <2> QED BY <1>2, <2>10, <2>12, <2>13 DEF StreamInvFor
<1> QED BY <1>7, <1>8

LEMMA waitIdleWriteBufferStream ==
  ASSUME RingInv, StreamTypes, NEW S \in Seq(Units), NEW N \in Nat,
         StreamInvFor(S, N), waitIdleWriteBuffer
  PROVE  StreamTypes' /\ StreamInvFor(S, N + 1)' /\ ReadTo(N + 1)' = ReadTo(N)
<1>1. /\ dpc = "getBuffer" /\ dpc' = (IF need > 0 THEN "read" ELSE "handle")
      /\ wrEnq # wrDeq /\ currDst' = wrDeq % NumBufs
      /\ UNCHANGED << part, need, units, dstOff, wrEnq, wrDoneQ, writeBaseQ, dst,
                      outQ, devQ >>
  BY DEF waitIdleWriteBuffer, device
<1>2. /\ Framed(S) /\ Windows(S, N) /\ ReaderAt(S, N) /\ need \in Nat
      /\ dstOff = 0
  BY <1>1 DEF StreamInvFor, StreamTypes
<1>3. ~ Reading
  BY <1>1 DEF Reading
<1>4. /\ Away \in Nat /\ Away = Len(wrDoneQ) + Len(writeBaseQ)
      /\ wrEnq \in Pointers /\ wrDeq \in Pointers /\ RingAt(wrEnq, wrDeq, Away)
      /\ Len(wrDoneQ) \in Nat /\ Len(writeBaseQ) \in Nat
  BY <1>3, AwayIs
<1>5. Away < NumBufs /\ currDst' = Slot(wrEnq, Away)
  BY <1>1, <1>4, Take
<1>6. currDst' \in Buffers
  <2>1. Away \in 0 .. NumBufs - 1
    BY <1>4, <1>5, Bound
  <2> QED BY <1>4, <1>5, <2>1, SlotIs
<1>7. Reading'
  <2>1. currDst' # -1
    BY <1>6, Bound DEF Buffers
  <2> QED BY <1>1, <2>1 DEF Reading
<1>8. Away' = Away + 1
  <2>1. Away' = Len(wrDoneQ') + Len(writeBaseQ') + 1
    BY <1>7 DEF Away
  <2> QED BY <1>1, <1>4, <2>1
<1>9. PICK a \in Nat : a = Away /\ a < NumBufs /\ Away' = a + 1
  BY <1>4, <1>5, <1>8
<1>10. PICK d \in Nat : d = Len(wrDoneQ) /\ Len(wrDoneQ') = d
  BY <1>1, <1>4
<1>11. Written(N + 1)' = Written(N)
  <2>1. (N + 1) + (NumBufs - (a + 1)) + d = N + (NumBufs - a) + d
    BY <1>9, <1>10, Bound
  <2>2. Written(N + 1)' = (N + 1) + (NumBufs - Away') + Len(wrDoneQ')
    BY DEF Written
  <2> QED BY <1>9, <1>10, <2>1, <2>2 DEF Written
<1>12. \A b, c : Window(S, b, c) => Window(S, b, c)'
  BY <1>1 DEF Window
<1>13. Windows(S, N + 1)'
  <2>1. N + 1 > 0 /\ Window(S, currDst, (N + 1) - 1)'
    <3>1. Window(S, Slot(wrEnq, a + 0), N + 0)
      <4>1. 0 \in 0 .. NumBufs - a - 1
        BY <1>9, Bound
      <4> QED BY <1>2, <1>9, <4>1 DEF Windows
    <3>2. a + 0 = a /\ N + 0 = N /\ (N + 1) - 1 = N /\ N + 1 > 0
      OBVIOUS
    <3>3. PICK b \in Buffers : b = currDst'
      BY <1>6
    <3>4. Window(S, b, N)
      BY <1>5, <1>9, <3>1, <3>2, <3>3
    <3>5. Window(S, b, N)'
      BY <1>12, <3>4
    <3>6. Window(S, currDst, N)'
      BY <3>3, <3>5 DEF Window
    <3> QED BY <3>2, <3>6
  <2>2. \A j \in 0 .. NumBufs - Away' - 1 : Window(S, Slot(wrEnq, Away + j), (N + 1) + j)'
    <3> TAKE j \in 0 .. NumBufs - Away' - 1
    <3>1. j + 1 \in 0 .. NumBufs - a - 1 /\ a + (j + 1) = (a + 1) + j
          /\ N + (j + 1) = (N + 1) + j
      BY <1>9, Bound
    <3>2. Window(S, Slot(wrEnq, a + (j + 1)), N + (j + 1))
      BY <1>2, <1>9, <3>1 DEF Windows
    <3>3. PICK b : b = Slot(wrEnq', Away' + j) /\ b = Slot(wrEnq, a + (j + 1))
      BY <1>1, <1>9, <3>1
    <3>4. Window(S, b, (N + 1) + j)'
      BY <1>12, <3>1, <3>2, <3>3
    <3> QED BY <3>3, <3>4 DEF Window
  <2>3. \A k \in 1 .. Len(wrDoneQ') :
          Window(S, wrDoneQ[k], (N + 1) + (NumBufs - Away) + k - 1)'
    <3> TAKE k \in 1 .. Len(wrDoneQ')
    <3>1. (N + 1) + (NumBufs - (a + 1)) + k - 1 = N + (NumBufs - a) + k - 1
      BY <1>9, Bound
    <3>2. Window(S, wrDoneQ[k], N + (NumBufs - a) + k - 1)
      BY <1>2, <1>9, <1>10 DEF Windows
    <3>3. PICK b, c : b = wrDoneQ[k] /\ c = N + (NumBufs - a) + k - 1
      OBVIOUS
    <3>4. Window(S, b, c)'
      BY <1>12, <3>2, <3>3
    <3>5. b = wrDoneQ'[k] /\ c = (N + 1) + (NumBufs - Away') + k - 1
      BY <1>1, <1>9, <3>1, <3>3
    <3> QED BY <3>4, <3>5 DEF Window
  <2>4. Len(S) = Start(Written(N)) + Len(outQ) /\ PieceAt(S, outQ, Start(Written(N)))
    BY <1>2 DEF Windows
  <2> QED BY <1>1, <1>11, <2>1, <2>2, <2>3, <2>4 DEF Windows
<1>14. StreamTypes'
  <2>1. currDst' # -1
    BY <1>7 DEF Reading
  <2> QED BY <1>1, <1>2, <2>1 DEF StreamTypes
<1>15. ReaderAt(S, N + 1)' /\ ReadTo(N + 1)' = ReadTo(N)
  <2>1. Pos(N) = Start(N) /\ Pos(N + 1)' = Start(N + 1) + 0 - BufSize
    BY <1>1, <1>2 DEF Pos
  <2>2. Pos(N + 1)' = Pos(N)
    <3>1. Start(N + 1) = Start(N) + BufSize /\ Start(N) \in Nat /\ BufSize \in Nat
      BY Times, DaemonAssumption
    <3> QED BY <2>1, <3>1
  <2> QED BY <1>1, <1>2, <2>2 DEF ReaderAt, ReadTo
<1> QED BY <1>2, <1>13, <1>14, <1>15 DEF StreamInvFor

(* What is read and handled is an answer, and the stream goes on where it  *)
(* ends.                                                                   *)
LEMMA HandledAnswer ==
  ASSUME RingInv, StreamTypes, NEW S \in Seq(Units), NEW N \in Nat,
         StreamInvFor(S, N), dpc = "handle"
  PROVE  \E i \in 1 .. Len(S) :
           /\ Pos(N) = i + Len(units) - 1 /\ Len(units) \in Nat \ {0}
           /\ Pos(N) \in 1 .. Len(S)
           /\ S[i].k = 1 /\ AnswerAt(S, i) /\ NextAt(S, i) /\ Header = S[i]
           /\ S[i].body \in Nat
           /\ Len(units) = IF part = "body" THEN 1 + S[i].body ELSE 1
           /\ \A k \in 1 .. Len(units) : units[k] = S[i + (k - 1)]
<1>1. Framed(S) /\ ReaderAt(S, N) /\ need = 0 /\ units \in Seq(Units)
  BY DEF StreamInvFor, StreamTypes
<1>2. PICK l \in Nat : l = Len(units)
  BY <1>1
<1>3. /\ HeaderAt(S, Pos(N) - l) /\ PieceAt(S, units, Pos(N) - l) /\ Pos(N) <= Len(S)
      /\ part = "body" => units # << >>
      /\ l + 0 = IF part = "body" THEN 1 + units[1].body ELSE 1
  BY <1>1, <1>2 DEF ReaderAt
<1>4. l > 0
  BY <1>1, <1>2, <1>3
<1>5. units[1] \in Units
  BY <1>1, <1>2, <1>4
<1>6. PICK p \in Nat : p = Pos(N) - l /\ HeaderAt(S, p) /\ PieceAt(S, units, p)
  BY <1>3 DEF HeaderAt
<1>7. Len(S) \in Nat /\ Pos(N) \in Int
  <2>1. Start(N) \in Nat /\ BufSize \in Nat
    BY Times, DaemonAssumption
  <2>2. dstOff \in Nat
    BY <2>1 DEF StreamTypes
  <2> QED BY <2>1, <2>2 DEF Pos
<1>8. Pos(N) = p + l
  BY <1>6, <1>7
<1> DEFINE i == p + 1
<1>9. i \in 1 .. Len(S) /\ p < Len(S)
  BY <1>3, <1>4, <1>7, <1>8
<1>10. S[i].k = 1
  BY <1>6, <1>9 DEF HeaderAt
<1>11. AnswerAt(S, i) /\ NextAt(S, i)
  BY <1>1, <1>9, <1>10 DEF Framed
<1>12. \A k \in 1 .. Len(units) : units[k] = S[i + (k - 1)]
  <2> TAKE k \in 1 .. Len(units)
  <2>1. units[k] = S[p + k]
    BY <1>6 DEF PieceAt
  <2>2. p + k = i + (k - 1)
    BY <1>2
  <2> QED BY <2>1, <2>2
<1>13. Header = S[i]
  <2>1. 1 \in 1 .. Len(units) /\ i + (1 - 1) = i
    BY <1>2, <1>4
  <2>2. units[1] = S[i + (1 - 1)]
    BY <1>12, <2>1
  <2> QED BY <2>1, <2>2 DEF Header
<1>14. S[i].body \in Nat
  BY <1>5, <1>13 DEF Units, Header
<1>15. Len(units) = IF part = "body" THEN 1 + S[i].body ELSE 1
  BY <1>2, <1>3, <1>13 DEF Header
<1>16. Pos(N) = i + Len(units) - 1 /\ Pos(N) \in 1 .. Len(S) /\ Len(units) \in Nat \ {0}
  BY <1>2, <1>3, <1>4, <1>7, <1>8
<1> HIDE DEF i
<1> QED BY <1>9, <1>10, <1>11, <1>12, <1>13, <1>14, <1>15, <1>16

(* The steps that handle what is read and leave the buffers alone. *)
LEMMA HandleFrame ==
  ASSUME NEW S, NEW N, StreamInvFor(S, N), dpc # "getBuffer", dpc' # "getBuffer",
         UNCHANGED << currDst, wrEnq, wrDoneQ, writeBaseQ, dst, outQ >>
  PROVE  Windows(S, N)'
<1>1. Reading' <=> Reading
  BY DEF Reading
<1> QED BY <1>1, WindowsFrame DEF StreamInvFor

LEMMA HandleValueFollowsStream ==
  ASSUME RingInv, StreamTypes, NEW S \in Seq(Units), NEW N \in Nat,
         StreamInvFor(S, N), HandleValueFollows
  PROVE  StreamTypes' /\ StreamInvFor(S, N)' /\ ReadTo(N)' = ReadTo(N)
<1>1. /\ dpc = "handle" /\ dpc' = "read" /\ part = "header" /\ part' = "body"
      /\ Header.body > 0 /\ need' = Header.body
      /\ UNCHANGED << units, currDst, dstOff, wrEnq, wrDoneQ, writeBaseQ, dst, outQ, devQ >>
  BY DEF HandleValueFollows, shared, device
<1>2. Windows(S, N)' /\ Framed(S)
  BY <1>1, HandleFrame DEF StreamInvFor
<1>3. PICK i \in 1 .. Len(S) :
        /\ Len(units) \in Nat \ {0} /\ Header = S[i] /\ S[i].body \in Nat
        /\ Len(units) = IF part = "body" THEN 1 + S[i].body ELSE 1
  BY <1>1, HandledAnswer
<1>4. Header.body \in Nat /\ Len(units) = 1 /\ units # << >>
  BY <1>1, <1>3
<1>5. StreamTypes'
  BY <1>1, <1>4 DEF StreamTypes
<1>6. Pos(N)' = Pos(N)
  BY <1>1 DEF Pos
<1>7. ReaderAt(S, N)'
  <2>1. Len(units') + need' = 1 + units'[1].body
    BY <1>1, <1>4 DEF Header
  <2>2. /\ HeaderAt(S, Pos(N) - Len(units)) /\ Pos(N) <= Len(S)
        /\ PieceAt(S, units, Pos(N) - Len(units))
    BY <1>1 DEF StreamInvFor, ReaderAt
  <2> QED BY <1>1, <1>4, <1>6, <2>1, <2>2 DEF ReaderAt
<1>8. ReadTo(N)' = ReadTo(N)
  BY <1>1, <1>6 DEF ReadTo
<1> QED BY <1>2, <1>5, <1>7, <1>8 DEF StreamInvFor

LEMMA HandleAnswerStream ==
  ASSUME RingInv, StreamTypes, NEW S \in Seq(Units), NEW N \in Nat,
         StreamInvFor(S, N), HandleAnswer
  PROVE  StreamTypes' /\ StreamInvFor(S, N)'
<1>1. /\ dpc = "handle" /\ dpc' = "count" /\ Header.m.op # "EOM"
      /\ Header.body > 0 => part = "body"
      /\ UNCHANGED << part, need, units, currDst, dstOff, wrEnq, wrDoneQ, writeBaseQ,
                      dst, outQ, devQ >>
  BY DEF HandleAnswer, device
<1>2. Windows(S, N)' /\ Framed(S)
  BY <1>1, HandleFrame DEF StreamInvFor
<1>3. PICK i \in 1 .. Len(S) :
        /\ Pos(N) = i + Len(units) - 1 /\ Len(units) \in Nat \ {0}
        /\ NextAt(S, i) /\ Header = S[i] /\ S[i].body \in Nat
        /\ Len(units) = IF part = "body" THEN 1 + S[i].body ELSE 1
  BY <1>1, HandledAnswer
<1>4. Len(units) = 1 + S[i].body
  BY <1>1, <1>3
<1>5. Pos(N) = i + S[i].body
  <2>1. PICK b \in Nat : b = S[i].body
    BY <1>3
  <2>2. i + (1 + b) - 1 = i + b
    OBVIOUS
  <2> QED BY <1>3, <1>4, <2>1, <2>2
<1>6. HeaderAt(S, Pos(N))
  BY <1>1, <1>3, <1>5 DEF NextAt
<1>7. Pos(N)' = Pos(N)
  BY <1>1 DEF Pos
<1>8. ReaderAt(S, N)'
  BY <1>1, <1>6, <1>7 DEF ReaderAt
<1>9. StreamTypes'
  BY <1>1 DEF StreamTypes
<1> QED BY <1>2, <1>8, <1>9 DEF StreamInvFor

LEMMA HandleEomStream ==
  ASSUME RingInv, StreamTypes, NEW S \in Seq(Units), NEW N \in Nat,
         StreamInvFor(S, N), HandleEom
  PROVE  StreamTypes' /\ StreamInvFor(S, N)' /\ SkipTo(S, Pos(N), Pos(N)')
<1>1. /\ dpc = "handle" /\ dpc' = "count" /\ Header.m.op = "EOM"
      /\ dstOff' = (IF dstOff > 0 /\ currDst # -1 THEN BufSize ELSE dstOff)
      /\ UNCHANGED << part, need, units, currDst, wrEnq, wrDoneQ, writeBaseQ,
                      dst, outQ, devQ >>
  BY DEF HandleEom, device
<1>2. Windows(S, N)' /\ Framed(S)
  BY <1>1, HandleFrame DEF StreamInvFor
<1>3. currDst # -1
  BY <1>1 DEF StreamTypes
<1>4. Reading
  BY <1>1, <1>3 DEF Reading
<1>5. /\ N - 1 \in Nat /\ Start(N) = Start(N - 1) + BufSize /\ Start(N - 1) \in Nat
  BY <1>4, ReaderPlace
<1>6. /\ Start(N) \in Nat /\ BufSize \in Nat /\ BufSize > 0
      /\ dstOff \in Nat /\ dstOff <= BufSize
  BY ReaderPlace
<1>7. PICK i \in 1 .. Len(S) :
        /\ Pos(N) = i + Len(units) - 1 /\ Len(units) \in Nat \ {0}
        /\ NextAt(S, i) /\ Header = S[i] /\ S[i].body \in Nat
        /\ Len(units) = IF part = "body" THEN 1 + S[i].body ELSE 1
  BY <1>1, HandledAnswer
<1>8. /\ S[i].body = 0
      /\ \A c \in Nat : Start(c) < i /\ i <= Start(c + 1) => SkipTo(S, i, Start(c + 1))
  BY <1>1, <1>7 DEF NextAt
<1>9. i \in Nat \ {0} /\ Len(units) = 1
  BY <1>7, <1>8
<1>10. Pos(N) = i /\ i = Start(N) + dstOff - BufSize /\ i = Start(N - 1) + dstOff
  <2>1. i + 1 - 1 = i
    BY <1>9
  <2>2. Pos(N) = i
    BY <1>7, <1>9, <2>1
  <2>3. Pos(N) = Start(N) + dstOff - BufSize
    BY <1>1 DEF Pos
  <2>4. Start(N) + dstOff - BufSize = Start(N - 1) + dstOff
    BY <1>5, <1>6
  <2> QED BY <2>2, <2>3, <2>4
<1>11. Pos(N)' = Start(N) + dstOff' - BufSize
  BY <1>1 DEF Pos
<1>12. (N - 1) + 1 = N
  BY <1>5
<1>13. SkipTo(S, i, Pos(N)')
  <2>1. CASE dstOff > 0
    <3>1. Pos(N)' = Start(N)
      <4>1. dstOff' = BufSize
        BY <1>1, <1>3, <2>1
      <4> QED BY <1>6, <1>11, <4>1
    <3>2. Start(N - 1) < i /\ i <= Start(N)
      <4>1. \A x \in Nat, o \in Nat, b \in Nat : o > 0 /\ o <= b => x < x + o /\ x + o <= x + b
        OBVIOUS
      <4>2. Start(N - 1) < Start(N - 1) + dstOff /\ Start(N - 1) + dstOff <= Start(N - 1) + BufSize
        BY <1>5, <1>6, <2>1, <4>1
      <4> QED BY <1>5, <1>10, <4>2
    <3>3. Start((N - 1) + 1) = Start(N)
      BY <1>12
    <3> QED BY <1>5, <1>8, <3>1, <3>2, <3>3
  <2>2. CASE dstOff = 0
    <3>1. Pos(N)' = i /\ i = Start(N - 1)
      BY <1>1, <1>5, <1>10, <1>11, <2>2
    <3>2. N - 1 # 0
      <4>1. Start(0) = 0
        BY Times
      <4> QED BY <1>9, <3>1, <4>1
    <3>3. N - 2 \in Nat /\ (N - 2) + 1 = N - 1
      BY <1>5, <3>2
    <3>4. Start((N - 2) + 1) = Start(N - 2) + BufSize /\ Start(N - 2) \in Nat
      BY <3>3, Times
    <3>5. Start(N - 1) = Start(N - 2) + BufSize
      BY <3>3, <3>4
    <3>6. Start(N - 2) < i /\ i <= Start((N - 2) + 1)
      <4>1. \A x \in Nat, b \in Nat : b > 0 => x < x + b /\ x + b <= x + b
        OBVIOUS
      <4>2. Start(N - 2) < Start(N - 2) + BufSize /\ Start(N - 2) + BufSize <= Start(N - 2) + BufSize
        BY <1>6, <3>4, <4>1
      <4> QED BY <3>1, <3>4, <3>5, <4>2
    <3>7. SkipTo(S, i, Start((N - 2) + 1))
      BY <1>8, <3>3, <3>6
    <3> QED BY <3>1, <3>3, <3>7
  <2> QED BY <1>6, <2>1, <2>2
<1>14. ReaderAt(S, N)'
  BY <1>1, <1>13 DEF ReaderAt, SkipTo
<1>15. StreamTypes'
  <2>1. dstOff' \in 0 .. BufSize
    BY <1>1, <1>6
  <2> QED BY <1>1, <1>3, <2>1 DEF StreamTypes
<1> QED BY <1>2, <1>10, <1>13, <1>14, <1>15 DEF StreamInvFor

LEMMA CountAnswerStream ==
  ASSUME RingInv, StreamTypes, NEW S \in Seq(Units), NEW N \in Nat,
         StreamInvFor(S, N), CountAnswer
  PROVE  StreamTypes' /\ StreamInvFor(S, N)'
<1>1. /\ dpc = "count" /\ dpc' = "read" /\ part' = "header" /\ need' = 1
      /\ units' = << >>
      /\ UNCHANGED << currDst, dstOff, wrEnq, wrDoneQ, writeBaseQ, dst, outQ, devQ >>
  BY DEF CountAnswer, device
<1>2. Windows(S, N)' /\ Framed(S)
  BY <1>1, HandleFrame DEF StreamInvFor
<1>3. Pos(N)' = Pos(N)
  BY <1>1 DEF Pos
<1>4. HeaderAt(S, Pos(N))
  BY <1>1 DEF StreamInvFor, ReaderAt
<1>5. /\ Len(units') = 0 /\ units' \in Seq(Units) /\ Pos(N)' - 0 = Pos(N)
      /\ Pos(N) <= Len(S)
  BY <1>1, <1>3, <1>4 DEF HeaderAt
<1>6. PieceAt(S, units', Pos(N))
  BY <1>5 DEF PieceAt
<1>7. ReaderAt(S, N)'
  BY <1>1, <1>3, <1>4, <1>5, <1>6 DEF ReaderAt
<1>8. StreamTypes'
  BY <1>1, <1>5 DEF StreamTypes
<1> QED BY <1>2, <1>7, <1>8 DEF StreamInvFor

LEMMA DecodeStream ==
  ASSUME RingInv, StreamInv, DecodeResponse
  PROVE  StreamInv'
<1>1. StreamTypes
  BY DEF StreamInv
<1>2. PICK S \in Seq(Units), N \in Nat : StreamInvFor(S, N)
  BY DEF StreamInv
<1>3. CASE waitIdleWriteBuffer
  <2>1. N + 1 \in Nat
    OBVIOUS
  <2> QED BY <1>1, <1>2, <1>3, <2>1, waitIdleWriteBufferStream DEF StreamInv
<1>4. CASE ReadRest \/ ReadFull \/ HandleValueFollows \/ HandleAnswer \/ HandleEom
           \/ CountAnswer
  <2>1. StreamTypes' /\ StreamInvFor(S, N)'
    BY <1>1, <1>2, <1>4, ReadRestStream, ReadFullStream, HandleValueFollowsStream,
       HandleAnswerStream, HandleEomStream, CountAnswerStream
  <2> QED BY <2>1 DEF StreamInv
<1> QED BY <1>3, <1>4 DEF DecodeResponse

-----------------------------------------------------------------------------
(* The device. *)

LEMMA wrDoneStream ==
  ASSUME RingInv, StreamTypes, NEW S \in Seq(Units), NEW N \in Nat,
         StreamInvFor(S, N), wrDone
  PROVE  StreamTypes' /\ StreamInvFor(S, N)'
<1>1. /\ wrDoneQ # << >> /\ wrEnq' = Incr(wrEnq) /\ wrDoneQ' = Tail(wrDoneQ)
      /\ UNCHANGED << dpc, part, need, units, currDst, dstOff, writeBaseQ, dst, outQ, devQ >>
  BY DEF wrDone, decode
<1>2. /\ Framed(S) /\ Windows(S, N) /\ ReaderAt(S, N)
  BY DEF StreamInvFor
<1>3. Reading' <=> Reading
  BY <1>1 DEF Reading
<1>4. PICK d \in Nat, a \in Nat :
        /\ d + 1 = Len(wrDoneQ) /\ a + 1 = Away /\ a < NumBufs
        /\ Len(wrDoneQ') = d /\ Away' = a
        /\ \A k \in 1 .. d : wrDoneQ'[k] = wrDoneQ[k + 1]
  <2>1. /\ wrDoneQ \in Seq(Buffers) /\ Len(wrDoneQ) \in Nat /\ Len(writeBaseQ) \in Nat
        /\ Away \in Nat /\ Away <= NumBufs
    BY AwayIs
  <2>2. /\ Len(wrDoneQ) - 1 \in Nat /\ Len(wrDoneQ') = Len(wrDoneQ) - 1
        /\ \A k \in 1 .. Len(wrDoneQ) - 1 : wrDoneQ'[k] = wrDoneQ[k + 1]
    BY <1>1, <2>1
  <2>3. Away - 1 \in Nat /\ Away' = Away - 1
    <3>1. CASE Reading
      BY <1>1, <1>3, <2>1, <2>2, <3>1 DEF Away
    <3>2. CASE ~ Reading
      BY <1>1, <1>3, <2>1, <2>2, <3>2 DEF Away
    <3> QED BY <3>1, <3>2
  <2>4. Away - 1 < NumBufs /\ (Away - 1) + 1 = Away /\ (Len(wrDoneQ) - 1) + 1 = Len(wrDoneQ)
    BY <2>1, Bound
  <2> QED BY <2>2, <2>3, <2>4
<1>5. wrEnq \in Pointers /\ Queued(wrEnq, wrDoneQ, writeBaseQ)
  BY AwayIs
<1>6. Written(N)' = Written(N)
  <2>1. N + (NumBufs - a) + d = N + (NumBufs - (a + 1)) + (d + 1)
    BY <1>4, Bound
  <2>2. Written(N)' = N + (NumBufs - Away') + Len(wrDoneQ')
    BY DEF Written
  <2> QED BY <1>4, <2>1, <2>2 DEF Written
<1>7. \A b, c : Window(S, b, c) => Window(S, b, c)'
  BY <1>1 DEF Window
<1>8. Windows(S, N)'
  <2>1. Reading' => N > 0 /\ Window(S, currDst, N - 1)'
    BY <1>1, <1>2, <1>3 DEF Windows, Window
  <2>2. \A j \in 0 .. NumBufs - Away' - 1 : Window(S, Slot(wrEnq, Away + j), N + j)'
    <3> TAKE j \in 0 .. NumBufs - Away' - 1
    <3>1. PICK b : b = Slot(wrEnq', Away' + j)
      OBVIOUS
    <3>2. CASE j = NumBufs - a - 1
      <4>1. /\ NumBufs \in Nat /\ NumBufs - 1 \in Nat /\ a + j = NumBufs - 1
            /\ N + j = N + (NumBufs - (a + 1)) + 1 - 1
        BY <1>4, <3>2, Bound
      <4>2. b = Slot(Incr(wrEnq), NumBufs - 1)
        BY <1>1, <1>4, <3>1, <4>1
      <4>3. b = Slot(wrEnq, 0)
        BY <1>5, <4>2, SlotLast
      <4>4. 1 \in 1 .. Len(wrDoneQ) /\ 1 - 1 = 0
        BY <1>4
      <4>5. wrDoneQ[1] = b
        BY <1>5, <4>3, <4>4 DEF Queued
      <4>6. Window(S, b, N + (NumBufs - (a + 1)) + 1 - 1)
        BY <1>2, <1>4, <4>4, <4>5 DEF Windows
      <4>7. Window(S, b, N + j)'
        BY <1>7, <4>1, <4>6
      <4> QED BY <3>1, <4>7 DEF Window
    <3>3. CASE j # NumBufs - a - 1
      <4>1. /\ j \in 0 .. NumBufs - (a + 1) - 1 /\ a + j \in Nat
            /\ (a + 1) + j \in Nat /\ (a + 1) + j < NumBufs /\ (a + 1) + j > 0
            /\ ((a + 1) + j) - 1 = a + j
        BY <1>4, <3>3, Bound
      <4>2. b = Slot(wrEnq, (a + 1) + j)
        <5>1. b = Slot(Incr(wrEnq), ((a + 1) + j) - 1)
          BY <1>1, <1>4, <3>1, <4>1
        <5> QED BY <1>5, <4>1, <5>1, SlotIncr
      <4>3. Window(S, Slot(wrEnq, (a + 1) + j), N + j)
        BY <1>2, <1>4, <4>1 DEF Windows
      <4>4. Window(S, b, N + j)'
        BY <1>7, <4>2, <4>3
      <4> QED BY <3>1, <4>4 DEF Window
    <3> QED BY <3>2, <3>3
  <2>3. \A k \in 1 .. Len(wrDoneQ') : Window(S, wrDoneQ[k], N + (NumBufs - Away) + k - 1)'
    <3> TAKE k \in 1 .. Len(wrDoneQ')
    <3>1. /\ k + 1 \in 1 .. Len(wrDoneQ)
          /\ N + (NumBufs - (a + 1)) + (k + 1) - 1 = N + (NumBufs - a) + k - 1
      BY <1>4, Bound
    <3>2. Window(S, wrDoneQ[k + 1], N + (NumBufs - (a + 1)) + (k + 1) - 1)
      BY <1>2, <1>4, <3>1 DEF Windows
    <3>3. PICK b, c : b = wrDoneQ[k + 1] /\ c = N + (NumBufs - a) + k - 1
      OBVIOUS
    <3>4. Window(S, b, c)'
      BY <1>7, <3>1, <3>2, <3>3
    <3>5. b = wrDoneQ'[k] /\ c = N + (NumBufs - Away') + k - 1
      BY <1>4, <3>3
    <3> QED BY <3>4, <3>5 DEF Window
  <2>4. Len(S) = Start(Written(N)) + Len(outQ) /\ PieceAt(S, outQ, Start(Written(N)))
    BY <1>2 DEF Windows
  <2> QED BY <1>1, <1>6, <2>1, <2>2, <2>3, <2>4 DEF Windows
<1>9. StreamTypes'
  BY <1>1 DEF StreamTypes
<1>10. ReaderAt(S, N)'
  <2>1. Pos(N)' = Pos(N)
    BY <1>1 DEF Pos
  <2> QED BY <1>1, <1>2, <2>1 DEF ReaderAt
<1> QED BY <1>2, <1>8, <1>9, <1>10 DEF StreamInvFor

LEMMA doDMAWriteStream ==
  ASSUME RingInv, StreamTypes, NEW S \in Seq(Units), NEW N \in Nat,
         StreamInvFor(S, N), doDMAWrite
  PROVE  StreamTypes' /\ StreamInvFor(S, N)'
<1>1. /\ Len(outQ) >= BufSize /\ writeBaseQ # << >>
      /\ dst' = [ dst EXCEPT ![Head(writeBaseQ)] = SubSeq(outQ, 1, BufSize) ]
      /\ outQ' = SubSeq(outQ, BufSize + 1, Len(outQ))
      /\ wrDoneQ' = Append(wrDoneQ, Head(writeBaseQ))
      /\ writeBaseQ' = Tail(writeBaseQ)
      /\ UNCHANGED << dpc, part, need, units, currDst, dstOff, wrEnq, devQ >>
  BY DEF doDMAWrite, shared, decode
<1>2. /\ Framed(S) /\ Windows(S, N) /\ ReaderAt(S, N)
  BY DEF StreamInvFor
<1>3. Reading' <=> Reading
  BY <1>1 DEF Reading
<1>4. PICK h \in Buffers : /\ h = Head(writeBaseQ)
                           /\ dst' = [ dst EXCEPT ![h] = SubSeq(outQ, 1, BufSize) ]
                           /\ wrDoneQ' = Append(wrDoneQ, h)
  <2>1. Head(writeBaseQ) \in Buffers
    BY <1>1, AwayIs
  <2> QED BY <1>1, <2>1
<1>5. PICK d \in Nat : d = Len(wrDoneQ)
  BY AwayIs
<1>6. /\ Len(wrDoneQ') = d + 1 /\ wrDoneQ'[d + 1] = h
      /\ \A k \in 1 .. d : wrDoneQ'[k] = wrDoneQ[k]
  <2>1. wrDoneQ \in Seq(Buffers)
    BY AwayIs
  <2> QED BY <1>4, <1>5, <2>1
<1>7. Away' = Away
  <2>1. /\ Len(writeBaseQ) \in Nat /\ Len(writeBaseQ') = Len(writeBaseQ) - 1
    <3>1. writeBaseQ \in Seq(Buffers)
      BY AwayIs
    <3> QED BY <1>1, <3>1
  <2>2. Len(wrDoneQ') + Len(writeBaseQ') = Len(wrDoneQ) + Len(writeBaseQ)
    BY <1>5, <1>6, <2>1
  <2> QED BY <1>3, <2>2 DEF Away
<1>8. PICK a \in Nat : a = NumBufs - Away
  BY WrittenIs
<1>9. PICK w \in Nat : /\ w = Written(N) /\ Written(N)' = w + 1 /\ w = N + a + d
  <2>1. Written(N) = N + a + d /\ Written(N)' = N + a + (d + 1)
    BY <1>5, <1>6, <1>7, <1>8 DEF Written
  <2>2. N + a + (d + 1) = (N + a + d) + 1 /\ N + a + d \in Nat
    OBVIOUS
  <2> QED BY <2>1, <2>2
<1>18. /\ Start(w) \in Nat /\ BufSize \in Nat /\ Start(w + 1) = Start(w) + BufSize
       /\ outQ \in Seq(Units) /\ Len(outQ) \in Nat
       /\ Len(S) = Start(w) + Len(outQ) /\ PieceAt(S, outQ, Start(w))
  <2>1. Start(w) \in Nat /\ BufSize \in Nat /\ Start(w + 1) = Start(w) + BufSize
    BY Times, DaemonAssumption
  <2>2. outQ \in Seq(Units) /\ Len(outQ) \in Nat
    BY DEF StreamTypes
  <2>3. Len(S) = Start(w) + Len(outQ) /\ PieceAt(S, outQ, Start(w))
    BY <1>2, <1>9 DEF Windows
  <2> QED BY <2>1, <2>2, <2>3
<1>19. PICK x \in Nat, B \in Nat, l \in Nat :
         x = Start(w) /\ B = BufSize /\ l = Len(outQ) - BufSize
  <2>1. Len(outQ) - BufSize \in Nat
    BY <1>1, <1>18
  <2> QED BY <1>18, <2>1
<1>10. /\ x = Start(w) /\ B = BufSize /\ Start(w + 1) = x + B /\ Len(outQ) = B + l
       /\ Len(S) = x + Len(outQ) /\ PieceAt(S, outQ, x) /\ outQ \in Seq(Units)
  BY <1>18, <1>19
<1>11. PICK q \in Seq(Units) :
         /\ q = SubSeq(outQ, 1, BufSize) /\ Len(q) = BufSize /\ PieceAt(S, q, x)
  <2> DEFINE q == SubSeq(outQ, 0 + 1, 0 + B)
  <2>1. 0 + 1 = 1 /\ 0 + B = B /\ 0 + B <= Len(outQ)
    BY <1>10
  <2>2. q \in Seq(Units) /\ Len(q) = B /\ \A i \in 1 .. B : q[i] = outQ[0 + i]
    BY <1>10, <2>1, Piece
  <2>3. q = SubSeq(outQ, 1, BufSize)
    BY <1>10, <2>1
  <2> HIDE DEF q
  <2>4. ASSUME NEW i \in 1 .. B PROVE q[i] = S[x + i]
    <3>1. i \in 1 .. Len(outQ) /\ 0 + i = i
      BY <1>10
    <3> QED BY <1>10, <2>2, <3>1 DEF PieceAt
  <2> QED BY <1>10, <2>2, <2>3, <2>4 DEF PieceAt
<1>12. outQ' \in Seq(Units) /\ Len(outQ') = l /\ PieceAt(S, outQ', x + B)
  <2>1. outQ' = SubSeq(outQ, B + 1, B + l)
    BY <1>1, <1>10
  <2>2. outQ' \in Seq(Units) /\ Len(outQ') = l /\ \A i \in 1 .. l : outQ'[i] = outQ[B + i]
    <3>1. B + l <= Len(outQ)
      BY <1>10
    <3> QED BY <1>10, <2>1, <3>1, Piece
  <2>3. ASSUME NEW i \in 1 .. l PROVE outQ'[i] = S[(x + B) + i]
    <3>1. B + i \in 1 .. Len(outQ) /\ (x + B) + i = x + (B + i)
      BY <1>10
    <3> QED BY <1>10, <2>2, <3>1 DEF PieceAt
  <2> QED BY <2>2, <2>3 DEF PieceAt
<1>13. /\ dst' \in [ Buffers -> Seq(Units) ] /\ dst'[h] = q
       /\ \A b \in Buffers : b # h => dst'[b] = dst[b]
  <2>1. dst \in [ Buffers -> Seq(Units) ] /\ dst' = [ dst EXCEPT ![h] = q ]
    BY <1>4, <1>11 DEF StreamTypes
  <2> QED BY <2>1
<1>14. \A c : \A b \in Buffers : b # h /\ Window(S, b, c) => Window(S, b, c)'
  BY <1>13 DEF Window
<1>15. Windows(S, N)'
  <2>1. Reading' => N > 0 /\ Window(S, currDst, N - 1)'
    <3>1. SUFFICES ASSUME Reading PROVE N > 0 /\ Window(S, currDst, N - 1)'
      BY <1>3
    <3>2. N > 0 /\ Window(S, currDst, N - 1)
      BY <1>2, <3>1 DEF Windows
    <3>3. currDst # h
      BY <1>1, <1>4, <3>1, Apart
    <3>4. currDst \in Buffers
      BY <3>1, AwayIs DEF Reading
    <3> QED BY <1>1, <1>14, <3>2, <3>3, <3>4 DEF Window
  <2>2. \A j \in 0 .. NumBufs - Away' - 1 : Window(S, Slot(wrEnq, Away + j), N + j)'
    <3> TAKE j \in 0 .. NumBufs - Away' - 1
    <3>1. PICK b \in Buffers : b = Slot(wrEnq, Away + j) /\ b # h
      BY <1>1, <1>4, <1>7, Apart
    <3>2. Window(S, b, N + j)'
      BY <1>2, <1>7, <1>14, <3>1 DEF Windows
    <3>3. b = Slot(wrEnq, Away + j)'
      BY <1>1, <1>7, <3>1
    <3> QED BY <3>2, <3>3 DEF Window
  <2>3. \A k \in 1 .. Len(wrDoneQ') : Window(S, wrDoneQ[k], N + (NumBufs - Away) + k - 1)'
    <3> TAKE k \in 1 .. Len(wrDoneQ')
    <3>1. PICK c : c = N + a + k - 1 /\ c = N + (NumBufs - Away') + k - 1
      BY <1>7, <1>8
    <3>2. CASE k \in 1 .. d
      <4>1. PICK b \in Buffers : b = wrDoneQ[k] /\ b # h /\ b = wrDoneQ'[k]
        BY <1>1, <1>4, <1>5, <1>6, <3>2, Apart
      <4>2. Window(S, wrDoneQ[k], N + (NumBufs - Away) + k - 1)
        BY <1>2, <1>5, <3>2 DEF Windows
      <4>3. Window(S, b, c)'
        BY <1>8, <1>14, <3>1, <4>1, <4>2
      <4> QED BY <3>1, <4>1, <4>3 DEF Window
    <3>3. CASE k = d + 1
      <4>1. c = w
        <5>1. N + a + (d + 1) - 1 = N + a + d
          OBVIOUS
        <5> QED BY <1>9, <3>1, <3>3, <5>1
      <4>2. wrDoneQ'[k] = h
        BY <1>6, <3>3
      <4>3. Len(dst'[h]) = BufSize /\ PieceAt(S, dst'[h], Start(w))
        BY <1>10, <1>11, <1>13
      <4> QED BY <3>1, <4>1, <4>2, <4>3 DEF Window
    <3> QED BY <1>6, <3>2, <3>3
  <2>4. Len(S) = Start(w + 1) + Len(outQ') /\ PieceAt(S, outQ', Start(w + 1))
    <3>1. x + (B + l) = (x + B) + l
      OBVIOUS
    <3> QED BY <1>10, <1>12, <3>1
  <2> QED BY <1>9, <2>1, <2>2, <2>3, <2>4 DEF Windows
<1>16. StreamTypes'
  BY <1>1, <1>12, <1>13 DEF StreamTypes
<1>17. ReaderAt(S, N)'
  <2>1. Pos(N)' = Pos(N)
    BY <1>1 DEF Pos
  <2> QED BY <1>1, <1>2, <2>1 DEF ReaderAt
<1> QED BY <1>2, <1>15, <1>16, <1>17 DEF StreamInvFor

(* A stream that grows still holds what it held. *)
LEMMA PieceKept ==
  ASSUME NEW S, NEW T, Len(S) \in Nat, \A i \in 1 .. Len(S) : T[i] = S[i],
         NEW d, Len(d) \in Nat, NEW x \in Nat, x + Len(d) <= Len(S), PieceAt(S, d, x)
  PROVE  PieceAt(T, d, x)
<1> SUFFICES ASSUME NEW i \in 1 .. Len(d) PROVE d[i] = T[x + i]
  BY DEF PieceAt
<1>1. x + i \in 1 .. Len(S)
  OBVIOUS
<1>2. d[i] = S[x + i]
  BY DEF PieceAt
<1> QED BY <1>1, <1>2

LEMMA RemoveType ==
  ASSUME NEW U, NEW s \in Seq(U), NEW i \in 1 .. Len(s)
  PROVE  RemoveAt(s, i) \in Seq(U)
<1>1. SubSeq(s, 1, i - 1) \in Seq(U)
  <2>1. \A k \in 1 .. i - 1 : s[k] \in U
    OBVIOUS
  <2> QED BY <2>1, SubSeqProperties
<1>2. SubSeq(s, i + 1, Len(s)) \in Seq(U)
  <2>1. \A k \in i + 1 .. Len(s) : s[k] \in U
    OBVIOUS
  <2> QED BY <2>1, SubSeqProperties
<1> QED BY <1>1, <1>2, Joined DEF RemoveAt

LEMMA AnswerStream ==
  ASSUME RingInv, StreamTypes, NEW S \in Seq(Units), NEW N \in Nat,
         StreamInvFor(S, N), NEW i \in 1 .. Len(devQ), NEW body \in BodySizes \cup {0},
         Answer(i, body)
  PROVE  StreamTypes' /\ \E T \in Seq(Units), n \in Nat :
                           GrowsTo(S, T, devQ[i], body, n) /\ StreamInvFor(T, N)'
<1> DEFINE m == devQ[i]
           r == (Len(outQ) + 1 + body) % BufSize
           n == IF m.op = "EOM" /\ r # 0 THEN BufSize - r ELSE 0
           longer == Grown(S, m, body, n)
<1>1. /\ body > 0 => m.op = "GET"
      /\ devQ' = RemoveAt(devQ, i) /\ outQ' = Grown(outQ, m, body, n)
      /\ UNCHANGED << dpc, part, need, units, currDst, dstOff, wrEnq, wrDoneQ,
                      writeBaseQ, dst >>
  BY DEF Answer, Grown, shared, decode
<1>2. m \in Message /\ devQ \in Seq(Message)
  BY DEF StreamTypes
<1>3. body \in Nat
  BY DaemonAssumption
<1>4. outQ \in Seq(Units) /\ Len(outQ) \in Nat
  BY DEF StreamTypes
<1>5. PICK x \in Nat, l \in Nat, w \in Nat :
        /\ w = Written(N) /\ x = Start(w) /\ l = Len(outQ) /\ Len(S) = x + l
        /\ PieceAt(S, outQ, x)
  <2>1. Written(N) \in Nat
    BY WrittenIs
  <2>2. Start(Written(N)) \in Nat
    BY <2>1, Times
  <2>3. Len(S) = Start(Written(N)) + Len(outQ) /\ PieceAt(S, outQ, Start(Written(N)))
    BY DEF StreamInvFor, Windows
  <2> QED BY <1>4, <2>1, <2>2, <2>3
<1>6. BufSize \in Nat /\ BufSize > 0
  BY DaemonAssumption
<1>7. PICK e \in Nat : /\ r \in 0 .. BufSize - 1 /\ l + 1 + body = Start(e) + r
                       /\ Start(e) \in Nat /\ Start(e + 1) = Start(e) + BufSize
  <2>1. l + 1 + body \in Nat /\ r = (l + 1 + body) % BufSize
    BY <1>3, <1>5
  <2> HIDE DEF r
  <2>2. r \in 0 .. BufSize - 1 /\ \E e \in Nat : l + 1 + body = Start(e) + r
    BY <2>1, Padding
  <2> QED BY <2>2, Times
<1> HIDE DEF r
<1>8. n \in Nat
  BY <1>6, <1>7
<1>9. m.op # "EOM" => n = 0
  OBVIOUS
<1>10. m.op = "EOM" => /\ body = 0
                       /\ \E c \in Nat : /\ Start(c) < Len(S) + 1 /\ Len(S) + 1 <= Start(c + 1)
                                         /\ Start(c + 1) = Len(S) + 1 + n
  <2> SUFFICES ASSUME m.op = "EOM"
               PROVE  /\ body = 0
                      /\ \E c \in Nat : /\ Start(c) < Len(S) + 1 /\ Len(S) + 1 <= Start(c + 1)
                                        /\ Start(c + 1) = Len(S) + 1 + n
    OBVIOUS
  <2>1. body = 0
    BY <1>1, <1>3
  <2>2. PICK y \in Nat : y = Start(e)
    BY <1>7
  <2>3. l + 1 = y + r
    BY <1>5, <1>7, <2>1, <2>2
  <2>4. Len(S) + 1 = (x + y) + r
    <3>1. r \in Nat
      BY <1>6, <1>7
    <3>2. (x + l) + 1 = (x + y) + r
      BY <2>3, <3>1
    <3> QED BY <1>5, <3>2
  <2>5. Start(w + e) = x + y
    BY <1>5, <2>2, StartSum
  <2>6. CASE r # 0
    <3>1. Start((w + e) + 1) = (x + y) + BufSize /\ w + e \in Nat
      BY <2>5, Times
    <3>2. n = BufSize - r
      BY <2>6
    <3>3. (x + y) < (x + y) + r /\ (x + y) + r <= (x + y) + BufSize
          /\ (x + y) + r + (BufSize - r) = (x + y) + BufSize
      BY <1>6, <1>7, <2>6
    <3> HIDE DEF n, m
    <3> QED BY <2>1, <2>4, <2>5, <3>1, <3>2, <3>3
  <2>7. CASE r = 0
    <3>1. e # 0
      <4>1. Start(0) = 0
        BY Times
      <4> QED BY <1>5, <2>2, <2>3, <2>7, <4>1
    <3>2. e - 1 \in Nat /\ w + (e - 1) \in Nat /\ (w + (e - 1)) + 1 = w + e
      BY <3>1
    <3>3. Start((w + (e - 1)) + 1) = Start(w + (e - 1)) + BufSize /\ Start(w + (e - 1)) \in Nat
      BY <3>2, Times
    <3>4. n = 0 /\ Len(S) + 1 = x + y
      <4>1. (x + y) + 0 = x + y
        OBVIOUS
      <4> QED BY <2>4, <2>7, <4>1
    <3>5. Start((w + (e - 1)) + 1) = x + y
      BY <2>5, <3>2
    <3>6. Start(w + (e - 1)) < x + y /\ x + y <= x + y /\ x + y + 0 = x + y
      BY <1>6, <3>3, <3>5
    <3> HIDE DEF n, m
    <3> QED BY <2>1, <3>2, <3>4, <3>5, <3>6
  <2> QED BY <2>6, <2>7
<1> HIDE DEF n, m
<1>11. PICK T : GrowsTo(S, T, m, body, n) /\ GrowsTo(outQ, outQ', m, body, n)
  <2>1. GrowsTo(S, longer, m, body, n) /\ GrowsTo(outQ, outQ', m, body, n)
    BY <1>1, <1>2, <1>3, <1>4, <1>8, GrownIs
  <2> HIDE DEF longer
  <2> QED BY <2>1
<1>12. Framed(T) /\ \A p : HeaderAt(S, p) => HeaderAt(T, p)
  BY <1>1, <1>2, <1>3, <1>8, <1>9, <1>10, <1>11, FramedGrows DEF StreamInvFor
<1>13. /\ T \in Seq(Units) /\ Len(S) \in Nat /\ Len(T) = Len(S) + 1 + body + n
       /\ \A k \in 1 .. Len(S) : T[k] = S[k]
       /\ \A k \in 1 .. 1 + body : T[Len(S) + k] = Unit(m, body, k)
       /\ \A k \in 1 .. n : T[Len(S) + 1 + body + k] = Pad
  BY <1>11 DEF GrowsTo
<1>14. /\ outQ' \in Seq(Units) /\ Len(outQ') = l + 1 + body + n
       /\ \A k \in 1 .. l : outQ'[k] = outQ[k]
       /\ \A k \in 1 .. 1 + body : outQ'[l + k] = Unit(m, body, k)
       /\ \A k \in 1 .. n : outQ'[l + 1 + body + k] = Pad
  BY <1>5, <1>11 DEF GrowsTo
<1>15. Len(T) = x + Len(outQ') /\ PieceAt(T, outQ', x)
  <2>1. Len(T) = x + Len(outQ')
    <3>1. (x + l) + 1 + body + n = x + (l + 1 + body + n)
      BY <1>3, <1>8
    <3> QED BY <1>5, <1>13, <1>14, <3>1
  <2>2. ASSUME NEW k \in 1 .. Len(outQ') PROVE outQ'[k] = T[x + k]
    <3>1. k \in 1 .. l + 1 + body + n
      BY <1>14
    <3>2. CASE k \in 1 .. l
      <4>1. x + k \in 1 .. Len(S)
        <5>1. k \in Nat /\ 1 <= k /\ k <= l
          BY <3>2
        <5>2. x + k \in 1 .. x + l
          BY <5>1
        <5> QED BY <1>5, <5>2
      <4>2. outQ[k] = S[x + k]
        BY <1>5, <3>2 DEF PieceAt
      <4> QED BY <1>13, <1>14, <3>2, <4>1, <4>2
    <3>3. CASE k \in l + 1 .. l + 1 + body
      <4>1. PICK j \in 1 .. 1 + body : k = l + j
        <5>1. k - l \in 1 .. 1 + body /\ k = l + (k - l)
          BY <1>3, <3>3
        <5> QED BY <5>1
      <4>2. x + (l + j) = (x + l) + j
        BY <1>3
      <4>3. outQ'[l + j] = Unit(m, body, j) /\ T[Len(S) + j] = Unit(m, body, j)
        BY <1>13, <1>14
      <4> QED BY <1>5, <4>1, <4>2, <4>3
    <3>4. CASE k \in l + 1 + body + 1 .. l + 1 + body + n
      <4>1. PICK j \in 1 .. n : k = l + 1 + body + j
        <5>1. k - (l + 1 + body) \in 1 .. n /\ k = l + 1 + body + (k - (l + 1 + body))
          BY <1>3, <1>8, <3>4
        <5> QED BY <5>1
      <4>2. x + (l + 1 + body + j) = (x + l) + 1 + body + j
        BY <1>3, <1>8
      <4>3. outQ'[l + 1 + body + j] = Pad /\ T[Len(S) + 1 + body + j] = Pad
        BY <1>13, <1>14
      <4> QED BY <1>5, <4>1, <4>2, <4>3
    <3>5. \/ k \in 1 .. l
          \/ k \in l + 1 .. l + 1 + body
          \/ k \in l + 1 + body + 1 .. l + 1 + body + n
      BY <1>3, <1>8, <3>1
    <3> QED BY <3>2, <3>3, <3>4, <3>5
  <2> QED BY <2>1, <2>2 DEF PieceAt
<1>16. (Reading' <=> Reading) /\ Away' = Away /\ Written(N)' = w
  <2>1. Reading' <=> Reading
    BY <1>1 DEF Reading
  <2>2. Away' = Away
    BY <1>1, <2>1 DEF Away
  <2> QED BY <1>1, <1>5, <2>1, <2>2 DEF Written
<1>17. PICK a \in Nat, d \in Nat : a = NumBufs - Away /\ d = Len(wrDoneQ) /\ w = N + a + d
  <2>1. NumBufs - Away \in Nat
    BY WrittenIs
  <2>2. Len(wrDoneQ) \in Nat
    BY AwayIs
  <2>3. w = N + (NumBufs - Away) + Len(wrDoneQ)
    BY <1>5 DEF Written
  <2> QED BY <2>1, <2>2, <2>3
<1>18. ASSUME NEW b, NEW c \in Nat, c < w, Window(S, b, c)
       PROVE  Window(T, b, c)'
  <2>1. Len(dst[b]) = BufSize /\ PieceAt(S, dst[b], Start(c))
    BY <1>18 DEF Window
  <2>2. PICK y \in Nat : y = Start(c)
    BY Times
  <2>3. y + BufSize <= x
    BY <1>5, <1>18, <2>2, Monotone
  <2>4. y + BufSize <= Len(S)
    <3>1. y + BufSize <= x + l
      BY <1>6, <2>3
    <3> QED BY <1>5, <3>1
  <2>5. y + Len(dst[b]) <= Len(S) /\ Len(dst[b]) \in Nat /\ PieceAt(S, dst[b], y)
    BY <1>6, <2>1, <2>2, <2>4
  <2>6. Len(S) \in Nat /\ \A k \in 1 .. Len(S) : T[k] = S[k]
    BY <1>13
  <2>7. PieceAt(T, dst[b], y)
    BY <2>5, <2>6, PieceKept
  <2> QED BY <1>1, <2>1, <2>2, <2>7 DEF Window
<1>19. Windows(T, N)'
  <2>0. Windows(S, N)
    BY DEF StreamInvFor
  <2>1. Reading' => N > 0 /\ Window(T, currDst, N - 1)'
    <3>1. SUFFICES ASSUME Reading PROVE N > 0 /\ Window(T, currDst, N - 1)'
      BY <1>16
    <3>2. N > 0 /\ Window(S, currDst, N - 1)
      BY <2>0, <3>1 DEF Windows
    <3>3. N - 1 \in Nat /\ N - 1 < w
      <4>1. N - 1 \in Nat /\ N - 1 < N + a + d
        BY <3>2
      <4> QED BY <1>17, <4>1
    <3> QED BY <1>1, <1>18, <3>2, <3>3 DEF Window
  <2>2. \A j \in 0 .. NumBufs - Away' - 1 : Window(T, Slot(wrEnq, Away + j), N + j)'
    <3> TAKE j \in 0 .. NumBufs - Away' - 1
    <3>1. PICK b : b = Slot(wrEnq, Away + j)
      OBVIOUS
    <3>2. Window(S, b, N + j)
      BY <1>16, <2>0, <3>1 DEF Windows
    <3>3. N + j \in Nat /\ N + j < w
      <4>1. j \in 0 .. a - 1
        BY <1>16, <1>17
      <4>2. N + j \in Nat /\ N + j < N + a + d
        BY <4>1
      <4> QED BY <1>17, <4>2
    <3>4. Window(T, b, N + j)'
      BY <1>18, <3>2, <3>3
    <3>5. b = Slot(wrEnq, Away + j)'
      BY <1>1, <1>16, <3>1
    <3> QED BY <3>4, <3>5 DEF Window
  <2>3. \A k \in 1 .. Len(wrDoneQ') : Window(T, wrDoneQ[k], N + (NumBufs - Away) + k - 1)'
    <3> TAKE k \in 1 .. Len(wrDoneQ')
    <3>1. PICK c \in Nat : c = N + (NumBufs - Away) + k - 1 /\ c < w
      <4>1. k \in 1 .. d
        BY <1>1, <1>17
      <4>2. N + a + k - 1 \in Nat /\ N + a + k - 1 < N + a + d
        BY <4>1
      <4> QED BY <1>17, <4>2
    <3>2. PICK b : b = wrDoneQ[k]
      OBVIOUS
    <3>3. Window(S, b, c)
      BY <1>1, <2>0, <3>1, <3>2 DEF Windows
    <3>4. Window(T, b, c)'
      BY <1>18, <3>1, <3>3
    <3>5. b = wrDoneQ'[k] /\ c = N + (NumBufs - Away') + k - 1
      BY <1>1, <1>16, <3>1, <3>2
    <3> QED BY <3>4, <3>5 DEF Window
  <2>4. Len(T) = Start(w) + Len(outQ') /\ PieceAt(T, outQ', Start(w))
    BY <1>5, <1>15
  <2>5. /\ Len(T) = Start(Written(N)') + Len(outQ')
        /\ PieceAt(T, outQ', Start(Written(N)'))
    BY <1>16, <2>4
  <2> QED BY <1>16, <2>1, <2>2, <2>3, <2>5 DEF Windows
<1>20. StreamTypes'
  <2>1. devQ' \in Seq(Message)
    BY <1>1, <1>2, RemoveType
  <2> QED BY <1>1, <1>14, <2>1 DEF StreamTypes
<1>21. ReaderAt(T, N)'
  <2>1. Pos(N)' = Pos(N)
    BY <1>1 DEF Pos
  <2>2. ReaderAt(S, N)
    BY DEF StreamInvFor
  <2>3. CASE dpc = "count"
    <3>1. HeaderAt(S, Pos(N))
      BY <2>2, <2>3 DEF ReaderAt
    <3>2. HeaderAt(T, Pos(N))
      BY <1>12, <3>1
    <3> QED BY <1>1, <2>1, <2>3, <3>2 DEF ReaderAt
  <2>4. CASE dpc # "count"
    <3>1. /\ HeaderAt(S, Pos(N) - Len(units)) /\ Pos(N) <= Len(S)
          /\ PieceAt(S, units, Pos(N) - Len(units))
          /\ part = "body" => units # << >>
          /\ Len(units) + need = IF part = "body" THEN 1 + units[1].body ELSE 1
      BY <2>2, <2>4 DEF ReaderAt
    <3>2. PICK p \in Nat, u \in Nat : p = Pos(N) - Len(units) /\ u = Len(units)
      <4>1. Pos(N) - Len(units) \in Nat
        BY <3>1 DEF HeaderAt
      <4>2. Len(units) \in Nat
        BY DEF StreamTypes
      <4> QED BY <4>1, <4>2
    <3>3. Pos(N) \in Int
      <4>1. Start(N) \in Nat /\ BufSize \in Nat
        BY Times, DaemonAssumption
      <4>2. dstOff \in Nat
        BY <4>1 DEF StreamTypes
      <4> QED BY <4>1, <4>2 DEF Pos
    <3>4. PICK z \in Int, y \in Nat : z = Pos(N) /\ y = Len(S)
      BY <1>13, <3>3
    <3>5. z = p + u /\ z <= y
      <4>1. p = z - u
        BY <3>2, <3>4
      <4>2. z = p + u
        BY <4>1
      <4> QED BY <3>1, <3>4, <4>2
    <3>6. Pos(N) <= Len(T)
      <4>1. z <= y + 1 + body + n
        BY <1>3, <1>8, <3>5
      <4> QED BY <1>13, <3>4, <4>1
    <3>7. p + Len(units) <= Len(S) /\ Len(units) \in Nat /\ PieceAt(S, units, p)
      <4>1. p + u <= y
        BY <3>5
      <4> QED BY <3>1, <3>2, <3>4, <4>1
    <3>8. Len(S) \in Nat /\ \A k \in 1 .. Len(S) : T[k] = S[k]
      BY <1>13
    <3>9. PieceAt(T, units, p)
      BY <3>7, <3>8, PieceKept
    <3>10. HeaderAt(T, Pos(N) - Len(units))
      BY <1>12, <3>1
    <3> QED BY <1>1, <2>1, <2>4, <3>1, <3>2, <3>6, <3>9, <3>10 DEF ReaderAt
  <2> QED BY <2>3, <2>4
<1>22. StreamInvFor(T, N)'
  BY <1>12, <1>19, <1>21 DEF StreamInvFor
<1>23. GrowsTo(S, T, devQ[i], body, n)
  BY <1>11 DEF m
<1> QED BY <1>8, <1>13, <1>20, <1>22, <1>23

LEMMA DeviceReadStream ==
  ASSUME RingInv, StreamInv, DeviceRead
  PROVE  StreamInv'
<1> DEFINE B == Buffers
<1>1. readQ \in Seq([ buf : B, msgs : Seq(Message) ]) /\ devQ \in Seq(Message)
  BY DEF RingInv, RingTypes, StreamInv, StreamTypes
<1>2. /\ readQ # << >> /\ devQ' = devQ \o Head(readQ).msgs
      /\ UNCHANGED << decode, wrEnq, wrDoneQ, writeBaseQ, dst, outQ >>
  BY DEF DeviceRead, shared
<1>3. Head(readQ).msgs \in Seq(Message)
  <2> DEFINE R == [ buf : B, msgs : Seq(Message) ]
  <2>1. readQ \in Seq(R)
    BY <1>1
  <2>2. Head(readQ) \in R
    <3> HIDE DEF R
    <3> QED BY <1>2, <2>1, HeadTailProperties
  <2> QED BY <2>2
<1>4. devQ' \in Seq(Message)
  BY <1>1, <1>2, <1>3, Joined
<1> QED BY <1>2, <1>4, StreamQuiet

LEMMA DeviceStream ==
  ASSUME RingInv, StreamInv, Device
  PROVE  StreamInv'
<1>1. StreamTypes
  BY DEF StreamInv
<1>2. PICK S \in Seq(Units), N \in Nat : StreamInvFor(S, N)
  BY DEF StreamInv
<1>3. CASE rdDone
  <2>1. devQ' \in Seq(Message)
    BY <1>1, <1>3 DEF rdDone, StreamTypes
  <2> QED BY <1>3, <2>1, StreamQuiet DEF rdDone
<1>4. CASE wrDone \/ doDMAWrite
  <2>1. StreamTypes' /\ StreamInvFor(S, N)'
    BY <1>1, <1>2, <1>4, wrDoneStream, doDMAWriteStream
  <2> QED BY <2>1 DEF StreamInv
<1>5. ASSUME NEW i \in 1 .. Len(devQ), NEW body \in BodySizes \cup {0}, Answer(i, body)
      PROVE  StreamInv'
  <2>1. StreamTypes' /\ \E T \in Seq(Units) : StreamInvFor(T, N)'
    BY <1>1, <1>2, <1>5, AnswerStream
  <2> QED BY <2>1 DEF StreamInv
<1> QED BY <1>3, <1>4, <1>5, DeviceReadStream DEF Device, FPGA

-----------------------------------------------------------------------------
(* No thread of the host but the response thread touches the stream.       *)
LEMMA HostStream ==
  ASSUME StreamInv,
         \/ \E c \in Clients : (\E op \in Ops : Send(c, op)) \/ Register(c) \/ Return(c)
         \/ \E t \in Threads : Write(t)
         \/ FlushPass
         \/ UNCHANGED vars
  PROVE  StreamInv'
<1>1. UNCHANGED << decode, wrEnq, wrDoneQ, writeBaseQ, dst, outQ, devQ >>
  <2>1. ASSUME NEW c \in Clients, NEW op \in Ops, Send(c, op)
        PROVE  UNCHANGED << decode, wrEnq, wrDoneQ, writeBaseQ, dst, outQ, devQ >>
    BY <2>1 DEF Send, device
  <2>2. ASSUME NEW c \in Clients, Register(c) \/ Return(c)
        PROVE  UNCHANGED << decode, wrEnq, wrDoneQ, writeBaseQ, dst, outQ, devQ >>
    BY <2>2 DEF Register, Return, shared, device
  <2>3. ASSUME NEW t \in Threads, Write(t)
        PROVE  UNCHANGED << decode, wrEnq, wrDoneQ, writeBaseQ, dst, outQ, devQ >>
    <3>1. CASE WriteRest(t)
      BY <3>1 DEF WriteRest, shared, device
    <3>2. CASE WriteFull(t)
      BY <3>2 DEF WriteFull, shared
    <3>3. CASE WriteGetBuffer(t)
      BY <3>3 DEF WriteGetBuffer, waitIdleReadBuffer, shared, device
    <3> QED BY <2>3, <3>1, <3>2, <3>3 DEF Write
  <2>4. CASE FlushPass
    <3>1. CASE FlushLock \/ FlushNothing \/ FlushBegin \/ FlushEnd
      BY <3>1 DEF FlushLock, FlushNothing, FlushBegin, FlushEnd, shared, device
    <3>2. CASE FlushSend(Flusher)
      BY <3>2 DEF FlushSend, shared, device
    <3>3. CASE FlushGetBuffer(Flusher)
      BY <3>3 DEF FlushGetBuffer, waitIdleReadBuffer, shared, device
    <3> QED BY <2>4, <3>1, <3>2, <3>3 DEF FlushPass
  <2>5. CASE UNCHANGED vars
    BY <2>5 DEF vars, shared, device
  <2> QED BY <2>1, <2>2, <2>3, <2>4, <2>5
<1>2. devQ' \in Seq(Message)
  BY <1>1 DEF StreamInv, StreamTypes
<1> QED BY <1>1, <1>2, StreamQuiet

LEMMA InitStream == Init => StreamInv
<1> SUFFICES ASSUME Init PROVE StreamInv
  OBVIOUS
<1>1. /\ dpc = "read" /\ part = "header" /\ need = 1 /\ units = << >>
      /\ currDst = -1 /\ dstOff = BufSize /\ wrEnq = 0
      /\ devQ = << >> /\ outQ = << >> /\ wrDoneQ = << >> /\ writeBaseQ = AllBuffers
      /\ dst = [ b \in 0 .. NumBufs - 1 |-> << >> ]
  BY DEF Init, StartState
<1>2. /\ BufSize \in Nat /\ NumBufs \in Nat /\ Len(AllBuffers) = NumBufs
      /\ Start(0) = 0
  BY Bound, DaemonAssumption, Times DEF AllBuffers
<1>3. << >> \in Seq(Message) /\ << >> \in Seq(Units)
  OBVIOUS
<1>4. StreamTypes
  BY <1>1, <1>2, <1>3 DEF StreamTypes, Buffers
<1> DEFINE S == << >>
<1>5. Len(S) = 0
  OBVIOUS
<1>6. \A d, x : Len(d) = 0 => PieceAt(S, d, x)
  BY DEF PieceAt
<1>7. HeaderAt(S, 0)
  BY <1>5 DEF HeaderAt
<1>8. Framed(S)
  BY <1>5, <1>7 DEF Framed
<1>9. ~ Reading /\ Away = NumBufs /\ Len(wrDoneQ) = 0
  BY <1>1, <1>2 DEF Reading, Away
<1>10. Written(0) = 0
  BY <1>2, <1>9 DEF Written
<1>11. Windows(S, 0)
  <2>1. Len(outQ) = 0
    BY <1>1
  <2> QED BY <1>2, <1>5, <1>6, <1>9, <1>10, <2>1 DEF Windows
<1>12. ReaderAt(S, 0)
  <2>1. Pos(0) = 0 /\ Len(units) = 0 /\ 0 - 0 = 0
    BY <1>1, <1>2 DEF Pos
  <2> QED BY <1>1, <1>5, <1>6, <1>7, <2>1 DEF ReaderAt
<1>13. S \in Seq(Units) /\ 0 \in Nat /\ StreamInvFor(S, 0)
  BY <1>3, <1>8, <1>11, <1>12 DEF StreamInvFor
<1> HIDE DEF S
<1> QED BY <1>4, <1>13 DEF StreamInv

(* In every behaviour what is in the answer buffers, what the device holds *)
(* back for the next one and what the response thread has read are one     *)
(* stream of answers (doDMAWrite, waitIdleWriteBuffer, dmaBufMemreadBuf    *)
(* and resetDMADstBuf), however buffers and answers lie across each other. *)
THEOREM StreamInvHolds == Spec => []StreamInv
<1>1. RingInv /\ StreamInv /\ [Next]_vars => StreamInv'
  BY HostStream, DeviceStream, DecodeStream DEF Next
<1> QED BY <1>1, InitStream, RingInvHolds, PTL DEF Spec

(* What decode_response handles is the header of an answer, or the header  *)
(* and all of the value that belongs to it: its check of the magic never   *)
(* fails, for any sizes of the buffers and of the values.                  *)
THEOREM HeadersInStepHolds == Spec => []HeadersInStep
<1>1. RingInv /\ StreamInv => HeadersInStep
  <2> SUFFICES ASSUME RingInv, StreamInv, dpc = "handle"
               PROVE  /\ Header.k = 1
                      /\ Len(units) = IF part = "body" THEN 1 + Header.body ELSE 1
                      /\ \A k \in 1 .. Len(units) : units[k].m = Header.m /\ units[k].k = k
    BY DEF HeadersInStep
  <2>1. StreamTypes
    BY DEF StreamInv
  <2>2. PICK S \in Seq(Units), N \in Nat : StreamInvFor(S, N)
    BY DEF StreamInv
  <2>3. PICK i \in 1 .. Len(S) :
          /\ S[i].k = 1 /\ AnswerAt(S, i) /\ Header = S[i] /\ S[i].body \in Nat
          /\ Len(units) \in Nat
          /\ Len(units) = IF part = "body" THEN 1 + S[i].body ELSE 1
          /\ \A k \in 1 .. Len(units) : units[k] = S[i + (k - 1)]
    BY <2>1, <2>2, HandledAnswer
  <2>4. ASSUME NEW k \in 1 .. Len(units)
        PROVE  units[k].m = Header.m /\ units[k].k = k
    <3>1. Len(units) <= 1 + S[i].body
      BY <2>3
    <3>2. PICK j \in Nat : j = k - 1 /\ j + 1 = k /\ j \in 0 .. S[i].body
      <4>1. k - 1 \in Nat /\ (k - 1) + 1 = k /\ k - 1 \in 0 .. S[i].body
        BY <2>3, <3>1
      <4> QED BY <4>1
    <3>3. S[i + j].m = S[i].m /\ S[i + j].k = j + 1
      BY <2>3, <3>2 DEF AnswerAt
    <3> QED BY <2>3, <3>2, <3>3
  <2> QED BY <2>3, <2>4
<1> QED BY <1>1, RingInvHolds, StreamInvHolds, PTL

-----------------------------------------------------------------------------
(* How many elements of a sequence are in a set. *)

(* Those of the places from a + 1 to b. *)
Between(S, a, b, E) == Cardinality({ i \in a + 1 .. b : S[i] \in E })

LEMMA BetweenNat ==
  ASSUME NEW S, NEW a \in Nat, NEW b \in Nat, NEW E
  PROVE  /\ Between(S, a, b, E) \in Nat
         /\ IsFiniteSet({ i \in a + 1 .. b : S[i] \in E })
<1> DEFINE A == { i \in a + 1 .. b : S[i] \in E }
<1>1. IsFiniteSet(a + 1 .. b) /\ A \subseteq a + 1 .. b
  BY FS_Interval
<1>2. IsFiniteSet(A)
  BY <1>1, FS_Subset
<1>3. Cardinality(A) \in Nat
  BY <1>2, FS_CardinalityType
<1> QED BY <1>2, <1>3 DEF Between

LEMMA BetweenSum ==
  ASSUME NEW S, NEW a \in Nat, NEW b \in Nat, NEW c \in Nat, a <= b, b <= c, NEW E
  PROVE  Between(S, a, c, E) = Between(S, a, b, E) + Between(S, b, c, E)
<1> DEFINE A == { i \in a + 1 .. b : S[i] \in E }
           B == { i \in b + 1 .. c : S[i] \in E }
           C == { i \in a + 1 .. c : S[i] \in E }
<1>1. IsFiniteSet(A) /\ IsFiniteSet(B)
  BY BetweenNat
<1>2. C = A \cup B /\ A \cap B = {}
  OBVIOUS
<1>3. Cardinality(A) \in Nat /\ Cardinality(B) \in Nat
  BY <1>1, FS_CardinalityType
<1>4. Cardinality(A \cup B) = Cardinality(A) + Cardinality(B) - Cardinality(A \cap B)
  BY <1>1, FS_Union
<1>5. Cardinality(A \cap B) = 0
  BY <1>2, FS_EmptySet
<1> HIDE DEF A, B, C
<1>6. Cardinality(C) = Cardinality(A) + Cardinality(B)
  BY <1>2, <1>3, <1>4, <1>5
<1> QED BY <1>6 DEF Between, A, B, C

LEMMA BetweenNone ==
  ASSUME NEW S, NEW a \in Nat, NEW b \in Nat, NEW E, \A i \in a + 1 .. b : S[i] \notin E
  PROVE  Between(S, a, b, E) = 0
<1>1. { i \in a + 1 .. b : S[i] \in E } = {}
  OBVIOUS
<1> QED BY <1>1, FS_EmptySet DEF Between

LEMMA BetweenOne ==
  ASSUME NEW S, NEW a \in Nat, NEW b \in Nat, a < b, NEW E,
         \A i \in a + 2 .. b : S[i] \notin E
  PROVE  Between(S, a, b, E) = IF S[a + 1] \in E THEN 1 ELSE 0
<1>1. CASE S[a + 1] \in E
  <2>1. { i \in a + 1 .. b : S[i] \in E } = { a + 1 }
    <3>1. ASSUME NEW i \in a + 1 .. b, S[i] \in E PROVE i = a + 1
      <4>1. i = a + 1 \/ i \in a + 2 .. b
        OBVIOUS
      <4> QED BY <3>1, <4>1
    <3>2. a + 1 \in a + 1 .. b
      OBVIOUS
    <3> QED BY <1>1, <3>1, <3>2
  <2> QED BY <1>1, <2>1, FS_Singleton DEF Between
<1>2. CASE S[a + 1] \notin E
  <2>1. ASSUME NEW i \in a + 1 .. b PROVE S[i] \notin E
    <3>1. i = a + 1 \/ i \in a + 2 .. b
      OBVIOUS
    <3> QED BY <1>2, <3>1
  <2> QED BY <1>2, <2>1, BetweenNone
<1> QED BY <1>1, <1>2

(* What s holds, a piece of S holds at its place. *)
LEMMA CountAt ==
  ASSUME NEW S, NEW s, Len(s) \in Nat, NEW x \in Nat, PieceAt(S, s, x), NEW E
  PROVE  Count(s, E) = Between(S, x, x + Len(s), E) /\ Count(s, E) \in Nat
<1> DEFINE n == Len(s)
           A == { i \in 1 .. n : s[i] \in E }
           B == { i \in x + 1 .. x + n : S[i] \in E }
           f == [ i \in A |-> x + i ]
<1>1. n \in Nat /\ \A i \in 1 .. n : s[i] = S[x + i]
  BY DEF PieceAt
<1> HIDE DEF n
<1>2. IsFiniteSet(A)
  <2>1. IsFiniteSet(1 .. n)
    BY <1>1, FS_Interval
  <2>2. A \subseteq 1 .. n
    OBVIOUS
  <2> QED BY <2>1, <2>2, FS_Subset
<1>3. f \in Bijection(A, B)
  <2>1. ASSUME NEW i \in A PROVE f[i] \in B
    BY <1>1
  <2>2. ASSUME NEW i \in A, NEW j \in A, f[i] = f[j] PROVE i = j
    BY <1>1, <2>2
  <2>3. ASSUME NEW k \in B PROVE \E i \in A : f[i] = k
    <3>1. k - x \in 1 .. n /\ x + (k - x) = k
      BY <1>1
    <3>2. k - x \in A
      BY <1>1, <3>1
    <3> QED BY <3>1, <3>2
  <2>4. f \in [ A -> B ]
    BY <2>1
  <2> HIDE DEF f, A, B
  <2> QED BY <2>2, <2>3, <2>4 DEF Bijection, Injection, Surjection, IsInjective
<1>4. Cardinality(A) = Cardinality(B) /\ Cardinality(A) \in Nat
  <2> HIDE DEF A, B, f
  <2>1. ExistsBijection(A, B)
    BY <1>3 DEF ExistsBijection
  <2> QED BY <1>2, <2>1, FS_Bijection, FS_CardinalityType
<1> QED BY <1>4 DEF Count, Between, n

LEMMA CountPiece ==
  ASSUME NEW S, NEW s, Len(s) \in Nat, NEW x \in Nat, PieceAt(S, s, x), NEW E,
         NEW y \in Nat, y = x + Len(s)
  PROVE  Count(s, E) = Between(S, x, y, E) /\ Count(s, E) \in Nat
BY CountAt

LEMMA CountNat ==
  ASSUME NEW U, NEW s \in Seq(U), NEW E
  PROVE  Count(s, E) \in Nat /\ Count(s, E) = Between(s, 0, Len(s), E) /\ Len(s) \in Nat
<1>1. Len(s) \in Nat /\ 0 \in Nat /\ PieceAt(s, s, 0) /\ Len(s) = 0 + Len(s)
  BY DEF PieceAt
<1>2. Count(s, E) = Between(s, 0, Len(s), E) /\ Count(s, E) \in Nat
  BY ONLY <1>1, CountPiece
<1> QED BY <1>1, <1>2

LEMMA CountEmpty ==
  ASSUME NEW E
  PROVE  Count(<< >>, E) = 0
<1>1. { i \in 1 .. Len(<< >>) : << >>[i] \in E } = {}
  OBVIOUS
<1> QED BY <1>1, FS_EmptySet DEF Count

LEMMA CountJoined ==
  ASSUME NEW U, NEW s \in Seq(U), NEW t \in Seq(U), NEW E
  PROVE  Count(s \o t, E) = Count(s, E) + Count(t, E)
<1> DEFINE u == s \o t
<1>1. /\ u \in Seq(U) /\ Len(s) \in Nat /\ Len(t) \in Nat /\ Len(u) = Len(s) + Len(t)
      /\ \A i \in 1 .. Len(s) : u[i] = s[i]
      /\ \A i \in 1 .. Len(t) : u[Len(s) + i] = t[i]
  BY Joined
<1> HIDE DEF u
<1>2. PieceAt(u, s, 0) /\ PieceAt(u, t, Len(s)) /\ Len(s) = 0 + Len(s)
  BY <1>1 DEF PieceAt
<1>3. Count(s, E) = Between(u, 0, Len(s), E)
  BY <1>1, <1>2, CountPiece
<1>4. Count(t, E) = Between(u, Len(s), Len(u), E)
  BY <1>1, <1>2, CountPiece
<1>5. Count(u, E) = Between(u, 0, Len(u), E)
  BY <1>1, CountNat
<1>6. Between(u, 0, Len(u), E) = Between(u, 0, Len(s), E) + Between(u, Len(s), Len(u), E)
  <2>1. Len(u) \in Nat /\ 0 <= Len(s) /\ Len(s) <= Len(u)
    BY <1>1
  <2> QED BY <1>1, <2>1, BetweenSum
<1>7. Count(u, E) = Count(s, E) + Count(t, E)
  BY <1>3, <1>4, <1>5, <1>6
<1> QED BY <1>7 DEF u

LEMMA CountAppend ==
  ASSUME NEW U, NEW s \in Seq(U), NEW x \in U, NEW E
  PROVE  Count(Append(s, x), E) = Count(s, E) + (IF x \in E THEN 1 ELSE 0)
<1> DEFINE u == Append(s, x)
<1>1. /\ u \in Seq(U) /\ Len(s) \in Nat /\ Len(u) = Len(s) + 1
      /\ \A i \in 1 .. Len(s) : u[i] = s[i]
      /\ u[Len(s) + 1] = x
  OBVIOUS
<1> HIDE DEF u
<1>2. PieceAt(u, s, 0) /\ Len(s) = 0 + Len(s)
  BY <1>1 DEF PieceAt
<1>3. Count(s, E) = Between(u, 0, Len(s), E)
  BY ONLY 0 \in Nat, <1>1, <1>2, CountPiece
<1>4. Between(u, Len(s), Len(s) + 1, E) = IF x \in E THEN 1 ELSE 0
  <2>1. Len(s) + 1 \in Nat /\ Len(s) < Len(s) + 1 /\ \A i \in Len(s) + 2 .. Len(s) + 1 : u[i] \notin E
    BY <1>1
  <2> QED BY <1>1, <2>1, BetweenOne
<1>5. Count(u, E) = Between(u, 0, Len(s) + 1, E)
  BY <1>1, CountNat
<1>6. Between(u, 0, Len(s) + 1, E)
        = Between(u, 0, Len(s), E) + Between(u, Len(s), Len(s) + 1, E)
  <2>1. Len(s) + 1 \in Nat /\ 0 <= Len(s) /\ Len(s) <= Len(s) + 1
    BY <1>1
  <2> QED BY <1>1, <2>1, BetweenSum
<1>7. Count(u, E) = Count(s, E) + (IF x \in E THEN 1 ELSE 0)
  BY <1>3, <1>4, <1>5, <1>6
<1> QED BY <1>7 DEF u

LEMMA CountRemoved ==
  ASSUME NEW U, NEW s \in Seq(U), NEW i \in 1 .. Len(s), NEW E
  PROVE  Count(s, E) = Count(RemoveAt(s, i), E) + (IF s[i] \in E THEN 1 ELSE 0)
<1> DEFINE a == SubSeq(s, 1, i - 1)
           b == SubSeq(s, i + 1, Len(s))
<1>1. PICK n \in Nat, h \in Nat : n = Len(s) /\ h + 1 = i /\ h = i - 1 /\ h < n
  <2>1. Len(s) \in Nat /\ i - 1 \in Nat /\ (i - 1) + 1 = i /\ i - 1 < Len(s)
    OBVIOUS
  <2> QED BY <2>1
<1>2. a \in Seq(U) /\ Len(a) = h /\ \A k \in 1 .. h : a[k] = s[k]
  <2>1. \A k \in 1 .. h : s[k] \in U
    BY <1>1
  <2> QED BY <1>1, <2>1, SubSeqProperties
<1>3. b \in Seq(U) /\ Len(b) = n - (h + 1) /\ \A k \in 1 .. n - (h + 1) : b[k] = s[(h + 1) + k]
  <2>1. \A k \in h + 2 .. n : s[k] \in U
    BY <1>1
  <2>2. b = SubSeq(s, h + 2, n)
    BY <1>1
  <2>3. /\ b \in Seq(U) /\ Len(b) = IF h + 2 <= n THEN n - (h + 2) + 1 ELSE 0
        /\ \A k \in 1 .. n - (h + 2) + 1 : b[k] = s[(h + 2) + k - 1]
    BY <1>1, <2>1, <2>2, SubSeqProperties
  <2>4. n - (h + 2) + 1 = n - (h + 1) /\ (~ (h + 2 <= n) => n - (h + 1) = 0)
    BY <1>1
  <2>5. \A k \in 1 .. n - (h + 1) : (h + 2) + k - 1 = (h + 1) + k
    BY <1>1
  <2> QED BY <2>3, <2>4, <2>5
<1>4. RemoveAt(s, i) = a \o b
  BY DEF RemoveAt
<1> HIDE DEF a, b
<1>5. Count(a \o b, E) = Count(a, E) + Count(b, E)
  BY <1>2, <1>3, CountJoined
<1>6. Count(a, E) = Between(s, 0, h, E) /\ Count(a, E) \in Nat
  <2>1. Len(a) \in Nat /\ 0 \in Nat /\ PieceAt(s, a, 0) /\ h = 0 + Len(a)
    BY <1>1, <1>2 DEF PieceAt
  <2> QED BY ONLY <2>1, CountPiece
<1>7. Count(b, E) = Between(s, h + 1, n, E) /\ Count(b, E) \in Nat
  <2>1. PICK x \in Nat : x = h + 1
    OBVIOUS
  <2>2. Len(b) \in Nat /\ PieceAt(s, b, x) /\ n = x + Len(b)
    BY <1>1, <1>3, <2>1 DEF PieceAt
  <2>3. Count(b, E) = Between(s, x, n, E) /\ Count(b, E) \in Nat
    <3>1. Count(b, E) = Between(s, x, x + Len(b), E) /\ Count(b, E) \in Nat
      BY ONLY x \in Nat, <2>2, CountAt
    <3>2. n = x + Len(b)
      BY <2>2
    <3> QED BY <3>1, <3>2
  <2> QED BY <2>1, <2>3
<1>8. Between(s, h, h + 1, E) = IF s[i] \in E THEN 1 ELSE 0
  <2>1. h + 1 \in Nat /\ h < h + 1 /\ \A k \in h + 2 .. h + 1 : s[k] \notin E
    BY <1>1
  <2> QED BY <1>1, <2>1, BetweenOne
<1>9. Count(s, E) = Between(s, 0, n, E)
  BY <1>1, CountNat
<1>10. Between(s, 0, n, E) = Between(s, 0, h + 1, E) + Between(s, h + 1, n, E)
  <2>1. h + 1 \in Nat /\ 0 <= h + 1 /\ h + 1 <= n
    BY <1>1
  <2> QED BY <1>1, <2>1, BetweenSum
<1>11. Between(s, 0, h + 1, E) = Between(s, 0, h, E) + Between(s, h, h + 1, E)
  <2>1. h + 1 \in Nat /\ 0 <= h /\ h <= h + 1
    BY <1>1
  <2> QED BY <1>1, <2>1, BetweenSum
<1> QED BY <1>4, <1>5, <1>6, <1>7, <1>8, <1>9, <1>10, <1>11

-----------------------------------------------------------------------------
(* What FlattenSeq, which is recursive, returns.  The induction is on a    *)
(* set of places: a set that holds each of the first n numbers if it holds *)
(* the smaller ones holds them all.                                        *)
LEMMA Climb ==
  ASSUME NEW n \in Nat, NEW G, \A i \in 1 .. n : (\A j \in 1 .. i - 1 : j \in G) => i \in G
  PROVE  \A i \in 1 .. n : i \in G
<1> DEFINE A == { i \in 1 .. n : i \notin G }
           F == { 1 .. i : i \in A }
           R == StrictSubsetOrdering(Nat)
<1> SUFFICES ASSUME A # {} PROVE FALSE
  OBVIOUS
<1>1. F \subseteq FiniteSubsetsOf(Nat) /\ F # {}
  <2>1. ASSUME NEW i \in A PROVE IsFiniteSet(1 .. i) /\ 1 .. i \in SUBSET Nat
    <3>1. i \in Int
      OBVIOUS
    <3>2. IsFiniteSet(1 .. i)
      BY <3>1, FS_Interval
    <3>3. 1 .. i \in SUBSET Nat
      OBVIOUS
    <3> QED BY <3>2, <3>3
  <2> QED BY <2>1 DEF FiniteSubsetsOf
<1>2. IsWellFoundedOn(R, FiniteSubsetsOf(Nat))
  BY FS_StrictSubsetOrderingWellFounded
<1>3. \E X \in F : \A Y \in F : << Y, X >> \notin R
  <2> HIDE DEF F, R
  <2> QED BY <1>1, <1>2, WFMin
<1>4. PICK i \in A : \A Y \in F : << Y, 1 .. i >> \notin R
  BY <1>3
<1>5. ASSUME NEW j \in 1 .. i - 1, j \notin G PROVE FALSE
  <2>1. j \in A /\ 1 .. j \in F
    BY <1>5
  <2>2. i \in 1 .. i /\ i \notin 1 .. j /\ 1 .. j \subseteq 1 .. i
    BY <1>5
  <2>3. 1 .. i \in SUBSET Nat /\ 1 .. j \in SUBSET Nat /\ 1 .. j # 1 .. i
    BY <2>2
  <2>4. << 1 .. j, 1 .. i >> \in R
    BY <2>2, <2>3 DEF StrictSubsetOrdering
  <2> QED BY <1>4, <2>1, <2>4
<1> QED BY <1>4, <1>5

(* f[i] is the first i sequences of s joined. *)
JoinsUp(s, n, f) ==
  f = [ i \in 1 .. n |-> IF i = 1 THEN s[i] ELSE f[i - 1] \o s[i] ]

LEMMA JoinsUpIs ==
  ASSUME NEW s, NEW n, NEW f
  PROVE  JoinsUp(s, n, f) =>
           \A i \in 1 .. n : f[i] = IF i = 1 THEN s[i] ELSE f[i - 1] \o s[i]
<1> SUFFICES ASSUME JoinsUp(s, n, f), NEW i \in 1 .. n
             PROVE  f[i] = IF i = 1 THEN s[i] ELSE f[i - 1] \o s[i]
  OBVIOUS
<1> DEFINE g == [ k \in 1 .. n |-> IF k = 1 THEN s[k] ELSE f[k - 1] \o s[k] ]
<1>1. g[i] = IF i = 1 THEN s[i] ELSE f[i - 1] \o s[i]
  OBVIOUS
<1>2. f = g
  BY DEF JoinsUp
<1> HIDE DEF g
<1>3. f[i] = g[i]
  BY <1>2
<1> QED BY <1>1, <1>3

LEMMA JoinsUpExists ==
  ASSUME NEW s, NEW n \in Nat, n > 0
  PROVE  \E f : JoinsUp(s, n, f)
<1> DEFINE G == { i \in 1 .. n : \E f : JoinsUp(s, i, f) }
<1>1. ASSUME NEW i \in 1 .. n, \A j \in 1 .. i - 1 : j \in G
      PROVE  i \in G
  <2>1. CASE i = 1
    <3> DEFINE f == [ k \in 1 .. 1 |-> s[k] ]
    <3>1. f = [ k \in 1 .. 1 |-> IF k = 1 THEN s[k] ELSE f[k - 1] \o s[k] ]
      OBVIOUS
    <3>2. JoinsUp(s, 1, f)
      BY <3>1 DEF JoinsUp
    <3> QED BY <2>1, <3>2
  <2>2. CASE i # 1
    <3>1. i - 1 \in 1 .. i - 1 /\ i - 1 \in Nat
      BY <2>2
    <3>2. PICK f : JoinsUp(s, i - 1, f)
      BY <1>1, <3>1
    <3>3. \A k \in 1 .. i - 1 : f[k] = IF k = 1 THEN s[k] ELSE f[k - 1] \o s[k]
      BY <3>2, JoinsUpIs
    <3> DEFINE g == [ k \in 1 .. i |-> IF k = i THEN f[i - 1] \o s[i] ELSE f[k] ]
               h == [ k \in 1 .. i |-> IF k = 1 THEN s[k] ELSE g[k - 1] \o s[k] ]
    <3>4. \A k \in 1 .. i : g[k] = IF k = i THEN f[i - 1] \o s[i] ELSE f[k]
      OBVIOUS
    <3>5. DOMAIN g = 1 .. i /\ g = [ k \in 1 .. i |-> g[k] ]
      OBVIOUS
    <3>6. DOMAIN h = 1 .. i /\ h = [ k \in 1 .. i |-> h[k] ]
          /\ \A k \in 1 .. i : h[k] = IF k = 1 THEN s[k] ELSE g[k - 1] \o s[k]
      OBVIOUS
    <3> HIDE DEF g, h
    <3>7. \A k \in 1 .. i : g[k] = h[k]
      <4> TAKE k \in 1 .. i
      <4>1. CASE k = i
        <5>1. i - 1 \in 1 .. i /\ i - 1 # i /\ i \in 1 .. i
          BY <3>1
        <5>2. g[i - 1] = f[i - 1]
          BY <3>4, <5>1
        <5>3. h[i] = g[i - 1] \o s[i] /\ g[i] = f[i - 1] \o s[i]
          BY <2>2, <3>4, <3>6, <5>1
        <5> QED BY <4>1, <5>2, <5>3
      <4>2. CASE k # i
        <5>1. k \in 1 .. i - 1
          BY <4>2
        <5>2. g[k] = f[k] /\ f[k] = IF k = 1 THEN s[k] ELSE f[k - 1] \o s[k]
          BY <3>3, <3>4, <4>2, <5>1
        <5>3. k # 1 => g[k - 1] = f[k - 1]
          <6> SUFFICES ASSUME k # 1 PROVE g[k - 1] = f[k - 1]
            OBVIOUS
          <6>1. k - 1 \in 1 .. i /\ k - 1 # i
            BY <5>1
          <6> QED BY <3>4, <6>1
        <5> QED BY <3>6, <5>2, <5>3
      <4> QED BY <4>1, <4>2
    <3>8. g = h
      <4>1. [ k \in 1 .. i |-> g[k] ] = [ k \in 1 .. i |-> h[k] ]
        BY <3>7
      <4> QED BY <3>5, <3>6, <4>1
    <3>9. JoinsUp(s, i, g)
      BY <3>8 DEF JoinsUp, h
    <3> QED BY <3>9
  <2> QED BY <2>1, <2>2
<1> HIDE DEF G
<1>2. n \in 1 .. n /\ \A i \in 1 .. n : i \in G
  BY <1>1, Climb
<1> QED BY <1>2 DEF G

LEMMA FlattenIs ==
  ASSUME NEW U, NEW s \in Seq(Seq(U)), Len(s) > 0
  PROVE  \E f : /\ FlattenSeq(s) = f[Len(s)] /\ f[1] = s[1]
                /\ \A i \in 2 .. Len(s) : f[i] = f[i - 1] \o s[i]
                /\ \A i \in 1 .. Len(s) : f[i] \in Seq(U)
<1>1. Len(s) \in Nat
  OBVIOUS
<1> DEFINE f == CHOOSE f : f = [ i \in 1 .. Len(s) |-> IF i = 1 THEN s[i] ELSE f[i - 1] \o s[i] ]
<1>2. FlattenSeq(s) = f[Len(s)]
  BY <1>1 DEF FlattenSeq
<1>3. JoinsUp(s, Len(s), f)
  <2>1. \E g : g = [ i \in 1 .. Len(s) |-> IF i = 1 THEN s[i] ELSE g[i - 1] \o s[i] ]
    BY <1>1, JoinsUpExists DEF JoinsUp
  <2>2. f = [ i \in 1 .. Len(s) |-> IF i = 1 THEN s[i] ELSE f[i - 1] \o s[i] ]
    BY <2>1
  <2> HIDE DEF f
  <2> QED BY <2>2 DEF JoinsUp
<1> HIDE DEF f
<1>4. \A i \in 1 .. Len(s) : f[i] = IF i = 1 THEN s[i] ELSE f[i - 1] \o s[i]
  BY <1>3, JoinsUpIs
<1>5. f[1] = s[1] /\ \A i \in 2 .. Len(s) : f[i] = f[i - 1] \o s[i]
  <2>1. 1 \in 1 .. Len(s)
    BY <1>1
  <2>2. ASSUME NEW i \in 2 .. Len(s) PROVE i \in 1 .. Len(s) /\ i # 1
    BY <1>1
  <2> QED BY <1>4, <2>1, <2>2
<1>6. \A i \in 1 .. Len(s) : f[i] \in Seq(U)
  <2> DEFINE G == { i \in 1 .. Len(s) : f[i] \in Seq(U) }
  <2>1. ASSUME NEW i \in 1 .. Len(s), \A j \in 1 .. i - 1 : j \in G
        PROVE  i \in G
    <3>1. s[i] \in Seq(U)
      OBVIOUS
    <3>2. CASE i = 1
      BY <1>5, <3>1, <3>2
    <3>3. CASE i # 1
      <4>1. i - 1 \in 1 .. i - 1 /\ i \in 2 .. Len(s)
        BY <3>3
      <4>2. f[i - 1] \in Seq(U) /\ f[i] = f[i - 1] \o s[i]
        BY <1>5, <2>1, <4>1
      <4>3. \A v \in Seq(U), w \in Seq(U) : v \o w \in Seq(U)
        OBVIOUS
      <4> QED BY <3>1, <4>2, <4>3
    <3> QED BY <3>2, <3>3
  <2> HIDE DEF G
  <2>2. \A i \in 1 .. Len(s) : i \in G
    BY <1>1, <2>1, Climb
  <2> QED BY <2>2 DEF G
<1> QED BY <1>2, <1>5, <1>6

LEMMA FlattenType ==
  ASSUME NEW U, NEW s \in Seq(Seq(U))
  PROVE  FlattenSeq(s) \in Seq(U) /\ (Len(s) = 0 => FlattenSeq(s) = << >>)
<1>1. CASE Len(s) = 0
  <2>1. s = << >> /\ FlattenSeq(s) = s
    BY <1>1 DEF FlattenSeq
  <2>2. << >> \in Seq(U)
    OBVIOUS
  <2> QED BY <2>1, <2>2
<1>2. CASE Len(s) # 0
  <2>1. Len(s) > 0 /\ Len(s) \in 1 .. Len(s)
    BY <1>2
  <2> QED BY <1>2, <2>1, FlattenIs
<1> QED BY <1>1, <1>2

(* The last sequence counts as much as is added, the first one as much as  *)
(* is taken away.                                                          *)
LEMMA FlattenAppend ==
  ASSUME NEW U, NEW s \in Seq(Seq(U)), NEW x \in Seq(U), NEW E
  PROVE  Count(FlattenSeq(Append(s, x)), E) = Count(FlattenSeq(s), E) + Count(x, E)
<1> DEFINE t == Append(s, x)
<1>1. PICK n \in Nat : n = Len(s)
  OBVIOUS
<1>2. /\ t \in Seq(Seq(U)) /\ Len(t) = n + 1 /\ t[n + 1] = x
      /\ \A i \in 1 .. n : t[i] = s[i]
  <2>1. \A V : \A v \in Seq(V), y \in V : /\ Append(v, y) \in Seq(V) /\ Len(Append(v, y)) = Len(v) + 1
                                          /\ Append(v, y)[Len(v) + 1] = y
                                          /\ \A i \in 1 .. Len(v) : Append(v, y)[i] = v[i]
    OBVIOUS
  <2> QED BY <1>1, <2>1
<1> HIDE DEF t
<1>3. PICK f : /\ FlattenSeq(t) = f[n + 1] /\ f[1] = t[1]
               /\ \A i \in 2 .. n + 1 : f[i] = f[i - 1] \o t[i]
               /\ \A i \in 1 .. n + 1 : f[i] \in Seq(U)
  <2>1. Len(t) > 0
    BY <1>2
  <2>2. \E f : /\ FlattenSeq(t) = f[Len(t)] /\ f[1] = t[1]
               /\ \A i \in 2 .. Len(t) : f[i] = f[i - 1] \o t[i]
               /\ \A i \in 1 .. Len(t) : f[i] \in Seq(U)
    BY <1>2, <2>1, FlattenIs
  <2> QED BY <1>2, <2>2
<1>4. CASE n = 0
  <2>1. FlattenSeq(t) = x
    BY <1>2, <1>3, <1>4
  <2>2. FlattenSeq(s) = << >>
    BY <1>1, <1>4, FlattenType
  <2>3. Count(FlattenSeq(s), E) = 0 /\ Count(x, E) \in Nat
    BY <2>2, CountEmpty, CountNat
  <2> QED BY <2>1, <2>3 DEF t
<1>5. CASE n > 0
  <2>1. PICK g : /\ FlattenSeq(s) = g[n] /\ g[1] = s[1]
                 /\ \A i \in 2 .. n : g[i] = g[i - 1] \o s[i]
                 /\ \A i \in 1 .. n : g[i] \in Seq(U)
    BY <1>1, <1>5, FlattenIs
  <2> DEFINE G == { i \in 1 .. n : f[i] = g[i] }
  <2>2. ASSUME NEW i \in 1 .. n, \A j \in 1 .. i - 1 : j \in G
        PROVE  i \in G
    <3>1. CASE i = 1
      BY <1>2, <1>3, <2>1, <3>1
    <3>2. CASE i # 1
      <4>1. i - 1 \in 1 .. i - 1 /\ i \in 2 .. n /\ i \in 2 .. n + 1
        BY <3>2
      <4>2. f[i - 1] = g[i - 1]
        BY <2>2, <4>1
      <4>3. f[i] = f[i - 1] \o t[i] /\ g[i] = g[i - 1] \o s[i] /\ t[i] = s[i]
        BY <1>2, <1>3, <2>1, <4>1
      <4> QED BY <4>2, <4>3
    <3> QED BY <3>1, <3>2
  <2> HIDE DEF G
  <2>3. \A i \in 1 .. n : i \in G
    BY <2>2, Climb
  <2>4. f[n] = g[n]
    <3>1. n \in 1 .. n
      BY <1>5
    <3> QED BY <2>3, <3>1 DEF G
  <2>5. FlattenSeq(t) = FlattenSeq(s) \o x
    <3>1. n + 1 \in 2 .. n + 1 /\ (n + 1) - 1 = n
      BY <1>5
    <3> QED BY <1>2, <1>3, <2>1, <2>4, <3>1
  <2>6. FlattenSeq(s) \in Seq(U)
    BY FlattenType
  <2> QED BY <2>5, <2>6, CountJoined DEF t
<1> QED BY <1>4, <1>5

LEMMA FlattenTail ==
  ASSUME NEW U, NEW s \in Seq(Seq(U)), Len(s) > 0, NEW E
  PROVE  Count(FlattenSeq(s), E) = Count(Head(s), E) + Count(FlattenSeq(Tail(s)), E)
<1> DEFINE t == Tail(s)
<1>1. PICK n \in Nat : n + 1 = Len(s)
  <2>1. Len(s) - 1 \in Nat /\ (Len(s) - 1) + 1 = Len(s)
    OBVIOUS
  <2> QED BY <2>1
<1>2. /\ t \in Seq(Seq(U)) /\ Len(t) = n /\ Head(s) = s[1] /\ Head(s) \in Seq(U)
      /\ \A i \in 1 .. n : t[i] = s[i + 1]
  <2> DEFINE V == Seq(U)
  <2>1. s \in Seq(V)
    OBVIOUS
  <2> HIDE DEF V
  <2>2. s # << >> /\ Len(s) - 1 = n
    BY <1>1, <2>1
  <2>3. t \in Seq(V) /\ Head(s) \in V
    BY <2>1, <2>2, HeadTailProperties
  <2>4. Head(s) = s[1] /\ Len(t) = Len(s) - 1 /\ \A i \in 1 .. Len(s) - 1 : t[i] = s[i + 1]
    BY <2>1, <2>2
  <2> QED BY <2>2, <2>3, <2>4 DEF V
<1> HIDE DEF t
<1>3. PICK f : /\ FlattenSeq(s) = f[n + 1] /\ f[1] = s[1]
               /\ \A i \in 2 .. n + 1 : f[i] = f[i - 1] \o s[i]
               /\ \A i \in 1 .. n + 1 : f[i] \in Seq(U)
  <2>1. \E f : /\ FlattenSeq(s) = f[Len(s)] /\ f[1] = s[1]
               /\ \A i \in 2 .. Len(s) : f[i] = f[i - 1] \o s[i]
               /\ \A i \in 1 .. Len(s) : f[i] \in Seq(U)
    BY FlattenIs
  <2> QED BY <1>1, <2>1
<1>4. CASE n = 0
  <2>1. FlattenSeq(s) = Head(s) /\ FlattenSeq(t) = << >>
    <3>1. FlattenSeq(s) = Head(s)
      BY <1>2, <1>3, <1>4
    <3>2. Len(t) = 0 /\ t \in Seq(Seq(U))
      BY <1>2, <1>4
    <3> QED BY <3>1, <3>2, FlattenType
  <2>2. Count(FlattenSeq(t), E) = 0 /\ Count(Head(s), E) \in Nat
    BY <1>2, <2>1, CountEmpty, CountNat
  <2> QED BY <2>1, <2>2 DEF t
<1>5. CASE n > 0
  <2>1. PICK g : /\ FlattenSeq(t) = g[n] /\ g[1] = t[1]
                 /\ \A i \in 2 .. n : g[i] = g[i - 1] \o t[i]
                 /\ \A i \in 1 .. n : g[i] \in Seq(U)
    BY <1>2, <1>5, FlattenIs
  <2> DEFINE G == { i \in 1 .. n : Count(f[i + 1], E) = Count(s[1], E) + Count(g[i], E) }
  <2>2. ASSUME NEW i \in 1 .. n, \A j \in 1 .. i - 1 : j \in G
        PROVE  i \in G
    <3>0. i + 1 \in 2 .. n + 1 /\ i + 1 \in 1 .. n + 1 /\ i \in 1 .. n + 1 /\ (i + 1) - 1 = i
      OBVIOUS
    <3>1. s[i + 1] = t[i] /\ t[i] \in Seq(U) /\ f[i + 1] = f[i] \o t[i]
      <4>1. s[i + 1] = t[i]
        BY <1>2
      <4>2. t[i] \in Seq(U)
        BY <1>2
      <4>3. f[i + 1] = f[(i + 1) - 1] \o s[i + 1]
        BY <1>3, <3>0
      <4> QED BY <3>0, <4>1, <4>2, <4>3
    <3>2. Count(f[i + 1], E) = Count(f[i], E) + Count(t[i], E)
      BY <1>3, <3>0, <3>1, CountJoined
    <3>3. CASE i = 1
      BY <1>3, <2>1, <3>2, <3>3
    <3>4. CASE i # 1
      <4>1. i - 1 \in 1 .. i - 1 /\ i \in 2 .. n /\ (i - 1) + 1 = i /\ i - 1 \in 1 .. n
        BY <3>4
      <4>2. Count(f[i], E) = Count(s[1], E) + Count(g[i - 1], E)
        BY <2>2, <4>1
      <4>3. Count(g[i], E) = Count(g[i - 1], E) + Count(t[i], E)
        <5>1. g[i] = g[i - 1] \o t[i] /\ g[i - 1] \in Seq(U)
          BY <2>1, <4>1
        <5> QED BY <3>1, <5>1, CountJoined
      <4>4. /\ Count(s[1], E) \in Nat /\ Count(g[i - 1], E) \in Nat /\ Count(t[i], E) \in Nat
        BY <1>2, <2>1, <3>1, <4>1, CountNat
      <4> QED BY <3>2, <4>2, <4>3, <4>4
    <3> QED BY <3>3, <3>4
  <2> HIDE DEF G
  <2>3. \A i \in 1 .. n : i \in G
    BY <2>2, Climb
  <2>4. Count(f[n + 1], E) = Count(s[1], E) + Count(g[n], E)
    <3>1. n \in 1 .. n
      BY <1>5
    <3> QED BY <2>3, <3>1 DEF G
  <2> QED BY <1>2, <1>3, <2>1, <2>4 DEF t
<1> QED BY <1>4, <1>5

-----------------------------------------------------------------------------
(* The part of the stream that is in host memory and not read. *)

LEMMA JoinPieces ==
  ASSUME NEW S, NEW a \in Seq(Units), NEW b \in Seq(Units), NEW x \in Nat, NEW y \in Nat,
         y = x + Len(a), PieceAt(S, a, x), PieceAt(S, b, y)
  PROVE  /\ PieceAt(S, a \o b, x) /\ a \o b \in Seq(Units)
         /\ x + Len(a \o b) = y + Len(b)
<1>1. PICK m \in Nat, n \in Nat : m = Len(a) /\ n = Len(b)
  OBVIOUS
<1>2. /\ a \o b \in Seq(Units) /\ Len(a \o b) = m + n
      /\ \A i \in 1 .. m : (a \o b)[i] = a[i]
      /\ \A i \in 1 .. n : (a \o b)[m + i] = b[i]
  BY <1>1, Joined
<1>3. ASSUME NEW i \in 1 .. Len(a \o b) PROVE (a \o b)[i] = S[x + i]
  <2>1. i \in 1 .. m + n
    BY <1>2
  <2>2. CASE i \in 1 .. m
    BY <1>1, <1>2, <2>2 DEF PieceAt
  <2>3. CASE i \notin 1 .. m
    <3>1. PICK j \in 1 .. n : i = m + j
      <4>1. i - m \in 1 .. n /\ i = m + (i - m)
        BY <2>1, <2>3
      <4> QED BY <4>1
    <3>2. x + i = y + j
      BY <1>1, <3>1
    <3>3. (a \o b)[m + j] = b[j] /\ b[j] = S[y + j]
      BY <1>1, <1>2 DEF PieceAt
    <3> QED BY <3>1, <3>2, <3>3
  <2> QED BY <2>2, <2>3
<1>4. x + Len(a \o b) = y + Len(b)
  BY <1>1, <1>2
<1> QED BY <1>2, <1>3, <1>4 DEF PieceAt

(* Windows one after the other are one piece of the stream. *)
LEMMA FlattenPieces ==
  ASSUME NEW S, NEW N \in Nat, NEW ds \in Seq(Seq(Units)),
         \A i \in 1 .. Len(ds) : Len(ds[i]) = BufSize /\ PieceAt(S, ds[i], Start(N + i - 1))
  PROVE  /\ PieceAt(S, FlattenSeq(ds), Start(N)) /\ FlattenSeq(ds) \in Seq(Units)
         /\ Start(N) + Len(FlattenSeq(ds)) = Start(N + Len(ds))
<1>0. FlattenSeq(ds) \in Seq(Units) /\ (Len(ds) = 0 => FlattenSeq(ds) = << >>)
  BY FlattenType
<1>1. PICK n \in Nat, z \in Nat : n = Len(ds) /\ z = Start(N)
  BY Times
<1>2. CASE n = 0
  <2>1. FlattenSeq(ds) = << >> /\ N + Len(ds) = N /\ Start(N) \in Nat /\ Start(N) + 0 = Start(N)
    BY <1>0, <1>1, <1>2
  <2>2. Len(<< >>) = 0 /\ PieceAt(S, << >>, Start(N))
    BY DEF PieceAt
  <2> QED BY <1>0, <2>1, <2>2
<1>3. CASE n > 0
  <2>1. PICK f : /\ FlattenSeq(ds) = f[n] /\ f[1] = ds[1]
                 /\ \A i \in 2 .. n : f[i] = f[i - 1] \o ds[i]
                 /\ \A i \in 1 .. n : f[i] \in Seq(Units)
    BY <1>1, <1>3, FlattenIs
  <2> DEFINE G == { i \in 1 .. n : PieceAt(S, f[i], z) /\ z + Len(f[i]) = Start(N + i) }
  <2>2. ASSUME NEW i \in 1 .. n, \A j \in 1 .. i - 1 : j \in G
        PROVE  i \in G
    <3>1. /\ ds[i] \in Seq(Units) /\ Len(ds[i]) = BufSize
          /\ PieceAt(S, ds[i], Start(N + i - 1))
      BY <1>1
    <3>2. CASE i = 1
      <4>1. N + i - 1 = N /\ N + i = N + 1
        BY <3>2
      <4>2. Start(N + 1) = Start(N) + BufSize
        BY Times
      <4> QED BY <1>1, <2>1, <3>1, <3>2, <4>1, <4>2
    <3>3. CASE i # 1
      <4>1. i - 1 \in 1 .. i - 1 /\ i - 1 \in 1 .. n /\ i \in 2 .. n
        BY <3>3
      <4>2. f[i] = f[i - 1] \o ds[i] /\ f[i - 1] \in Seq(Units)
        BY <2>1, <4>1
      <4>3. PICK y \in Nat : y = Start(N + (i - 1)) /\ Start(N + (i - 1) + 1) = y + BufSize
        <5>1. N + (i - 1) \in Nat
          BY <4>1
        <5> QED BY <5>1, Times
      <4>4. N + i - 1 = N + (i - 1) /\ N + (i - 1) + 1 = N + i
        OBVIOUS
      <4>5. PieceAt(S, f[i - 1], z) /\ y = z + Len(f[i - 1])
        BY <2>2, <4>1, <4>3
      <4>6. PieceAt(S, ds[i], y)
        BY <3>1, <4>3, <4>4
      <4>7. /\ PieceAt(S, f[i - 1] \o ds[i], z)
            /\ z + Len(f[i - 1] \o ds[i]) = y + Len(ds[i])
        <5>1. PICK a \in Seq(Units), b \in Seq(Units) : a = f[i - 1] /\ b = ds[i]
          BY <3>1, <4>2
        <5>2. y = z + Len(a) /\ PieceAt(S, a, z) /\ PieceAt(S, b, y)
          BY <4>5, <4>6, <5>1
        <5>3. PieceAt(S, a \o b, z) /\ z + Len(a \o b) = y + Len(b)
          BY ONLY z \in Nat, y \in Nat, a \in Seq(Units), b \in Seq(Units), <5>2, JoinPieces
        <5> QED BY <5>1, <5>3
      <4> QED BY <3>1, <4>2, <4>3, <4>4, <4>7
    <3> QED BY <3>2, <3>3
  <2> HIDE DEF G
  <2>3. \A i \in 1 .. n : i \in G
    BY <2>2, Climb
  <2>4. n \in G
    BY <1>3, <2>3
  <2> QED BY <1>0, <1>1, <2>1, <2>4 DEF G
<1> QED BY <1>2, <1>3

LEMMA ModThree ==
  ASSUME NEW n \in Nat \ {0}, NEW x \in 0 .. n - 1
  PROVE  (x + 2 * n) % n = x
OBVIOUS

(* The buffers between the two pointers. *)
LEMMA BetweenPointers ==
  ASSUME RingInv
  PROVE  /\ (wrEnq - wrDeq) % (2 * NumBufs) = NumBufs - Away
         /\ \A i \in 1 .. NumBufs - Away :
              (wrDeq + i - 1) % NumBufs = Slot(wrEnq, Away + (i - 1))
<1> DEFINE B == NumBufs
<1>1. PICK e \in Nat, d \in Nat, a \in Nat :
        /\ e = wrEnq /\ d = wrDeq /\ a = Away /\ e \in 0 .. 2 * B - 1 /\ d \in 0 .. 2 * B - 1
        /\ RingAt(e, d, a)
  <2>1. wrEnq \in Nat /\ wrDeq \in Nat /\ Away \in Nat
    BY AwayIs, Bound DEF Pointers
  <2>2. wrEnq \in 0 .. 2 * B - 1 /\ wrDeq \in 0 .. 2 * B - 1 /\ RingAt(wrEnq, wrDeq, Away)
    BY AwayIs DEF Pointers
  <2> QED BY <2>1, <2>2
<1>2. a \in 0 .. B /\ (d = e + a - B \/ d = e + a + B) /\ B \in Nat \ {0}
  BY <1>1, Bound DEF RingAt
<1>3. (e - d) % (2 * B) = B - a
  <2>1. PICK x \in 0 .. 2 * B - 1, m \in Nat \ {0} :
          x = B - a /\ m = 2 * B /\ (e - d = x \/ e - d = x - m)
    <3>1. B - a \in 0 .. 2 * B - 1 /\ 2 * B \in Nat \ {0}
          /\ (e - d = B - a \/ e - d = (B - a) - 2 * B)
      BY <1>2
    <3> QED BY <3>1
  <2>2. x \in 0 .. m - 1
    BY <2>1
  <2>3. x % m = x /\ (x - m) % m = x
    BY <2>2, ModSmall, ModUnique
  <2> QED BY <2>1, <2>3
<1>4. ASSUME NEW i \in 1 .. B - a
      PROVE  (d + i - 1) % B = Slot(e, a + (i - 1))
  <2>1. PICK x \in 0 .. B - 1 : x = Slot(e, a + (i - 1))
    <3>1. Slot(e, a + (i - 1)) \in 0 .. B - 1
      BY <1>1, <1>2 DEF Slot
    <3> QED BY <3>1
  <2>2. d + i - 1 = x \/ d + i - 1 = x + B \/ d + i - 1 = x + 2 * B
    BY <1>1, <1>2, <2>1 DEF Slot
  <2>3. x % B = x /\ (x + B) % B = x /\ (x + 2 * B) % B = x
    BY <1>2, ModSmall, ModUnique, ModThree
  <2> QED BY <2>1, <2>2, <2>3
<1> QED BY <1>1, <1>3, <1>4

LEMMA InMemoryIs ==
  ASSUME RingInv, StreamTypes, NEW S \in Seq(Units), NEW N \in Nat, StreamInvFor(S, N)
  PROVE  /\ InMemory \in Seq(Units) /\ PieceAt(S, InMemory, Pos(N))
         /\ Pos(N) + Len(InMemory) = Start(Written(N))
<1> DEFINE n == (wrEnq - wrDeq) % (2 * NumBufs)
           near == [ i \in 1 .. n |-> (wrDeq + i - 1) % NumBufs ]
           bufs == near \o wrDoneQ
           ds == [ i \in 1 .. Len(bufs) |-> dst[bufs[i]] ]
           rest == IF currDst = -1 \/ dpc = "getBuffer" THEN << >>
                   ELSE SubSeq(dst[currDst], dstOff + 1, BufSize)
<1>0. InMemory = rest \o FlattenSeq(ds)
  BY DEF InMemory
<1>1. PICK a \in Nat, d \in Nat :
        /\ a = NumBufs - Away /\ d = Len(wrDoneQ) /\ Written(N) = N + a + d /\ n = a
        /\ wrDoneQ \in Seq(Buffers)
        /\ \A i \in 1 .. a : (wrDeq + i - 1) % NumBufs = Slot(wrEnq, Away + (i - 1))
  <2>1. NumBufs - Away \in Nat /\ Len(wrDoneQ) \in Nat /\ wrDoneQ \in Seq(Buffers)
    BY AwayIs, WrittenIs
  <2>2. n = NumBufs - Away
    BY BetweenPointers
  <2> HIDE DEF n
  <2>3. Written(N) = N + (NumBufs - Away) + Len(wrDoneQ)
    BY DEF Written
  <2> QED BY <2>1, <2>2, <2>3, BetweenPointers
<1>2. /\ StreamTypes /\ Windows(S, N) /\ Start(N) \in Nat /\ BufSize \in Nat
      /\ dst \in [ Buffers -> Seq(Units) ]
  BY ReaderPlace DEF StreamInvFor, StreamTypes
<1>3. \A i \in 1 .. a : near[i] \in Buffers /\ Window(S, near[i], N + i - 1)
  <2> SUFFICES ASSUME NEW i \in 1 .. a
               PROVE  near[i] \in Buffers /\ Window(S, near[i], N + i - 1)
    OBVIOUS
  <2>1. near[i] = Slot(wrEnq, Away + (i - 1))
    BY <1>1
  <2> HIDE DEF near
  <2>2. i - 1 \in 0 .. NumBufs - Away - 1 /\ N + (i - 1) = N + i - 1
    BY <1>1
  <2>3. Slot(wrEnq, Away + (i - 1)) \in Buffers
    BY <2>2, Apart
  <2>4. Window(S, Slot(wrEnq, Away + (i - 1)), N + (i - 1))
    BY <1>2, <2>2 DEF Windows
  <2> QED BY <2>1, <2>2, <2>3, <2>4
<1>4. near \in Seq(Buffers) /\ Len(near) = a
  <2>1. near = [ i \in 1 .. a |-> (wrDeq + i - 1) % NumBufs ] /\ \A i \in 1 .. a : (wrDeq + i - 1) % NumBufs \in Buffers
    BY <1>1, <1>3
  <2> HIDE DEF near
  <2> DEFINE V == Buffers
  <2>2. \A i \in 1 .. a : (wrDeq + i - 1) % NumBufs \in V
    BY <2>1
  <2> HIDE DEF V
  <2>3. near \in Seq(V) /\ Len(near) = a
    BY <2>1, <2>2
  <2> QED BY <2>3 DEF V
<1> HIDE DEF n, near
<1>5. /\ bufs \in Seq(Buffers) /\ Len(bufs) = a + d
      /\ \A i \in 1 .. a : bufs[i] = near[i]
      /\ \A i \in 1 .. d : bufs[a + i] = wrDoneQ[i]
  <2>1. PICK u \in Seq(Buffers), v \in Seq(Buffers) : u = near /\ v = wrDoneQ
    BY <1>1, <1>4
  <2>2. /\ u \o v \in Seq(Buffers) /\ Len(u \o v) = Len(u) + Len(v)
        /\ \A i \in 1 .. Len(u) : (u \o v)[i] = u[i]
        /\ \A i \in 1 .. Len(v) : (u \o v)[Len(u) + i] = v[i]
    BY Joined
  <2>3. bufs = u \o v /\ Len(u) = a /\ Len(v) = d
    BY <1>1, <1>4, <2>1
  <2> HIDE DEF bufs
  <2> QED BY <2>1, <2>2, <2>3
<1> HIDE DEF bufs
<1>6. \A i \in 1 .. a + d : Window(S, bufs[i], N + i - 1)
  <2> SUFFICES ASSUME NEW i \in 1 .. a + d PROVE Window(S, bufs[i], N + i - 1)
    OBVIOUS
  <2>1. CASE i \in 1 .. a
    BY <1>3, <1>5, <2>1
  <2>2. CASE i \notin 1 .. a
    <3>1. PICK k \in 1 .. d : i = a + k
      <4>1. i - a \in 1 .. d /\ i = a + (i - a)
        BY <2>2
      <4> QED BY <4>1
    <3>2. Window(S, wrDoneQ[k], N + (NumBufs - Away) + k - 1)
      BY <1>1, <1>2 DEF Windows
    <3>3. N + (NumBufs - Away) + k - 1 = N + i - 1
      <4>1. N + a + k - 1 = N + i - 1
        BY <3>1
      <4> QED BY <1>1, <4>1
    <3> QED BY <1>5, <3>1, <3>2, <3>3
  <2> QED BY <2>1, <2>2
<1>7. /\ ds \in Seq(Seq(Units)) /\ Len(ds) = a + d
      /\ \A i \in 1 .. a + d : ds[i] = dst[bufs[i]]
  <2>1. ASSUME NEW i \in 1 .. a + d PROVE dst[bufs[i]] \in Seq(Units)
    <3>1. bufs[i] \in Buffers
      BY <1>5
    <3> QED BY <1>2, <3>1
  <2>2. ds = [ i \in 1 .. a + d |-> dst[bufs[i]] ]
    BY <1>5
  <2> DEFINE V == Seq(Units)
  <2>3. \A i \in 1 .. a + d : dst[bufs[i]] \in V
    BY <2>1
  <2> HIDE DEF V, ds
  <2>4. ds \in Seq(V) /\ Len(ds) = a + d /\ \A i \in 1 .. a + d : ds[i] = dst[bufs[i]]
    BY <2>2, <2>3
  <2> QED BY <2>4 DEF V
<1> HIDE DEF ds
<1>8. \A i \in 1 .. Len(ds) : Len(ds[i]) = BufSize /\ PieceAt(S, ds[i], Start(N + i - 1))
  BY <1>6, <1>7 DEF Window
<1>9. PICK z \in Nat, y \in Nat, fl \in Seq(Units) :
        /\ z = Start(N) /\ y = Start(Written(N)) /\ fl = FlattenSeq(ds)
        /\ PieceAt(S, fl, z) /\ z + Len(fl) = y
  <2>1. /\ PieceAt(S, FlattenSeq(ds), Start(N)) /\ FlattenSeq(ds) \in Seq(Units)
        /\ Start(N) + Len(FlattenSeq(ds)) = Start(N + Len(ds))
    BY <1>7, <1>8, FlattenPieces
  <2>2. N + Len(ds) = Written(N)
    BY <1>1, <1>7
  <2>3. Start(Written(N)) \in Nat
    <3>1. Written(N) \in Nat
      BY WrittenIs
    <3> QED BY <3>1, Times
  <2> QED BY <1>2, <2>1, <2>2, <2>3
<1>10. PICK p \in Nat : p = Pos(N) /\ rest \in Seq(Units) /\ PieceAt(S, rest, p) /\ z = p + Len(rest)
  <2>1. CASE dpc = "getBuffer" \/ currDst = -1
    <3>1. Pos(N) = z
      BY <1>2, <1>9, <2>1 DEF Pos, StreamTypes
    <3>2. rest = << >>
      BY <2>1
    <3>3. Len(<< >>) = 0 /\ << >> \in Seq(Units) /\ PieceAt(S, << >>, z) /\ z = z + 0
      BY DEF PieceAt
    <3> QED BY <3>1, <3>2, <3>3
  <2>2. CASE dpc # "getBuffer" /\ currDst # -1
    <3>1. Reading /\ rest = SubSeq(dst[currDst], dstOff + 1, BufSize)
      BY <2>2 DEF Reading
    <3>2. /\ N - 1 \in Nat /\ Start(N) = Start(N - 1) + BufSize
          /\ Start(N - 1) \in Nat /\ Window(S, currDst, N - 1)
          /\ dst[currDst] \in Seq(Units) /\ dstOff \in Nat /\ dstOff <= BufSize
      BY <3>1, ReaderPlace
    <3>3. PICK x \in Nat, o \in Nat, t \in Nat, dd \in Seq(Units) :
            /\ x = Start(N - 1) /\ o = dstOff /\ t = BufSize - dstOff /\ dd = dst[currDst]
            /\ Len(dd) = o + t /\ PieceAt(S, dd, x) /\ z = x + (o + t) /\ BufSize = o + t
      <4>1. BufSize - dstOff \in Nat /\ dstOff + (BufSize - dstOff) = BufSize
        BY <1>2, <3>2
      <4> QED BY <1>9, <3>2, <4>1 DEF Window
    <3>4. rest = SubSeq(dd, o + 1, o + t)
      BY <3>1, <3>3
    <3> HIDE DEF rest
    <3>5. rest \in Seq(Units) /\ Len(rest) = t /\ \A i \in 1 .. t : rest[i] = dd[o + i]
      BY <3>3, <3>4, Piece
    <3>6. PieceAt(S, rest, x + o)
      <4>1. ASSUME NEW i \in 1 .. t PROVE rest[i] = S[(x + o) + i]
        <5>1. o + i \in 1 .. Len(dd) /\ x + (o + i) = (x + o) + i
          BY <3>3
        <5>2. dd[o + i] = S[x + (o + i)]
          BY <3>3, <5>1 DEF PieceAt
        <5> QED BY <3>5, <5>1, <5>2
      <4> QED BY <3>5, <4>1 DEF PieceAt
    <3>7. Pos(N) = x + o
      <4>1. Pos(N) = Start(N) + dstOff - BufSize
        BY <2>2 DEF Pos
      <4>2. Pos(N) = (x + (o + t)) + o - (o + t)
        BY <1>9, <3>3, <4>1
      <4> QED BY <4>2
    <3>8. z = (x + o) + t
      BY <3>3
    <3> QED BY <3>5, <3>6, <3>7, <3>8
  <2> QED BY <2>1, <2>2
<1> HIDE DEF rest
<1>11. PICK r \in Seq(Units) : r = rest
  BY <1>10
<1>12. PieceAt(S, r, p) /\ z = p + Len(r)
  BY <1>10, <1>11
<1>13. PieceAt(S, r \o fl, p) /\ r \o fl \in Seq(Units) /\ p + Len(r \o fl) = z + Len(fl)
  BY ONLY <1>9, <1>12, r \in Seq(Units), fl \in Seq(Units), p \in Nat, z \in Nat, JoinPieces
<1> QED BY <1>0, <1>9, <1>10, <1>11, <1>13

-----------------------------------------------------------------------------
(* What Unanswered counts: what the device has not answered, and the       *)
(* answers that decode_response has not handled.                           *)

Sent(q) == FlattenSeq([ i \in 1 .. Len(q) |-> q[i].msgs ])

Asked(T) ==
  (IF todo > 0 /\ msg.from \in T THEN 1 ELSE 0)
  + Count(src, MessagesOf(T)) + Count(Sent(readQ), MessagesOf(T))
  + Count(devQ, MessagesOf(T))

Answered(T) ==
  Count(outQ, HeadersOf(T)) + Count(InMemory, HeadersOf(T))
  + (IF units # << >> /\ dpc # "count" /\ Header.m.from \in T THEN 1 ELSE 0)

LEMMA HeaderOf ==
  ASSUME NEW T, NEW u \in Units
  PROVE  u \in HeadersOf(T) <=> u.k = 1 /\ u.m.from \in T
<1>1. u = [ m |-> u.m, body |-> u.body, k |-> u.k ] /\ u.m \in Message /\ u.body \in Nat
  BY DEF Units
<1>2. u.m \in MessagesOf(T) <=> u.m.from \in T
  BY <1>1 DEF MessagesOf
<1>3. ASSUME u.k = 1, u.m.from \in T PROVE u \in HeadersOf(T)
  BY <1>1, <1>2, <1>3 DEF HeadersOf
<1>4. ASSUME u \in HeadersOf(T) PROVE u.k = 1 /\ u.m.from \in T
  BY <1>2, <1>4 DEF HeadersOf
<1> QED BY <1>3, <1>4

LEMMA ReadToIs ==
  ASSUME RingInv, StreamTypes, NEW S \in Seq(Units), NEW N \in Nat, StreamInvFor(S, N)
  PROVE  /\ ReadTo(N) \in Nat /\ Pos(N) \in Nat /\ Len(S) \in Nat /\ Len(units) \in Nat
         /\ ReadTo(N) <= Pos(N) /\ Pos(N) <= Len(S) /\ HeaderAt(S, ReadTo(N))
         /\ dpc # "count" => Pos(N) = ReadTo(N) + Len(units) /\ PieceAt(S, units, ReadTo(N))
<1>1. ReaderAt(S, N) /\ Len(units) \in Nat /\ Len(S) \in Nat
  BY DEF StreamInvFor, StreamTypes
<1>2. CASE dpc = "count"
  <2>1. HeaderAt(S, Pos(N)) /\ ReadTo(N) = Pos(N)
    BY <1>1, <1>2 DEF ReaderAt, ReadTo
  <2> QED BY <1>1, <1>2, <2>1 DEF HeaderAt
<1>3. CASE dpc # "count"
  <2>1. PICK l \in Nat, y \in Nat : l = Len(units) /\ y = Len(S)
    BY <1>1
  <2>2. /\ HeaderAt(S, Pos(N) - l) /\ Pos(N) <= y /\ PieceAt(S, units, Pos(N) - l)
    BY <1>1, <1>3, <2>1 DEF ReaderAt
  <2>3. PICK p \in Nat : p = Pos(N) - l /\ HeaderAt(S, p) /\ PieceAt(S, units, p)
    BY <2>2 DEF HeaderAt
  <2>4. Pos(N) \in Int
    <3>1. Start(N) \in Nat /\ BufSize \in Nat
      BY Times, DaemonAssumption
    <3>2. dstOff \in Nat
      BY <3>1 DEF StreamTypes
    <3> QED BY <3>1, <3>2 DEF Pos
  <2>5. Pos(N) = p + l
    BY <2>3, <2>4
  <2>6. ReadTo(N) = p
    BY <1>3, <2>1, <2>3 DEF ReadTo
  <2>7. p <= p + l /\ p + l \in Nat
    OBVIOUS
  <2>8. Pos(N) \in Nat /\ ReadTo(N) <= Pos(N) /\ Pos(N) <= Len(S)
    BY <2>1, <2>2, <2>5, <2>6, <2>7
  <2>9. Pos(N) = ReadTo(N) + Len(units) /\ PieceAt(S, units, ReadTo(N))
    BY <2>1, <2>3, <2>5, <2>6
  <2> QED BY <1>1, <1>3, <2>3, <2>6, <2>8, <2>9
<1> QED BY <1>2, <1>3

(* The units that have been read are one header, and its value. *)
LEMMA UnitsAre ==
  ASSUME RingInv, StreamTypes, NEW S \in Seq(Units), NEW N \in Nat, StreamInvFor(S, N),
         dpc # "count", Len(units) > 0
  PROVE  /\ ReadTo(N) < Pos(N) /\ S[ReadTo(N) + 1] = Header /\ Header \in Units
         /\ Header.k = 1 /\ \A j \in ReadTo(N) + 2 .. Pos(N) : S[j].k # 1
<1>1. PICK p \in Nat, l \in Nat, y \in Nat :
        /\ p = ReadTo(N) /\ l = Len(units) /\ y = Len(S) /\ Pos(N) = p + l /\ p + l <= y
        /\ HeaderAt(S, p) /\ PieceAt(S, units, p) /\ l > 0
  <2>1. /\ ReadTo(N) \in Nat /\ Pos(N) \in Nat /\ Len(S) \in Nat /\ Len(units) \in Nat
        /\ Pos(N) <= Len(S) /\ HeaderAt(S, ReadTo(N))
        /\ Pos(N) = ReadTo(N) + Len(units) /\ PieceAt(S, units, ReadTo(N))
    BY ReadToIs
  <2> QED BY <2>1
<1>2. units \in Seq(Units) /\ ReaderAt(S, N) /\ Framed(S) /\ need \in Nat
  BY DEF StreamTypes, StreamInvFor
<1>3. units[1] = S[p + 1] /\ units[1] \in Units
  BY <1>1, <1>2 DEF PieceAt
<1>4. p + 1 \in 1 .. Len(S) /\ S[p + 1].k = 1
  BY <1>1 DEF HeaderAt
<1>5. AnswerAt(S, p + 1)
  BY <1>2, <1>4 DEF Framed
<1>6. PICK b \in Nat : b = S[p + 1].body
  BY <1>3 DEF Units
<1>7. l <= 1 + b
  <2>1. l + need = IF part = "body" THEN 1 + b ELSE 1
    BY <1>1, <1>2, <1>3, <1>6 DEF ReaderAt
  <2> QED BY <1>2, <2>1
<1>8. ASSUME NEW j \in p + 2 .. p + l PROVE S[j].k # 1
  <2>1. PICK k \in 0 .. b : j = (p + 1) + k /\ k > 0
    <3>1. j - (p + 1) \in 0 .. b /\ j = (p + 1) + (j - (p + 1)) /\ j - (p + 1) > 0
      BY <1>7
    <3> QED BY <3>1
  <2>2. S[(p + 1) + k].k = k + 1
    BY <1>5, <1>6 DEF AnswerAt
  <2>3. k + 1 # 1
    BY <2>1
  <2> QED BY <2>1, <2>2, <2>3
<1>9. p < p + l
  BY <1>1
<1> QED BY <1>1, <1>3, <1>4, <1>8, <1>9 DEF Header

(* The answers are the headers of the stream from there on. *)
LEMMA AnswersAre ==
  ASSUME RingInv, StreamTypes, NEW S \in Seq(Units), NEW N \in Nat, StreamInvFor(S, N), NEW T
  PROVE  Answered(T) = Between(S, ReadTo(N), Len(S), HeadersOf(T)) /\ Answered(T) \in Nat
<1> DEFINE E == HeadersOf(T)
<1>1. PICK p \in Nat, q \in Nat, w \in Nat, y \in Nat :
        /\ p = ReadTo(N) /\ q = Pos(N) /\ w = Start(Written(N)) /\ y = Len(S)
        /\ p <= q /\ q <= w /\ w <= y /\ q + Len(InMemory) = w /\ w + Len(outQ) = y
        /\ PieceAt(S, InMemory, q) /\ PieceAt(S, outQ, w)
        /\ InMemory \in Seq(Units) /\ outQ \in Seq(Units)
  <2>1. InMemory \in Seq(Units) /\ PieceAt(S, InMemory, Pos(N))
        /\ Pos(N) + Len(InMemory) = Start(Written(N))
    BY InMemoryIs
  <2>2. Written(N) \in Nat
    BY WrittenIs
  <2>3. Start(Written(N)) \in Nat
    BY <2>2, Times
  <2>4. Len(S) = Start(Written(N)) + Len(outQ) /\ PieceAt(S, outQ, Start(Written(N)))
        /\ outQ \in Seq(Units)
    BY DEF StreamInvFor, Windows, StreamTypes
  <2>5. ReadTo(N) \in Nat /\ Pos(N) \in Nat /\ Len(S) \in Nat /\ ReadTo(N) <= Pos(N)
    BY ReadToIs
  <2>6. Len(InMemory) \in Nat /\ Len(outQ) \in Nat
    BY <2>1, <2>4
  <2>7. Pos(N) <= Start(Written(N)) /\ Start(Written(N)) <= Len(S)
    <3>1. \A a \in Nat, b \in Nat, c \in Nat : a + b = c => a <= c
      OBVIOUS
    <3> QED BY <2>1, <2>3, <2>4, <2>5, <2>6, <3>1
  <2> QED BY <2>1, <2>3, <2>4, <2>5, <2>7
<1>2. Count(InMemory, E) = Between(S, q, w, E) /\ Count(InMemory, E) \in Nat
  <2>1. Len(InMemory) \in Nat /\ w = q + Len(InMemory) /\ PieceAt(S, InMemory, q)
    BY <1>1
  <2> QED BY ONLY q \in Nat, w \in Nat, <2>1, CountPiece
<1>3. Count(outQ, E) = Between(S, w, y, E) /\ Count(outQ, E) \in Nat
  <2>1. Len(outQ) \in Nat /\ y = w + Len(outQ) /\ PieceAt(S, outQ, w)
    BY <1>1
  <2> QED BY ONLY w \in Nat, y \in Nat, <2>1, CountPiece
<1> DEFINE h == IF units # << >> /\ dpc # "count" /\ Header.m.from \in T THEN 1 ELSE 0
<1>4. Between(S, p, q, E) = h /\ h \in Nat
  <2>1. CASE dpc # "count" /\ Len(units) > 0
    <3>1. /\ p < q /\ S[p + 1] = Header /\ Header \in Units /\ Header.k = 1
          /\ \A j \in p + 2 .. q : S[j].k # 1
      BY <1>1, <2>1, UnitsAre
    <3>2. \A j \in p + 2 .. q : S[j] \notin E
      <4> TAKE j \in p + 2 .. q
      <4>1. j \in 1 .. Len(S)
        <5>1. q <= w /\ w <= y /\ y = Len(S)
          BY <1>1
        <5>2. j \in 1 .. y
          BY <5>1
        <5> QED BY <5>1, <5>2
      <4>2. S[j] \in Units
        BY <4>1
      <4> QED BY <3>1, <4>2, HeaderOf
    <3>3. Between(S, p, q, E) = IF S[p + 1] \in E THEN 1 ELSE 0
      BY <3>1, <3>2, BetweenOne
    <3>4. S[p + 1] \in E <=> Header.m.from \in T
      BY <3>1, HeaderOf
    <3>5. units # << >>
      BY <2>1
    <3> QED BY <2>1, <3>3, <3>4, <3>5
  <2>2. CASE ~ (dpc # "count" /\ Len(units) > 0)
    <3>1. p = q
      <4>1. CASE dpc = "count"
        BY <1>1, <4>1 DEF ReadTo
      <4>2. CASE dpc # "count"
        <5>1. Len(units) = 0
          BY <2>2, <4>2 DEF StreamTypes
        <5>2. q = p + Len(units)
          BY <1>1, <4>2, ReadToIs
        <5> QED BY <5>1, <5>2
      <4> QED BY <4>1, <4>2
    <3>2. Between(S, p, q, E) = 0
      <4>1. \A i \in p + 1 .. q : S[i] \notin E
        BY <3>1
      <4> QED BY <4>1, BetweenNone
    <3>3. h = 0
      <4>1. dpc # "count" => units = << >>
        BY <2>2 DEF StreamTypes
      <4> QED BY <4>1
    <3> QED BY <3>2, <3>3
  <2> QED BY <2>1, <2>2
<1> HIDE DEF h
<1>5. Between(S, p, y, E) = Between(S, p, q, E) + Between(S, q, y, E)
  <2>1. q <= y
    BY <1>1
  <2> QED BY <1>1, <2>1, BetweenSum
<1>6. Between(S, q, y, E) = Between(S, q, w, E) + Between(S, w, y, E)
  BY <1>1, BetweenSum
<1>7. Answered(T) = Count(outQ, E) + Count(InMemory, E) + h
  BY DEF Answered, h
<1>8. PICK u \in Nat, v \in Nat, g \in Nat :
        u = Count(outQ, E) /\ v = Count(InMemory, E) /\ g = h
  BY <1>2, <1>3, <1>4
<1>9. u + v + g = g + (v + u) /\ u + v + g \in Nat
  OBVIOUS
<1>10. Between(S, p, y, E) = g + (v + u)
  BY <1>2, <1>3, <1>4, <1>5, <1>6, <1>8
<1>11. Answered(T) = u + v + g
  BY <1>7, <1>8
<1> QED BY <1>1, <1>9, <1>10, <1>11

-----------------------------------------------------------------------------
(* The requests of the buffers that the device has been told to read. *)
Msgs(q) == [ k \in 1 .. Len(q) |-> q[k].msgs ]

LEMMA MsgsIs ==
  ASSUME NEW R, NEW V, \A x \in R : x.msgs \in V, NEW q \in Seq(R)
  PROVE  /\ Msgs(q) \in Seq(V) /\ Len(Msgs(q)) = Len(q) /\ Len(q) \in Nat
         /\ \A x \in R : Msgs(Append(q, x)) = Append(Msgs(q), x.msgs)
         /\ q # << >> => /\ Msgs(Tail(q)) = Tail(Msgs(q)) /\ Len(q) > 0
                         /\ Head(Msgs(q)) = Head(q).msgs
<1>1. /\ Len(q) \in Nat /\ \A k \in 1 .. Len(q) : q[k] \in R /\ q[k].msgs \in V
  OBVIOUS
<1>2. Msgs(q) \in Seq(V) /\ Len(Msgs(q)) = Len(q) /\ \A k \in 1 .. Len(q) : Msgs(q)[k] = q[k].msgs
  BY <1>1 DEF Msgs
<1>3. ASSUME NEW x \in R PROVE Msgs(Append(q, x)) = Append(Msgs(q), x.msgs)
  <2>1. /\ Append(q, x) \in Seq(R) /\ Len(Append(q, x)) = Len(q) + 1
        /\ x.msgs \in V
    OBVIOUS
  <2>2. /\ Append(Msgs(q), x.msgs) \in Seq(V)
        /\ Len(Append(Msgs(q), x.msgs)) = Len(q) + 1
    BY <1>2, <2>1
  <2>3. \A k \in 1 .. Len(q) + 1 : Append(q, x)[k].msgs = Append(Msgs(q), x.msgs)[k]
    <3> TAKE k \in 1 .. Len(q) + 1
    <3>1. CASE k \in 1 .. Len(q)
      <4>1. Append(q, x)[k] = q[k]
        BY <1>1, <3>1
      <4>2. Append(Msgs(q), x.msgs)[k] = Msgs(q)[k]
        BY <1>2, <2>1, <3>1
      <4> QED BY <1>2, <3>1, <4>1, <4>2
    <3>2. CASE k \notin 1 .. Len(q)
      <4>1. k = Len(q) + 1
        BY <1>1, <3>2
      <4>2. Append(q, x)[k] = x
        BY <4>1
      <4>3. Append(Msgs(q), x.msgs)[k] = x.msgs
        BY <1>2, <2>1, <4>1
      <4> QED BY <4>2, <4>3
    <3> QED BY <3>1, <3>2
  <2>4. Msgs(Append(q, x)) = [ k \in 1 .. Len(q) + 1 |-> Append(q, x)[k].msgs ]
    BY <2>1 DEF Msgs
  <2>5. Append(Msgs(q), x.msgs) = [ k \in 1 .. Len(q) + 1 |-> Append(Msgs(q), x.msgs)[k] ]
    BY <2>2
  <2> QED BY <2>3, <2>4, <2>5
<1>4. ASSUME q # << >>
      PROVE  Msgs(Tail(q)) = Tail(Msgs(q)) /\ Len(q) > 0 /\ Head(Msgs(q)) = Head(q).msgs
  <2>1. /\ Tail(q) \in Seq(R) /\ Len(Tail(q)) = Len(q) - 1 /\ Len(q) # 0
        /\ \A k \in 1 .. Len(q) - 1 : Tail(q)[k] = q[k + 1]
        /\ Head(q) = q[1]
    BY <1>1, <1>4
  <2>2. Msgs(q) # << >>
    BY <1>1, <1>2, <2>1
  <2>3. /\ Tail(Msgs(q)) \in Seq(V) /\ Len(Tail(Msgs(q))) = Len(q) - 1
        /\ \A k \in 1 .. Len(q) - 1 : Tail(Msgs(q))[k] = Msgs(q)[k + 1]
        /\ Head(Msgs(q)) = Msgs(q)[1]
    BY <1>2, <2>2
  <2>4. \A k \in 1 .. Len(q) - 1 : Tail(q)[k].msgs = Tail(Msgs(q))[k]
    <3> TAKE k \in 1 .. Len(q) - 1
    <3>1. k + 1 \in 1 .. Len(q)
      BY <1>1
    <3> QED BY <1>2, <2>1, <2>3, <3>1
  <2>5. Msgs(Tail(q)) = [ k \in 1 .. Len(q) - 1 |-> Tail(q)[k].msgs ]
    BY <2>1 DEF Msgs
  <2>6. Tail(Msgs(q)) = [ k \in 1 .. Len(q) - 1 |-> Tail(Msgs(q))[k] ]
    <3> DEFINE s == Tail(Msgs(q))
    <3>1. s \in Seq(V) /\ Len(s) = Len(q) - 1
      BY <2>3
    <3> HIDE DEF s
    <3>2. s = [ k \in 1 .. Len(s) |-> s[k] ]
      BY <3>1
    <3> QED BY <3>1, <3>2 DEF s
  <2>7. Head(Msgs(q)) = Head(q).msgs
    <3>1. 1 \in 1 .. Len(q)
      BY <1>1, <2>1
    <3> QED BY <1>2, <2>1, <2>3, <3>1
  <2> QED BY <1>1, <2>1, <2>4, <2>5, <2>6, <2>7
<1> QED BY <1>1, <1>2, <1>3, <1>4

Order == [ buf : Buffers, msgs : Seq(Message) ]

(* What is sent is counted with what is added, and less what is taken. *)
LEMMA SentIs ==
  ASSUME NEW q \in Seq(Order), NEW E
  PROVE  /\ Sent(q) \in Seq(Message) /\ Count(Sent(q), E) \in Nat
         /\ \A b \in Buffers, ms \in Seq(Message) :
              Count(Sent(Append(q, [ buf |-> b, msgs |-> ms ])), E)
                = Count(Sent(q), E) + Count(ms, E)
         /\ q # << >> => /\ Head(q).msgs \in Seq(Message)
                         /\ Count(Sent(q), E)
                              = Count(Head(q).msgs, E) + Count(Sent(Tail(q)), E)
<1> DEFINE V == Seq(Message)
<1>1. \A x \in Order : x.msgs \in V
  BY DEF Order
<1>2. \A b \in Buffers, ms \in V : [ buf |-> b, msgs |-> ms ] \in Order
  BY DEF Order
<1>3. \A x : Sent(x) = FlattenSeq(Msgs(x))
  BY DEF Sent, Msgs
<1> HIDE DEF V
<1>4. /\ Msgs(q) \in Seq(V) /\ Len(Msgs(q)) = Len(q) /\ Len(q) \in Nat
      /\ \A x \in Order : Msgs(Append(q, x)) = Append(Msgs(q), x.msgs)
      /\ q # << >> => /\ Msgs(Tail(q)) = Tail(Msgs(q)) /\ Len(q) > 0
                      /\ Head(Msgs(q)) = Head(q).msgs
  BY <1>1, MsgsIs
<1>5. Msgs(q) \in Seq(Seq(Message))
  BY <1>4 DEF V
<1>6. Sent(q) \in Seq(Message) /\ Count(Sent(q), E) \in Nat
  <2>1. Sent(q) \in Seq(Message)
    BY <1>3, <1>5, FlattenType
  <2> QED BY <2>1, CountNat
<1>7. ASSUME NEW b \in Buffers, NEW ms \in V
      PROVE  Count(Sent(Append(q, [ buf |-> b, msgs |-> ms ])), E)
                = Count(Sent(q), E) + Count(ms, E)
  <2> DEFINE x == [ buf |-> b, msgs |-> ms ]
  <2>1. x \in Order /\ x.msgs = ms
    BY <1>2
  <2> HIDE DEF x
  <2>2. Sent(Append(q, x)) = FlattenSeq(Append(Msgs(q), ms))
    BY <1>3, <1>4, <2>1
  <2>3. ms \in Seq(Message)
    BY DEF V
  <2>4. Count(FlattenSeq(Append(Msgs(q), ms)), E) = Count(FlattenSeq(Msgs(q)), E) + Count(ms, E)
    BY <1>5, <2>3, FlattenAppend
  <2> QED BY <1>3, <2>2, <2>4 DEF x
<1>8. ASSUME q # << >>
      PROVE  /\ Head(q).msgs \in V
             /\ Count(Sent(q), E) = Count(Head(q).msgs, E) + Count(Sent(Tail(q)), E)
  <2>1. Head(q) \in Order
    BY <1>8, HeadTailProperties
  <2>2. Count(FlattenSeq(Msgs(q)), E)
          = Count(Head(Msgs(q)), E) + Count(FlattenSeq(Tail(Msgs(q))), E)
    <3>1. Len(Msgs(q)) > 0
      BY <1>4, <1>8
    <3> QED BY <1>5, <3>1, FlattenTail
  <2> QED BY <1>1, <1>3, <1>4, <1>8, <2>1, <2>2
<1> QED BY <1>6, <1>7, <1>8 DEF V

-----------------------------------------------------------------------------
(* How the steps change the numbers. *)

AnswersCounted ==
  \A S \in Seq(Units), N \in Nat : StreamInvFor(S, N) =>
    \A T : /\ Answered(T) = Between(S, ReadTo(N), Len(S), HeadersOf(T))
           /\ Answered(T) \in Nat

LEMMA AnswersNow == RingInv /\ StreamTypes => AnswersCounted
<1> SUFFICES ASSUME RingInv, StreamTypes,
                    NEW S \in Seq(Units), NEW N \in Nat, StreamInvFor(S, N), NEW T
             PROVE  /\ Answered(T) = Between(S, ReadTo(N), Len(S), HeadersOf(T))
                    /\ Answered(T) \in Nat
  BY DEF AnswersCounted
<1> QED BY AnswersAre

LEMMA AnswersThen == RingInv' /\ StreamTypes' => AnswersCounted'
BY AnswersNow, PTL

LEMMA AskedNat ==
  ASSUME RingInv, StreamInv, NEW T
  PROVE  /\ Count(src, MessagesOf(T)) \in Nat /\ Count(Sent(readQ), MessagesOf(T)) \in Nat
         /\ Count(devQ, MessagesOf(T)) \in Nat /\ Asked(T) \in Nat
         /\ readQ \in Seq(Order) /\ devQ \in Seq(Message) /\ src \in Seq(Message)
<1>1. /\ src \in Seq(Message) /\ readQ \in Seq(Order) /\ devQ \in Seq(Message)
  BY DEF RingInv, RingTypes, StreamInv, StreamTypes, Order
<1>2. /\ Count(src, MessagesOf(T)) \in Nat /\ Count(Sent(readQ), MessagesOf(T)) \in Nat
      /\ Count(devQ, MessagesOf(T)) \in Nat
  BY <1>1, CountNat, SentIs
<1> QED BY <1>1, <1>2 DEF Asked

LEMMA UnansweredIs ==
  ASSUME RingInv, StreamInv, NEW T
  PROVE  /\ Asked(T) \in Nat /\ Answered(T) \in Nat
         /\ Unanswered(T) = Asked(T) + Answered(T)
<1>1. PICK S \in Seq(Units), N \in Nat : StreamInvFor(S, N)
  BY DEF StreamInv
<1>2. Answered(T) \in Nat
  BY <1>1, AnswersAre DEF StreamInv
<1>3. Count(outQ, HeadersOf(T)) \in Nat
  BY CountNat DEF StreamInv, StreamTypes
<1>4. Count(InMemory, HeadersOf(T)) \in Nat
  <2>1. InMemory \in Seq(Units)
    BY <1>1, InMemoryIs DEF StreamInv
  <2> QED BY <2>1, CountNat
<1> DEFINE w == IF todo > 0 /\ msg.from \in T THEN 1 ELSE 0
           h == IF units # << >> /\ dpc # "count" /\ Header.m.from \in T THEN 1 ELSE 0
<1>5. w \in Nat /\ h \in Nat
  OBVIOUS
<1>6. Unanswered(T) = w + Count(src, MessagesOf(T)) + Count(Sent(readQ), MessagesOf(T))
                      + Count(devQ, MessagesOf(T)) + Count(outQ, HeadersOf(T))
                      + Count(InMemory, HeadersOf(T)) + h
  BY DEF Unanswered, Sent
<1>7. /\ Asked(T) = w + Count(src, MessagesOf(T)) + Count(Sent(readQ), MessagesOf(T))
                      + Count(devQ, MessagesOf(T))
      /\ Answered(T) = Count(outQ, HeadersOf(T)) + Count(InMemory, HeadersOf(T)) + h
  BY DEF Asked, Answered
<1> HIDE DEF w, h
<1>8. PICK a \in Nat, b \in Nat, c \in Nat, d \in Nat, e \in Nat, f \in Nat, g \in Nat :
        /\ a = w /\ b = Count(src, MessagesOf(T)) /\ c = Count(Sent(readQ), MessagesOf(T))
        /\ d = Count(devQ, MessagesOf(T)) /\ e = Count(outQ, HeadersOf(T))
        /\ f = Count(InMemory, HeadersOf(T)) /\ g = h
  BY <1>3, <1>4, <1>5, AskedNat
<1>9. Unanswered(T) = Asked(T) + Answered(T)
  <2>1. a + b + c + d + e + f + g = (a + b + c + d) + (e + f + g)
    OBVIOUS
  <2>2. Unanswered(T) = a + b + c + d + e + f + g
    BY <1>6, <1>8
  <2>3. Asked(T) = a + b + c + d /\ Answered(T) = e + f + g
    BY <1>7, <1>8
  <2> QED BY <2>1, <2>2, <2>3
<1> QED BY <1>2, <1>9, AskedNat

(* Reading does not change what is not handled yet. *)
LEMMA ReadOnAnswered ==
  ASSUME RingInv, StreamInv, RingInv', NEW T,
         \/ ReadRest \/ ReadFull \/ waitIdleWriteBuffer \/ HandleValueFollows
         \/ CountAnswer \/ wrDone \/ doDMAWrite
  PROVE  Answered(T)' = Answered(T)
<1>1. StreamTypes
  BY DEF StreamInv
<1>2. PICK S \in Seq(Units), N \in Nat : StreamInvFor(S, N)
  BY DEF StreamInv
<1>3. Answered(T) = Between(S, ReadTo(N), Len(S), HeadersOf(T))
  BY <1>1, <1>2, AnswersAre
<1>4. \E M \in Nat : StreamTypes' /\ StreamInvFor(S, M)' /\ ReadTo(M)' = ReadTo(N)
  <2>1. CASE ReadRest \/ ReadFull \/ HandleValueFollows
    <3>1. StreamTypes' /\ StreamInvFor(S, N)' /\ ReadTo(N)' = ReadTo(N)
      BY <1>1, <1>2, <2>1, ReadRestStream, ReadFullStream, HandleValueFollowsStream
    <3> QED BY <3>1
  <2>2. CASE waitIdleWriteBuffer
    <3>1. N + 1 \in Nat
      OBVIOUS
    <3>2. StreamTypes' /\ StreamInvFor(S, N + 1)' /\ ReadTo(N + 1)' = ReadTo(N)
      BY <1>1, <1>2, <2>2, waitIdleWriteBufferStream
    <3> QED BY <3>1, <3>2
  <2>3. CASE CountAnswer
    <3>1. /\ dpc = "count" /\ dpc' = "read" /\ units' = << >>
          /\ UNCHANGED << dstOff >>
      BY <2>3 DEF CountAnswer
    <3>2. Pos(N)' = Pos(N) /\ Pos(N) \in Nat /\ Len(<< >>) = 0
      BY <1>1, <1>2, <3>1, ReadToIs DEF Pos
    <3>3. ReadTo(N)' = Pos(N)' - Len(units') /\ ReadTo(N) = Pos(N)
      BY <3>1 DEF ReadTo
    <3>4. ReadTo(N)' = ReadTo(N)
      BY <3>1, <3>2, <3>3
    <3>5. StreamTypes' /\ StreamInvFor(S, N)'
      BY <1>1, <1>2, <2>3, CountAnswerStream
    <3> QED BY <3>4, <3>5
  <2>4. CASE wrDone \/ doDMAWrite
    <3>1. UNCHANGED << dpc, units, dstOff >>
      BY <2>4 DEF wrDone, doDMAWrite, decode
    <3>2. ReadTo(N)' = ReadTo(N)
      BY <3>1 DEF ReadTo, Pos
    <3>3. StreamTypes' /\ StreamInvFor(S, N)'
      BY <1>1, <1>2, <2>4, wrDoneStream, doDMAWriteStream
    <3> QED BY <3>2, <3>3
  <2> QED BY <2>1, <2>2, <2>3, <2>4
<1>5. PICK M \in Nat : StreamTypes' /\ StreamInvFor(S, M)' /\ ReadTo(M)' = ReadTo(N)
  BY <1>4
<1>6. Answered(T)' = Between(S, ReadTo(M)', Len(S), HeadersOf(T))
  BY <1>5, AnswersThen DEF AnswersCounted
<1> QED BY <1>3, <1>5, <1>6

(* An answer that is handled is one less. *)
LEMMA HandleAnswered ==
  ASSUME RingInv, StreamInv, RingInv', NEW T, HandleAnswer \/ HandleEom
  PROVE  /\ Answered(T) = Answered(T)' + (IF Header.m.from \in T THEN 1 ELSE 0)
         /\ Answered(T)' \in Nat /\ Header \in Units
<1>1. StreamTypes
  BY DEF StreamInv
<1>2. PICK S \in Seq(Units), N \in Nat : StreamInvFor(S, N)
  BY DEF StreamInv
<1> DEFINE E == HeadersOf(T)
<1>3. Answered(T) = Between(S, ReadTo(N), Len(S), E)
  BY <1>1, <1>2, AnswersAre
<1>4. dpc = "handle" /\ dpc' = "count" /\ dstOff' \in { dstOff, BufSize }
  BY DEF HandleAnswer, HandleEom
<1>5. StreamTypes' /\ StreamInvFor(S, N)'
  BY <1>1, <1>2, HandleAnswerStream, HandleEomStream
<1>6. ReadTo(N)' = Pos(N)'
  BY <1>4 DEF ReadTo
<1>7. Answered(T)' = Between(S, Pos(N)', Len(S), E) /\ Answered(T)' \in Nat
  BY <1>5, <1>6, AnswersThen DEF AnswersCounted
<1>8. Len(units) > 0
  <2>1. Len(units) \in Nat \ {0}
    BY <1>1, <1>2, <1>4, HandledAnswer
  <2> QED BY <2>1
<1>9. /\ ReadTo(N) < Pos(N) /\ S[ReadTo(N) + 1] = Header /\ Header \in Units
      /\ Header.k = 1 /\ \A j \in ReadTo(N) + 2 .. Pos(N) : S[j].k # 1
  BY <1>1, <1>2, <1>4, <1>8, UnitsAre
<1>10. HeaderAt(S, Pos(N)') /\ \A j \in Pos(N) + 1 .. Pos(N)' : S[j].k # 1
  <2>1. CASE HandleEom
    BY <1>1, <1>2, <2>1, HandleEomStream DEF SkipTo
  <2>2. CASE HandleAnswer
    <3>1. Pos(N)' = Pos(N)
      BY <2>2 DEF HandleAnswer, Pos
    <3>2. HeaderAt(S, Pos(N)')
      BY <1>4, <1>5 DEF StreamInvFor, ReaderAt
    <3>3. Pos(N) \in Nat
      BY <1>1, <1>2, ReadToIs
    <3> QED BY <3>1, <3>2, <3>3
  <2> QED BY <2>1, <2>2
<1>11. PICK p \in Nat, q \in Nat, z \in Nat, y \in Nat :
         /\ p = ReadTo(N) /\ q = Pos(N) /\ z = Pos(N)' /\ y = Len(S)
         /\ p < q /\ q <= z /\ z <= y
  <2>1. ReadTo(N) \in Nat /\ Pos(N) \in Nat /\ Len(S) \in Nat
    BY <1>1, <1>2, ReadToIs
  <2>2. Pos(N)' \in 0 .. Len(S)
    BY <1>10 DEF HeaderAt
  <2>3. Pos(N)' \in Nat /\ Pos(N)' <= Len(S)
    BY <2>1, <2>2
  <2>4. Pos(N) <= Pos(N)'
    <3>1. Start(N) \in Nat /\ BufSize \in Nat
      BY Times, DaemonAssumption
    <3>2. dstOff \in Nat /\ dstOff' \in Nat /\ dstOff <= dstOff'
      BY <1>1, <1>4, <3>1 DEF StreamTypes
    <3>3. Pos(N) = Start(N) + dstOff - BufSize /\ Pos(N)' = Start(N) + dstOff' - BufSize
      BY <1>4 DEF Pos
    <3> QED BY <3>1, <3>2, <3>3
  <2> QED BY <1>9, <2>1, <2>3, <2>4
<1>12. \A j \in p + 2 .. z : S[j] \notin E
  <2> TAKE j \in p + 2 .. z
  <2>1. j \in 1 .. Len(S)
    <3>1. z <= y
      BY <1>11
    <3>2. j \in 1 .. y
      BY <3>1
    <3> QED BY <1>11, <3>2
  <2>2. S[j] \in Units
    BY <2>1
  <2>3. j \in p + 2 .. q \/ j \in q + 1 .. z
    <3>1. p < q /\ q <= z
      BY <1>11
    <3> QED BY <3>1
  <2>4. S[j].k # 1
    BY <1>9, <1>10, <1>11, <2>3
  <2> QED BY <2>2, <2>4, HeaderOf
<1>13. Between(S, p, z, E) = IF S[p + 1] \in E THEN 1 ELSE 0
  <2>1. p < z
    BY <1>11
  <2> QED BY <1>12, <2>1, BetweenOne
<1>14. S[p + 1] \in E <=> Header.m.from \in T
  BY <1>9, <1>11, HeaderOf
<1>15. Between(S, p, y, E) = Between(S, p, z, E) + Between(S, z, y, E)
  <2>1. p <= z /\ z <= y
    BY <1>11
  <2> QED BY <2>1, BetweenSum
<1> DEFINE h == IF Header.m.from \in T THEN 1 ELSE 0
<1>16. Between(S, p, z, E) = h /\ h \in Nat
  BY <1>13, <1>14
<1> HIDE DEF h
<1>17. Answered(T) = h + Answered(T)'
  BY <1>3, <1>7, <1>11, <1>15, <1>16
<1>18. Answered(T) = Answered(T)' + h
  BY <1>7, <1>16, <1>17
<1> QED BY <1>7, <1>9, <1>18 DEF h

-----------------------------------------------------------------------------

LEMMA InMemoryFrame ==
  ASSUME UNCHANGED << wrEnq, wrDeq, wrDoneQ, currDst, dpc, dst, dstOff >>
  PROVE  InMemory' = InMemory
<1> DEFINE F(e, d, q, c, p, s, o) ==
      LET n == (e - d) % (2 * NumBufs)
          bufs == [ i \in 1 .. n |-> (d + i - 1) % NumBufs ] \o q
      IN  (IF c = -1 \/ p = "getBuffer" THEN << >>
           ELSE SubSeq(s[c], o + 1, BufSize))
          \o FlattenSeq([ i \in 1 .. Len(bufs) |-> s[bufs[i]] ])
<1>1. InMemory = F(wrEnq, wrDeq, wrDoneQ, currDst, dpc, dst, dstOff)
  BY DEF InMemory
<1>2. InMemory' = F(wrEnq', wrDeq', wrDoneQ', currDst', dpc', dst', dstOff')
  BY DEF InMemory
<1> HIDE DEF F
<1> QED BY <1>1, <1>2

(* Host threads and DeviceRead leave the answers alone. *)
LEMMA AnsweredFrame ==
  ASSUME UNCHANGED << wrEnq, wrDoneQ, dst, outQ, decode >>, NEW T
  PROVE  Answered(T)' = Answered(T)
<1>1. UNCHANGED << dpc, units, currDst, dstOff, wrDeq >>
  BY DEF decode
<1>2. InMemory' = InMemory
  BY <1>1, InMemoryFrame
<1> QED BY <1>1, <1>2 DEF Answered, Header

LEMMA AskedFrame ==
  ASSUME UNCHANGED << todo, msg, src, readQ, devQ >>, NEW T
  PROVE  Asked(T)' = Asked(T)
<1>1. Sent(readQ)' = Sent(readQ)
  <2> DEFINE F(q) == FlattenSeq([ i \in 1 .. Len(q) |-> q[i].msgs ])
  <2>1. Sent(readQ) = F(readQ) /\ Sent(readQ)' = F(readQ')
    BY DEF Sent
  <2> HIDE DEF F
  <2> QED BY <2>1
<1> QED BY <1>1 DEF Asked

(* An answer takes the place of the request. *)
LEMMA AnswerMoves ==
  ASSUME RingInv, StreamInv, RingInv', NEW T,
         NEW i \in 1 .. Len(devQ), NEW body \in BodySizes \cup {0}, Answer(i, body)
  PROVE  Asked(T)' + Answered(T)' = Asked(T) + Answered(T)
<1>1. StreamTypes
  BY DEF StreamInv
<1>2. PICK S \in Seq(Units), N \in Nat : StreamInvFor(S, N)
  BY DEF StreamInv
<1>3. PICK Z \in Seq(Units), n \in Nat :
        GrowsTo(S, Z, devQ[i], body, n) /\ StreamInvFor(Z, N)' /\ StreamTypes'
  BY <1>1, <1>2, AnswerStream
<1> DEFINE E == HeadersOf(T)
           h == IF devQ[i].from \in T THEN 1 ELSE 0
<1>4. /\ UNCHANGED << dpc, units, dstOff, todo, msg, src, readQ >>
      /\ devQ' = RemoveAt(devQ, i)
  BY DEF Answer, host, shared, decode
<1>5. devQ \in Seq(Message) /\ devQ[i] \in Message
  BY <1>1 DEF StreamTypes
<1>6. ReadTo(N)' = ReadTo(N)
  BY <1>4 DEF ReadTo, Pos
<1>7. /\ Answered(T) = Between(S, ReadTo(N), Len(S), E) /\ Answered(T) \in Nat
      /\ Answered(T)' = Between(Z, ReadTo(N), Len(Z), E) /\ Answered(T)' \in Nat
  <2>1. Answered(T) = Between(S, ReadTo(N), Len(S), E) /\ Answered(T) \in Nat
    BY <1>1, <1>2, AnswersAre
  <2>2. Answered(T)' = Between(Z, ReadTo(N)', Len(Z), E) /\ Answered(T)' \in Nat
    BY <1>3, AnswersThen DEF AnswersCounted
  <2> QED BY <1>6, <2>1, <2>2
<1>8. PICK p \in Nat, y \in Nat, x \in Nat, b \in Nat :
        /\ p = ReadTo(N) /\ y = Len(S) /\ x = Len(Z) /\ b = body /\ p <= y
  <2>1. /\ ReadTo(N) \in Nat /\ Len(S) \in Nat /\ ReadTo(N) <= Pos(N) /\ Pos(N) <= Len(S)
        /\ Pos(N) \in Nat
    BY <1>1, <1>2, ReadToIs
  <2>2. ReadTo(N) <= Len(S)
    BY <2>1
  <2>3. body \in Nat
    BY DaemonAssumption
  <2>4. Len(Z) \in Nat
    OBVIOUS
  <2> QED BY <2>1, <2>2, <2>3, <2>4
<1>9. /\ x = y + 1 + b + n
      /\ \A j \in 1 .. y : Z[j] = S[j]
      /\ \A k \in 1 .. 1 + b : Z[y + k] = Unit(devQ[i], b, k)
      /\ \A k \in 1 .. n : Z[y + 1 + b + k] = Pad
  BY <1>3, <1>8 DEF GrowsTo
<1>10. Between(Z, p, y, E) = Between(S, p, y, E)
  <2>1. { j \in p + 1 .. y : Z[j] \in E } = { j \in p + 1 .. y : S[j] \in E }
    <3>1. \A j \in p + 1 .. y : Z[j] = S[j]
      BY <1>8, <1>9
    <3> QED BY <3>1
  <2> QED BY <2>1 DEF Between
<1>11. Between(Z, y, x, E) = h
  <2>1. y < x
    BY <1>9
  <2>2. Z[y + 1] \in Units
    <3>1. y + 1 \in 1 .. Len(Z)
      BY <1>8, <2>1
    <3> QED BY <3>1
  <2>3. Z[y + 1] = Unit(devQ[i], b, 1)
    <3>1. 1 \in 1 .. 1 + b
      OBVIOUS
    <3> QED BY <1>9, <3>1
  <2>4. Z[y + 1] \in E <=> devQ[i].from \in T
    <3>1. Z[y + 1].k = 1 /\ Z[y + 1].m = devQ[i]
      BY <2>3 DEF Unit
    <3> QED BY <2>2, <3>1, HeaderOf
  <2>5. \A j \in y + 2 .. x : Z[j] \notin E
    <3> TAKE j \in y + 2 .. x
    <3>0. x = y + 1 + b + n
      BY <1>9
    <3>1. Z[j] \in Units
      <4>1. j \in 1 .. x
        OBVIOUS
      <4>2. j \in 1 .. Len(Z)
        BY <1>8, <4>1
      <4> QED BY <4>2
    <3>2. Z[j].k # 1
      <4>1. CASE j <= y + 1 + b
        <5>1. PICK k \in 1 .. 1 + b : j = y + k /\ k # 1
          <6>1. j - y \in 1 .. 1 + b /\ j = y + (j - y) /\ j - y # 1
            BY <4>1
          <6> QED BY <6>1
        <5>2. Z[j] = Unit(devQ[i], b, k)
          BY <1>9, <5>1
        <5> QED BY <5>1, <5>2 DEF Unit
      <4>2. CASE ~ (j <= y + 1 + b)
        <5>1. PICK k \in 1 .. n : j = y + 1 + b + k
          <6>1. j - (y + 1 + b) \in 1 .. n /\ j = y + 1 + b + (j - (y + 1 + b))
            BY <3>0, <4>2
          <6> QED BY <6>1
        <5>2. Z[j] = Pad
          BY <1>9, <5>1
        <5> QED BY <5>2 DEF Unit, Pad
      <4> QED BY <4>1, <4>2
    <3> QED BY <3>1, <3>2, HeaderOf
  <2> QED BY <2>1, <2>4, <2>5, BetweenOne
<1>12. Between(Z, p, x, E) = Between(Z, p, y, E) + Between(Z, y, x, E)
  <2>1. p <= y /\ y <= x
    BY <1>8, <1>9
  <2> QED BY <2>1, BetweenSum
<1>13. Answered(T)' = Answered(T) + h
  BY <1>7, <1>8, <1>10, <1>11, <1>12
<1>14. Asked(T) = Asked(T)' + h /\ Asked(T)' \in Nat /\ h \in Nat
  <2>1. Count(devQ, MessagesOf(T)) = Count(devQ', MessagesOf(T)) + h
    <3>1. devQ[i] \in MessagesOf(T) <=> devQ[i].from \in T
      BY <1>5 DEF MessagesOf
    <3>2. Count(devQ, MessagesOf(T))
            = Count(RemoveAt(devQ, i), MessagesOf(T)) + (IF devQ[i] \in MessagesOf(T) THEN 1 ELSE 0)
      BY <1>5, CountRemoved
    <3> QED BY <1>4, <3>1, <3>2
  <2>2. devQ' \in Seq(Message)
    BY <1>3 DEF StreamTypes
  <2>3. PICK c \in Nat : c = Count(devQ', MessagesOf(T))
    BY <2>2, CountNat
  <2> DEFINE w == IF todo > 0 /\ msg.from \in T THEN 1 ELSE 0
  <2>4. Sent(readQ)' = Sent(readQ)
    <3> DEFINE F(q) == FlattenSeq([ k \in 1 .. Len(q) |-> q[k].msgs ])
    <3>1. Sent(readQ) = F(readQ) /\ Sent(readQ)' = F(readQ')
      BY DEF Sent
    <3> HIDE DEF F
    <3> QED BY <1>4, <3>1
  <2>5. PICK a \in Nat, d \in Nat, v \in Nat :
          a = Count(src, MessagesOf(T)) /\ d = Count(Sent(readQ), MessagesOf(T)) /\ v = w
    BY AskedNat
  <2>6. Asked(T) = v + a + d + (c + h)
    BY <2>1, <2>3, <2>5 DEF Asked
  <2>7. Asked(T)' = v + a + d + c
    <3>1. Asked(T)' = w + Count(src, MessagesOf(T)) + Count(Sent(readQ), MessagesOf(T))
                        + Count(devQ', MessagesOf(T))
      BY <1>4, <2>4 DEF Asked
    <3> QED BY <2>3, <2>5, <3>1
  <2>8. h \in Nat
    OBVIOUS
  <2> HIDE DEF h
  <2>9. v + a + d + (c + h) = (v + a + d + c) + h /\ v + a + d + c \in Nat
    BY <2>8
  <2> QED BY <2>6, <2>7, <2>8, <2>9
<1> HIDE DEF h
<1>15. PICK r \in Nat, s \in Nat, t \in Nat : r = Answered(T) /\ s = Asked(T)' /\ t = h
  BY <1>7, <1>14
<1>16. s + (r + t) = (s + t) + r
  OBVIOUS
<1> QED BY <1>13, <1>14, <1>15, <1>16

-----------------------------------------------------------------------------
(* The request that a thread writes. *)
Writing(T) == IF todo > 0 /\ msg.from \in T THEN 1 ELSE 0

LEMMA AskedIs ==
  ASSUME RingInv, StreamInv, NEW T
  PROVE  \E w \in Nat, a \in Nat, b \in Nat, d \in Nat :
           /\ w = Writing(T) /\ a = Count(src, MessagesOf(T))
           /\ b = Count(Sent(readQ), MessagesOf(T)) /\ d = Count(devQ, MessagesOf(T))
           /\ Asked(T) = w + a + b + d
<1>1. Writing(T) \in Nat
  BY DEF Writing
<1>2. Asked(T) = Writing(T) + Count(src, MessagesOf(T)) + Count(Sent(readQ), MessagesOf(T))
                 + Count(devQ, MessagesOf(T))
  BY DEF Asked, Writing
<1> QED BY <1>1, <1>2, AskedNat

LEMMA AskedNext ==
  ASSUME NEW T
  PROVE  Asked(T)' = Writing(T)' + Count(src', MessagesOf(T))
                     + Count(Sent(readQ'), MessagesOf(T)) + Count(devQ', MessagesOf(T))
<1>1. Sent(readQ)' = Sent(readQ')
  BY DEF Sent
<1> QED BY <1>1 DEF Asked, Writing

LEMMA DeviceReadMoves ==
  ASSUME RingInv, StreamInv, NEW T, DeviceRead
  PROVE  Asked(T)' = Asked(T)
<1>1. /\ readQ # << >> /\ devQ' = devQ \o Head(readQ).msgs /\ readQ' = Tail(readQ)
      /\ UNCHANGED << todo, msg, src >>
  BY DEF DeviceRead, host
<1>2. readQ \in Seq(Order) /\ devQ \in Seq(Message)
  BY AskedNat
<1>3. PICK w \in Nat, a \in Nat, b \in Nat, d \in Nat :
        /\ w = Writing(T) /\ a = Count(src, MessagesOf(T))
        /\ b = Count(Sent(readQ), MessagesOf(T)) /\ d = Count(devQ, MessagesOf(T))
        /\ Asked(T) = w + a + b + d
  BY AskedIs
<1>4. PICK ms \in Seq(Message) :
        ms = Head(readQ).msgs
        /\ b = Count(ms, MessagesOf(T)) + Count(Sent(Tail(readQ)), MessagesOf(T))
  BY <1>1, <1>2, <1>3, SentIs
<1>5. Tail(readQ) \in Seq(Order)
  BY <1>1, <1>2, HeadTailProperties
<1>6. PICK e \in Nat, f \in Nat :
        e = Count(ms, MessagesOf(T)) /\ f = Count(Sent(Tail(readQ)), MessagesOf(T))
  BY <1>5, CountNat, SentIs
<1>7. Count(devQ', MessagesOf(T)) = d + e
  <2>1. Count(devQ \o ms, MessagesOf(T)) = Count(devQ, MessagesOf(T)) + Count(ms, MessagesOf(T))
    BY <1>2, CountJoined
  <2>2. devQ' = devQ \o ms
    BY <1>1, <1>4
  <2> QED BY <1>3, <1>6, <2>1, <2>2
<1>8. Writing(T)' = w
  BY <1>1, <1>3 DEF Writing
<1>9. Asked(T)' = w + a + f + (d + e)
  BY <1>1, <1>3, <1>6, <1>7, <1>8, AskedNext
<1>10. b = e + f
  BY <1>4, <1>6
<1>11. w + a + f + (d + e) = w + a + (e + f) + d
  OBVIOUS
<1> QED BY <1>3, <1>9, <1>10, <1>11

(* A request that ends is counted in the buffer. *)
LEMMA EndsInBuffer ==
  ASSUME RingInv, NEW T, todo > 0
  PROVE  Count(Append(src, msg), MessagesOf(T)) = Count(src, MessagesOf(T)) + Writing(T)
<1>1. src \in Seq(Message) /\ msg \in Message
  BY SrcAppend
<1>2. msg \in MessagesOf(T) <=> msg.from \in T
  BY <1>1 DEF MessagesOf
<1> QED BY <1>1, <1>2, CountAppend DEF Writing

LEMMA WriteRestMoves ==
  ASSUME RingInv, StreamInv, NEW T, NEW t \in Threads, WriteRest(t), todo > 0
  PROVE  Asked(T)' = Asked(T)
<1>1. src' = Append(src, msg) /\ todo' = 0 /\ UNCHANGED << readQ, devQ >>
  BY DEF WriteRest, device
<1>2. PICK w \in Nat, a \in Nat, b \in Nat, d \in Nat :
        /\ w = Writing(T) /\ a = Count(src, MessagesOf(T))
        /\ b = Count(Sent(readQ), MessagesOf(T)) /\ d = Count(devQ, MessagesOf(T))
        /\ Asked(T) = w + a + b + d
  BY AskedIs
<1>3. Count(src', MessagesOf(T)) = a + w
  BY <1>1, <1>2, EndsInBuffer
<1>4. Writing(T)' = 0
  BY <1>1 DEF Writing
<1>5. Asked(T)' = 0 + (a + w) + b + d
  BY <1>1, <1>2, <1>3, <1>4, AskedNext
<1>6. 0 + (a + w) + b + d = w + a + b + d
  OBVIOUS
<1> QED BY <1>2, <1>5, <1>6

(* What the buffer holds is counted where the device reads it. *)
LEMMA SendMoves ==
  ASSUME RingInv, StreamInv, NEW T, NEW ms \in Seq(Message), NEW x \in Nat, NEW y \in Nat,
         currSrc # -1, readQ' = Append(readQ, [ buf |-> currSrc, msgs |-> ms ]),
         src' = << >>, devQ' = devQ, x = Writing(T)', y = Count(ms, MessagesOf(T)),
         x + y = Writing(T) + Count(src, MessagesOf(T))
  PROVE  Asked(T)' = Asked(T)
<1>1. PICK w \in Nat, a \in Nat, b \in Nat, d \in Nat :
        /\ w = Writing(T) /\ a = Count(src, MessagesOf(T))
        /\ b = Count(Sent(readQ), MessagesOf(T)) /\ d = Count(devQ, MessagesOf(T))
        /\ Asked(T) = w + a + b + d
  BY AskedIs
<1>2. currSrc \in Buffers /\ readQ \in Seq(Order)
  <2>1. currSrc \in Buffers
    BY DEF RingInv, RingTypes
  <2> QED BY <2>1, AskedNat
<1>3. Count(Sent(readQ'), MessagesOf(T)) = b + y
  BY <1>1, <1>2, SentIs
<1>4. Count(src', MessagesOf(T)) = 0
  BY CountEmpty
<1>5. Asked(T)' = x + 0 + (b + y) + d
  BY <1>1, <1>3, <1>4, AskedNext
<1>6. x + y = w + a
  BY <1>1
<1>7. x + 0 + (b + y) + d = (x + y) + b + d
  OBVIOUS
<1> QED BY <1>1, <1>5, <1>6, <1>7

LEMMA WriteFullMoves ==
  ASSUME RingInv, StreamInv, NEW T, NEW t \in Threads, WriteFull(t),
         todo \in Nat, todo > 0, srcOff \in 0 .. BufSize, currSrc = -1 => src = << >>
  PROVE  Asked(T)' = Asked(T) /\ todo' \in Nat
<1>1. /\ src' = << >> /\ UNCHANGED << msg, devQ >> /\ srcOff + todo >= BufSize
  BY DEF WriteFull
<1>2. CASE currSrc = -1
  <2>1. UNCHANGED << todo, readQ >>
    BY <1>2 DEF WriteFull
  <2>2. src' = src
    BY <1>1, <1>2
  <2> QED BY <1>1, <2>1, <2>2, AskedFrame
<1>3. CASE currSrc # -1
  <2>1. /\ todo' = todo - (BufSize - srcOff)
        /\ readQ' = Append(readQ, [ buf |-> currSrc,
                                    msgs |-> IF todo' = 0 THEN Append(src, msg) ELSE src ])
    BY <1>3 DEF WriteFull, startRead
  <2>2. todo' \in Nat
    <3>1. BufSize \in Nat
      BY DaemonAssumption
    <3> QED BY <1>1, <2>1, <3>1
  <2>3. PICK w \in Nat, a \in Nat : w = Writing(T) /\ a = Count(src, MessagesOf(T))
    BY AskedIs
  <2>4. CASE todo' = 0
    <3>1. PICK ms \in Seq(Message) : ms = Append(src, msg)
      BY SrcAppend
    <3>2. Count(ms, MessagesOf(T)) = a + w
      BY <2>3, <3>1, EndsInBuffer
    <3>3. Writing(T)' = 0
      BY <2>4 DEF Writing
    <3>4. PICK y \in Nat : y = a + w /\ 0 + y = w + a
      OBVIOUS
    <3>5. readQ' = Append(readQ, [ buf |-> currSrc, msgs |-> ms ])
      BY <2>1, <2>4, <3>1
    <3>6. 0 \in Nat /\ 0 = Writing(T)' /\ y = Count(ms, MessagesOf(T))
          /\ 0 + y = Writing(T) + Count(src, MessagesOf(T))
      BY <2>3, <3>2, <3>3, <3>4
    <3> QED BY <1>1, <1>3, <2>2, <3>5, <3>6, SendMoves
  <2>5. CASE todo' # 0
    <3>1. PICK ms \in Seq(Message) : ms = src
      BY SrcAppend
    <3>2. todo' > 0
      BY <2>2, <2>5
    <3>3. Writing(T)' = Writing(T)
      BY <1>1, <3>2 DEF Writing
    <3>4. readQ' = Append(readQ, [ buf |-> currSrc, msgs |-> ms ])
      BY <2>1, <2>5, <3>1
    <3>5. w = Writing(T)' /\ a = Count(ms, MessagesOf(T))
          /\ w + a = Writing(T) + Count(src, MessagesOf(T))
      BY <2>3, <3>1, <3>3
    <3> QED BY <1>1, <1>3, <2>2, <3>4, <3>5, SendMoves
  <2> QED BY <2>4, <2>5
<1> QED BY <1>2, <1>3

LEMMA FlushSendMoves ==
  ASSUME RingInv, StreamInv, NEW T, FlushSend(Flusher)
  PROVE  Asked(T)' = Asked(T)
<1>1. UNCHANGED << todo, msg, devQ >>
  BY DEF FlushSend
<1>2. CASE srcOff > 0 /\ currSrc # -1
  <2>1. PICK ms \in Seq(Message) : ms = src
    BY SrcAppend
  <2>2. readQ' = Append(readQ, [ buf |-> currSrc, msgs |-> ms ]) /\ src' = << >>
    BY <1>2, <2>1 DEF FlushSend, startRead
  <2>3. PICK w \in Nat, a \in Nat : w = Writing(T) /\ a = Count(src, MessagesOf(T))
    BY AskedIs
  <2>4. w = Writing(T)' /\ a = Count(ms, MessagesOf(T))
        /\ w + a = Writing(T) + Count(src, MessagesOf(T))
    BY <1>1, <2>1, <2>3 DEF Writing
  <2> QED BY <1>1, <1>2, <2>2, <2>4, SendMoves
<1>3. CASE ~ (srcOff > 0 /\ currSrc # -1)
  <2>1. UNCHANGED << readQ, src >>
    BY <1>3 DEF FlushSend
  <2> QED BY <1>1, <2>1, AskedFrame
<1> QED BY <1>2, <1>3

(* A request that begins is one more. *)
LEMMA BeginMoves ==
  ASSUME RingInv, StreamInv, NEW T, NEW t, NEW m, BeginWrite(t, m), Size(m) > 0,
         todo = 0, UNCHANGED << src, readQ, devQ >>
  PROVE  Asked(T)' = Asked(T) + (IF m.from \in T THEN 1 ELSE 0)
<1>1. msg' = m /\ todo' = Size(m)
  BY DEF BeginWrite
<1>2. PICK w \in Nat, a \in Nat, b \in Nat, d \in Nat :
        /\ w = Writing(T) /\ a = Count(src, MessagesOf(T))
        /\ b = Count(Sent(readQ), MessagesOf(T)) /\ d = Count(devQ, MessagesOf(T))
        /\ Asked(T) = w + a + b + d
  BY AskedIs
<1>3. PICK h \in Nat : h = IF m.from \in T THEN 1 ELSE 0
  OBVIOUS
<1>4. w = 0
  BY <1>2 DEF Writing
<1>5. Writing(T)' = h
  BY <1>1, <1>3 DEF Writing
<1>6. Asked(T)' = h + a + b + d
  BY <1>2, <1>5, AskedNext
<1>7. h + a + b + d = (0 + a + b + d) + h
  OBVIOUS
<1> QED BY <1>2, <1>3, <1>4, <1>6, <1>7

-----------------------------------------------------------------------------
(* The request being written, and how many are batched: never more than    *)
(* the buffer has room for, because each of them takes a unit or more.     *)
WriterAt(s) ==
  /\ todo \in Nat /\ srcOff \in 0 .. BufSize /\ batched \in Nat
  /\ srcOff + todo < BufSize => batched <= srcOff + todo + 1
  /\ srcOff + todo >= BufSize => batched <= 1
  /\ s = "write" => todo > 0
  /\ s \notin {"write", "getBuffer"} => todo = 0
  /\ currSrc = -1 => src = << >>
  /\ currSrc = -1 /\ s \notin {"getBuffer", "getNext"} => srcOff = BufSize

WriterInv ==
  /\ todo \in Nat /\ srcOff \in 0 .. BufSize /\ batched \in Nat
  /\ srcOff + todo < BufSize => batched <= srcOff + todo + 1
  /\ srcOff + todo >= BufSize => batched <= 1
  /\ \A t \in Threads : pc[t] = "write" => todo > 0
  /\ (\A t \in Threads : pc[t] \notin {"write", "getBuffer"}) => todo = 0
  /\ currSrc = -1 => src = << >>
  /\ currSrc = -1 /\ (\A t \in Threads : pc[t] \notin {"getBuffer", "getNext"})
       => srcOff = BufSize

(* Only the place of the thread that has the mutex matters. *)
LEMMA WriterStep ==
  ASSUME RingInv, WriterInv, NEW t \in Threads, NEW s \in Places,
         lock = t \/ lock = None, pc' = [ pc EXCEPT ![t] = s ]
  PROVE  WriterAt(pc[t]) /\ (WriterAt(s)' => WriterInv')
<1>1. pc \in [ Threads -> Places ] /\ None \notin Threads
  BY DaemonAssumption DEF RingInv, RingTypes, Places
<1>2. \A u \in Threads : u # t => pc[u] \in {"idle", "wait"}
  BY <1>1 DEF RingInv, LockHeld
<1>3. pc'[t] = s /\ \A u \in Threads : u # t => pc'[u] = pc[u]
  BY <1>1
<1>4. WriterAt(pc[t])
  <2>1. pc[t] \notin {"write", "getBuffer"} => \A u \in Threads : pc[u] \notin {"write", "getBuffer"}
    BY <1>2
  <2>2. pc[t] \notin {"getBuffer", "getNext"} => \A u \in Threads : pc[u] \notin {"getBuffer", "getNext"}
    BY <1>2
  <2> QED BY <2>1, <2>2 DEF WriterInv, WriterAt
<1>5. ASSUME WriterAt(s)' PROVE WriterInv'
  <2>1. \A u \in Threads : pc'[u] = "write" => s = "write"
    BY <1>2, <1>3
  <2> QED BY <1>3, <1>5, <2>1 DEF WriterInv, WriterAt
<1> QED BY <1>4, <1>5

(* Steps that the writer does not notice. *)
LEMMA WriterFrame ==
  ASSUME WriterInv, UNCHANGED << pc, todo, srcOff, batched, currSrc, src >>
  PROVE  WriterInv'
BY DEF WriterInv

(* outstanding_requests, and what each client waits for. *)
Balance ==
  /\ sem \in [ Clients -> Nat ]
  /\ \A c \in Clients : Unanswered({c}) + sem[c] = IF pc[c] = "idle" THEN 0 ELSE 1
  /\ OutstandingExact

AccountInv == WriterInv /\ Balance

LEMMA BalanceFrame ==
  ASSUME RingInv, Balance, \A T : Unanswered(T)' = Unanswered(T),
         UNCHANGED << sem, outstanding >>, dpc' = "count" <=> dpc = "count",
         \A c \in Clients : pc'[c] = "idle" <=> pc[c] = "idle"
  PROVE  Balance'
<1>1. OutstandingExact'
  BY DEF Balance, OutstandingExact
<1>2. \A c \in Clients : Unanswered({c})' + sem'[c] = IF pc'[c] = "idle" THEN 0 ELSE 1
  BY DEF Balance
<1> QED BY <1>1, <1>2 DEF Balance

(* What a step does to Unanswered, from what it does to its two parts. *)
LEMMA UnansweredNow ==
  RingInv /\ StreamInv => \A T : /\ Asked(T) \in Nat /\ Answered(T) \in Nat
                                 /\ Unanswered(T) = Asked(T) + Answered(T)
BY UnansweredIs

LEMMA UnansweredThen ==
  RingInv' /\ StreamInv' => \A T : /\ Asked(T)' \in Nat /\ Answered(T)' \in Nat
                                   /\ Unanswered(T)' = Asked(T)' + Answered(T)'
<1> DEFINE A == \A T : /\ Asked(T) \in Nat /\ Answered(T) \in Nat
                       /\ Unanswered(T) = Asked(T) + Answered(T)
<1>1. RingInv /\ StreamInv => A
  BY UnansweredNow
<1>2. A' <=> \A T : /\ Asked(T)' \in Nat /\ Answered(T)' \in Nat
                    /\ Unanswered(T)' = Asked(T)' + Answered(T)'
  OBVIOUS
<1> HIDE DEF A
<1>3. RingInv' /\ StreamInv' => A'
  BY <1>1, PTL
<1> QED BY <1>2, <1>3

LEMMA SameUnanswered ==
  ASSUME RingInv, StreamInv, RingInv', StreamInv', NEW T,
         Asked(T)' = Asked(T), Answered(T)' = Answered(T)
  PROVE  Unanswered(T)' = Unanswered(T)
BY UnansweredNow, UnansweredThen

-----------------------------------------------------------------------------
(* A step of the host that moves requests, and neither begins nor ends a   *)
(* call.                                                                   *)
LEMMA HostBalance ==
  ASSUME RingInv, StreamInv, AccountInv, RingInv', StreamInv',
         NEW t \in Threads, NEW s \in Places, pc' = [ pc EXCEPT ![t] = s ],
         t \notin Clients \/ (pc[t] # "idle" /\ s # "idle"),
         \A T : Asked(T)' = Asked(T),
         UNCHANGED << decode, wrEnq, wrDoneQ, dst, outQ, sem, outstanding >>
  PROVE  Balance'
<1>1. \A T : Answered(T)' = Answered(T)
  BY AnsweredFrame
<1>2. \A T : Unanswered(T)' = Unanswered(T)
  BY <1>1, SameUnanswered
<1>3. \A c \in Clients : pc'[c] = "idle" <=> pc[c] = "idle"
  <2>1. pc \in [ Threads -> Places ]
    BY DEF RingInv, RingTypes, Places
  <2> QED BY <2>1 DEF Threads
<1>4. dpc' = dpc
  BY DEF decode
<1> QED BY <1>2, <1>3, <1>4, BalanceFrame DEF AccountInv

(* dmaBufMemwrite begins. *)
LEMMA BeginAccount ==
  ASSUME RingInv, StreamInv, AccountInv, RingInv', StreamInv',
         NEW t \in Threads, NEW m \in Message, m.from = t, BeginWrite(t, m),
         lock = t \/ lock = None, pc[t] = "idle" \/ (pc[t] = "decide" /\ t \notin Clients),
         UNCHANGED << src, srcOff, currSrc, sem, decode, device, wrEnq >>
  PROVE  AccountInv'
<1>1. WriterInv /\ Balance /\ BufSize \in Nat
  BY DaemonAssumption DEF AccountInv
<1>2. PICK z \in Nat : z = Size(m) /\ z > 0
  <2>1. CASE m.op = "EOM"
    BY <2>1 DEF Size
  <2>2. CASE m.op # "EOM"
    <3>1. m # EOM
      BY <2>2 DEF EOM
    <3>2. m.op \in Ops
      BY <3>1 DEF Message
    <3>3. ReqSize[m.op] \in Nat \ {0}
      BY <3>2, DaemonAssumption
    <3> QED BY <2>2, <3>3 DEF Size
  <2> QED BY <2>1, <2>2
<1>3. /\ msg' = m /\ todo' = z /\ outstanding' = outstanding + 1
      /\ batched' = (IF srcOff + z < BufSize THEN batched + 1
                     ELSE IF srcOff + z = BufSize THEN 0 ELSE 1)
      /\ pc' = [ pc EXCEPT ![t] = "write" ]
  BY <1>2 DEF BeginWrite
<1>4. WriterAt(pc[t]) /\ (WriterAt("write")' => WriterInv')
  BY <1>1, <1>3, WriterStep DEF Places
<1>5. /\ todo = 0 /\ srcOff \in 0 .. BufSize /\ batched \in Nat
      /\ srcOff < BufSize => batched <= srcOff + 1
      /\ currSrc = -1 => src = << >> /\ srcOff = BufSize
  BY <1>1, <1>4 DEF WriterAt
<1>6. WriterAt("write")'
  <2>1. /\ todo' \in Nat /\ todo' > 0 /\ srcOff' \in 0 .. BufSize /\ batched' \in Nat
        /\ srcOff' + todo' < BufSize => batched' <= srcOff' + todo' + 1
        /\ srcOff' + todo' >= BufSize => batched' <= 1
    <3>1. PICK o \in Nat, n \in Nat, b \in Nat :
            /\ o = srcOff /\ n = batched /\ b = BufSize /\ o <= b /\ (o < b => n <= o + 1)
      BY <1>1, <1>5
    <3>2. batched' = (IF o + z < b THEN n + 1 ELSE IF o + z = b THEN 0 ELSE 1) /\ srcOff' = o
      BY <1>3, <3>1
    <3>3. batched' \in Nat
      BY <3>2
    <3>4. o + z < b => batched' <= o + z + 1
      BY <1>2, <3>1, <3>2
    <3>5. o + z >= b => batched' <= 1
      BY <3>2
    <3> QED BY <1>2, <1>3, <1>5, <3>1, <3>2, <3>3, <3>4, <3>5
  <2>2. currSrc' = -1 => src' = << >> /\ srcOff' = BufSize
    BY <1>5
  <2> QED BY <2>1, <2>2 DEF WriterAt
<1>7. \A T : Unanswered(T)' = Unanswered(T) + (IF t \in T THEN 1 ELSE 0) /\ Unanswered(T) \in Nat
  <2> TAKE T
  <2>1. Answered(T)' = Answered(T)
    BY AnsweredFrame DEF device
  <2>2. Asked(T)' = Asked(T) + (IF t \in T THEN 1 ELSE 0)
    BY <1>2, <1>5, BeginMoves DEF device
  <2>3. PICK a \in Nat, b \in Nat, h \in Nat :
          a = Asked(T) /\ b = Answered(T) /\ h = IF t \in T THEN 1 ELSE 0
    BY UnansweredNow
  <2>4. Unanswered(T) = a + b /\ Unanswered(T)' = (a + h) + b
    BY <2>1, <2>2, <2>3, UnansweredNow, UnansweredThen
  <2>5. (a + h) + b = (a + b) + h
    OBVIOUS
  <2> QED BY <2>3, <2>4, <2>5
<1>8. pc \in [ Threads -> Places ] /\ dpc' = dpc /\ sem' = sem
  BY DEF RingInv, RingTypes, Places, decode
<1>9. OutstandingExact'
  <2>1. PICK u \in Nat, h \in Nat :
          u = Unanswered(Threads) /\ h = (IF dpc = "count" THEN 1 ELSE 0) /\ outstanding = u + h
    BY <1>1, <1>7 DEF Balance, OutstandingExact
  <2>2. Unanswered(Threads)' = u + 1
    BY <1>7, <2>1
  <2>3. outstanding' = (u + 1) + h
    BY <1>3, <2>1
  <2> QED BY <1>8, <2>1, <2>2, <2>3 DEF OutstandingExact
<1>10. ASSUME NEW c \in Clients
       PROVE  Unanswered({c})' + sem'[c] = IF pc'[c] = "idle" THEN 0 ELSE 1
  <2>1. c \in Threads
    BY DEF Threads
  <2>2. Unanswered({c}) + sem[c] = (IF pc[c] = "idle" THEN 0 ELSE 1) /\ sem[c] \in Nat
    BY <1>1 DEF Balance
  <2>3. PICK u \in Nat, x \in Nat : u = Unanswered({c}) /\ x = sem[c]
    BY <1>7, <2>2
  <2>4. CASE c = t
    <3>1. pc[c] = "idle" /\ pc'[c] = "write"
      BY <1>3, <1>8, <2>1, <2>4
    <3>2. Unanswered({c})' = u + 1
      BY <1>7, <2>3, <2>4
    <3>3. u + x = 0
      BY <2>2, <2>3, <3>1
    <3>4. (u + 1) + x = 1
      BY <3>3
    <3> QED BY <1>8, <2>3, <3>1, <3>2, <3>4
  <2>5. CASE c # t
    <3>1. pc'[c] = pc[c]
      BY <1>3, <1>8, <2>1, <2>5
    <3>2. Unanswered({c})' = u
      BY <1>7, <2>3, <2>5
    <3> QED BY <1>8, <2>2, <2>3, <3>1, <3>2
  <2> QED BY <2>4, <2>5
<1>11. Balance'
  BY <1>1, <1>8, <1>9, <1>10 DEF Balance
<1> QED BY <1>4, <1>6, <1>11 DEF AccountInv

LEMMA ClientAccount ==
  ASSUME RingInv, StreamInv, AccountInv, RingInv', StreamInv', NEW c \in Clients,
         (\E op \in Ops : Send(c, op)) \/ Register(c) \/ Return(c)
  PROVE  AccountInv'
<1>0. c \in Threads /\ WriterInv /\ Balance /\ pc \in [ Threads -> Places ]
  BY DEF Threads, AccountInv, RingInv, RingTypes, Places
<1>1. ASSUME NEW op \in Ops, Send(c, op) PROVE AccountInv'
  <2> DEFINE m == [ from |-> c, op |-> op ]
  <2>1. /\ pc[c] = "idle" /\ lock = None /\ BeginWrite(c, m)
        /\ UNCHANGED << src, srcOff, currSrc, sem, decode, device, wrEnq >>
    BY <1>1 DEF Send
  <2>2. m \in Message /\ m.from = c
    BY MessageIs
  <2> HIDE DEF m
  <2> QED BY <1>0, <2>1, <2>2, BeginAccount
<1>2. CASE Register(c)
  <2>1. /\ pc[c] = "register" /\ pc' = [ pc EXCEPT ![c] = "wait" ]
        /\ UNCHANGED << msg, todo, src, currSrc, srcOff, batched, shared, decode, device >>
    BY <1>2 DEF Register
  <2>2. lock = c
    BY <1>0, <2>1, Inside
  <2>3. WriterAt(pc[c]) /\ (WriterAt("wait")' => WriterInv')
    BY <1>0, <2>1, <2>2, WriterStep DEF Places
  <2>4. WriterAt("wait")'
    BY <2>1, <2>3 DEF WriterAt
  <2>5. \A T : Asked(T)' = Asked(T)
    BY <2>1, AskedFrame DEF device
  <2>6. Balance'
    BY <1>0, <2>1, <2>5, HostBalance DEF Places, shared, device
  <2> QED BY <2>3, <2>4, <2>6 DEF AccountInv
<1>3. CASE Return(c)
  <2>1. /\ pc[c] = "wait" /\ pc' = [ pc EXCEPT ![c] = "idle" ]
        /\ sem[c] > 0 /\ sem' = [ sem EXCEPT ![c] = @ - 1 ]
        /\ UNCHANGED << msg, todo, src, currSrc, srcOff, batched, outstanding, wrEnq,
                        decode, device >>
    BY <1>3 DEF Return
  <2>2. \A u \in Threads : u # c => pc'[u] = pc[u]
    BY <1>0, <2>1
  <2>3. pc'[c] = "idle"
    BY <1>0, <2>1
  <2>4. WriterInv'
    BY <1>0, <2>1, <2>2, <2>3 DEF WriterInv
  <2>5. \A T : Unanswered(T)' = Unanswered(T)
    <3>1. \A T : Asked(T)' = Asked(T)
      BY <2>1, AskedFrame DEF device
    <3>2. \A T : Answered(T)' = Answered(T)
      BY <2>1, AnsweredFrame DEF device
    <3> QED BY <3>1, <3>2, SameUnanswered
  <2>6. dpc' = dpc
    BY <2>1 DEF decode
  <2>7. OutstandingExact'
    BY <1>0, <2>1, <2>5, <2>6 DEF Balance, OutstandingExact
  <2>8. sem \in [ Clients -> Nat ] /\ sem' \in [ Clients -> Nat ]
    <3>1. sem \in [ Clients -> Nat ]
      BY <1>0 DEF Balance
    <3>2. sem[c] - 1 \in Nat
      BY <2>1, <3>1
    <3> QED BY <2>1, <3>1, <3>2
  <2>9. ASSUME NEW d \in Clients
        PROVE  Unanswered({d})' + sem'[d] = IF pc'[d] = "idle" THEN 0 ELSE 1
    <3>1. Unanswered({d}) + sem[d] = (IF pc[d] = "idle" THEN 0 ELSE 1) /\ d \in Threads
      BY <1>0 DEF Balance, Threads
    <3>2. CASE d # c
      <4>1. sem'[d] = sem[d] /\ pc'[d] = pc[d]
        BY <2>1, <2>2, <2>8, <3>1, <3>2
      <4> QED BY <2>5, <3>1, <4>1
    <3>3. CASE d = c
      <4>1. PICK u \in Nat, x \in Nat : u = Unanswered({d}) /\ x = sem[d]
        BY <2>8, UnansweredNow
      <4>2. u + x = 1 /\ sem'[d] = x - 1 /\ pc'[d] = "idle"
        BY <2>1, <2>3, <2>8, <3>1, <3>3, <4>1
      <4>3. u + (x - 1) = 0
        BY <4>2
      <4> QED BY <2>5, <4>1, <4>2, <4>3
    <3> QED BY <3>2, <3>3
  <2> QED BY <2>4, <2>7, <2>8, <2>9 DEF AccountInv, Balance
<1> QED BY <1>1, <1>2, <1>3

-----------------------------------------------------------------------------
(* A buffer is taken: a request goes on, or the flush does. *)
LEMMA TakeAccount ==
  ASSUME RingInv, StreamInv, AccountInv, RingInv', StreamInv',
         NEW t \in Threads, NEW s \in Places, waitIdleReadBuffer(t, s),
         \/ pc[t] = "getBuffer" /\ s # "idle" /\ (s = "write" <=> todo > 0) /\ s # "getNext"
         \/ pc[t] = "getNext" /\ s = "set"
  PROVE  AccountInv'
<1>1. /\ pc' = [ pc EXCEPT ![t] = s ]
      /\ UNCHANGED << lock, msg, todo, src, srcOff, batched, shared, decode, device >>
  BY DEF waitIdleReadBuffer
<1>2. currSrc' # -1
  <2>1. currSrc' = rdDeq % NumBufs
    BY DEF waitIdleReadBuffer
  <2>2. rdDeq \in Nat
    BY Bound DEF RingInv, RingTypes
  <2>3. rdDeq % NumBufs \in 0 .. NumBufs - 1
    BY <2>2, Bound
  <2>4. rdDeq % NumBufs >= 0
    BY <2>3, Bound
  <2> QED BY <2>1, <2>3, <2>4, Bound
<1>3. lock = t
  BY Inside
<1>4. WriterAt(pc[t]) /\ (WriterAt(s)' => WriterInv')
  BY <1>1, <1>3, WriterStep DEF AccountInv
<1>5. WriterAt(s)'
  BY <1>1, <1>2, <1>4 DEF WriterAt
<1>6. Balance'
  <2>1. \A T : Asked(T)' = Asked(T)
    BY <1>1, AskedFrame DEF device
  <2> QED BY <1>1, <2>1, HostBalance DEF shared, device
<1> QED BY <1>4, <1>5, <1>6 DEF AccountInv

LEMMA WriteAccount ==
  ASSUME RingInv, StreamInv, AccountInv, RingInv', StreamInv', NEW t \in Threads, Write(t)
  PROVE  AccountInv'
<1>0. WriterInv /\ Balance /\ BufSize \in Nat /\ BufSize > 0
  BY DaemonAssumption DEF AccountInv
<1>1. CASE WriteRest(t)
  <2>1. /\ pc[t] = "write" /\ srcOff + todo < BufSize
        /\ srcOff' = srcOff + todo /\ todo' = 0 /\ pc' = [ pc EXCEPT ![t] = AfterWrite ]
        /\ UNCHANGED << currSrc, batched, shared, decode, device >>
    BY <1>1 DEF WriteRest
  <2>2. lock = t
    BY <2>1, Inside
  <2>3. PICK s \in Places : s = AfterWrite /\ s \notin {"idle", "write", "getBuffer", "getNext"}
    BY AfterWriteIs DEF Places
  <2>4. WriterAt(pc[t]) /\ (WriterAt(s)' => WriterInv')
    BY <1>0, <2>1, <2>2, <2>3, WriterStep
  <2>5. /\ todo \in Nat /\ todo > 0 /\ srcOff \in Nat /\ batched \in Nat
        /\ batched <= srcOff + todo + 1 /\ currSrc # -1
    BY <1>0, <2>1, <2>4 DEF WriterAt
  <2>6. WriterAt(s)'
    <3>1. PICK o \in Nat, n \in Nat, b \in Nat :
            /\ o = srcOff + todo /\ n = batched /\ b = BufSize /\ o < b /\ n <= o + 1
      BY <1>0, <2>1, <2>5
    <3>2. srcOff' = o /\ todo' = 0 /\ batched' = n /\ o \in 0 .. b /\ o + 0 < b /\ n <= o + 0 + 1
      BY <2>1, <3>1
    <3> QED BY <2>1, <2>3, <2>5, <3>1, <3>2 DEF WriterAt
  <2>7. \A T : Asked(T)' = Asked(T)
    BY <1>1, <2>5, WriteRestMoves
  <2>8. Balance'
    BY <2>1, <2>3, <2>7, HostBalance DEF shared, device
  <2> QED BY <2>4, <2>6, <2>8 DEF AccountInv
<1>2. CASE WriteFull(t)
  <2>1. /\ pc[t] = "write" /\ srcOff + todo >= BufSize
        /\ src' = << >> /\ srcOff' = 0 /\ pc' = [ pc EXCEPT ![t] = "getBuffer" ]
        /\ UNCHANGED << currSrc, batched, shared, decode, wrDoneQ, dst, outQ >>
    BY <1>2 DEF WriteFull
  <2>2. lock = t
    BY <2>1, Inside
  <2>3. WriterAt(pc[t]) /\ (WriterAt("getBuffer")' => WriterInv')
    BY <1>0, <2>1, <2>2, WriterStep DEF Places
  <2>4. /\ todo \in Nat /\ todo > 0 /\ srcOff \in 0 .. BufSize /\ batched \in Nat
        /\ batched <= 1 /\ (currSrc = -1 => src = << >>)
    BY <2>1, <2>3 DEF WriterAt
  <2>5. \A T : Asked(T)' = Asked(T) /\ todo' \in Nat
    BY <1>2, <2>4, WriteFullMoves
  <2>6. WriterAt("getBuffer")'
    <3>1. PICK n \in Nat, x \in Nat, b \in Nat :
            n = batched /\ x = todo' /\ b = BufSize /\ n <= 1
      BY <1>0, <2>4, <2>5
    <3>2. \A i \in Nat, j \in Nat, k \in Nat : i <= 1 => i <= 0 + j + 1 /\ 0 \in 0 .. k
      OBVIOUS
    <3>3. n <= 0 + x + 1 /\ 0 \in 0 .. b
      BY <3>1, <3>2
    <3> QED BY <2>1, <2>4, <3>1, <3>3 DEF WriterAt
  <2>7. Balance'
    BY <2>1, <2>5, HostBalance DEF Places, shared
  <2> QED BY <2>3, <2>6, <2>7 DEF AccountInv
<1>3. CASE WriteGetBuffer(t)
  <2>1. PICK s \in Places : s = IF todo > 0 THEN "write" ELSE AfterWrite
    BY AfterWriteIs DEF Places
  <2>2. /\ s \notin {"idle", "getNext"} /\ (s = "write" <=> todo > 0)
    BY <2>1, AfterWriteIs
  <2>3. pc[t] = "getBuffer" /\ waitIdleReadBuffer(t, s)
    BY <1>3, <2>1 DEF WriteGetBuffer
  <2> QED BY <2>2, <2>3, TakeAccount
<1> QED BY <1>1, <1>2, <1>3 DEF Write

LEMMA FlushAccount ==
  ASSUME RingInv, StreamInv, AccountInv, RingInv', StreamInv', FlushPass
  PROVE  AccountInv'
<1>0. /\ WriterInv /\ Balance /\ Flusher \in Threads /\ Flusher \notin Clients
      /\ BufSize \in Nat
  BY DaemonAssumption DEF AccountInv, Threads
<1>1. CASE FlushLock \/ FlushNothing \/ FlushEnd
  <2>1. \E s \in {"idle", "decide"} : pc' = [ pc EXCEPT ![Flusher] = s ]
    BY <1>1 DEF FlushLock, FlushNothing, FlushEnd, EndPass
  <2>2. PICK s \in Places : s \in {"idle", "decide"} /\ pc' = [ pc EXCEPT ![Flusher] = s ]
    BY <2>1 DEF Places
  <2>3. /\ pc[Flusher] \in {"idle", "decide", "set"}
        /\ UNCHANGED << msg, todo, src, currSrc, srcOff, batched, sem, outstanding, wrEnq,
                        decode, device >>
    BY <1>1 DEF FlushLock, FlushNothing, FlushEnd, EndPass, shared
  <2>4. lock = Flusher \/ lock = None
    <3>1. CASE FlushLock
      BY <3>1 DEF FlushLock
    <3>2. CASE FlushNothing \/ FlushEnd
      <4>1. pc[Flusher] \notin {"idle", "wait"}
        BY <3>2 DEF FlushNothing, FlushEnd
      <4> QED BY <1>0, <4>1, Inside
    <3> QED BY <1>1, <3>1, <3>2
  <2>5. WriterAt(pc[Flusher]) /\ (WriterAt(s)' => WriterInv')
    BY <1>0, <2>2, <2>4, WriterStep
  <2>6. WriterAt(s)'
    BY <2>2, <2>3, <2>5 DEF WriterAt
  <2>7. \A T : Asked(T)' = Asked(T)
    BY <2>3, AskedFrame DEF device
  <2>8. Balance'
    BY <1>0, <2>2, <2>3, <2>7, HostBalance DEF device
  <2> QED BY <2>5, <2>6, <2>8 DEF AccountInv
<1>2. CASE FlushBegin
  <2>1. /\ pc[Flusher] = "decide" /\ BeginWrite(Flusher, EOM)
        /\ UNCHANGED << src, srcOff, currSrc, sem, decode, device, wrEnq >>
    BY <1>2 DEF FlushBegin
  <2>2. lock = Flusher
    BY <1>0, <2>1, Inside
  <2>3. EOM \in Message /\ EOM.from = Flusher
    BY MessageIs DEF EOM
  <2> QED BY <1>0, <2>1, <2>2, <2>3, BeginAccount
<1>3. CASE FlushSend(Flusher)
  <2>1. /\ pc[Flusher] = "flush" /\ batched' = 0
        /\ UNCHANGED << msg, todo, currSrc, shared, decode, wrDoneQ, dst, outQ >>
    BY <1>3 DEF FlushSend
  <2>2. lock = Flusher
    BY <1>0, <2>1, Inside
  <2>3. PICK s \in Places :
          /\ s \in {"getNext", "set"} /\ pc' = [ pc EXCEPT ![Flusher] = s ]
          /\ (s = "getNext" /\ src' = << >> /\ srcOff' = 0)
               \/ (s = "set" /\ UNCHANGED << src, srcOff >>)
    BY <1>3 DEF FlushSend, Places
  <2>4. WriterAt(pc[Flusher]) /\ (WriterAt(s)' => WriterInv')
    BY <1>0, <2>2, <2>3, WriterStep
  <2>5. /\ todo = 0 /\ srcOff \in 0 .. BufSize
        /\ currSrc = -1 => src = << >> /\ srcOff = BufSize
    BY <2>1, <2>4 DEF WriterAt
  <2>6. WriterAt(s)'
    <3>1. todo' = 0 /\ srcOff' \in 0 .. BufSize /\ batched' = 0 /\ currSrc' = currSrc
      BY <1>0, <2>1, <2>3, <2>5
    <3>2. srcOff' + todo' < BufSize => batched' <= srcOff' + todo' + 1
      <4>1. PICK o \in Nat : o = srcOff'
        BY <1>0, <3>1
      <4>2. 0 <= o + 0 + 1
        OBVIOUS
      <4> QED BY <3>1, <4>1, <4>2
    <3>3. currSrc' = -1 => src' = << >>
      BY <2>1, <2>3, <2>5
    <3>4. currSrc' = -1 /\ s \notin {"getBuffer", "getNext"} => srcOff' = BufSize
      BY <2>1, <2>3, <2>5
    <3>5. todo' \in Nat /\ batched' \in Nat /\ batched' <= 1 /\ s \notin {"write", "getBuffer"}
      BY <2>3, <3>1
    <3> QED BY <3>1, <3>2, <3>3, <3>4, <3>5 DEF WriterAt
  <2>7. \A T : Asked(T)' = Asked(T)
    BY <1>3, FlushSendMoves
  <2>8. Balance'
    BY <1>0, <2>1, <2>3, <2>7, HostBalance DEF shared
  <2> QED BY <2>4, <2>6, <2>8 DEF AccountInv
<1>4. CASE FlushGetBuffer(Flusher)
  <2>1. pc[Flusher] = "getNext" /\ waitIdleReadBuffer(Flusher, "set")
    BY <1>4 DEF FlushGetBuffer
  <2> QED BY <1>0, <2>1, TakeAccount DEF Places
<1> QED BY <1>1, <1>2, <1>3, <1>4 DEF FlushPass

(* Steps of the device and of the response thread. *)
LEMMA QuietBalance ==
  ASSUME RingInv, StreamInv, AccountInv, RingInv', StreamInv',
         \A T : Asked(T)' + Answered(T)' = Asked(T) + Answered(T),
         UNCHANGED << host, sem, outstanding >>, dpc' = "count" <=> dpc = "count"
  PROVE  AccountInv'
<1>1. \A T : Unanswered(T)' = Unanswered(T)
  BY UnansweredNow, UnansweredThen
<1>2. UNCHANGED << pc, todo, srcOff, batched, currSrc, src >>
  BY DEF host
<1>3. Balance'
  BY <1>1, <1>2, BalanceFrame DEF AccountInv
<1>4. WriterInv'
  BY <1>2, WriterFrame DEF AccountInv
<1> QED BY <1>3, <1>4 DEF AccountInv

LEMMA DeviceAccount ==
  ASSUME RingInv, StreamInv, AccountInv, RingInv', StreamInv', Device
  PROVE  AccountInv'
<1>1. UNCHANGED << host, sem, outstanding, dpc >>
  BY DEF Device, FPGA, DeviceRead, doDMAWrite, rdDone, wrDone, Answer, shared, decode
<1>2. CASE DeviceRead
  <2>1. \A T : Asked(T)' = Asked(T)
    BY <1>2, DeviceReadMoves
  <2>2. \A T : Answered(T)' = Answered(T)
    BY <1>2, AnsweredFrame DEF DeviceRead, shared
  <2> QED BY <1>1, <2>1, <2>2, QuietBalance
<1>3. CASE rdDone
  <2>1. \A T : Asked(T)' = Asked(T)
    BY <1>3, AskedFrame DEF rdDone, host
  <2>2. \A T : Answered(T)' = Answered(T)
    BY <1>3, AnsweredFrame DEF rdDone
  <2> QED BY <1>1, <2>1, <2>2, QuietBalance
<1>4. CASE wrDone \/ doDMAWrite
  <2>1. \A T : Asked(T)' = Asked(T)
    BY <1>4, AskedFrame DEF wrDone, doDMAWrite, host
  <2>2. \A T : Answered(T)' = Answered(T)
    BY <1>4, ReadOnAnswered
  <2> QED BY <1>1, <2>1, <2>2, QuietBalance
<1>5. ASSUME NEW i \in 1 .. Len(devQ), NEW body \in BodySizes \cup {0}, Answer(i, body)
      PROVE  AccountInv'
  <2>1. \A T : Asked(T)' + Answered(T)' = Asked(T) + Answered(T)
    BY <1>5, AnswerMoves
  <2> QED BY <1>1, <2>1, QuietBalance
<1> QED BY <1>2, <1>3, <1>4, <1>5 DEF Device, FPGA

LEMMA HandleAccount ==
  ASSUME RingInv, StreamInv, AccountInv, RingInv', StreamInv', HandleAnswer \/ HandleEom
  PROVE  AccountInv'
<1>0. WriterInv /\ Balance
  BY DEF AccountInv
<1>1. /\ UNCHANGED << host, outstanding, devQ, readQ >> /\ dpc = "handle" /\ dpc' = "count"
  BY DEF HandleAnswer, HandleEom, device
<1>2. UNCHANGED << pc, todo, msg, srcOff, batched, currSrc, src >>
  BY <1>1 DEF host
<1>3. WriterInv'
  BY <1>0, <1>2, WriterFrame
<1>4. Header \in Units
  BY HandleAnswered
<1>5. \A T : /\ Unanswered(T) = Unanswered(T)' + (IF Header.m.from \in T THEN 1 ELSE 0)
             /\ Unanswered(T)' \in Nat
  <2> TAKE T
  <2>1. Asked(T)' = Asked(T)
    BY <1>1, <1>2, AskedFrame
  <2>2. Answered(T) = Answered(T)' + (IF Header.m.from \in T THEN 1 ELSE 0) /\ Answered(T)' \in Nat
    BY HandleAnswered
  <2>3. PICK a \in Nat, b \in Nat, h \in Nat :
          a = Asked(T) /\ b = Answered(T)' /\ h = IF Header.m.from \in T THEN 1 ELSE 0
    BY <2>2, UnansweredNow
  <2>4. Unanswered(T) = a + (b + h) /\ Unanswered(T)' = a + b
    BY <2>1, <2>2, <2>3, UnansweredNow, UnansweredThen
  <2>5. a + (b + h) = (a + b) + h /\ a + b \in Nat
    OBVIOUS
  <2> QED BY <2>3, <2>4, <2>5
<1>6. Header.m \in Message /\ Header.m.from \in Threads
  BY <1>4 DEF Units, Message, EOM, Threads
<1>7. OutstandingExact'
  <2>1. PICK u \in Nat : u = Unanswered(Threads)'
    BY <1>5
  <2>2. Unanswered(Threads) = u + 1
    BY <1>5, <1>6, <2>1
  <2>3. outstanding = (u + 1) + 0
    BY <1>0, <1>1, <2>2 DEF Balance, OutstandingExact
  <2>4. outstanding' = u + 1
    BY <1>1, <2>3
  <2> QED BY <1>1, <2>1, <2>4 DEF OutstandingExact
<1>8. sem \in [ Clients -> Nat ]
  BY <1>0 DEF Balance
<1>9. CASE HandleAnswer
  <2>1. PICK f \in Clients : f = Header.m.from
    <3>1. Header.m.op # "EOM"
      BY <1>9 DEF HandleAnswer
    <3>2. Header.m # EOM
      BY <3>1 DEF EOM
    <3> QED BY <1>6, <3>2 DEF Message
  <2>2. sem' = [ sem EXCEPT ![f] = @ + 1 ]
    BY <1>9, <2>1 DEF HandleAnswer, Post
  <2>3. sem' \in [ Clients -> Nat ]
    <3>1. sem[f] + 1 \in Nat
      BY <1>8
    <3> QED BY <1>8, <2>2, <3>1
  <2>4. ASSUME NEW c \in Clients
        PROVE  Unanswered({c})' + sem'[c] = IF pc'[c] = "idle" THEN 0 ELSE 1
    <3>1. Unanswered({c}) + sem[c] = IF pc[c] = "idle" THEN 0 ELSE 1
      BY <1>0 DEF Balance
    <3>2. PICK u \in Nat, x \in Nat : u = Unanswered({c})' /\ x = sem[c]
      BY <1>5, <1>8
    <3>3. CASE c = f
      <4>1. Unanswered({c}) = u + 1 /\ sem'[c] = x + 1
        BY <1>5, <1>8, <2>1, <2>2, <3>2, <3>3
      <4>2. (u + 1) + x = u + (x + 1)
        OBVIOUS
      <4> QED BY <1>2, <3>1, <3>2, <4>1, <4>2
    <3>4. CASE c # f
      <4>1. Unanswered({c}) = u + 0 /\ sem'[c] = x
        BY <1>5, <1>8, <2>1, <2>2, <3>2, <3>4
      <4>2. (u + 0) + x = u + x
        OBVIOUS
      <4> QED BY <1>2, <3>1, <3>2, <4>1, <4>2
    <3> QED BY <3>3, <3>4
  <2> QED BY <1>3, <1>7, <2>3, <2>4 DEF AccountInv, Balance
<1>10. CASE HandleEom
  <2>1. Header.m.from = Flusher /\ Flusher \notin Clients
    <3>1. Header.m.op = "EOM"
      BY <1>10 DEF HandleEom
    <3>2. "EOM" \notin Ops
      BY DaemonAssumption
    <3>3. Header.m = EOM
      BY <1>6, <3>1, <3>2 DEF Message
    <3> QED BY <3>3, DaemonAssumption DEF EOM
  <2>2. sem' = sem
    BY <1>10 DEF HandleEom
  <2>3. ASSUME NEW c \in Clients
        PROVE  Unanswered({c})' + sem'[c] = IF pc'[c] = "idle" THEN 0 ELSE 1
    <3>1. Unanswered({c}) + sem[c] = IF pc[c] = "idle" THEN 0 ELSE 1
      BY <1>0 DEF Balance
    <3>2. PICK u \in Nat, x \in Nat : u = Unanswered({c})' /\ x = sem[c]
      BY <1>5, <1>8
    <3>3. Unanswered({c}) = u + 0
      BY <1>5, <2>1, <3>2
    <3> QED BY <1>2, <2>2, <3>1, <3>2, <3>3
  <2> QED BY <1>3, <1>7, <1>8, <2>2, <2>3 DEF AccountInv, Balance
<1> QED BY <1>9, <1>10

LEMMA DecodeAccount ==
  ASSUME RingInv, StreamInv, AccountInv, RingInv', StreamInv', DecodeResponse
  PROVE  AccountInv'
<1>1. CASE ReadRest \/ ReadFull \/ waitIdleWriteBuffer \/ HandleValueFollows
  <2>1. /\ UNCHANGED << host, sem, outstanding, readQ, devQ >>
        /\ dpc \in {"read", "getBuffer", "handle"} /\ dpc' \in {"read", "getBuffer", "handle"}
    <3>1. CASE ReadRest
      BY <3>1 DEF ReadRest, shared, device
    <3>2. CASE ReadFull
      BY <3>2 DEF ReadFull, shared
    <3>3. CASE waitIdleWriteBuffer
      BY <3>3 DEF waitIdleWriteBuffer, device
    <3>4. CASE HandleValueFollows
      BY <3>4 DEF HandleValueFollows, shared, device
    <3> QED BY <1>1, <3>1, <3>2, <3>3, <3>4
  <2>2. \A T : Asked(T)' = Asked(T)
    BY <2>1, AskedFrame DEF host
  <2>3. \A T : Answered(T)' = Answered(T)
    BY <1>1, ReadOnAnswered
  <2> QED BY <2>1, <2>2, <2>3, QuietBalance
<1>2. CASE CountAnswer
  <2>1. /\ UNCHANGED << host, sem, readQ, devQ >> /\ dpc = "count" /\ dpc' = "read"
        /\ outstanding' = outstanding - 1
    BY <1>2 DEF CountAnswer, device
  <2>2. UNCHANGED << pc, todo, msg, srcOff, batched, currSrc, src >>
    BY <2>1 DEF host
  <2>3. \A T : Unanswered(T)' = Unanswered(T)
    <3>1. \A T : Asked(T)' = Asked(T)
      BY <2>1, <2>2, AskedFrame
    <3>2. \A T : Answered(T)' = Answered(T)
      BY <1>2, ReadOnAnswered
    <3> QED BY <3>1, <3>2, SameUnanswered
  <2>4. OutstandingExact'
    <3>1. PICK u \in Nat : u = Unanswered(Threads)
      BY UnansweredNow
    <3>2. outstanding = u + 1
      BY <2>1, <3>1 DEF AccountInv, Balance, OutstandingExact
    <3>3. (u + 1) - 1 = u + 0
      OBVIOUS
    <3>4. outstanding' = u + 0
      BY <2>1, <3>2, <3>3
    <3> QED BY <2>1, <2>3, <3>1, <3>4 DEF OutstandingExact
  <2>5. Balance'
    BY <2>1, <2>2, <2>3, <2>4 DEF AccountInv, Balance
  <2>6. WriterInv'
    BY <2>2, WriterFrame DEF AccountInv
  <2> QED BY <2>5, <2>6 DEF AccountInv
<1> QED BY <1>1, <1>2, HandleAccount DEF DecodeResponse

LEMMA AccountNext ==
  ASSUME RingInv, StreamInv, AccountInv, RingInv', StreamInv', [Next]_vars
  PROVE  AccountInv'
<1>1. CASE UNCHANGED vars
  <2>1. UNCHANGED << host, todo, msg, src, readQ, devQ, wrEnq, wrDoneQ, dst, outQ, decode,
                     sem, outstanding, dpc >>
    BY <1>1 DEF vars, host, shared, decode, device
  <2>2. \A T : Asked(T)' = Asked(T) /\ Answered(T)' = Answered(T)
    BY <2>1, AskedFrame, AnsweredFrame
  <2> QED BY <2>1, <2>2, QuietBalance
<1> QED BY <1>1, ClientAccount, WriteAccount, FlushAccount, DeviceAccount, DecodeAccount
        DEF Next

LEMMA AccountInit == Init => AccountInv
<1> SUFFICES ASSUME Init PROVE AccountInv
  OBVIOUS
<1>1. /\ pc = [ t \in Threads |-> "idle" ] /\ todo = 0 /\ src = << >> /\ currSrc = -1
      /\ srcOff = BufSize /\ batched = 0 /\ outstanding = 0 /\ dpc = "read" /\ currDst = -1
      /\ sem = [ c \in Clients |-> 0 ] /\ units = << >> /\ wrEnq = 0 /\ wrDeq = 0
      /\ readQ = << >> /\ devQ = << >> /\ outQ = << >> /\ wrDoneQ = << >>
  BY DEF Init, StartState
<1>2. BufSize \in Nat /\ Clients \subseteq Threads
  BY DaemonAssumption DEF Threads
<1>3. WriterInv
  BY <1>1, <1>2 DEF WriterInv
<1>4. InMemory = << >>
  <2>1. (wrEnq - wrDeq) % (2 * NumBufs) = 0
    <3>1. 0 \in 0 .. 2 * NumBufs - 1 /\ wrEnq - wrDeq = 0
      BY <1>1, Bound
    <3> QED BY <3>1, Bound
  <2> DEFINE bufs == [ i \in 1 .. 0 |-> (wrDeq + i - 1) % NumBufs ] \o wrDoneQ
  <2>2. bufs = << >>
    BY <1>1
  <2> DEFINE ds == [ i \in 1 .. Len(bufs) |-> dst[bufs[i]] ]
  <2>3. ds = << >>
    BY <2>2
  <2>4. InMemory = << >> \o FlattenSeq(ds)
    BY <1>1, <2>1 DEF InMemory
  <2> HIDE DEF bufs, ds
  <2>5. << >> \in Seq(Seq(Units)) /\ Len(<< >>) = 0
    OBVIOUS
  <2>6. FlattenSeq(ds) = << >>
    BY <2>3, <2>5, FlattenType
  <2> QED BY <2>4, <2>6
<1>5. Sent(readQ) = << >>
  <2> DEFINE ds == [ i \in 1 .. Len(readQ) |-> readQ[i].msgs ]
  <2>1. ds = << >> /\ Sent(readQ) = FlattenSeq(ds)
    BY <1>1 DEF Sent
  <2> HIDE DEF ds
  <2>2. << >> \in Seq(Seq(Message)) /\ Len(<< >>) = 0
    OBVIOUS
  <2> QED BY <2>1, <2>2, FlattenType
<1>6. \A T : Unanswered(T) = 0
  <2> TAKE T
  <2>1. /\ Count(src, MessagesOf(T)) = 0 /\ Count(Sent(readQ), MessagesOf(T)) = 0
        /\ Count(devQ, MessagesOf(T)) = 0 /\ Count(outQ, HeadersOf(T)) = 0
        /\ Count(InMemory, HeadersOf(T)) = 0
    BY <1>1, <1>4, <1>5, CountEmpty
  <2> QED BY <1>1, <2>1 DEF Unanswered, Sent
<1>7. Balance
  BY <1>1, <1>2, <1>6 DEF Balance, OutstandingExact
<1> QED BY <1>3, <1>7 DEF AccountInv

(* In every behaviour outstanding_requests and the semaphores agree with   *)
(* where the requests are.                                                 *)
THEOREM AccountInvHolds == Spec => []AccountInv
<1>1. RingInv /\ StreamInv /\ AccountInv /\ RingInv' /\ StreamInv' /\ [Next]_vars => AccountInv'
  BY AccountNext
<1> QED BY <1>1, AccountInit, RingInvHolds, StreamInvHolds, PTL DEF Spec

(* outstanding_requests, which the flush thread compares with its last     *)
(* value, is in every state the number of requests and EOMs whose answer   *)
(* decode_response has not handled, plus the one it is about to count.     *)
THEOREM OutstandingExactHolds == Spec => []OutstandingExact
<1>1. AccountInv => OutstandingExact
  BY DEF AccountInv, Balance
<1> QED BY <1>1, AccountInvHolds, PTL

(* No request and no answer is lost or repeated: dmaBufMemwrite cuts       *)
(* requests at the ends of buffers, flush_request sends buffers that are   *)
(* not full, the device answers GETs out of order and pads after an EOM,   *)
(* and still a client that waits has exactly one request or answer.        *)
THEOREM NoRequestLostHolds == Spec => []NoRequestLost
<1>1. AccountInv => NoRequestLost
  BY DEF AccountInv, Balance, NoRequestLost
<1> QED BY <1>1, AccountInvHolds, PTL

(* The types: batched_requests never exceeds what a buffer holds, no       *)
(* lockList semaphore is above 1, outstanding_requests never negative.     *)
THEOREM TypeCorrect == Spec => []TypeOK
<1>1. RingInv /\ StreamInv /\ AccountInv => TypeOK
  <2> SUFFICES ASSUME RingInv, StreamInv, AccountInv PROVE TypeOK
    OBVIOUS
  <2>1. RingTypes /\ StreamTypes /\ WriterInv /\ Balance
    BY DEF RingInv, StreamInv, AccountInv
  <2>2. BufSize \in Nat /\ BufSize > 0 /\ NumBufs \in Nat
    BY DaemonAssumption
  <2>3. batched \in 0 .. BufSize
    <3>1. PICK o \in Nat, x \in Nat, n \in Nat, b \in Nat :
            /\ o = srcOff /\ x = todo /\ n = batched /\ b = BufSize /\ b > 0
            /\ (o + x < b => n <= o + x + 1) /\ (o + x >= b => n <= 1)
      BY <2>1, <2>2 DEF WriterInv
    <3>2. n <= b
      BY <3>1
    <3> QED BY <3>1, <3>2
  <2>4. sem \in [ Clients -> 0 .. 1 ]
    <3>1. ASSUME NEW c \in Clients PROVE sem[c] \in 0 .. 1
      <4>1. PICK u \in Nat, x \in Nat : u = Unanswered({c}) /\ x = sem[c]
        BY <2>1, UnansweredNow DEF Balance
      <4>2. u + x <= 1
        BY <2>1, <4>1 DEF Balance
      <4>3. x <= 1
        BY <4>2
      <4> QED BY <4>1, <4>3
    <3>2. sem \in [ Clients -> Nat ]
      BY <2>1 DEF Balance
    <3> QED BY <3>1, <3>2
  <2>5. outstanding \in Nat
    <3>1. PICK u \in Nat, h \in Nat :
            u = Unanswered(Threads) /\ h = (IF dpc = "count" THEN 1 ELSE 0) /\ outstanding = u + h
      BY <2>1, UnansweredNow DEF Balance, OutstandingExact
    <3> QED BY <3>1
  <2>6. currSrc \in -1 .. NumBufs - 1 /\ currDst \in -1 .. NumBufs - 1
    BY <2>1, <2>2 DEF RingTypes, Buffers
  <2>7. dst \in [ 0 .. NumBufs - 1 -> Seq([ m : Message, body : Nat, k : Nat ]) ]
    BY <2>1 DEF StreamTypes, Units, Buffers
  <2>8. /\ todo \in Nat /\ srcOff \in 0 .. BufSize /\ dstOff \in 0 .. BufSize
    BY <2>1 DEF WriterInv, StreamTypes
  <2> QED BY <2>1, <2>3, <2>4, <2>5, <2>6, <2>7, <2>8 DEF TypeOK, RingTypes
<1> QED BY <1>1, RingInvHolds, StreamInvHolds, AccountInvHolds, PTL
=============================================================================
