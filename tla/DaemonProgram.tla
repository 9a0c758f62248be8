--------------------------- MODULE DaemonProgram ----------------------------
(***************************************************************************)
(* The programs that use the host daemon: a main thread starts the daemon  *)
(* (initBluecacheProxy), registers every client (initMainThread), lets     *)
(* each client SET in a thread of its own, joins these threads, lets each  *)
(* client GET in another thread and joins those.  The lines are those of   *)
(* bsv/Test_Bluecache_JNI; the modules of the other programs name their    *)
(* own.                                                                    *)
(***************************************************************************)
EXTENDS HostDaemon, SlabLayout

CONSTANTS
  Sets, (* num_Sets: SETs of each client                                    *)
  Gets  (* num_Gets: GETs of each client, later                             *)

ASSUME ProgramAssumption ==
  Sets \in Nat /\ Gets \in Nat /\ Sets + Gets <= MaxReqs

VARIABLES
  main,      (* where the main thread is                                    *)
  asked,     (* the device was told to zero its table and will report it    *)
  initDone_sem,
  clientCnt  (* clients registered                                          *)

program_vars == << main, asked, initDone_sem, clientCnt, slabs >>
daemon == << host, client, shared, decode, device >>

ProgramInit ==
  /\ StartState(0, << >>)
  /\ main = "start" /\ asked = FALSE /\ initDone_sem = 0 /\ clientCnt = 0
  /\ slabs = {}

-----------------------------------------------------------------------------
(* The threads of the daemon run already when the rings are given to their *)
(* users and the device is told its memory layout and to zero its table.   *)
initBluecacheProxy(layout) ==
  /\ main = "start"
  /\ rdEnq' = NumBufs
  /\ writeBaseQ' = AllBuffers
  /\ slabs' = { layout }
  /\ asked' = TRUE
  /\ main' = "initDone"
  /\ UNCHANGED << initDone_sem, clientCnt, host, client, flushing,
                  outstanding, respMoved, wrEnq, sem, got, decode, readQ,
                  rdDoneQ, devQ, outQ, dst, wrDoneQ >>

(* The device has zeroed its table. *)
initDone ==
  /\ asked
  /\ asked' = FALSE
  /\ initDone_sem' = initDone_sem + 1
  /\ UNCHANGED << main, clientCnt, slabs, daemon >>

(* Mutant: the end of the initialisation is not waited for. *)
ProxyReturnsAtOnce ==
  /\ main = "initDone"
  /\ main' = "register"
  /\ UNCHANGED << asked, initDone_sem, clientCnt, slabs, daemon >>

(* sem_wait(&initDone_sem) *)
ProxyReturns ==
  /\ main = "initDone" /\ initDone_sem > 0
  /\ initDone_sem' = initDone_sem - 1
  /\ main' = "register"
  /\ UNCHANGED << asked, clientCnt, slabs, daemon >>

(* The lists grow by one entry; every semaphore is initialised. *)
initMainThread ==
  /\ main = "register" /\ lock = None
  /\ clientCnt' = clientCnt + 1
  /\ sem' = [ c \in Clients |-> 0 ]
  /\ main' = IF clientCnt' = Cardinality(Clients) THEN "SET" ELSE "register"
  /\ UNCHANGED << asked, initDone_sem, slabs, host, client, flushing,
                  outstanding, respMoved, rdEnq, wrEnq, got, decode, device >>

-----------------------------------------------------------------------------
(* A client's thread has requests of this phase left. *)
InPhase(c, op) ==
  main = op /\ reqNo[c] < (IF op = "SET" THEN Sets ELSE Sets + Gets)

(* Mutant: only one of the threads is joined. *)
JoinedOne(n) == \E c \in Clients : pc[c] = "idle" /\ reqNo[c] = n

(* The threads have returned from their n-th request. *)
Joined(n) == \A c \in Clients : pc[c] = "idle" /\ reqNo[c] = n

JoinSets ==
  /\ main = "SET" /\ Joined(Sets)
  /\ main' = "GET"
  /\ UNCHANGED << asked, initDone_sem, clientCnt, slabs, daemon >>

JoinGets ==
  /\ main = "GET" /\ Joined(Sets + Gets)
  /\ main' = "end"
  /\ UNCHANGED << asked, initDone_sem, clientCnt, slabs, daemon >>

-----------------------------------------------------------------------------
(* The requests and EOMs that have no answer handled: those that Unanswered *)
(* counts.                                                                 *)
NotAnswered ==
  UNION { ToSet(readQ[i].msgs) : i \in 1 .. Len(readQ) }
  \cup ToSet(src) \cup ToSet(devQ)
  \cup { u.m : u \in { v \in ToSet(outQ \o InMemory) : v.k = 1 } }
  \cup (IF todo > 0 THEN { msg } ELSE {})
  \cup (IF units # << >> /\ dpc # "count" THEN { Header.m } ELSE {})

(* A main thread that has joined the SET threads finds every SET answered, *)
(* and the clients' next requests are GETs: the daemon holds nothing of    *)
(* the phase before but an EOM.                                            *)
PhasesApart ==
  main = "GET" => \A m \in NotAnswered : m.op # "SET"

(* The device is told about no request before it has said that its table   *)
(* is zeroed.                                                              *)
NothingBeforeInit ==
  main \in { "start", "initDone" } \/ asked => readQ = << >> /\ devQ = << >>
=============================================================================
