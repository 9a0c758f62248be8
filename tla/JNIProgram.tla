----------------------------- MODULE JNIProgram -----------------------------
(***************************************************************************)
(* bsv/Test_Bluecache_JNI: the daemon behind a Java library.  TestBluecache *)
(* makes the clients in its main thread and runs RequestThreads; the native *)
(* methods of the library call the daemon.                                 *)
(***************************************************************************)
EXTENDS DaemonProgram

pageSz == 8192

initMemcached == Layout(pageSz * 6, pageSz * 64, pageSz * 128, 2^25,
                        2^25 + 2^14 + pageSz * 6, 2^27, 2^29)

startProxy == initBluecacheProxy(initMemcached)

(* The native methods, called by a RequestThread that sets or gets. *)
Java_sendSet(c) == InPhase(c, "SET") /\ Send(c, "SET")

Java_sendGet(c) == InPhase(c, "GET") /\ Send(c, "GET")

run(c) == Java_sendSet(c) \/ Java_sendGet(c) \/ Register(c) \/ Return(c)

mainProgram ==
  startProxy \/ initDone \/ ProxyReturns \/ initMainThread \/ JoinSets \/ JoinGets

JNINext ==
  \/ mainProgram
  \/ /\ \/ \E c \in Clients : run(c)
        \/ \E t \in Threads : Write(t)
        \/ FlushPass \/ Device \/ DecodeResponse
     /\ UNCHANGED program_vars
=============================================================================
