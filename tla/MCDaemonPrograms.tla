-------------------------- MODULE MCDaemonPrograms --------------------------
(***************************************************************************)
(* The programs of the host daemon on small instances, one program in a    *)
(* behaviour. JNI and MULTICLIENT have the same steps and share their      *)
(* behaviours; chamdoo runs with SETs of which several fit in a buffer and *)
(* with SETs of which every second one crosses into the next buffer. The   *)
(* clients are interchangeable.                                            *)
(***************************************************************************)
EXTENDS ChamdooProgram

CONSTANTS c1, c2

VARIABLE program

all_vars == << program, daemon, program_vars, counts >>

JP == INSTANCE JNIProgram
MP == INSTANCE MulticlientProgram
CP == INSTANCE ChamdooProgram WITH Sets <- 2
CL == INSTANCE ChamdooProgram WITH Sets <- 2, ReqSize <- [ SET |-> 2, GET |-> 1 ]

MCClients == { c1, c2 }
MCOps == { "SET", "GET" }
MCReqSize == [ op \in Ops |-> 1 ]
MCSymmetry == Permutations(MCClients)

MCInit ==
  /\ program \in { "not chamdoo", "chamdoo", "chamdooLarge" }
  /\ CP!ChamdooInit

Is(p) == program = p /\ UNCHANGED program

MCNext ==
  \/ Is("not chamdoo") /\ (JP!JNINext \/ MP!MulticlientNext) /\ UNCHANGED counts
  \/ Is("chamdoo") /\ CP!ChamdooNext
  \/ Is("chamdooLarge") /\ CL!ChamdooNext

MCSpec == MCInit /\ [][MCNext]_all_vars
-----------------------------------------------------------------------------
(* chamdoo: the flush thread finds nothing to do, and never will, as no    *)
(* other thread and not the device can do anything.                        *)
Hung ==
  /\ main # "end" /\ lock = None
  /\ flushing \/ ~ CP!FlushDue
  /\ \/ program = "chamdoo" /\ ~ ENABLED CP!Others
     \/ program = "chamdooLarge" /\ ~ ENABLED CL!Others

(* The answer to an EOM has been read to its end, which is the end of a    *)
(* buffer, and is not looked at before there is another buffer.            *)
EomHeld == dpc = "getBuffer" /\ need = 0 /\ units # << >> /\ Header.m = EOM

(* chamdoo hangs in three ways only: too few requests are batched for the  *)
(* numbers it flushes by, the EOM of the client that flushes itself is     *)
(* overtaken by its answer, or the answer to it ends where a buffer does.  *)
HangsOnlyIf == Hung => CP!Starved \/ ~ EomAhead \/ EomHeld
=============================================================================
