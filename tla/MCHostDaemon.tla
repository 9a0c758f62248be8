---------------------------- MODULE MCHostDaemon ----------------------------
(* Small instances of HostDaemon for TLC: a GET fills a request buffer, or *)
(* crosses into the next one after a SET, and a GET that hits is answered  *)
(* by a header and a value that together fill a response buffer, leave     *)
(* room for one header, or cross into the next one.                        *)
EXTENDS HostDaemon

CONSTANTS c1, c2

MCClients == { c1, c2 }

MCOps == { "SET", "GET" }

MCReqSize == [ op \in Ops |-> IF op = "SET" THEN 2 ELSE 3 ]
=============================================================================
