--------------------------- MODULE MCHostPrograms ---------------------------
(***************************************************************************)
(* The benchmark programs on small instances.  A GET hits with a value     *)
(* that, with its header, leaves room in a response buffer, fills it or    *)
(* crosses into the next one; a SET does the same to request buffers.      *)
(* Every program has a run with more requests than both rings hold.        *)
(***************************************************************************)
EXTENDS HostPrograms

MCReqSize == [ SET |-> 2, GET |-> 1, EOM |-> 1 ]
MCRequests == { << 1, 2 >>, << 2, 1 >> }
=============================================================================
