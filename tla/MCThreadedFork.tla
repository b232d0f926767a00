--------------------------- MODULE MCThreadedFork ---------------------------
(***************************************************************************)
(* Threaded_Fork with three ports, one of them null, and two inputs:       *)
(* enough for a worker of the first round to be late for the second.       *)
(***************************************************************************)
EXTENDS ThreadedFork
=============================================================================
