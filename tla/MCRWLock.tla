------------------------------ MODULE MCRWLock ------------------------------
(***************************************************************************)
(* Four threads and a reader count that is full at three, where the code   *)
(* has 31 bits: readers are turned away at the limit.                      *)
(***************************************************************************)
EXTENDS RWLock
=============================================================================
