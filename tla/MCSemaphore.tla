---------------------------- MODULE MCSemaphore ----------------------------
(***************************************************************************)
(* Semaphore with a handful of threads; MaxTokens lets it be released      *)
(* ahead of any acquire().                                                 *)
(***************************************************************************)
EXTENDS Semaphore
=============================================================================
