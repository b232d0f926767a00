-------------------------- MODULE MCSessionManager --------------------------
(***************************************************************************)
(* Two connections and a handful of sessions; threads are interchangeable. *)
(***************************************************************************)
EXTENDS SessionManager, TLC

Symmetry == Permutations(Threads)
=============================================================================
