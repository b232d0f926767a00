--------------------------- MODULE MCStatefulRng ---------------------------
(***************************************************************************)
(* Generators that reseed from another generator, from entropy sources, or *)
(* not at all, in a process and its children.                              *)
(***************************************************************************)
EXTENDS StatefulRng
=============================================================================
