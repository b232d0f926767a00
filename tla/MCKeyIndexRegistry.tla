------------------------ MODULE MCKeyIndexRegistry ------------------------
(***************************************************************************)
(* One key with two indices and up to three processes: a child may have a  *)
(* child of its own, and a key can be exhausted.                           *)
(***************************************************************************)
EXTENDS KeyIndexRegistry
=============================================================================
