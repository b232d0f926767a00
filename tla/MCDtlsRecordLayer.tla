------------------------- MODULE MCDtlsRecordLayer -------------------------
(***************************************************************************)
(* The DTLS record layer for TLC: two associations of four epochs each,    *)
(* so that epochs are dropped and an epoch number comes back under another *)
(* key, and records that fall out of a window of two.                      *)
(***************************************************************************)
EXTENDS DtlsRecordLayer
=============================================================================
