----------------------------- MODULE MCRmtStorage -----------------------------
(* RmtStorage for TLC. *)
EXTENDS RmtStorage, TLC
=============================================================================
