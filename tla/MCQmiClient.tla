----------------------------- MODULE MCQmiClient -----------------------------
(* TLC instances of QmiClient. *)
EXTENDS QmiClient, TLC
=============================================================================
