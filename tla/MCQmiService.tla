---------------------------- MODULE MCQmiService ----------------------------
(* TLC instances of QmiService. *)
EXTENDS QmiService, TLC
=============================================================================
