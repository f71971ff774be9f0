---------------------------- MODULE MCPmClientLib ----------------------------
(* TLC instances of PmClientLib. *)
EXTENDS PmClientLib, TLC

Symmetry == Permutations(Handle)
=============================================================================
