--------------------------- MODULE MCPmServerCalls ---------------------------
(* TLC instances of PmServerCalls. *)
EXTENDS PmServerCalls, TLC

Symmetry == Permutations(Client)
=============================================================================
