----------------------------- MODULE MCPmService -----------------------------
(* TLC instances of PmService. *)
EXTENDS PmService, TLC

Symmetry == Permutations(User) \cup Permutations(Requester)
=============================================================================
