---------------------------- MODULE MCPeripheral ----------------------------
(* TLC instances of Peripheral. *)
EXTENDS Peripheral, TLC

Symmetry == Permutations(Client) \cup Permutations(QmiClient)
=============================================================================
