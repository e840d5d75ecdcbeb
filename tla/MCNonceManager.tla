-------------------------- MODULE MCNonceManager --------------------------
(* Instances of NonceManager for TLC. *)
EXTENDS NonceManager, TLC

Symmetry == Permutations(Tasks)
===========================================================================
