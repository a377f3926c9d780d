------------------------------- MODULE MCCasa -------------------------------
(* Instances of Casa for TLC. *)
EXTENDS Casa, TLC

CONSTANTS p1, p2, k1, k2, k3

Simmetria == Permutations({k1, k2, k3})

=============================================================================
