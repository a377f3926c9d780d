----------------------------- MODULE MCElenchi -----------------------------
(* Instances of Elenchi for TLC. *)
EXTENDS Elenchi, TLC

CONSTANTS p1, p2, k1, k2

Simmetria == Permutations({p1, p2}) \cup Permutations({k1, k2})

=============================================================================
