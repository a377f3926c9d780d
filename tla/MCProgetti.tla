----------------------------- MODULE MCProgetti -----------------------------
(* Small instances of Progetti for TLC. *)
EXTENDS ProgettiRaffina, TLC

CONSTANTS u1, u2, p1, c1, c2, o1, o2

Simmetria == Permutations(Utenti) \cup Permutations(Operazioni)

SimmetriaCodici == Simmetria \cup Permutations(Codici)

=============================================================================
