----------------------------- MODULE MCAttivita -----------------------------
(* Small instances of Attivita for TLC. *)
EXTENDS AttivitaRaffina, TLC

CONSTANTS u1, u2, t1, o1, o2

Simmetria == Permutations(Utenti) \cup Permutations(Operazioni)

=============================================================================
