----------------------------- MODULE MCAccesso ------------------------------
(* Small instances of Accesso for TLC. *)
EXTENDS AccessoRaffina, TLC

CONSTANTS a1, a2, o1, o2

Simmetria == Permutations(Account) \cup Permutations(Operazioni)

=============================================================================
