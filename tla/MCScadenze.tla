----------------------------- MODULE MCScadenze -----------------------------
(* Instances of Scadenze for TLC. *)
EXTENDS Scadenze

FusiScelti == {-8, 0, 8}

=============================================================================
