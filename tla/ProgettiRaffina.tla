--------------------------- MODULE ProgettiRaffina ---------------------------
(***************************************************************************)
(* Progetti implements Iscrizioni: of the fourteen phases an operation may *)
(* be in, only two matter to the others, having read a list that is about  *)
(* to be written back ("scrivi") and having found a list empty             *)
(* ("elimina").  Every other wait is invisible.                            *)
(***************************************************************************)
EXTENDS Progetti

IntentoDi(x) ==
    IF x.fase = "scrivi"
    THEN [tipo |-> "riscrivi", progetto |-> x.progetto, copia |-> x.letti]
    ELSE IF x.fase = "elimina"
    THEN [tipo |-> "cancella", progetto |-> x.progetto, copia |-> {}]
    ELSE [tipo |-> "niente", progetto |-> Nessuno, copia |-> {}]

Astratto == INSTANCE Iscrizioni WITH
    vivo      <- [p \in IdProgetti |-> progetti[p].esiste],
    membri    <- [p \in IdProgetti |-> progetti[p].partecipanti],
    fondatore <- creatore,
    codice    <- codiceIniziale,
    noti      <- codiciUsati,
    intento   <- [o \in Operazioni |-> IntentoDi(op[o])]

\* The interleaved calls of RepositoryProgetto change who is in a project only
\* as Iscrizioni allows: nobody enters but with the code, nobody leaves but by
\* abbandonaProgetto or by an edit that puts back a list it had read, and a
\* project is deleted only by somebody who has seen it empty.
RaffinaIscrizioni == Astratto!Storia

=============================================================================
