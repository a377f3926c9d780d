--------------------------- MODULE AttivitaRaffina ---------------------------
(***************************************************************************)
(* Attivita implements Incarichi: rows, edit dialogs, edits on their way   *)
(* and delegations that have read the list all hold a copy of a task; the  *)
(* two deletions have condemned it; the other phases, the DelegaTask       *)
(* screens and which buttons they show are invisible.                      *)
(***************************************************************************)
EXTENDS Attivita

ConCopia == {"riga", "dialogo", "set", "scriviAdd", "scriviTogli"}

RicordoDi(x) ==
    IF x.fase \in ConCopia
    THEN [tipo |-> "copia", task |-> x.task, copia |-> x.letto]
    ELSE IF x.fase = "completa"
    THEN [tipo |-> "segno", task |-> x.task, copia |-> x.letto]
    ELSE IF x.fase \in {"cancella", "cancellaVuoto"}
    THEN [tipo |-> "condanna", task |-> x.task, copia |-> Inesistente]
    ELSE [tipo |-> "niente", task |-> Nessuno, copia |-> Inesistente]

Astratto == INSTANCE Incarichi WITH
    compiti <- todo,
    nati    <- creati,
    ricordo <- [o \in Operazioni |-> RicordoDi(op[o])]

\* The interleaved calls of TodoRepository change a task only as Incarichi allows:
\* a delegation moves one user of the list that it had read and nothing else, only
\* an edit puts a whole task back, and revives it, and a task is deleted only by
\* somebody who wanted that or whose own write had left nobody on it.
RaffinaIncarichi == Astratto!Storia

=============================================================================
