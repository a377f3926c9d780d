------------------------------ MODULE Incarichi ------------------------------
(***************************************************************************)
(* The tasks of a project as the people of the project experience them:    *)
(* who is on a task and whether it is done, and nothing of screens, dialogs*)
(* and awaited calls.  Whatever somebody does to a task is done to the     *)
(* task he remembers, at any later time: he puts it back as it was, with   *)
(* all its users; he marks it done, or not, as opposed to what it was; he  *)
(* adds or removes one user of the list he remembers; or he has decided    *)
(* that it must go.                                                        *)
(*                                                                         *)
(* Attivita, which has one action per awaited call, implements this        *)
(* specification (AttivitaRaffina).                                        *)
(***************************************************************************)
EXTENDS Naturals

CONSTANTS
    Utenti, IdTodo,
    Operazioni,  \* whoever may remember a task
    Nessuno

VARIABLES
    compiti,   \* [IdTodo -> what is stored]: existence, users, completion
    nati,      \* ids ever given to a task
    ricordo    \* [Operazioni -> what is remembered of which task]

stato == <<compiti, nati, ricordo>>

Nessuna == [u \in Utenti |-> 0]

Mancante == [esiste |-> FALSE, utenti |-> Nessuna, completato |-> FALSE]

\* `copia`: the task as it was; `segno`: its completion only; `condanna`: it goes.
Ricordo(tipo, t, c) == [tipo |-> tipo, task |-> t, copia |-> c]

Niente == Ricordo("niente", Nessuno, Mancante)

Inizio == /\ compiti = [t \in IdTodo |-> Mancante]
          /\ nati = {}
          /\ ricordo = [o \in Operazioni |-> Niente]

Tiene(o, r) == ricordo' = [ricordo EXCEPT ![o] = r]

Diventa(t, c) == compiti' = [compiti EXCEPT ![t] = c] /\ UNCHANGED nati

\* A task is born once, of one author, and not done.
Nasce(t, u) ==
    /\ t \notin nati
    /\ nati' = nati \cup {t}
    /\ compiti' = [compiti EXCEPT ![t] =
           [esiste |-> TRUE, utenti |-> [Nessuna EXCEPT ![u] = 1],
            completato |-> FALSE]]
    /\ UNCHANGED ricordo

\* Somebody looks at a task that is there, ...
Guarda(o, t) ==
    /\ ricordo[o].tipo \in {"niente", "copia"}
    /\ compiti[t].esiste
    /\ UNCHANGED <<compiti, nati>>
    /\ Tiene(o, Ricordo("copia", t, compiti[t]))

\* ... and makes up his mind to mark it, or to delete it.
Decide(o) ==
    LET r == ricordo[o]
    IN /\ r.tipo = "copia"
       /\ UNCHANGED <<compiti, nati>>
       /\ \/ Tiene(o, Ricordo("segno", r.task,
                              [Mancante EXCEPT !.completato = r.copia.completato]))
          \/ Tiene(o, Ricordo("condanna", r.task, Mancante))

\* The task is again as it was, also when it has gone since.
Ripristina(o) ==
    /\ ricordo[o].tipo = "copia"
    /\ Diventa(ricordo[o].task, ricordo[o].copia)
    /\ Tiene(o, Niente)

\* A task that is there is marked, and its users stay.
Segna(o) ==
    LET t == ricordo[o].task
    IN /\ ricordo[o].tipo = "segno"
       /\ compiti[t].esiste
       /\ Diventa(t, [compiti[t] EXCEPT !.completato = ~ricordo[o].copia.completato])
       /\ Tiene(o, Niente)

\* A task that is there has the remembered users and u once more, or once less,
\* and its completion stays.  Whoever leaves nobody on it has condemned it.
Delega(o, u) ==
    LET t == ricordo[o].task
        c == ricordo[o].copia.utenti
    IN /\ ricordo[o].tipo = "copia"
       /\ compiti[t].esiste
       /\ \E l \in {[c EXCEPT ![u] = @ + 1]}
                      \cup (IF c[u] > 0 THEN {[c EXCEPT ![u] = @ - 1]} ELSE {}) :
            /\ Diventa(t, [compiti[t] EXCEPT !.utenti = l])
            /\ Tiene(o, IF l = Nessuna THEN Ricordo("condanna", t, Mancante)
                        ELSE Niente)

\* The task goes, whoever is on it by now.
Cancella(o) ==
    /\ ricordo[o].tipo = "condanna"
    /\ Diventa(ricordo[o].task, Mancante)
    /\ Tiene(o, Niente)

\* The operations in O come to nothing: the user turns away, a call fails or an
\* application ends.
Dimentica(O) ==
    /\ UNCHANGED <<compiti, nati>>
    /\ ricordo' = [o \in Operazioni |-> IF o \in O THEN Niente ELSE ricordo[o]]

Evento ==
    \/ \E O \in SUBSET Operazioni : Dimentica(O)
    \/ \E t \in IdTodo, u \in Utenti : Nasce(t, u)
    \/ \E o \in Operazioni, t \in IdTodo : Guarda(o, t)
    \/ \E o \in Operazioni : Decide(o) \/ Ripristina(o) \/ Segna(o) \/ Cancella(o)
    \/ \E o \in Operazioni, u \in Utenti : Delega(o, u)

Storia == Inizio /\ [][Evento]_stato

=============================================================================
