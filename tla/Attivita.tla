------------------------------ MODULE Attivita ------------------------------
(***************************************************************************)
(* The `Todo` collection of Firestore: the tasks of one project, what the  *)
(* screens LeMieAttivita and DelegaTask let a user do with them, and the   *)
(* calls of TodoRepository that do it.                                     *)
(*                                                                         *)
(* As in Progetti, a slot of `Operazioni` is one activity on one device    *)
(* and every awaited call is one action.  A slot may also stand for a row  *)
(* of the task list on somebody's screen ("riga") or for an open edit      *)
(* dialog ("dialogo"): these hold the task as it was when it was read, for *)
(* as long as the user likes.                                              *)
(*                                                                         *)
(* The list `utenti` of a task is kept as the number of times each user    *)
(* occurs in it: addUserToTodo appends without looking, removeUserFromTodo *)
(* removes one occurrence, and the order is only displayed.  Title, dates, *)
(* description and priority belong to the form.                            *)
(***************************************************************************)
EXTENDS Naturals

CONSTANTS
    Utenti,      \* participants of the project
    IdTodo,      \* automatic ids of documents of `Todo`
    Operazioni,  \* slots
    MaxVolte,    \* bound: how often one user may occur in `utenti`
    Nessuno      \* null

ASSUME NessunoAssumption == Nessuno \notin Utenti /\ Nessuno \notin IdTodo

ASSUME MaxVolteAssumption == MaxVolte \in Nat /\ MaxVolte >= 1

VARIABLES
    todo,        \* [IdTodo -> Task]: the collection
    op,          \* [Operazioni -> Operazione]
    delega,      \* [Utenti -> Schermata]: the DelegaTask screen of each user
    creati,      \* history: ids ever given to a task
    interrotti   \* history: tasks left without users by an interrupted removal

vars == <<todo, op, delega, creati, interrotti>>

Lista == [Utenti -> 0..MaxVolte]

Vuota == [u \in Utenti |-> 0]

Task == [esiste     : BOOLEAN,
         utenti     : Lista,
         completato : BOOLEAN]

Inesistente == [esiste |-> FALSE, utenti |-> Vuota, completato |-> FALSE]

Fasi == {"ferma", "riga", "dialogo",
         "add",                                \* addTodo
         "set",                                \* updateTodo
         "completa", "cancella",               \* completeTodo, deleteTodo
         "leggiAdd", "scriviAdd",              \* addUserToTodo
         "leggiTogli", "scriviTogli", "cancellaVuoto",  \* removeUserFromTodo
         "verifica"}                           \* _checkUserAssignments

DellaDelega == {"leggiAdd", "scriviAdd", "leggiTogli", "scriviTogli",
                "cancellaVuoto", "verifica"}

Operazione == [fase     : Fasi,
               attore   : Utenti \cup {Nessuno},  \* whose device
               task     : IdTodo \cup {Nessuno},
               utente   : Utenti \cup {Nessuno},  \* to be added or removed
               letto    : Task,                   \* the task as read
               modifica : BOOLEAN,                \* row: buttons are shown;
                                                  \* DelegaTask: still mounted
               restanti : SUBSET Utenti,          \* verifica: still to ask
               assegnati : SUBSET Utenti]         \* verifica: found assigned

Ferma == [fase |-> "ferma", attore |-> Nessuno, task |-> Nessuno,
          utente |-> Nessuno, letto |-> Inesistente, modifica |-> FALSE,
          restanti |-> {}, assegnati |-> {}]

\* _userAssigned of an open screen; the users missing from the map are `?? false`.
Schermata == [task : IdTodo \cup {Nessuno}, assegnati : SUBSET Utenti]

Chiusa == [task |-> Nessuno, assegnati |-> {}]

Init == /\ todo = [t \in IdTodo |-> Inesistente]
        /\ op = [o \in Operazioni |-> Ferma]
        /\ delega = [u \in Utenti |-> Chiusa]
        /\ creati = {}
        /\ interrotti = {}

-----------------------------------------------------------------------------
(* Lists of users, and what is stored.                                     *)

Contiene(l, u) == l[u] > 0

Aggiunto(l, u) == [l EXCEPT ![u] = @ + 1]

Tolto(l, u) == [l EXCEPT ![u] = @ - 1]

\* The task that addTodo stores for its author.
NuovoTaskSenzaStato(u) == [esiste |-> TRUE, utenti |-> Aggiunto(Vuota, u),
                           completato |-> Nessuno]
NuovoTask(u) == [esiste |-> TRUE, utenti |-> Aggiunto(Vuota, u),
                 completato |-> FALSE]

\* `update` of the field `utenti` alone.
ConTuttoIlLetto(t, letto, l) == [letto EXCEPT !.utenti = l]
ConUtenti(t, letto, l) == [todo[t] EXCEPT !.utenti = l]

\* removeUserFromTodo goes on to delete the task when it has emptied the list.
MaiDaCancellare(l) == FALSE
CancellaSeRestaUno(l) == \E u \in Utenti : \A v \in Utenti \ {u} : l[v] = 0
DaCancellare(l) == l = Vuota

Prosegui(o, dopo) == op' = [op EXCEPT ![o] = dopo]

Fase(o, f) == [op[o] EXCEPT !.fase = f]

-----------------------------------------------------------------------------
(* The task list and its buttons.                                          *)

AddTodo(o, u) ==
    /\ op[o].fase = "ferma"
    /\ Prosegui(o, [Ferma EXCEPT !.fase = "add", !.attore = u])
    /\ UNCHANGED <<todo, delega, creati, interrotti>>

RepositoryAddTodo(o) ==
    /\ op[o].fase = "add"
    /\ \E t \in IdTodo \ creati :
         /\ todo' = [todo EXCEPT ![t] = NuovoTask(op[o].attore)]
         /\ creati' = creati \cup {t}
    /\ Prosegui(o, Ferma)
    /\ UNCHANGED <<delega, interrotti>>

\* getAttivitaByProgettoId shows task t on u's screen; its buttons are enabled
\* if u is in the list as read (_fetchUsers).
MostraRiga(o, u, t) ==
    /\ op[o].fase = "ferma"
    /\ todo[t].esiste
    /\ Prosegui(o, [Ferma EXCEPT !.fase = "riga", !.attore = u, !.task = t,
                                 !.letto = todo[t],
                                 !.modifica = Contiene(todo[t].utenti, u)])
    /\ UNCHANGED <<todo, delega, creati, interrotti>>

\* A second load that completes while the list is on screen: rows have no key,
\* so the row keeps its state, `modifica` included, and is given whatever task
\* now comes in its place.
SostituisciRiga(o, t) ==
    /\ op[o].fase = "riga"
    /\ todo[t].esiste
    /\ Prosegui(o, [op[o] EXCEPT !.task = t, !.letto = todo[t]])
    /\ UNCHANGED <<todo, delega, creati, interrotti>>

\* The buttons of a row: each starts one activity and the list is reloaded.
PremiRiga(o) ==
    /\ op[o].fase = "riga"
    /\ op[o].modifica
    /\ \/ Prosegui(o, [Fase(o, "dialogo") EXCEPT !.modifica = FALSE])
       \/ Prosegui(o, [Fase(o, "completa") EXCEPT !.modifica = FALSE,
              !.letto = [Inesistente EXCEPT !.completato = op[o].letto.completato]])
       \/ Prosegui(o, [Ferma EXCEPT !.fase = "cancella", !.attore = op[o].attore,
                                    !.task = op[o].task])
    /\ UNCHANGED <<todo, delega, creati, interrotti>>

\* EditTodoDialog: save.  The task is built from the row that the dialog was
\* opened on: users and completion are those of the row.
SalvaDialogo(o) ==
    /\ op[o].fase = "dialogo"
    /\ Prosegui(o, Fase(o, "set"))
    /\ UNCHANGED <<todo, delega, creati, interrotti>>

\* The row scrolls away or is reloaded, or the dialog is dismissed, or its save
\* is refused (empty title, due date in the past).
Abbandona(o) ==
    /\ op[o].fase \in {"riga", "dialogo"}
    /\ Prosegui(o, Ferma)
    /\ UNCHANGED <<todo, delega, creati, interrotti>>

\* `set` replaces the document, or creates it if it is gone.
UpdateTodo(o) ==
    LET t == op[o].task
    IN  /\ op[o].fase = "set"
        /\ todo' = [todo EXCEPT ![t] = op[o].letto]
        /\ interrotti' = IF op[o].letto.utenti = Vuota
                         THEN interrotti \cup {t} ELSE interrotti \ {t}
        /\ Prosegui(o, Ferma)
        /\ UNCHANGED <<delega, creati>>

\* `update` throws if the document is gone.
CompleteTodo(o) ==
    LET t == op[o].task
    IN  /\ op[o].fase = "completa"
        /\ todo[t].esiste
        /\ todo' = [todo EXCEPT ![t].completato = ~op[o].letto.completato]
        /\ Prosegui(o, Ferma)
        /\ UNCHANGED <<delega, creati, interrotti>>

DeleteTodo(o) ==
    LET t == op[o].task
    IN  /\ op[o].fase = "cancella"
        /\ todo' = [todo EXCEPT ![t] = Inesistente]
        /\ interrotti' = interrotti \ {t}
        /\ Prosegui(o, Ferma)
        /\ UNCHANGED <<delega, creati>>

-----------------------------------------------------------------------------
(* DelegaTask: who works on a task.                                        *)

\* The operations, once u's screen is no longer there to be updated by them.
Smontata(u) ==
    [x \in Operazioni |->
        IF op[x].attore = u /\ op[x].fase \in DellaDelega
        THEN [op[x] EXCEPT !.modifica = FALSE] ELSE op[x]]

\* A new screen opens with an empty map and starts asking about each participant.
ApriDelega(o) ==
    LET u == op[o].attore
        t == op[o].task
    IN  /\ op[o].fase = "riga"
        /\ op[o].modifica
        /\ delega' = [delega EXCEPT ![u] = [task |-> t, assegnati |-> {}]]
        /\ op' = [Smontata(u) EXCEPT ![o] =
                    [Ferma EXCEPT !.fase = "verifica", !.attore = u, !.task = t,
                                  !.modifica = TRUE, !.restanti = Utenti]]
        /\ UNCHANGED <<todo, creati, interrotti>>

\* Mutant: the check waits for a document that exists.
UtenteAssegnatoSeEsiste(o) ==
    LET t == op[o].task
    IN  /\ op[o].fase = "verifica"
        /\ todo[t].esiste
        /\ \E u \in op[o].restanti :
             Prosegui(o, [op[o] EXCEPT !.restanti = @ \ {u}])
        /\ UNCHANGED <<todo, delega, creati, interrotti>>

\* utenteAssegnato, for the next participant; an exception reads as `false`.
UtenteAssegnato(o) ==
    LET t == op[o].task
    IN  /\ op[o].fase = "verifica"
        /\ \E u \in op[o].restanti, ok \in BOOLEAN :
             Prosegui(o, [op[o] EXCEPT
                 !.restanti = @ \ {u},
                 !.assegnati = IF ok /\ todo[t].esiste /\ Contiene(todo[t].utenti, u)
                               THEN @ \cup {u} ELSE @])
        /\ UNCHANGED <<todo, delega, creati, interrotti>>

\* setState of the screen that o was started from, if it is still mounted.
Segna(o, S) == delega' = IF op[o].modifica
                         THEN [delega EXCEPT ![op[o].attore].assegnati = S]
                         ELSE delega

\* setState with the map just built, whatever was toggled in the meantime.
FineVerifica(o) ==
    /\ op[o].fase = "verifica"
    /\ op[o].restanti = {}
    /\ Segna(o, op[o].assegnati)
    /\ Prosegui(o, Ferma)
    /\ UNCHANGED <<todo, creati, interrotti>>

\* The icon next to user v: remove if the map says assigned, add otherwise.
PremiUtente(o, u, v) ==
    /\ op[o].fase = "ferma"
    /\ delega[u].task # Nessuno
    /\ Prosegui(o, [Ferma EXCEPT
           !.fase = IF v \in delega[u].assegnati THEN "leggiTogli" ELSE "leggiAdd",
           !.attore = u, !.task = delega[u].task, !.utente = v,
           !.modifica = TRUE])
    /\ UNCHANGED <<todo, delega, creati, interrotti>>

ChiudiDelega(u) ==
    /\ delega[u].task # Nessuno
    /\ delega' = [delega EXCEPT ![u] = Chiusa]
    /\ op' = Smontata(u)
    /\ UNCHANGED <<todo, creati, interrotti>>

\* `doc.data()!` throws if the document is gone.
LeggiAdd(o) ==
    LET t == op[o].task
    IN  /\ op[o].fase = "leggiAdd"
        /\ todo[t].esiste
        /\ todo[t].utenti[op[o].utente] < MaxVolte
        /\ Prosegui(o, [Fase(o, "scriviAdd") EXCEPT !.letto = todo[t]])
        /\ UNCHANGED <<todo, delega, creati, interrotti>>

\* Mutant: the whole task is stored with `set`, which creates the document.
ScriviAddConSet(o) ==
    LET t == op[o].task
        u == op[o].attore
        l == Aggiunto(op[o].letto.utenti, op[o].utente)
    IN  /\ op[o].fase = "scriviAdd"
        /\ todo' = [todo EXCEPT ![t] = ConTuttoIlLetto(t, op[o].letto, l)]
        /\ interrotti' = interrotti \ {t}
        /\ Segna(o, delega[u].assegnati \cup {op[o].utente})
        /\ Prosegui(o, Ferma)
        /\ UNCHANGED creati

ScriviAdd(o) ==
    LET t == op[o].task
        u == op[o].attore
        l == Aggiunto(op[o].letto.utenti, op[o].utente)
    IN  /\ op[o].fase = "scriviAdd"
        /\ todo[t].esiste
        /\ todo' = [todo EXCEPT ![t] = ConUtenti(t, op[o].letto, l)]
        /\ interrotti' = interrotti \ {t}
        /\ Segna(o, delega[u].assegnati \cup {op[o].utente})
        /\ Prosegui(o, Ferma)
        /\ UNCHANGED creati

\* An exception if the document is gone or the user is not in the list.
LeggiTogli(o) ==
    LET t == op[o].task
    IN  /\ op[o].fase = "leggiTogli"
        /\ todo[t].esiste
        /\ Contiene(todo[t].utenti, op[o].utente)
        /\ Prosegui(o, [Fase(o, "scriviTogli") EXCEPT !.letto = todo[t]])
        /\ UNCHANGED <<todo, delega, creati, interrotti>>

ScriviTogli(o) ==
    LET t == op[o].task
        u == op[o].attore
        l == Tolto(op[o].letto.utenti, op[o].utente)
    IN  /\ op[o].fase = "scriviTogli"
        /\ todo[t].esiste
        /\ todo' = [todo EXCEPT ![t] = ConUtenti(t, op[o].letto, l)]
        /\ IF DaCancellare(l)
           THEN /\ Prosegui(o, [Fase(o, "cancellaVuoto") EXCEPT !.letto = Inesistente])
                /\ UNCHANGED <<delega, interrotti>>
           ELSE /\ Prosegui(o, Ferma)
                /\ Segna(o, delega[u].assegnati \ {op[o].utente})
                /\ interrotti' = interrotti \ {t}
        /\ UNCHANGED creati

\* The deletion that ends the removal of the last user.
CancellaVuoto(o) ==
    LET t == op[o].task
        u == op[o].attore
    IN  /\ op[o].fase = "cancellaVuoto"
        /\ todo' = [todo EXCEPT ![t] = Inesistente]
        /\ interrotti' = interrotti \ {t}
        /\ Segna(o, delega[u].assegnati \ {op[o].utente})
        /\ Prosegui(o, Ferma)
        /\ UNCHANGED creati

-----------------------------------------------------------------------------
(* Failures.                                                               *)

\* Tasks that the disappearance of the operations O leaves without users.
Orfani(O) == {t \in IdTodo : /\ todo[t].esiste
                             /\ todo[t].utenti = Vuota
                             /\ \E o \in O : op[o].fase = "cancellaVuoto"
                                             /\ op[o].task = t}

InAttesa == Fasi \ {"ferma", "riga", "dialogo", "verifica"}

\* The awaited call throws, with no effect: because it fails, or because the
\* document is gone or does not list the user.
Fallisce(o) ==
    /\ op[o].fase \in InAttesa
    /\ Prosegui(o, Ferma)
    /\ interrotti' = interrotti \cup Orfani({o})
    /\ UNCHANGED <<todo, delega, creati>>

\* The application of user u is closed or killed.
ChiudiApp(u) ==
    LET mie == {o \in Operazioni : op[o].attore = u}
    IN  /\ op' = [o \in Operazioni |-> IF o \in mie THEN Ferma ELSE op[o]]
        /\ delega' = [delega EXCEPT ![u] = Chiusa]
        /\ interrotti' = interrotti \cup Orfani(mie)
        /\ UNCHANGED <<todo, creati>>

-----------------------------------------------------------------------------

Comando(o) ==
    \/ \E u \in Utenti : AddTodo(o, u)
    \/ \E u \in Utenti, t \in IdTodo : MostraRiga(o, u, t)
    \/ \E t \in IdTodo : SostituisciRiga(o, t)
    \/ PremiRiga(o)
    \/ SalvaDialogo(o)
    \/ Abbandona(o)
    \/ ApriDelega(o)
    \/ \E u, v \in Utenti : PremiUtente(o, u, v)

Passo(o) ==
    \/ RepositoryAddTodo(o)
    \/ UpdateTodo(o)
    \/ CompleteTodo(o)
    \/ DeleteTodo(o)
    \/ UtenteAssegnato(o)
    \/ FineVerifica(o)
    \/ LeggiAdd(o)
    \/ ScriviAdd(o)
    \/ LeggiTogli(o)
    \/ ScriviTogli(o)
    \/ CancellaVuoto(o)
    \/ Fallisce(o)

Next == \/ \E o \in Operazioni : Comando(o) \/ Passo(o)
        \/ \E u \in Utenti : ChiudiDelega(u) \/ ChiudiApp(u)

Spec == Init /\ [][Next]_vars

\* Awaited calls return or throw; what the user does is not fair.
FairSpec == Spec /\ \A o \in Operazioni : WF_vars(Passo(o))

-----------------------------------------------------------------------------
(***************************************************************************)
(* Properties.                                                             *)
(***************************************************************************)

\* The variables have their types: in particular no list has a negative count
\* and no stored task has a null field.
TypeOK ==
    /\ todo \in [IdTodo -> Task]
    /\ op \in [Operazioni -> Operazione]
    /\ delega \in [Utenti -> Schermata]
    /\ creati \in SUBSET IdTodo
    /\ interrotti \in SUBSET IdTodo

\* A task without users is about to be deleted by the removal that emptied its
\* list (removeUserFromTodo), unless that removal was interrupted or an edit of
\* such a task wrote the empty list back.
SenzaUtentiSpiegato ==
    \A t \in IdTodo : (todo[t].esiste /\ todo[t].utenti = Vuota) =>
        \/ t \in interrotti
        \/ \E o \in Operazioni : op[o].fase = "cancellaVuoto" /\ op[o].task = t

\* Delegation never changes whether a task is completed, whatever was completed
\* between its reading and its writing: only completeTodo and updateTodo do.
CompletatoNonDelegato ==
    [][\A t \in IdTodo :
         (/\ todo[t].esiste /\ todo'[t].esiste
          /\ todo[t].completato # todo'[t].completato)
         => \E o \in Operazioni : /\ op[o].task = t
                                  /\ op[o].fase \in {"completa", "set"}]_vars

\* t was created and deleted, and no row, edit dialog or edit being saved holds
\* a copy of it.
Sepolto(t) ==
    /\ t \in creati
    /\ ~todo[t].esiste
    /\ \A o \in Operazioni :
           ~(op[o].fase \in {"riga", "dialogo", "set"} /\ op[o].task = t)

\* A deletion (deleteTodo) is final once nobody has the task on screen, in a
\* dialog or in an edit being saved: delegations and completions still under
\* way, which hold older readings, do not bring it back.
EliminazioneDefinitiva ==
    [][\A t \in IdTodo : Sepolto(t) => Sepolto(t)']_vars

\* Every awaited operation returns control, also when the task it is about has
\* disappeared.
OgniAttesaFinisce ==
    \A o \in Operazioni :
        op[o].fase \in InAttesa \cup {"verifica"} ~> op[o].fase = "ferma"

\* removeUserFromTodo: a task left without users is deleted, or someone is
\* assigned to it, or the removal was interrupted.
SenzaUtentiCancellato ==
    \A t \in IdTodo :
        (todo[t].esiste /\ todo[t].utenti = Vuota /\ t \notin interrotti)
        ~> (\/ ~todo[t].esiste
            \/ todo[t].utenti # Vuota
            \/ t \in interrotti)

=============================================================================
