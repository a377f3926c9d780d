--------------------------- MODULE AttivitaProofs ---------------------------
(***************************************************************************)
(* Theorems about Attivita, for any number of users, tasks, rows, dialogs  *)
(* and calls in flight.                                                    *)
(***************************************************************************)
EXTENDS Attivita, TLAPS

\* The phases of a delegation: they are about a user.
ConUtente == {"leggiAdd", "scriviAdd", "leggiTogli", "scriviTogli",
              "cancellaVuoto"}

\* What an activity that has started carries, S being the ids given so far: its
\* user, a task that was created at some time and, in a delegation, somebody whom
\* the list as read has room for or contains.
BenFormata(x, S) ==
    /\ x \in Operazione
    /\ x.fase # "ferma" => x.attore \in Utenti
    /\ x.fase \notin {"ferma", "add"} => x.task \in S
    /\ x.fase \in ConUtente => x.utente \in Utenti
    /\ x.fase = "scriviAdd" => x.letto.utenti[x.utente] < MaxVolte
    /\ x.fase = "scriviTogli" => x.letto.utenti[x.utente] > 0

TipiOp ==
    /\ op \in [Operazioni -> Operazione]
    /\ \A o \in Operazioni : BenFormata(op[o], creati)

\* Only a task that addTodo created exists or is on somebody's screen.
TipiTodo ==
    /\ todo \in [IdTodo -> Task]
    /\ creati \in SUBSET IdTodo
    /\ interrotti \in SUBSET IdTodo
    /\ \A t \in IdTodo : todo[t].esiste => t \in creati

TipiDelega ==
    /\ delega \in [Utenti -> Schermata]
    /\ \A u \in Utenti : delega[u].task # Nessuno => delega[u].task \in creati

\* TypeOK made inductive.
Tipi == TipiOp /\ TipiTodo /\ TipiDelega

-----------------------------------------------------------------------------
(* Lists of users.                                                         *)

\* addUserToTodo's list is a list of users, and not the empty one.
LEMMA AggiuntoLista ==
    ASSUME NEW l \in Lista, NEW u \in Utenti, l[u] < MaxVolte
    PROVE  Aggiunto(l, u) \in Lista /\ Aggiunto(l, u) # Vuota
<1>1. l[u] \in Nat /\ l[u] + 1 \in 0..MaxVolte
  BY MaxVolteAssumption DEF Lista
<1>2. Aggiunto(l, u)[u] = l[u] + 1
  BY DEF Aggiunto, Lista
<1>3. Aggiunto(l, u) \in Lista
  BY <1>1 DEF Aggiunto, Lista
<1>4. Vuota[u] = 0
  BY DEF Vuota
<1> QED
  BY <1>1, <1>2, <1>3, <1>4

\* removeUserFromTodo's list is a list of users.
LEMMA ToltoLista ==
    ASSUME NEW l \in Lista, NEW u \in Utenti, l[u] > 0
    PROVE  Tolto(l, u) \in Lista
<1>1. l[u] \in Nat /\ l[u] - 1 \in 0..MaxVolte
  BY MaxVolteAssumption DEF Lista
<1> QED
  BY <1>1 DEF Tolto, Lista

\* The list that nobody is in.
LEMMA VuotaLista == Vuota \in Lista /\ Inesistente \in Task
BY MaxVolteAssumption DEF Vuota, Lista, Inesistente, Task

\* addTodo's task has its author, once.
LEMMA NuovoTaskTipi ==
    ASSUME NEW u \in Utenti
    PROVE  NuovoTask(u) \in Task /\ NuovoTask(u).utenti # Vuota
<1>1. Vuota \in Lista /\ Vuota[u] < MaxVolte
  BY VuotaLista, MaxVolteAssumption DEF Vuota
<1>2. Aggiunto(Vuota, u) \in Lista /\ Aggiunto(Vuota, u) # Vuota
  BY <1>1, AggiuntoLista
<1> QED
  BY <1>2 DEF NuovoTask, Task

-----------------------------------------------------------------------------
(* Operations.                                                             *)

\* The idle operation.
LEMMA FermaBenFormata == ASSUME NEW S PROVE BenFormata(Ferma, S)
BY VuotaLista DEF BenFormata, Ferma, Operazione, Fasi, ConUtente

\* Operations stay well formed when one of them moves on and ids are only added.
LEMMA ProseguiTipi ==
    ASSUME TipiOp, NEW o \in Operazioni, NEW dopo, BenFormata(dopo, creati'),
           op' = [op EXCEPT ![o] = dopo], creati \subseteq creati'
    PROVE  TipiOp'
<1>1. dopo \in Operazione
  BY DEF BenFormata
<1>2. op' \in [Operazioni -> Operazione]
  BY <1>1 DEF TipiOp
<1>3. ASSUME NEW x \in Operazioni PROVE BenFormata(op'[x], creati')
  <2>1. CASE x = o
    BY <2>1 DEF TipiOp
  <2>2. CASE x # o
    <3>1. op'[x] = op[x] /\ BenFormata(op[x], creati)
      BY <2>2 DEF TipiOp
    <3> QED
      BY <3>1 DEF BenFormata
  <2> QED
    BY <2>1, <2>2
<1> QED
  BY <1>2, <1>3 DEF TipiOp

\* So they do when one of them ends, ...
LEMMA FermaTipi ==
    ASSUME TipiOp, NEW o \in Operazioni, Prosegui(o, Ferma),
           creati \subseteq creati'
    PROVE  TipiOp'
BY FermaBenFormata, ProseguiTipi DEF Prosegui

\* ... and when a screen is unmounted.
LEMMA SmontataTipi ==
    ASSUME TipiOp, NEW u \in Utenti, NEW o \in Operazioni
    PROVE  /\ BenFormata(Smontata(u)[o], creati)
           /\ Smontata(u)[o].fase = op[o].fase
           /\ Smontata(u)[o].task = op[o].task
<1>1. BenFormata(op[o], creati) /\ op[o] \in Operazione
  BY DEF TipiOp
<1>2. Smontata(u)[o] = IF op[o].attore = u /\ op[o].fase \in DellaDelega
                       THEN [op[o] EXCEPT !.modifica = FALSE] ELSE op[o]
  BY DEF Smontata
<1> QED
  BY <1>1, <1>2 DEF BenFormata, Operazione

\* An operation whose call returns has everything it needs.
LEMMA InCorsoTipi ==
    ASSUME Tipi, NEW o \in Operazioni, op[o].fase # "ferma"
    PROVE  /\ op[o] \in Operazione
           /\ BenFormata(op[o], creati)
           /\ op[o].attore \in Utenti
           /\ op[o].fase # "add" => op[o].task \in creati /\ op[o].task \in IdTodo
           /\ op[o].fase \in ConUtente => op[o].utente \in Utenti
           /\ op[o].letto \in Task /\ op[o].letto.utenti \in Lista
BY DEF Tipi, TipiOp, TipiTodo, BenFormata, Operazione, Task

-----------------------------------------------------------------------------
(* Types.                                                                  *)

\* Nothing exists and nothing is going on.
LEMMA TipiInit == Init => Tipi
<1> SUFFICES ASSUME Init PROVE Tipi
  OBVIOUS
<1>1. TipiOp
  <2>1. BenFormata(Ferma, creati) /\ Ferma \in Operazione
    BY FermaBenFormata DEF BenFormata
  <2> QED
    BY <2>1 DEF Init, TipiOp
<1>2. TipiTodo
  BY VuotaLista DEF Init, TipiTodo, Inesistente
<1>3. TipiDelega
  BY DEF Init, TipiDelega, Chiusa, Schermata
<1> QED
  BY <1>1, <1>2, <1>3 DEF Tipi

\* What the collection and the screens keep while a call only reads.
LEMMA SoloOp ==
    ASSUME Tipi, TipiOp', UNCHANGED <<todo, creati, interrotti>>,
           UNCHANGED delega
    PROVE  Tipi'
BY DEF Tipi, TipiTodo, TipiDelega

\* setState of DelegaTask.
LEMMA SegnaTipi ==
    ASSUME Tipi, NEW o \in Operazioni, NEW S \in SUBSET Utenti, Segna(o, S),
           UNCHANGED creati
    PROVE  TipiDelega'
<1>1. CASE op[o].modifica
  <2>1. delega' = [delega EXCEPT ![op[o].attore].assegnati = S]
    BY <1>1 DEF Segna
  <2>2. delega' \in [Utenti -> Schermata]
    <3>1. ASSUME NEW u \in Utenti
          PROVE  [delega[u] EXCEPT !.assegnati = S] \in Schermata
      BY DEF Tipi, TipiDelega, Schermata
    <3>2. delega \in [Utenti -> Schermata]
      BY DEF Tipi, TipiDelega
    <3> QED
      BY <2>1, <3>1, <3>2
  <2>3. \A u \in Utenti : delega'[u].task = delega[u].task
    BY <2>1 DEF Tipi, TipiDelega, Schermata
  <2> QED
    BY <2>2, <2>3 DEF Tipi, TipiDelega
<1>2. CASE ~op[o].modifica
  BY <1>2 DEF Segna, Tipi, TipiDelega
<1> QED
  BY <1>1, <1>2

\* The screens show somebody who is a participant.
LEMMA AssegnatiTipi ==
    ASSUME Tipi, NEW u \in Utenti
    PROVE  delega[u].assegnati \in SUBSET Utenti
BY DEF Tipi, TipiDelega, Schermata

\* Starting and pressing.
LEMMA ComandoTipi ==
    ASSUME Tipi, NEW o \in Operazioni, Comando(o)
    PROVE  Tipi'
<1> DEFINE Bene(dopo) == BenFormata(dopo, creati)
<1>0. ASSUME NEW dopo, Bene(dopo), Prosegui(o, dopo),
             UNCHANGED <<todo, delega, creati, interrotti>>
      PROVE  Tipi'
  <2>1. BenFormata(dopo, creati')
    BY <1>0
  <2>2. TipiOp'
    BY <1>0, <2>1, ProseguiTipi DEF Tipi, Prosegui
  <2> QED
    BY <1>0, <2>2, SoloOp
<1>1. ASSUME NEW u \in Utenti, AddTodo(o, u) PROVE Tipi'
  <2> DEFINE d == [Ferma EXCEPT !.fase = "add", !.attore = u]
  <2>1. Bene(d)
    BY VuotaLista DEF BenFormata, Ferma, Operazione, Fasi, ConUtente
  <2> HIDE DEF d
  <2>2. Prosegui(o, d)
    BY <1>1 DEF AddTodo, d
  <2> QED
    BY <1>0, <1>1, <2>1, <2>2 DEF AddTodo
<1>2. ASSUME NEW u \in Utenti, NEW t \in IdTodo, MostraRiga(o, u, t)
      PROVE  Tipi'
  <2> DEFINE d == [Ferma EXCEPT !.fase = "riga", !.attore = u, !.task = t,
                     !.letto = todo[t], !.modifica = Contiene(todo[t].utenti, u)]
  <2>1. todo[t] \in Task /\ t \in creati
    BY <1>2 DEF MostraRiga, Tipi, TipiTodo
  <2>2. Contiene(todo[t].utenti, u) \in BOOLEAN
    BY DEF Contiene
  <2>3. Bene(d)
    BY <2>1, <2>2 DEF BenFormata, Ferma, Operazione, Fasi, ConUtente
  <2> HIDE DEF d
  <2>4. Prosegui(o, d)
    BY <1>2 DEF MostraRiga, d
  <2> QED
    BY <1>0, <1>2, <2>3, <2>4 DEF MostraRiga
<1>3. ASSUME NEW t \in IdTodo, SostituisciRiga(o, t) PROVE Tipi'
  <2> DEFINE d == [op[o] EXCEPT !.task = t, !.letto = todo[t]]
  <2>1. todo[t] \in Task /\ t \in creati /\ op[o].fase = "riga"
    BY <1>3 DEF SostituisciRiga, Tipi, TipiTodo
  <2>2. Bene(d)
    BY <2>1 DEF BenFormata, Operazione, ConUtente, Tipi, TipiOp
  <2> HIDE DEF d
  <2>3. Prosegui(o, d)
    BY <1>3 DEF SostituisciRiga, d
  <2> QED
    BY <1>0, <1>3, <2>2, <2>3 DEF SostituisciRiga
<1>4. ASSUME PremiRiga(o) PROVE Tipi'
  <2>0. /\ op[o].fase = "riga" /\ op[o] \in Operazione
        /\ BenFormata(op[o], creati)
        /\ op[o].attore \in Utenti /\ op[o].task \in creati
        /\ op[o].task \in IdTodo /\ op[o].letto \in Task
    BY <1>4, InCorsoTipi DEF PremiRiga
  <2>1. Bene([Fase(o, "dialogo") EXCEPT !.modifica = FALSE])
    BY <2>0 DEF BenFormata, Operazione, Fase, Fasi, ConUtente
  <2>2. Bene([Fase(o, "completa") EXCEPT !.modifica = FALSE,
          !.letto = [Inesistente EXCEPT !.completato = op[o].letto.completato]])
    <3>1. [Inesistente EXCEPT !.completato = op[o].letto.completato] \in Task
      BY <2>0, VuotaLista DEF Task, Inesistente
    <3> QED
      BY <2>0, <3>1 DEF BenFormata, Operazione, Fase, Fasi, ConUtente
  <2>3. Bene([Ferma EXCEPT !.fase = "cancella", !.attore = op[o].attore,
                           !.task = op[o].task])
    BY <2>0, VuotaLista DEF BenFormata, Ferma, Operazione, Fasi, ConUtente
  <2> HIDE DEF Bene
  <2>4. UNCHANGED <<todo, delega, creati, interrotti>>
    BY <1>4 DEF PremiRiga
  <2>5. \/ Prosegui(o, [Fase(o, "dialogo") EXCEPT !.modifica = FALSE])
        \/ Prosegui(o, [Fase(o, "completa") EXCEPT !.modifica = FALSE,
             !.letto = [Inesistente EXCEPT !.completato = op[o].letto.completato]])
        \/ Prosegui(o, [Ferma EXCEPT !.fase = "cancella",
                          !.attore = op[o].attore, !.task = op[o].task])
    BY <1>4 DEF PremiRiga
  <2> QED
    BY <1>0, <2>1, <2>2, <2>3, <2>4, <2>5
<1>5. ASSUME SalvaDialogo(o) PROVE Tipi'
  <2>1. Bene(Fase(o, "set"))
    BY <1>5, InCorsoTipi
    DEF SalvaDialogo, BenFormata, Operazione, Fase, Fasi, ConUtente
  <2> QED
    BY <1>0, <1>5, <2>1 DEF SalvaDialogo
<1>6. ASSUME Abbandona(o) PROVE Tipi'
  BY <1>0, <1>6, FermaBenFormata DEF Abbandona
<1>7. ASSUME ApriDelega(o) PROVE Tipi'
  <2> DEFINE u == op[o].attore
             t == op[o].task
             d == [Ferma EXCEPT !.fase = "verifica", !.attore = u, !.task = t,
                                !.modifica = TRUE, !.restanti = Utenti]
             s == [task |-> t, assegnati |-> {}]
  <2>1. u \in Utenti /\ t \in creati /\ t \in IdTodo
    BY <1>7, InCorsoTipi DEF ApriDelega
  <2>2. Bene(d)
    BY <2>1, VuotaLista DEF BenFormata, Ferma, Operazione, Fasi, ConUtente
  <2>3. s \in Schermata /\ s.task \in creati
    BY <2>1 DEF Schermata
  <2> HIDE DEF d, s
  <2>4. /\ op' = [Smontata(u) EXCEPT ![o] = d]
        /\ delega' = [delega EXCEPT ![u] = s]
        /\ UNCHANGED <<todo, creati, interrotti>>
    BY <1>7 DEF ApriDelega, d, s
  <2> HIDE DEF u, t
  <2>5. ASSUME NEW x \in Operazioni PROVE BenFormata(op'[x], creati')
    <3>1. op'[x] = IF x = o THEN d ELSE Smontata(u)[x]
      BY <2>4 DEF Smontata
    <3>2. BenFormata(Smontata(u)[x], creati)
      BY <2>1, SmontataTipi DEF Tipi
    <3>3. BenFormata(op'[x], creati)
      BY <2>2, <3>1, <3>2
    <3> QED
      BY <2>4, <3>3
  <2>6. op' \in [Operazioni -> Operazione]
    <3>1. op' = [x \in Operazioni |-> op'[x]]
      BY <2>4 DEF Smontata
    <3>2. \A x \in Operazioni : op'[x] \in Operazione
      BY <2>5 DEF BenFormata
    <3> QED
      BY <3>1, <3>2
  <2>7. TipiDelega'
    BY <2>1, <2>3, <2>4 DEF Tipi, TipiDelega
  <2> QED
    BY <2>4, <2>5, <2>6, <2>7 DEF Tipi, TipiOp, TipiTodo
<1>8. ASSUME NEW u \in Utenti, NEW v \in Utenti, PremiUtente(o, u, v)
      PROVE  Tipi'
  <2> DEFINE f == IF v \in delega[u].assegnati THEN "leggiTogli" ELSE "leggiAdd"
             d == [Ferma EXCEPT !.fase = f, !.attore = u,
                     !.task = delega[u].task, !.utente = v, !.modifica = TRUE]
  <2>1. delega[u].task \in creati /\ delega[u].task \in IdTodo
    BY <1>8 DEF PremiUtente, Tipi, TipiDelega, TipiTodo
  <2>2. f \in {"leggiTogli", "leggiAdd"}
    OBVIOUS
  <2>3. Prosegui(o, d)
    BY <1>8 DEF PremiUtente
  <2> HIDE DEF f
  <2>4. Bene(d)
    BY <2>1, <2>2, VuotaLista DEF BenFormata, Ferma, Operazione, Fasi, ConUtente
  <2> HIDE DEF d
  <2> QED
    BY <1>0, <1>8, <2>3, <2>4 DEF PremiUtente
<1> HIDE DEF Bene
<1> QED
  BY <1>1, <1>2, <1>3, <1>4, <1>5, <1>6, <1>7, <1>8 DEF Comando

\* A write to the collection, by a call about a task that was created.
LEMMA ScriviTipi ==
    ASSUME Tipi, NEW t \in IdTodo, t \in creati, NEW k \in Task,
           todo' = [todo EXCEPT ![t] = k], UNCHANGED creati,
           interrotti' \in SUBSET IdTodo
    PROVE  TipiTodo'
BY DEF Tipi, TipiTodo

\* addTodo stores a task under a new id, for the user who asked.
LEMMA RepositoryAddTodoTipi ==
    ASSUME Tipi, NEW o \in Operazioni, RepositoryAddTodo(o)
    PROVE  Tipi'
<1>1. op[o].attore \in Utenti
  BY InCorsoTipi DEF RepositoryAddTodo
<1>2. PICK t \in IdTodo \ creati :
        /\ todo' = [todo EXCEPT ![t] = NuovoTask(op[o].attore)]
        /\ creati' = creati \cup {t}
  BY DEF RepositoryAddTodo
<1>3. NuovoTask(op[o].attore) \in Task
  BY <1>1, NuovoTaskTipi
<1>4. TipiOp'
  BY <1>2, FermaTipi DEF Tipi, RepositoryAddTodo
<1>5. TipiTodo'
  BY <1>2, <1>3 DEF Tipi, TipiTodo, RepositoryAddTodo
<1>6. TipiDelega'
  BY <1>2 DEF Tipi, TipiDelega, RepositoryAddTodo
<1> QED
  BY <1>4, <1>5, <1>6 DEF Tipi

\* updateTodo, completeTodo and deleteTodo write a whole, typed task.
LEMMA TodoTipi ==
    ASSUME Tipi, NEW o \in Operazioni,
           UpdateTodo(o) \/ CompleteTodo(o) \/ DeleteTodo(o)
    PROVE  Tipi'
<1> DEFINE t == op[o].task
<1>0. t \in creati /\ t \in IdTodo /\ op[o].letto \in Task /\ todo[t] \in Task
  <2>1. op[o].fase \notin {"ferma", "add"}
    BY DEF UpdateTodo, CompleteTodo, DeleteTodo
  <2> QED
    BY <2>1, InCorsoTipi DEF Tipi, TipiTodo
<1>1. interrotti \in SUBSET IdTodo
  BY DEF Tipi, TipiTodo
<1>2. TipiOp' /\ UNCHANGED <<delega, creati>>
  <2>1. Prosegui(o, Ferma) /\ UNCHANGED <<delega, creati>>
    BY DEF UpdateTodo, CompleteTodo, DeleteTodo
  <2> QED
    BY <2>1, FermaTipi DEF Tipi
<1>3. TipiTodo'
  <2>1. CASE UpdateTodo(o)
    <3>1. /\ todo' = [todo EXCEPT ![t] = op[o].letto]
          /\ interrotti' \in SUBSET IdTodo
      BY <1>0, <1>1, <2>1 DEF UpdateTodo
    <3> QED
      BY <1>0, <1>2, <3>1, ScriviTipi
  <2>2. CASE CompleteTodo(o)
    <3> DEFINE k == [todo[t] EXCEPT !.completato = ~op[o].letto.completato]
    <3>1. k \in Task
      BY <1>0 DEF Task
    <3>2. /\ todo' = [todo EXCEPT ![t] = k]
          /\ interrotti' \in SUBSET IdTodo
      BY <1>1, <2>2 DEF CompleteTodo
    <3> HIDE DEF k
    <3> QED
      BY <1>0, <1>2, <3>1, <3>2, ScriviTipi
  <2>3. CASE DeleteTodo(o)
    <3>1. /\ todo' = [todo EXCEPT ![t] = Inesistente]
          /\ interrotti' \in SUBSET IdTodo
      BY <1>1, <2>3 DEF DeleteTodo
    <3> QED
      BY <1>0, <1>2, <3>1, ScriviTipi, VuotaLista
  <2> QED
    BY <2>1, <2>2, <2>3
<1>4. TipiDelega'
  BY <1>2 DEF Tipi, TipiDelega
<1> QED
  BY <1>2, <1>3, <1>4 DEF Tipi

\* _checkUserAssignments asks about participants and notes participants.
LEMMA VerificaTipi ==
    ASSUME Tipi, NEW o \in Operazioni, UtenteAssegnato(o) \/ FineVerifica(o)
    PROVE  Tipi'
<1>0. /\ op[o].fase = "verifica" /\ BenFormata(op[o], creati)
      /\ op[o] \in Operazione
  BY InCorsoTipi DEF UtenteAssegnato, FineVerifica
<1>1. CASE UtenteAssegnato(o)
  <2>1. PICK u \in op[o].restanti, ok \in BOOLEAN :
          Prosegui(o, [op[o] EXCEPT
            !.restanti = @ \ {u},
            !.assegnati = IF ok /\ todo[op[o].task].esiste
                               /\ Contiene(todo[op[o].task].utenti, u)
                          THEN @ \cup {u} ELSE @])
    BY <1>1 DEF UtenteAssegnato
  <2> DEFINE R == op[o].restanti \ {u}
             A == IF ok /\ todo[op[o].task].esiste
                        /\ Contiene(todo[op[o].task].utenti, u)
                  THEN op[o].assegnati \cup {u} ELSE op[o].assegnati
             d == [op[o] EXCEPT !.restanti = R, !.assegnati = A]
  <2>2. R \in SUBSET Utenti /\ A \in SUBSET Utenti
    BY <1>0 DEF Operazione
  <2>3. Prosegui(o, d)
    BY <2>1 DEF Prosegui
  <2> HIDE DEF R, A
  <2>4. BenFormata(d, creati)
    BY <1>0, <2>2 DEF BenFormata, Operazione, ConUtente
  <2> HIDE DEF d
  <2>5. UNCHANGED <<todo, delega, creati, interrotti>>
    BY <1>1 DEF UtenteAssegnato
  <2>6. TipiOp'
    BY <2>3, <2>4, <2>5, ProseguiTipi DEF Tipi, Prosegui
  <2> QED
    BY <2>5, <2>6, SoloOp
<1>2. CASE FineVerifica(o)
  <2>1. op[o].assegnati \in SUBSET Utenti
    BY <1>0 DEF Operazione
  <2>2. TipiOp'
    BY <1>2, FermaTipi DEF Tipi, FineVerifica
  <2>3. TipiDelega'
    BY <1>2, <2>1, SegnaTipi DEF FineVerifica
  <2> QED
    BY <1>2, <2>2, <2>3 DEF Tipi, TipiTodo, FineVerifica
<1> QED
  BY <1>1, <1>2

\* The readings of addUserToTodo and removeUserFromTodo: the user fits into the
\* list as read, or occurs in it.
LEMMA LeggiTipi ==
    ASSUME Tipi, NEW o \in Operazioni, LeggiAdd(o) \/ LeggiTogli(o)
    PROVE  Tipi'
<1> DEFINE t == op[o].task
<1>0. /\ BenFormata(op[o], creati) /\ op[o] \in Operazione
      /\ op[o].attore \in Utenti /\ op[o].utente \in Utenti
      /\ t \in creati /\ t \in IdTodo /\ todo[t] \in Task
  <2>1. op[o].fase \in ConUtente /\ op[o].fase \notin {"ferma", "add"}
    BY DEF LeggiAdd, LeggiTogli, ConUtente
  <2> QED
    BY <2>1, InCorsoTipi DEF Tipi, TipiTodo
<1>1. UNCHANGED <<todo, delega, creati, interrotti>>
  BY DEF LeggiAdd, LeggiTogli
<1>2. CASE LeggiAdd(o)
  <2> DEFINE d == [Fase(o, "scriviAdd") EXCEPT !.letto = todo[t]]
  <2>1. todo[t].utenti[op[o].utente] < MaxVolte
    BY <1>2 DEF LeggiAdd
  <2>2. BenFormata(d, creati)
    BY <1>0, <2>1 DEF BenFormata, Operazione, Fase, Fasi, ConUtente
  <2> HIDE DEF d
  <2>3. Prosegui(o, d)
    BY <1>2 DEF LeggiAdd, d
  <2>4. TipiOp'
    BY <1>1, <2>2, <2>3, ProseguiTipi DEF Tipi, Prosegui
  <2> QED
    BY <1>1, <2>4, SoloOp
<1>3. CASE LeggiTogli(o)
  <2> DEFINE d == [Fase(o, "scriviTogli") EXCEPT !.letto = todo[t]]
  <2>1. todo[t].utenti[op[o].utente] > 0
    BY <1>3 DEF LeggiTogli, Contiene
  <2>2. BenFormata(d, creati)
    BY <1>0, <2>1 DEF BenFormata, Operazione, Fase, Fasi, ConUtente
  <2> HIDE DEF d
  <2>3. Prosegui(o, d)
    BY <1>3 DEF LeggiTogli, d
  <2>4. TipiOp'
    BY <1>1, <2>2, <2>3, ProseguiTipi DEF Tipi, Prosegui
  <2> QED
    BY <1>1, <2>4, SoloOp
<1> QED
  BY <1>2, <1>3

\* Writing the field `utenti` alone, with a list of users, keeps a task a task.
LEMMA ConUtentiTipi ==
    ASSUME Tipi, NEW t \in IdTodo, t \in creati, NEW r, NEW l \in Lista,
           todo' = [todo EXCEPT ![t] = ConUtenti(t, r, l)],
           UNCHANGED creati, interrotti' \in SUBSET IdTodo
    PROVE  TipiTodo'
<1> DEFINE k == ConUtenti(t, r, l)
<1>1. k \in Task
  BY DEF ConUtenti, Tipi, TipiTodo, Task
<1> HIDE DEF k
<1>2. todo' = [todo EXCEPT ![t] = k]
  BY DEF k
<1> QED
  BY <1>1, <1>2, ScriviTipi

\* The writings of a delegation.
LEMMA DelegaTipi ==
    ASSUME Tipi, NEW o \in Operazioni,
           ScriviAdd(o) \/ ScriviTogli(o) \/ CancellaVuoto(o)
    PROVE  Tipi'
<1> DEFINE t == op[o].task
           u == op[o].attore
           v == op[o].utente
           l == op[o].letto.utenti
<1>0. /\ BenFormata(op[o], creati) /\ op[o] \in Operazione
      /\ u \in Utenti /\ v \in Utenti
      /\ t \in creati /\ t \in IdTodo /\ l \in Lista
  <2>1. op[o].fase \in ConUtente /\ op[o].fase \notin {"ferma", "add"}
    BY DEF ScriviAdd, ScriviTogli, CancellaVuoto, ConUtente
  <2> QED
    BY <2>1, InCorsoTipi
<1>1. interrotti \in SUBSET IdTodo
  BY DEF Tipi, TipiTodo
<1>2. UNCHANGED creati
  BY DEF ScriviAdd, ScriviTogli, CancellaVuoto
<1>3. delega[u].assegnati \in SUBSET Utenti
  BY <1>0, AssegnatiTipi
<1>4. CASE ScriviAdd(o)
  <2>1. l[v] < MaxVolte
    BY <1>0, <1>4 DEF ScriviAdd, BenFormata
  <2>2. Aggiunto(l, v) \in Lista
    BY <1>0, <2>1, AggiuntoLista
  <2>3. /\ todo' = [todo EXCEPT ![t] = ConUtenti(t, op[o].letto, Aggiunto(l, v))]
        /\ interrotti' \in SUBSET IdTodo
        /\ Segna(o, delega[u].assegnati \cup {v})
        /\ Prosegui(o, Ferma)
    BY <1>1, <1>4 DEF ScriviAdd
  <2>4. TipiTodo'
    BY <1>0, <1>2, <2>2, <2>3, ConUtentiTipi
  <2>5. TipiOp'
    BY <1>2, <2>3, FermaTipi DEF Tipi
  <2>6. TipiDelega'
    BY <1>0, <1>2, <1>3, <2>3, SegnaTipi
  <2> QED
    BY <2>4, <2>5, <2>6 DEF Tipi
<1>5. CASE ScriviTogli(o)
  <2>1. l[v] > 0
    BY <1>0, <1>5 DEF ScriviTogli, BenFormata
  <2>2. Tolto(l, v) \in Lista
    BY <1>0, <2>1, ToltoLista
  <2>3. /\ todo' = [todo EXCEPT ![t] = ConUtenti(t, op[o].letto, Tolto(l, v))]
        /\ interrotti' \in SUBSET IdTodo
    BY <1>1, <1>5 DEF ScriviTogli
  <2>4. TipiTodo'
    BY <1>0, <1>2, <2>2, <2>3, ConUtentiTipi
  <2>5. CASE DaCancellare(Tolto(l, v))
    <3> DEFINE d == [Fase(o, "cancellaVuoto") EXCEPT !.letto = Inesistente]
    <3>1. BenFormata(d, creati)
      BY <1>0, VuotaLista DEF BenFormata, Operazione, Fase, Fasi, ConUtente
    <3> HIDE DEF d
    <3>2. Prosegui(o, d) /\ UNCHANGED delega
      BY <1>5, <2>5 DEF ScriviTogli, d
    <3>3. TipiOp'
      BY <1>2, <3>1, <3>2, ProseguiTipi DEF Tipi, Prosegui
    <3>4. TipiDelega'
      BY <1>2, <3>2 DEF Tipi, TipiDelega
    <3> QED
      BY <2>4, <3>3, <3>4 DEF Tipi
  <2>6. CASE ~DaCancellare(Tolto(l, v))
    <3>1. Prosegui(o, Ferma) /\ Segna(o, delega[u].assegnati \ {v})
      BY <1>5, <2>6 DEF ScriviTogli
    <3>2. TipiOp'
      BY <1>2, <3>1, FermaTipi DEF Tipi
    <3>3. TipiDelega'
      BY <1>2, <1>3, <3>1, SegnaTipi
    <3> QED
      BY <2>4, <3>2, <3>3 DEF Tipi
  <2> QED
    BY <2>5, <2>6
<1>6. CASE CancellaVuoto(o)
  <2>1. /\ todo' = [todo EXCEPT ![t] = Inesistente]
        /\ interrotti' \in SUBSET IdTodo
        /\ Segna(o, delega[u].assegnati \ {v})
        /\ Prosegui(o, Ferma)
    BY <1>1, <1>6 DEF CancellaVuoto
  <2>2. TipiTodo'
    BY <1>0, <1>2, <2>1, ScriviTipi, VuotaLista
  <2>3. TipiOp'
    BY <1>2, <2>1, FermaTipi DEF Tipi
  <2>4. TipiDelega'
    BY <1>2, <1>3, <2>1, SegnaTipi
  <2> QED
    BY <2>2, <2>3, <2>4 DEF Tipi
<1> QED
  BY <1>4, <1>5, <1>6

\* A call throws.
LEMMA FallisceTipi ==
    ASSUME Tipi, NEW o \in Operazioni, Fallisce(o)
    PROVE  Tipi'
<1>1. TipiOp'
  BY FermaTipi DEF Tipi, Fallisce
<1>2. TipiTodo'
  BY DEF Tipi, TipiTodo, Fallisce, Orfani
<1> QED
  BY <1>1, <1>2 DEF Tipi, TipiDelega, Fallisce

\* Every awaited call.
LEMMA PassoTipi ==
    ASSUME Tipi, NEW o \in Operazioni, Passo(o)
    PROVE  Tipi'
BY RepositoryAddTodoTipi, TodoTipi, VerificaTipi, LeggiTipi, DelegaTipi,
   FallisceTipi DEF Passo

\* A screen, or the whole application, is closed.
LEMMA ChiudiTipi ==
    ASSUME Tipi, NEW u \in Utenti, ChiudiDelega(u) \/ ChiudiApp(u)
    PROVE  Tipi'
<1>1. UNCHANGED <<todo, creati>> /\ delega' = [delega EXCEPT ![u] = Chiusa]
  BY DEF ChiudiDelega, ChiudiApp
<1>2. TipiDelega'
  <2>1. Chiusa \in Schermata /\ Chiusa.task = Nessuno
    BY DEF Chiusa, Schermata
  <2> QED
    BY <1>1, <2>1 DEF Tipi, TipiDelega
<1>3. TipiTodo'
  BY <1>1 DEF Tipi, TipiTodo, ChiudiDelega, ChiudiApp, Orfani
<1>4. ASSUME NEW o \in Operazioni PROVE BenFormata(op'[o], creati)
  <2>1. CASE ChiudiDelega(u)
    <3>1. op' = Smontata(u)
      BY <2>1 DEF ChiudiDelega
    <3> QED
      BY <3>1, SmontataTipi DEF Tipi
  <2>2. CASE ChiudiApp(u)
    <3>1. op'[o] = Ferma \/ op'[o] = op[o]
      BY <2>2 DEF ChiudiApp
    <3> QED
      BY <3>1, FermaBenFormata DEF Tipi, TipiOp
  <2> QED
    BY <2>1, <2>2
<1>5. op' \in [Operazioni -> Operazione]
  <2>1. op' = [o \in Operazioni |-> op'[o]]
    BY DEF ChiudiDelega, ChiudiApp, Smontata
  <2>2. \A o \in Operazioni : op'[o] \in Operazione
    BY <1>4 DEF BenFormata
  <2> QED
    BY <2>1, <2>2
<1>6. \A o \in Operazioni : BenFormata(op'[o], creati')
  <2>1. creati' = creati
    BY <1>1
  <2> QED
    BY <1>4, <2>1
<1> QED
  BY <1>2, <1>3, <1>5, <1>6 DEF Tipi, TipiOp

\* Tipi is inductive.
LEMMA TipiNext == Tipi /\ [Next]_vars => Tipi'
<1> SUFFICES ASSUME Tipi, [Next]_vars PROVE Tipi'
  OBVIOUS
<1>1. CASE UNCHANGED vars
  <2>1. UNCHANGED <<todo, op, delega, creati, interrotti>>
    BY <1>1 DEF vars
  <2>2. TipiOp'
    BY <2>1 DEF Tipi, TipiOp, BenFormata
  <2> QED
    BY <2>1, <2>2, SoloOp
<1>2. CASE Next
  BY <1>2, ComandoTipi, PassoTipi, ChiudiTipi DEF Next
<1> QED
  BY <1>1, <1>2

\* The collection, the screens and what is in flight stay well typed: no list of
\* users gets a negative count, though removeUserFromTodo writes a list computed
\* from an old reading, and no call acts on a task that was never created.
THEOREM TipiCorretti == Spec => [](TypeOK /\ Tipi)
<1>1. Tipi => TypeOK
  BY DEF Tipi, TipiOp, TipiTodo, TipiDelega, TypeOK
<1> QED
  BY <1>1, TipiInit, TipiNext, PTL DEF Spec

-----------------------------------------------------------------------------
(* Tasks without users.                                                    *)

SenzaUtenti(t) == todo[t].esiste /\ todo[t].utenti = Vuota

\* o is about to delete task t, having emptied its list.
StaCancellando(o, t) == op[o].fase = "cancellaVuoto" /\ op[o].task = t

\* A step keeps tasks without users explained if those that it leaves without
\* users are, and if an operation stops being an explanation only when the task
\* needs none or is recorded.
LEMMA SpiegatoStep ==
    ASSUME SenzaUtentiSpiegato,
           \A t \in IdTodo : SenzaUtenti(t)' =>
               \/ t \in interrotti'
               \/ \E o \in Operazioni : StaCancellando(o, t)'
               \/ SenzaUtenti(t) /\ (t \in interrotti => t \in interrotti'),
           \A t \in IdTodo, o \in Operazioni : StaCancellando(o, t) =>
               StaCancellando(o, t)' \/ t \in interrotti' \/ ~SenzaUtenti(t)'
    PROVE  SenzaUtentiSpiegato'
BY DEF SenzaUtentiSpiegato, SenzaUtenti, StaCancellando

\* Steps that write nothing and leave pending deletions alone.
LEMMA SpiegatoFermo ==
    ASSUME SenzaUtentiSpiegato, UNCHANGED <<todo, interrotti>>,
           \A o \in Operazioni : op[o].fase = "cancellaVuoto" =>
               op'[o].fase = op[o].fase /\ op'[o].task = op[o].task
    PROVE  SenzaUtentiSpiegato'
BY DEF SenzaUtentiSpiegato

\* In particular those of one operation that is not a pending deletion.
LEMMA SpiegatoProsegui ==
    ASSUME TipiOp, SenzaUtentiSpiegato, UNCHANGED <<todo, interrotti>>,
           NEW o \in Operazioni, op[o].fase # "cancellaVuoto", NEW dopo,
           Prosegui(o, dopo)
    PROVE  SenzaUtentiSpiegato'
<1>1. ASSUME NEW x \in Operazioni, op[x].fase = "cancellaVuoto"
      PROVE  op'[x] = op[x]
  BY <1>1 DEF Prosegui, TipiOp
<1> QED
  BY <1>1, SpiegatoFermo

\* A write to task t by an operation that is not a pending deletion.
LEMMA SpiegatoScrivi ==
    ASSUME Tipi, SenzaUtentiSpiegato, NEW o \in Operazioni, NEW t \in IdTodo,
           op[o].fase # "cancellaVuoto", NEW k, NEW dopo,
           todo' = [todo EXCEPT ![t] = k], Prosegui(o, dopo),
           interrotti \ {t} \subseteq interrotti',
           k.esiste /\ k.utenti = Vuota =>
               \/ t \in interrotti'
               \/ dopo.fase = "cancellaVuoto" /\ dopo.task = t
               \/ SenzaUtenti(t) /\ (t \in interrotti => t \in interrotti')
    PROVE  SenzaUtentiSpiegato'
<1>1. \A x \in IdTodo : todo'[x] = IF x = t THEN k ELSE todo[x]
  BY DEF Tipi, TipiTodo
<1>2. \A x \in Operazioni : op'[x] = IF x = o THEN dopo ELSE op[x]
  BY DEF Prosegui, Tipi, TipiOp
<1>3. ASSUME NEW x \in IdTodo, SenzaUtenti(x)'
      PROVE  \/ x \in interrotti'
             \/ \E y \in Operazioni : StaCancellando(y, x)'
             \/ SenzaUtenti(x) /\ (x \in interrotti => x \in interrotti')
  <2>1. CASE x = t
    <3>1. k.esiste /\ k.utenti = Vuota
      BY <1>1, <1>3, <2>1 DEF SenzaUtenti
    <3>2. dopo.fase = "cancellaVuoto" /\ dopo.task = t => StaCancellando(o, t)'
      BY <1>2 DEF StaCancellando
    <3> QED
      BY <2>1, <3>1, <3>2
  <2>2. CASE x # t
    BY <1>1, <1>3, <2>2 DEF SenzaUtenti
  <2> QED
    BY <2>1, <2>2
<1>4. ASSUME NEW x \in IdTodo, NEW y \in Operazioni, StaCancellando(y, x)
      PROVE  StaCancellando(y, x)'
  BY <1>2, <1>4 DEF StaCancellando
<1> QED
  BY <1>3, <1>4, SpiegatoStep

\* What users do starts no deletion of an empty task, and ends none.
LEMMA SpiegatoComando ==
    ASSUME Tipi, SenzaUtentiSpiegato, NEW o \in Operazioni, Comando(o)
    PROVE  SenzaUtentiSpiegato'
<1>0. UNCHANGED <<todo, interrotti>>
  BY DEF Comando, AddTodo, MostraRiga, SostituisciRiga, PremiRiga, SalvaDialogo,
         Abbandona, ApriDelega, PremiUtente
<1>1. op[o].fase # "cancellaVuoto"
  BY DEF Comando, AddTodo, MostraRiga, SostituisciRiga, PremiRiga, SalvaDialogo,
         Abbandona, ApriDelega, PremiUtente
<1>2. CASE ApriDelega(o)
  <2>1. op[o].attore \in Utenti
    BY <1>2, InCorsoTipi DEF ApriDelega
  <2>2. ASSUME NEW x \in Operazioni, op[x].fase = "cancellaVuoto"
        PROVE  op'[x].fase = op[x].fase /\ op'[x].task = op[x].task
    <3>1. op'[x] = Smontata(op[o].attore)[x]
      BY <1>1, <1>2, <2>2 DEF ApriDelega, Smontata
    <3> QED
      BY <2>1, <3>1, SmontataTipi DEF Tipi
  <2> QED
    BY <1>0, <2>2, SpiegatoFermo
<1>3. CASE ~ApriDelega(o)
  <2>1. PICK dopo : Prosegui(o, dopo)
    BY <1>3 DEF Comando, AddTodo, MostraRiga, SostituisciRiga, PremiRiga,
                SalvaDialogo, Abbandona, PremiUtente
  <2> QED
    BY <1>0, <1>1, <2>1, SpiegatoProsegui DEF Tipi
<1> QED
  BY <1>2, <1>3

\* The calls that write: a list becomes empty only through removeUserFromTodo,
\* which goes on to delete, or through an edit, which is recorded.
LEMMA SpiegatoScritture ==
    ASSUME Tipi, SenzaUtentiSpiegato, NEW o \in Operazioni,
           \/ RepositoryAddTodo(o) \/ UpdateTodo(o) \/ CompleteTodo(o)
           \/ DeleteTodo(o) \/ ScriviAdd(o) \/ ScriviTogli(o)
    PROVE  SenzaUtentiSpiegato'
<1> DEFINE t == op[o].task
           v == op[o].utente
           l == op[o].letto.utenti
<1>0. op[o].fase \notin {"ferma", "cancellaVuoto"} /\ op[o].attore \in Utenti
  <2>1. op[o].fase \notin {"ferma", "cancellaVuoto"}
    BY DEF RepositoryAddTodo, UpdateTodo, CompleteTodo, DeleteTodo, ScriviAdd,
           ScriviTogli
  <2> QED
    BY <2>1, InCorsoTipi
<1>1. CASE RepositoryAddTodo(o)
  <2>1. PICK n \in IdTodo \ creati :
          todo' = [todo EXCEPT ![n] = NuovoTask(op[o].attore)]
    BY <1>1 DEF RepositoryAddTodo
  <2>2. NuovoTask(op[o].attore).utenti # Vuota
    BY <1>0, NuovoTaskTipi
  <2>3. Prosegui(o, Ferma) /\ UNCHANGED interrotti
    BY <1>1 DEF RepositoryAddTodo
  <2> QED
    BY <1>0, <2>1, <2>2, <2>3, SpiegatoScrivi
<1>2. CASE ~RepositoryAddTodo(o)
  <2>0. /\ op[o] \in Operazione /\ BenFormata(op[o], creati)
        /\ t \in IdTodo /\ l \in Lista /\ todo[t] \in Task
    <3>1. op[o].fase # "add"
      BY <1>2 DEF UpdateTodo, CompleteTodo, DeleteTodo, ScriviAdd, ScriviTogli
    <3> QED
      BY <1>0, <3>1, InCorsoTipi DEF Tipi, TipiTodo
  <2>1. CASE UpdateTodo(o)
    <3>1. /\ todo' = [todo EXCEPT ![t] = op[o].letto]
          /\ Prosegui(o, Ferma)
          /\ interrotti \ {t} \subseteq interrotti'
          /\ l = Vuota => t \in interrotti'
      BY <2>1 DEF UpdateTodo
    <3> QED
      BY <1>0, <2>0, <3>1, SpiegatoScrivi
  <2>2. CASE CompleteTodo(o)
    <3> DEFINE k == [todo[t] EXCEPT !.completato = ~op[o].letto.completato]
    <3>1. k.utenti = todo[t].utenti
      BY <2>0 DEF Task
    <3>2. k.esiste = todo[t].esiste
      BY <2>0 DEF Task
    <3>3. /\ todo' = [todo EXCEPT ![t] = k]
          /\ Prosegui(o, Ferma) /\ UNCHANGED interrotti
          /\ todo[t].esiste
      BY <2>2 DEF CompleteTodo
    <3> HIDE DEF k
    <3>4. k.esiste /\ k.utenti = Vuota => SenzaUtenti(t)
      BY <3>1, <3>3 DEF SenzaUtenti
    <3> QED
      BY <1>0, <2>0, <3>3, <3>4, SpiegatoScrivi
  <2>3. CASE DeleteTodo(o)
    <3>1. /\ todo' = [todo EXCEPT ![t] = Inesistente]
          /\ Prosegui(o, Ferma)
          /\ interrotti \ {t} \subseteq interrotti'
      BY <2>3 DEF DeleteTodo
    <3>2. ~Inesistente.esiste
      BY DEF Inesistente
    <3> QED
      BY <1>0, <2>0, <3>1, <3>2, SpiegatoScrivi
  <2>4. CASE ScriviAdd(o)
    <3> DEFINE k == ConUtenti(t, op[o].letto, Aggiunto(l, v))
    <3>1. v \in Utenti /\ l[v] < MaxVolte
      BY <2>0, <2>4 DEF ScriviAdd, BenFormata, ConUtente
    <3>2. k.utenti # Vuota
      <4>1. k.utenti = Aggiunto(l, v)
        BY <2>0 DEF ConUtenti, Task
      <4> QED
        BY <2>0, <3>1, <4>1, AggiuntoLista
    <3>3. /\ todo' = [todo EXCEPT ![t] = k]
          /\ Prosegui(o, Ferma)
          /\ interrotti \ {t} \subseteq interrotti'
      BY <2>4 DEF ScriviAdd
    <3> HIDE DEF k
    <3> QED
      BY <1>0, <2>0, <3>2, <3>3, SpiegatoScrivi
  <2>5. CASE ScriviTogli(o)
    <3> DEFINE m == Tolto(l, v)
               k == ConUtenti(t, op[o].letto, m)
               d == [Fase(o, "cancellaVuoto") EXCEPT !.letto = Inesistente]
    <3>1. k.utenti = m
      BY <2>0 DEF ConUtenti, Task
    <3>2. todo' = [todo EXCEPT ![t] = k]
      BY <2>5 DEF ScriviTogli
    <3>3. CASE m = Vuota
      <4>1. d.fase = "cancellaVuoto" /\ d.task = t
        BY <2>0 DEF Fase, Operazione
      <4>2. Prosegui(o, d) /\ UNCHANGED interrotti
        BY <2>5, <3>3 DEF ScriviTogli, DaCancellare
      <4> HIDE DEF d, k, m
      <4> QED
        BY <1>0, <2>0, <3>2, <4>1, <4>2, SpiegatoScrivi
    <3>4. CASE m # Vuota
      <4>1. Prosegui(o, Ferma) /\ interrotti \ {t} \subseteq interrotti'
        BY <2>5, <3>4 DEF ScriviTogli, DaCancellare
      <4> HIDE DEF d, k, m
      <4> QED
        BY <1>0, <2>0, <3>1, <3>2, <3>4, <4>1, SpiegatoScrivi
    <3> QED
      BY <3>3, <3>4
  <2> QED
    BY <1>2, <2>1, <2>2, <2>3, <2>4, <2>5
<1> QED
  BY <1>1, <1>2

\* The deletion itself leaves nothing to explain.
LEMMA SpiegatoCancella ==
    ASSUME Tipi, SenzaUtentiSpiegato, NEW o \in Operazioni, CancellaVuoto(o)
    PROVE  SenzaUtentiSpiegato'
<1>0. PICK t \in IdTodo : t = op[o].task
  BY InCorsoTipi DEF CancellaVuoto
<1>1. /\ todo' = [todo EXCEPT ![t] = Inesistente]
      /\ Prosegui(o, Ferma)
      /\ interrotti' = interrotti \ {t}
  BY <1>0 DEF CancellaVuoto
<1>2. ~SenzaUtenti(t)'
  BY <1>0, <1>1 DEF SenzaUtenti, Inesistente, Tipi, TipiTodo
<1>3. \A x \in IdTodo : SenzaUtenti(x)' =>
          SenzaUtenti(x) /\ (x \in interrotti => x \in interrotti')
  BY <1>1, <1>2 DEF SenzaUtenti, Tipi, TipiTodo
<1>4. \A x \in IdTodo, y \in Operazioni : StaCancellando(y, x) =>
          StaCancellando(y, x)' \/ ~SenzaUtenti(x)'
  BY <1>0, <1>1, <1>2 DEF StaCancellando, Prosegui, Tipi, TipiOp
<1> QED
  BY <1>3, <1>4, SpiegatoStep

\* A deletion that will not happen is recorded, if it leaves a task behind.
LEMMA SpiegatoInterrotto ==
    ASSUME Tipi, SenzaUtentiSpiegato, UNCHANGED todo, NEW O \in SUBSET Operazioni,
           \A o \in Operazioni \ O : op'[o] = op[o],
           interrotti' = interrotti \cup Orfani(O)
    PROVE  SenzaUtentiSpiegato'
<1>1. ASSUME NEW t \in IdTodo, NEW o \in Operazioni, StaCancellando(o, t)
      PROVE  StaCancellando(o, t)' \/ t \in interrotti' \/ ~SenzaUtenti(t)'
  BY <1>1 DEF StaCancellando, SenzaUtenti, Orfani
<1>2. \A t \in IdTodo : SenzaUtenti(t)' =>
          SenzaUtenti(t) /\ (t \in interrotti => t \in interrotti')
  BY DEF SenzaUtenti
<1> QED
  BY <1>1, <1>2, SpiegatoStep

\* Every awaited call.
LEMMA SpiegatoPasso ==
    ASSUME Tipi, SenzaUtentiSpiegato, NEW o \in Operazioni, Passo(o)
    PROVE  SenzaUtentiSpiegato'
<1>1. CASE UtenteAssegnato(o) \/ FineVerifica(o) \/ LeggiAdd(o) \/ LeggiTogli(o)
  <2>1. /\ op[o].fase # "cancellaVuoto"
        /\ UNCHANGED <<todo, interrotti>>
        /\ \E dopo : Prosegui(o, dopo)
    BY <1>1 DEF UtenteAssegnato, FineVerifica, LeggiAdd, LeggiTogli
  <2> QED
    BY <2>1, SpiegatoProsegui DEF Tipi
<1>2. CASE Fallisce(o)
  <2>1. \A x \in Operazioni \ {o} : op'[x] = op[x]
    BY <1>2 DEF Fallisce, Prosegui, Tipi, TipiOp
  <2> QED
    BY <1>2, <2>1, SpiegatoInterrotto DEF Fallisce
<1> QED
  BY <1>1, <1>2, SpiegatoScritture, SpiegatoCancella DEF Passo

\* A closed screen forgets nothing of a pending deletion; a closed application
\* interrupts it.
LEMMA SpiegatoChiudi ==
    ASSUME Tipi, SenzaUtentiSpiegato, NEW u \in Utenti,
           ChiudiDelega(u) \/ ChiudiApp(u)
    PROVE  SenzaUtentiSpiegato'
<1>1. CASE ChiudiDelega(u)
  <2>1. \A o \in Operazioni :
          op'[o].fase = op[o].fase /\ op'[o].task = op[o].task
    BY <1>1, SmontataTipi DEF ChiudiDelega, Tipi
  <2> QED
    BY <1>1, <2>1, SpiegatoFermo DEF ChiudiDelega
<1>2. CASE ChiudiApp(u)
  <2> DEFINE mie == {o \in Operazioni : op[o].attore = u}
  <2>1. /\ UNCHANGED todo
        /\ \A o \in Operazioni \ mie : op'[o] = op[o]
        /\ interrotti' = interrotti \cup Orfani(mie)
    BY <1>2 DEF ChiudiApp
  <2>2. mie \in SUBSET Operazioni
    OBVIOUS
  <2> HIDE DEF mie
  <2> QED
    BY <2>1, <2>2, SpiegatoInterrotto
<1> QED
  BY <1>1, <1>2

\* A task without users never stays unnoticed: the removal that emptied its list
\* is about to delete it, or did not get that far, or an edit wrote the empty list
\* back; however many removals, additions, edits and completions overlap.
THEOREM SenzaUtentiSempreSpiegati == Spec => []SenzaUtentiSpiegato
<1>1. Init => SenzaUtentiSpiegato
  BY DEF Init, Inesistente, SenzaUtentiSpiegato
<1>2. Tipi /\ SenzaUtentiSpiegato /\ [Next]_vars => SenzaUtentiSpiegato'
  <2> SUFFICES ASSUME Tipi, SenzaUtentiSpiegato, [Next]_vars
               PROVE  SenzaUtentiSpiegato'
    OBVIOUS
  <2>1. CASE UNCHANGED vars
    BY <2>1 DEF vars, SenzaUtentiSpiegato
  <2>2. CASE Next
    BY <2>2, SpiegatoComando, SpiegatoPasso, SpiegatoChiudi DEF Next
  <2> QED
    BY <2>1, <2>2
<1> QED
  BY <1>1, <1>2, TipiInit, TipiNext, PTL DEF Spec

-----------------------------------------------------------------------------
(* Completion.                                                             *)

\* What CompletatoNonDelegato says of one step.
CambiaChiDeve ==
    \A t \in IdTodo :
        (/\ todo[t].esiste /\ todo'[t].esiste
         /\ todo[t].completato # todo'[t].completato)
        => \E o \in Operazioni : /\ op[o].task = t
                                 /\ op[o].fase \in {"completa", "set"}

\* Of the calls that write, only completeTodo and updateTodo can change whether
\* an existing task is completed, and of their own task only.
LEMMA CompletatoPasso ==
    ASSUME Tipi, NEW o \in Operazioni, Passo(o)
    PROVE  CambiaChiDeve
<1> DEFINE t == op[o].task
<1>0. todo \in [IdTodo -> Task]
  BY DEF Tipi, TipiTodo
<1>1. CASE RepositoryAddTodo(o)
  <2>1. PICK n \in IdTodo \ creati :
          todo' = [todo EXCEPT ![n] = NuovoTask(op[o].attore)]
    BY <1>1 DEF RepositoryAddTodo
  <2>2. ~todo[n].esiste
    BY DEF Tipi, TipiTodo
  <2>3. \A x \in IdTodo : x # n => todo'[x] = todo[x]
    BY <1>0, <2>1
  <2> QED
    BY <2>2, <2>3 DEF CambiaChiDeve
<1>2. CASE UpdateTodo(o) \/ CompleteTodo(o)
  <2>1. /\ op[o].fase \in {"completa", "set"}
        /\ \A x \in IdTodo : x # t => todo'[x] = todo[x]
    BY <1>0, <1>2 DEF UpdateTodo, CompleteTodo
  <2> QED
    BY <2>1 DEF CambiaChiDeve
<1>3. CASE DeleteTodo(o) \/ CancellaVuoto(o)
  <2>1. todo' = [todo EXCEPT ![t] = Inesistente]
    BY <1>3 DEF DeleteTodo, CancellaVuoto
  <2>2. \A x \in IdTodo : todo'[x].esiste => todo'[x] = todo[x]
    BY <1>0, <2>1 DEF Inesistente
  <2> QED
    BY <2>2 DEF CambiaChiDeve
<1>4. CASE ScriviAdd(o) \/ ScriviTogli(o)
  <2>1. PICK l : todo' = [todo EXCEPT ![t] = ConUtenti(t, op[o].letto, l)]
    BY <1>4 DEF ScriviAdd, ScriviTogli
  <2>2. ASSUME NEW x \in IdTodo PROVE todo'[x].completato = todo[x].completato
    <3>1. ConUtenti(x, op[o].letto, l).completato = todo[x].completato
      BY <1>0 DEF ConUtenti, Task
    <3> QED
      BY <1>0, <2>1, <3>1
  <2> QED
    BY <2>2 DEF CambiaChiDeve
<1>5. CASE UNCHANGED todo
  BY <1>5 DEF CambiaChiDeve
<1> QED
  BY <1>1, <1>2, <1>3, <1>4, <1>5
  DEF Passo, UtenteAssegnato, FineVerifica, LeggiAdd, LeggiTogli, Fallisce

\* Nothing that only delegates a task, adds or deletes one, or fails, changes
\* whether a task that was there before and is there after is completed.
THEOREM CompletamentoNonDelegato == Spec => CompletatoNonDelegato
<1>1. ASSUME Tipi, Next PROVE CambiaChiDeve
  <2>1. CASE \E o \in Operazioni : Passo(o)
    BY <1>1, <2>1, CompletatoPasso
  <2>2. CASE ~\E o \in Operazioni : Passo(o)
    <3>1. UNCHANGED todo
      BY <1>1, <2>2
      DEF Next, Comando, AddTodo, MostraRiga, SostituisciRiga, PremiRiga,
          SalvaDialogo, Abbandona, ApriDelega, PremiUtente, ChiudiDelega,
          ChiudiApp
    <3> QED
      BY <3>1 DEF CambiaChiDeve
  <2> QED
    BY <2>1, <2>2
<1>2. Tipi /\ [Next]_vars => [CambiaChiDeve]_vars
  BY <1>1
<1> QED
  BY <1>2, TipiInit, TipiNext, PTL
  DEF Spec, CompletatoNonDelegato, CambiaChiDeve

-----------------------------------------------------------------------------
(* Deletion.  Of the calls that write a task, only those of addTodo and    *)
(* updateTodo may create a document: the first takes a new id, the second  *)
(* stores a copy that somebody has had on screen since the task existed.   *)

\* x shows, edits or is about to store a copy of task t.
TieneCopia(x, t) == x.fase \in {"riga", "dialogo", "set"} /\ x.task = t

\* A step leaves t buried if it does not write it, or deletes it again, and
\* gives nobody a copy who had none.
LEMMA SepoltoStep ==
    ASSUME NEW t \in IdTodo, Sepolto(t), creati \subseteq creati',
           todo'[t] = todo[t] \/ ~todo'[t].esiste,
           \A x \in Operazioni : TieneCopia(op'[x], t) => TieneCopia(op[x], t)
    PROVE  Sepolto(t)'
BY DEF Sepolto, TieneCopia

\* In particular one of a single operation.
LEMMA SepoltoProsegui ==
    ASSUME Tipi, NEW t \in IdTodo, Sepolto(t), creati \subseteq creati',
           todo'[t] = todo[t] \/ ~todo'[t].esiste,
           NEW o \in Operazioni, NEW dopo, Prosegui(o, dopo),
           TieneCopia(dopo, t) => TieneCopia(op[o], t)
    PROVE  Sepolto(t)'
<1>1. \A x \in Operazioni : op'[x] = IF x = o THEN dopo ELSE op[x]
  BY DEF Prosegui, Tipi, TipiOp
<1> QED
  BY <1>1, SepoltoStep

\* Nor does an operation that ends, or a screen that is unmounted.
LEMMA FermaSenzaCopia == ASSUME NEW t PROVE ~TieneCopia(Ferma, t)
  BY DEF TieneCopia, Ferma

LEMMA SmontataCopia ==
    ASSUME Tipi, NEW t, NEW u \in Utenti, NEW x \in Operazioni
    PROVE  TieneCopia(Smontata(u)[x], t) <=> TieneCopia(op[x], t)
<1>1. /\ Smontata(u)[x].fase = op[x].fase
      /\ Smontata(u)[x].task = op[x].task
  BY SmontataTipi DEF Tipi
<1> QED
  BY <1>1 DEF TieneCopia

\* Users see tasks that exist, and edit what they see.
LEMMA SepoltoComando ==
    ASSUME Tipi, NEW t \in IdTodo, Sepolto(t), NEW o \in Operazioni, Comando(o)
    PROVE  Sepolto(t)'
<1>0. UNCHANGED <<todo, creati>> /\ op[o] \in Operazione
  BY DEF Comando, AddTodo, MostraRiga, SostituisciRiga, PremiRiga, SalvaDialogo,
         Abbandona, ApriDelega, PremiUtente, Tipi, TipiOp
<1>1. CASE ApriDelega(o)
  <2>1. op[o].attore \in Utenti
    BY <1>1, InCorsoTipi DEF ApriDelega
  <2>2. op'[o].fase = "verifica"
    BY <1>1 DEF ApriDelega, Smontata, Ferma
  <2>3. \A x \in Operazioni : x # o => op'[x] = Smontata(op[o].attore)[x]
    BY <1>1 DEF ApriDelega, Smontata
  <2>4. ASSUME NEW x \in Operazioni, TieneCopia(op'[x], t)
        PROVE  TieneCopia(op[x], t)
    <3>1. x # o
      BY <2>2, <2>4 DEF TieneCopia
    <3> QED
      BY <2>1, <2>3, <2>4, <3>1, SmontataCopia
  <2> QED
    BY <1>0, <2>4, SepoltoStep
<1>2. CASE \/ \E u \in Utenti, n \in IdTodo : MostraRiga(o, u, n)
           \/ \E n \in IdTodo : SostituisciRiga(o, n)
  <2>1. PICK n, dopo :
          /\ n \in IdTodo
          /\ todo[n].esiste
          /\ Prosegui(o, dopo)
          /\ \/ dopo = [op[o] EXCEPT !.task = n, !.letto = todo[n]]
             \/ \E u \in Utenti :
                  dopo = [Ferma EXCEPT !.fase = "riga", !.attore = u, !.task = n,
                              !.letto = todo[n],
                              !.modifica = Contiene(todo[n].utenti, u)]
    BY <1>2 DEF MostraRiga, SostituisciRiga
  <2>2. dopo.task = n
    <3>1. CASE dopo = [op[o] EXCEPT !.task = n, !.letto = todo[n]]
      BY <1>0, <3>1 DEF Operazione
    <3>2. CASE dopo # [op[o] EXCEPT !.task = n, !.letto = todo[n]]
      BY <2>1, <3>2 DEF Ferma
    <3> QED
      BY <3>1, <3>2
  <2>3. ~TieneCopia(dopo, t)
    BY <2>1, <2>2 DEF Sepolto, TieneCopia
  <2> QED
    BY <1>0, <2>1, <2>3, SepoltoProsegui
<1>3. CASE \/ \E u \in Utenti : AddTodo(o, u)
           \/ \E u, v \in Utenti : PremiUtente(o, u, v)
           \/ Abbandona(o)
  <2>1. CASE \E u \in Utenti : AddTodo(o, u)
    <3>1. PICK dopo : /\ Prosegui(o, dopo)
                      /\ \E u : dopo = [Ferma EXCEPT !.fase = "add", !.attore = u]
      BY <2>1 DEF AddTodo
    <3>2. dopo.fase = "add"
      BY <3>1 DEF Ferma
    <3> QED
      BY <1>0, <3>1, <3>2, SepoltoProsegui DEF TieneCopia
  <2>2. CASE \E u, v \in Utenti : PremiUtente(o, u, v)
    <3>1. PICK u \in Utenti, v \in Utenti : PremiUtente(o, u, v)
      BY <2>2
    <3>2. PICK f \in {"leggiTogli", "leggiAdd"} :
            f = IF v \in delega[u].assegnati THEN "leggiTogli" ELSE "leggiAdd"
      OBVIOUS
    <3>3. PICK dopo : /\ Prosegui(o, dopo)
                      /\ dopo = [Ferma EXCEPT !.fase = f, !.attore = u,
                                    !.task = delega[u].task, !.utente = v,
                                    !.modifica = TRUE]
      BY <3>1, <3>2 DEF PremiUtente
    <3>4. dopo.fase = f
      BY <3>3 DEF Ferma
    <3> QED
      BY <1>0, <3>3, <3>4, SepoltoProsegui DEF TieneCopia
  <2>3. CASE Abbandona(o)
    BY <1>0, <2>3, FermaSenzaCopia, SepoltoProsegui DEF Abbandona
  <2> QED
    BY <1>3, <2>1, <2>2, <2>3
<1>4. CASE PremiRiga(o) \/ SalvaDialogo(o)
  <2>1. op[o].fase \in {"riga", "dialogo"}
    BY <1>4 DEF PremiRiga, SalvaDialogo
  <2>2. PICK dopo :
          /\ Prosegui(o, dopo)
          /\ \/ dopo = Fase(o, "set")
             \/ dopo = [Fase(o, "dialogo") EXCEPT !.modifica = FALSE]
             \/ dopo = [Fase(o, "completa") EXCEPT !.modifica = FALSE,
                           !.letto = [Inesistente EXCEPT
                                          !.completato = op[o].letto.completato]]
             \/ dopo = [Ferma EXCEPT !.fase = "cancella", !.attore = op[o].attore,
                                     !.task = op[o].task]
    BY <1>4 DEF PremiRiga, SalvaDialogo
  <2>3. dopo.task = op[o].task
    BY <1>0, <2>2 DEF Fase, Ferma, Operazione
  <2>4. TieneCopia(dopo, t) => TieneCopia(op[o], t)
    BY <2>1, <2>3 DEF TieneCopia
  <2> QED
    BY <1>0, <2>2, <2>4, SepoltoProsegui
<1> QED
  BY <1>1, <1>2, <1>3, <1>4 DEF Comando

\* Every call: a new task is another one, an edit needs a copy, a deletion
\* deletes, and whatever else writes needs a task that exists.
LEMMA SepoltoPasso ==
    ASSUME Tipi, NEW t \in IdTodo, Sepolto(t), NEW o \in Operazioni, Passo(o)
    PROVE  Sepolto(t)'
<1>0. op[o] \in Operazione /\ todo \in [IdTodo -> Task]
  BY DEF Tipi, TipiOp, TipiTodo
<1>1. PICK dopo : Prosegui(o, dopo) /\ dopo.fase \notin {"riga", "dialogo", "set"}
  <2>1. CASE UtenteAssegnato(o)
    <3>1. PICK dopo : /\ Prosegui(o, dopo)
                      /\ \E R, A : dopo = [op[o] EXCEPT !.restanti = R,
                                                        !.assegnati = A]
      BY <2>1 DEF UtenteAssegnato
    <3>2. dopo.fase = "verifica"
      BY <1>0, <2>1, <3>1 DEF UtenteAssegnato, Operazione
    <3> QED
      BY <3>1, <3>2
  <2>2. CASE LeggiAdd(o) \/ LeggiTogli(o) \/ ScriviTogli(o)
    <3>1. PICK dopo : /\ Prosegui(o, dopo)
                      /\ \/ dopo = Ferma
                         \/ \E k, f : /\ f \in {"scriviAdd", "scriviTogli",
                                                "cancellaVuoto"}
                                      /\ dopo = [Fase(o, f) EXCEPT !.letto = k]
      BY <2>2 DEF LeggiAdd, LeggiTogli, ScriviTogli
    <3>2. CASE dopo = Ferma
      BY <3>1, <3>2 DEF Ferma
    <3>3. CASE dopo # Ferma
      <4>1. PICK k, f : /\ f \in {"scriviAdd", "scriviTogli", "cancellaVuoto"}
                        /\ dopo = [Fase(o, f) EXCEPT !.letto = k]
        BY <3>1, <3>3
      <4>2. dopo.fase = f
        BY <1>0, <4>1 DEF Fase, Operazione
      <4> QED
        BY <3>1, <4>1, <4>2
    <3> QED
      BY <3>2, <3>3
  <2>3. CASE Prosegui(o, Ferma)
    BY <2>3 DEF Ferma
  <2> QED
    BY <2>1, <2>2, <2>3
    DEF Passo, RepositoryAddTodo, UpdateTodo, CompleteTodo, DeleteTodo,
        FineVerifica, ScriviAdd, CancellaVuoto, Fallisce
<1>2. creati \subseteq creati' /\ (todo'[t] = todo[t] \/ ~todo'[t].esiste)
  <2>1. CASE RepositoryAddTodo(o)
    <3>1. PICK n \in IdTodo \ creati :
            /\ todo' = [todo EXCEPT ![n] = NuovoTask(op[o].attore)]
            /\ creati' = creati \cup {n}
      BY <2>1 DEF RepositoryAddTodo
    <3>2. n # t
      BY DEF Sepolto
    <3> QED
      BY <1>0, <3>1, <3>2
  <2>2. CASE UpdateTodo(o)
    <3>1. PICK k : todo' = [todo EXCEPT ![op[o].task] = k]
      BY <2>2 DEF UpdateTodo
    <3>2. op[o].task # t /\ creati' = creati
      BY <2>2 DEF UpdateTodo, Sepolto
    <3> QED
      BY <1>0, <3>1, <3>2
  <2>3. CASE CompleteTodo(o) \/ ScriviAdd(o) \/ ScriviTogli(o)
    <3>1. op[o].task # t /\ creati' = creati
      BY <2>3 DEF CompleteTodo, ScriviAdd, ScriviTogli, Sepolto
    <3>2. PICK k : todo' = [todo EXCEPT ![op[o].task] = k]
      BY <2>3 DEF CompleteTodo, ScriviAdd, ScriviTogli
    <3> QED
      BY <1>0, <3>1, <3>2
  <2>4. CASE DeleteTodo(o) \/ CancellaVuoto(o)
    <3>1. todo' = [todo EXCEPT ![op[o].task] = Inesistente] /\ creati' = creati
      BY <2>4 DEF DeleteTodo, CancellaVuoto
    <3>2. ~Inesistente.esiste
      BY DEF Inesistente
    <3> QED
      BY <1>0, <3>1, <3>2
  <2>5. CASE UNCHANGED <<todo, creati>>
    BY <2>5
  <2> QED
    BY <2>1, <2>2, <2>3, <2>4, <2>5
    DEF Passo, UtenteAssegnato, FineVerifica, LeggiAdd, LeggiTogli, Fallisce
<1>3. ~TieneCopia(dopo, t)
  BY <1>1 DEF TieneCopia
<1> QED
  BY <1>1, <1>2, <1>3, SepoltoProsegui

\* What is closed shows nothing more.
LEMMA SepoltoChiudi ==
    ASSUME Tipi, NEW t \in IdTodo, Sepolto(t), NEW u \in Utenti,
           ChiudiDelega(u) \/ ChiudiApp(u)
    PROVE  Sepolto(t)'
<1>1. UNCHANGED <<todo, creati>>
  BY DEF ChiudiDelega, ChiudiApp
<1>2. \A x \in Operazioni : op'[x] \in {Smontata(u)[x], Ferma, op[x]}
  BY DEF ChiudiDelega, ChiudiApp
<1>3. \A x \in Operazioni : TieneCopia(op'[x], t) => TieneCopia(op[x], t)
  BY <1>2, SmontataCopia, FermaSenzaCopia
<1> QED
  BY <1>1, <1>3, SepoltoStep

\* A deleted task that nobody has on screen any more, in a dialog or in an edit
\* being saved is never seen again.
THEOREM EliminazioneSempreDefinitiva == Spec => EliminazioneDefinitiva
<1> DEFINE Resta == \A t \in IdTodo : Sepolto(t) => Sepolto(t)'
<1>1. ASSUME Tipi, Next PROVE Resta
  BY <1>1, SepoltoComando, SepoltoPasso, SepoltoChiudi DEF Next
<1>2. Tipi /\ [Next]_vars => [Resta]_vars
  BY <1>1
<1> QED
  BY <1>2, TipiInit, TipiNext, PTL DEF Spec, EliminazioneDefinitiva

=============================================================================
