------------------------ MODULE AttivitaRaffinaProofs ------------------------
(***************************************************************************)
(* Attivita implements Incarichi, for any number of users, tasks, rows,    *)
(* dialogs and calls in flight: the initial states correspond and every    *)
(* step is an event of Incarichi or changes nothing there.                 *)
(***************************************************************************)
EXTENDS AttivitaRaffina, AttivitaProofs

\* What everybody remembers.
Ricordi == [o \in Operazioni |-> RicordoDi(op[o])]

\* The phases in which a task is remembered.
ConRicordo == ConCopia \cup {"completa", "cancella", "cancellaVuoto"}

\* The two specifications say the same of a task that is not there.
LEMMA StessoNiente ==
  /\ Astratto!Nessuna = Vuota
  /\ Astratto!Mancante = Inesistente
BY DEF Astratto!Nessuna, Astratto!Mancante, Vuota, Inesistente

\* What a phase remembers, in the words of Incarichi: the task as read, ...
LEMMA RicordoCopia ==
  ASSUME NEW x, x.fase \in ConCopia
  PROVE  RicordoDi(x) = Astratto!Ricordo("copia", x.task, x.letto)
BY DEF RicordoDi, Astratto!Ricordo

\* ... whether it was done, ...
LEMMA RicordoSegno ==
  ASSUME NEW x, x.fase = "completa"
  PROVE  RicordoDi(x) = Astratto!Ricordo("segno", x.task, x.letto)
BY DEF RicordoDi, Astratto!Ricordo, ConCopia

\* ... only which one it is, ...
LEMMA RicordoCondanna ==
  ASSUME NEW x, x.fase \in {"cancella", "cancellaVuoto"}
  PROVE  RicordoDi(x) = Astratto!Ricordo("condanna", x.task, Astratto!Mancante)
BY StessoNiente DEF RicordoDi, Astratto!Ricordo, ConCopia

\* ... or nothing.
LEMMA RicordoNiente ==
  ASSUME NEW x, x.fase \notin ConRicordo
  PROVE  RicordoDi(x) = Astratto!Niente
BY StessoNiente DEF RicordoDi, Astratto!Niente, Astratto!Ricordo, ConRicordo

\* Phase, task and copy are all that is remembered.
LEMMA RicordoDipendeDa ==
  ASSUME NEW x, NEW y, x.fase = y.fase, x.task = y.task, x.letto = y.letto
  PROVE  RicordoDi(x) = RicordoDi(y)
BY DEF RicordoDi

\* The idle operation remembers nothing.
LEMMA FermaNiente == RicordoDi(Ferma) = Astratto!Niente
<1>1. Ferma.fase \notin ConRicordo
  BY DEF Ferma, ConRicordo, ConCopia
<1> QED
  BY <1>1, RicordoNiente

\* A step shows in the memory of its own operation alone.
LEMMA AstrattoProsegui ==
  ASSUME Tipi, NEW o \in Operazioni, NEW dopo, Prosegui(o, dopo)
  PROVE  Ricordi' = [Ricordi EXCEPT ![o] = RicordoDi(dopo)]
<1>1. /\ op'[o] = dopo
      /\ \A x \in Operazioni : x # o => op'[x] = op[x]
  BY DEF Tipi, TipiOp, Prosegui
<1> QED
  BY <1>1 DEF Ricordi

\* Leaving a DelegaTask screen does not show.
LEMMA SmontataInvisibile ==
  ASSUME Tipi, NEW u \in Utenti, NEW o \in Operazioni
  PROVE  RicordoDi(Smontata(u)[o]) = RicordoDi(op[o])
<1>1. /\ Smontata(u)[o].fase = op[o].fase
      /\ Smontata(u)[o].task = op[o].task
      /\ Smontata(u)[o].letto = op[o].letto
  BY DEF Smontata, Tipi, TipiOp, Operazione
<1> QED
  BY <1>1, RicordoDipendeDa

\* Whatever ends with its task out of mind, and the collection as it was, is an
\* event: something was forgotten, at most.
LEMMA AstrattoDimentica ==
  ASSUME NEW o \in Operazioni, Ricordi' = [Ricordi EXCEPT ![o] = Astratto!Niente],
         UNCHANGED <<todo, creati>>
  PROVE  Astratto!Evento
<1>1. Ricordi' = [x \in Operazioni |-> IF x \in {o} THEN Astratto!Niente
                                                   ELSE Ricordi[x]]
  BY DEF Ricordi
<1>2. Astratto!Dimentica({o})
  BY <1>1 DEF Astratto!Dimentica, Ricordi
<1>3. {o} \in SUBSET Operazioni
  OBVIOUS
<1> QED
  BY <1>2, <1>3 DEF Astratto!Evento

\* So it is when one call ends, ...
LEMMA AstrattoFerma ==
  ASSUME Tipi, NEW o \in Operazioni, Prosegui(o, Ferma),
         UNCHANGED <<todo, creati>>
  PROVE  Astratto!Evento
BY AstrattoProsegui, FermaNiente, AstrattoDimentica

\* ... or goes on to a phase that remembers nothing.
LEMMA AstrattoInvisibile ==
  ASSUME Tipi, NEW o \in Operazioni, NEW dopo, Prosegui(o, dopo),
         dopo.fase \notin ConRicordo, UNCHANGED <<todo, creati>>
  PROVE  Astratto!Evento
BY AstrattoProsegui, RicordoNiente, AstrattoDimentica

-----------------------------------------------------------------------------
(* Looking and deciding.                                                   *)

\* A list that is loaded, a document that a delegation reads: the task as it is.
LEMMA AstrattoGuarda ==
  ASSUME Tipi, NEW o \in Operazioni, NEW t \in IdTodo, NEW dopo,
         Prosegui(o, dopo), dopo.fase \in ConCopia, dopo.task = t,
         dopo.letto = todo[t], todo[t].esiste,
         op[o].fase \notin {"completa", "cancella", "cancellaVuoto"},
         UNCHANGED <<todo, creati>>
  PROVE  Astratto!Evento
<1>1. Ricordi[o].tipo \in {"niente", "copia"}
  BY DEF Ricordi, RicordoDi
<1>2. Ricordi' = [Ricordi EXCEPT ![o] = Astratto!Ricordo("copia", t, todo[t])]
  BY AstrattoProsegui, RicordoCopia
<1>3. Astratto!Guarda(o, t)
  BY <1>1, <1>2 DEF Astratto!Guarda, Astratto!Tiene, Ricordi
<1> QED
  BY <1>3 DEF Astratto!Evento

\* The row on screen is its copy; its buttons open the dialog on it, or decide.
LEMMA AstrattoPremiRiga ==
  ASSUME Tipi, NEW o \in Operazioni, PremiRiga(o)
  PROVE  [Astratto!Evento]_(Astratto!stato)
<1>1. /\ op[o] \in Operazione
      /\ op[o].fase = "riga"
      /\ UNCHANGED <<todo, creati>>
  BY DEF PremiRiga, Tipi, TipiOp
<1>2. Ricordi[o] = Astratto!Ricordo("copia", op[o].task, op[o].letto)
  BY <1>1, RicordoCopia DEF Ricordi, ConCopia
<1>3. Ricordi[o].tipo = "copia" /\ Ricordi[o].task = op[o].task
      /\ Ricordi[o].copia = op[o].letto
  BY <1>2 DEF Astratto!Ricordo
<1>4. ASSUME NEW x, Prosegui(o, x), x.fase = "dialogo", x.task = op[o].task,
             x.letto = op[o].letto
      PROVE  UNCHANGED Astratto!stato
  <2>1. RicordoDi(x) = Ricordi[o]
    BY <1>2, <1>4, RicordoCopia DEF ConCopia
  <2>2. Ricordi' = [Ricordi EXCEPT ![o] = RicordoDi(x)]
    BY <1>4, AstrattoProsegui
  <2>3. Ricordi' = Ricordi
    BY <2>1, <2>2 DEF Ricordi
  <2> QED
    BY <1>1, <2>3 DEF Astratto!stato, Ricordi
<1>5. ASSUME NEW x, Prosegui(o, x),
             RicordoDi(x) \in
               {Astratto!Ricordo("segno", op[o].task,
                  [Inesistente EXCEPT !.completato = op[o].letto.completato]),
                Astratto!Ricordo("condanna", op[o].task, Inesistente)}
      PROVE  Astratto!Evento
  <2>1. Ricordi' = [Ricordi EXCEPT ![o] = RicordoDi(x)]
    BY <1>5, AstrattoProsegui
  <2>2. Astratto!Decide(o)
    BY <1>1, <1>3, <1>5, <2>1, StessoNiente
    DEF Astratto!Decide, Astratto!Tiene, Ricordi
  <2> QED
    BY <2>2 DEF Astratto!Evento
<1> DEFINE
      dialogo == [Fase(o, "dialogo") EXCEPT !.modifica = FALSE]
      segno == [Inesistente EXCEPT !.completato = op[o].letto.completato]
      completa == [Fase(o, "completa") EXCEPT !.modifica = FALSE, !.letto = segno]
      cancella == [Ferma EXCEPT !.fase = "cancella", !.attore = op[o].attore,
                                !.task = op[o].task]
<1>6. Prosegui(o, dialogo) \/ Prosegui(o, completa) \/ Prosegui(o, cancella)
  BY DEF PremiRiga
<1>7. /\ dialogo.fase = "dialogo"
      /\ dialogo.task = op[o].task
      /\ dialogo.letto = op[o].letto
  BY <1>1 DEF Fase, Operazione
<1>8. completa.fase = "completa" /\ completa.task = op[o].task
      /\ completa.letto = segno
  BY <1>1 DEF Fase, Operazione
<1>9. cancella.fase = "cancella" /\ cancella.task = op[o].task
  BY DEF Ferma
<1>10. RicordoDi(completa) = Astratto!Ricordo("segno", op[o].task, segno)
  <2> HIDE DEF completa, segno
  <2> QED
    BY <1>8, RicordoSegno
<1>11. RicordoDi(cancella) = Astratto!Ricordo("condanna", op[o].task, Inesistente)
  <2> HIDE DEF cancella
  <2> QED
    BY <1>9, RicordoCondanna, StessoNiente
<1> HIDE DEF dialogo, completa, cancella
<1> QED
  BY <1>4, <1>5, <1>6, <1>7, <1>10, <1>11

\* Saving the dialog passes its copy on to updateTodo.
LEMMA AstrattoSalvaDialogo ==
  ASSUME Tipi, NEW o \in Operazioni, SalvaDialogo(o)
  PROVE  UNCHANGED Astratto!stato
<1> DEFINE x == Fase(o, "set")
<1>1. /\ x.fase = "set" /\ x.task = op[o].task /\ x.letto = op[o].letto
      /\ op[o].fase = "dialogo"
      /\ Prosegui(o, x)
      /\ UNCHANGED <<todo, creati>>
  BY DEF SalvaDialogo, Fase, Tipi, TipiOp, Operazione
<1> HIDE DEF x
<1>2. RicordoDi(x) = Ricordi[o]
  BY <1>1, RicordoCopia DEF Ricordi, ConCopia
<1>3. Ricordi' = [Ricordi EXCEPT ![o] = RicordoDi(x)]
  BY <1>1, AstrattoProsegui
<1>4. Ricordi' = Ricordi
  BY <1>2, <1>3 DEF Ricordi
<1> QED
  BY <1>1, <1>4 DEF Astratto!stato, Ricordi

\* Opening DelegaTask takes the row away; the unmounted screen does not show.
LEMMA AstrattoApriDelega ==
  ASSUME Tipi, NEW o \in Operazioni, ApriDelega(o)
  PROVE  Astratto!Evento
<1> DEFINE u == op[o].attore
           x == [Ferma EXCEPT !.fase = "verifica", !.attore = u,
                              !.task = op[o].task, !.modifica = TRUE,
                              !.restanti = Utenti]
<1>1. u \in Utenti
  BY InCorsoTipi DEF ApriDelega
<1>2. x.fase = "verifica"
  BY DEF Ferma
<1>3. op' = [Smontata(u) EXCEPT ![o] = x] /\ UNCHANGED <<todo, creati>>
  BY DEF ApriDelega
<1> HIDE DEF u, x
<1>4. RicordoDi(x) = Astratto!Niente
  BY <1>2, RicordoNiente DEF ConRicordo, ConCopia
<1>5. \A y \in Operazioni :
        op'[y] = IF y = o THEN x ELSE Smontata(u)[y]
  BY <1>3 DEF Smontata
<1>6. \A y \in Operazioni :
        RicordoDi(op'[y]) = IF y = o THEN Astratto!Niente ELSE RicordoDi(op[y])
  BY <1>1, <1>4, <1>5, SmontataInvisibile
<1>7. Ricordi' = [Ricordi EXCEPT ![o] = Astratto!Niente]
  BY <1>6 DEF Ricordi
<1> QED
  BY <1>3, <1>7, AstrattoDimentica

\* What a user does on his screens.
LEMMA AstrattoComando ==
  ASSUME Tipi, NEW o \in Operazioni, Comando(o)
  PROVE  [Astratto!Evento]_(Astratto!stato)
<1>1. CASE \E u \in Utenti : AddTodo(o, u)
  <2>1. PICK u \in Utenti : AddTodo(o, u)
    BY <1>1
  <2> DEFINE x == [Ferma EXCEPT !.fase = "add", !.attore = u]
  <2>2. x.fase = "add" /\ Prosegui(o, x) /\ UNCHANGED <<todo, creati>>
    BY <2>1 DEF AddTodo, Ferma
  <2> HIDE DEF x
  <2> QED
    BY <2>2, AstrattoInvisibile DEF ConRicordo, ConCopia
<1>2. CASE \E u \in Utenti, t \in IdTodo : MostraRiga(o, u, t)
  <2>1. PICK u \in Utenti, t \in IdTodo : MostraRiga(o, u, t)
    BY <1>2
  <2> DEFINE x == [Ferma EXCEPT !.fase = "riga", !.attore = u, !.task = t,
                       !.letto = todo[t],
                       !.modifica = Contiene(todo[t].utenti, u)]
  <2>2. /\ x.fase = "riga" /\ x.task = t /\ x.letto = todo[t]
        /\ Prosegui(o, x) /\ UNCHANGED <<todo, creati>>
        /\ todo[t].esiste /\ op[o].fase = "ferma"
    BY <2>1 DEF MostraRiga, Ferma
  <2> HIDE DEF x
  <2> QED
    BY <2>2, AstrattoGuarda DEF ConCopia
<1>3. CASE \E t \in IdTodo : SostituisciRiga(o, t)
  <2>1. PICK t \in IdTodo : SostituisciRiga(o, t)
    BY <1>3
  <2> DEFINE x == [op[o] EXCEPT !.task = t, !.letto = todo[t]]
  <2>2. /\ x.fase = "riga" /\ x.task = t /\ x.letto = todo[t]
        /\ Prosegui(o, x) /\ UNCHANGED <<todo, creati>>
        /\ todo[t].esiste /\ op[o].fase = "riga"
    BY <2>1 DEF SostituisciRiga, Tipi, TipiOp, Operazione
  <2> HIDE DEF x
  <2> QED
    BY <2>2, AstrattoGuarda DEF ConCopia
<1>4. CASE PremiRiga(o)
  BY <1>4, AstrattoPremiRiga
<1>5. CASE SalvaDialogo(o)
  BY <1>5, AstrattoSalvaDialogo
<1>6. CASE Abbandona(o)
  BY <1>6, AstrattoFerma DEF Abbandona
<1>7. CASE ApriDelega(o)
  BY <1>7, AstrattoApriDelega
<1>8. CASE \E u, v \in Utenti : PremiUtente(o, u, v)
  <2>1. PICK u \in Utenti, v \in Utenti : PremiUtente(o, u, v)
    BY <1>8
  <2> DEFINE x == [Ferma EXCEPT
           !.fase = IF v \in delega[u].assegnati THEN "leggiTogli" ELSE "leggiAdd",
           !.attore = u, !.task = delega[u].task, !.utente = v,
           !.modifica = TRUE]
  <2>2. x.fase \in {"leggiTogli", "leggiAdd"}
    BY DEF Ferma
  <2>3. Prosegui(o, x) /\ UNCHANGED <<todo, creati>>
    BY <2>1 DEF PremiUtente
  <2> HIDE DEF x
  <2> QED
    BY <2>2, <2>3, AstrattoInvisibile DEF ConRicordo, ConCopia
<1> QED
  BY <1>1, <1>2, <1>3, <1>4, <1>5, <1>6, <1>7, <1>8 DEF Comando

-----------------------------------------------------------------------------
(* The calls of TodoRepository.                                            *)

\* A call in one of the phases that remember a task is about a task with an id.
LEMMA Presente ==
  ASSUME Tipi, NEW o \in Operazioni, op[o].fase \in ConRicordo
  PROVE  /\ op[o].task \in IdTodo
         /\ op[o].letto \in Task
         /\ Ricordi[o] = RicordoDi(op[o])
BY InCorsoTipi DEF ConRicordo, ConCopia, Ricordi

\* addTodo: a task with its author and nobody else.
LEMMA AstrattoNasce ==
  ASSUME Tipi, NEW o \in Operazioni, RepositoryAddTodo(o)
  PROVE  Astratto!Evento
<1> DEFINE u == op[o].attore
<1>1. PICK t \in IdTodo \ creati :
        /\ todo' = [todo EXCEPT ![t] = NuovoTask(u)]
        /\ creati' = creati \cup {t}
  BY DEF RepositoryAddTodo
<1>2. u \in Utenti /\ op[o].fase = "add" /\ Prosegui(o, Ferma)
  BY InCorsoTipi DEF RepositoryAddTodo
<1> HIDE DEF u
<1>3. Ricordi' = Ricordi
  <2>1. Ricordi[o] = Astratto!Niente
    BY <1>2, RicordoNiente DEF Ricordi, ConRicordo, ConCopia
  <2>2. Ricordi' = [Ricordi EXCEPT ![o] = Astratto!Niente]
    BY <1>2, AstrattoProsegui, FermaNiente
  <2> QED
    BY <2>1, <2>2 DEF Ricordi
<1>4. Aggiunto(Vuota, u) = [Astratto!Nessuna EXCEPT ![u] = 1]
  BY <1>2 DEF Aggiunto, Vuota, Astratto!Nessuna
<1>5. NuovoTask(u) = [esiste |-> TRUE,
                      utenti |-> [Astratto!Nessuna EXCEPT ![u] = 1],
                      completato |-> FALSE]
  BY <1>4 DEF NuovoTask
<1>6. Astratto!Nasce(t, u)
  BY <1>1, <1>3, <1>5 DEF Astratto!Nasce, Ricordi
<1> QED
  BY <1>2, <1>6 DEF Astratto!Evento

\* updateTodo puts the copy back, whatever has happened since.
LEMMA AstrattoRipristina ==
  ASSUME Tipi, NEW o \in Operazioni, UpdateTodo(o)
  PROVE  Astratto!Evento
<1>1. /\ op[o].fase = "set" /\ Prosegui(o, Ferma) /\ UNCHANGED creati
      /\ todo' = [todo EXCEPT ![op[o].task] = op[o].letto]
  BY DEF UpdateTodo
<1>2. Ricordi[o] = Astratto!Ricordo("copia", op[o].task, op[o].letto)
  BY <1>1, RicordoCopia DEF Ricordi, ConCopia
<1>3. /\ Ricordi[o].tipo = "copia"
      /\ Ricordi[o].task = op[o].task
      /\ Ricordi[o].copia = op[o].letto
  BY <1>2 DEF Astratto!Ricordo
<1>4. Ricordi' = [Ricordi EXCEPT ![o] = Astratto!Niente]
  BY <1>1, AstrattoProsegui, FermaNiente
<1>5. Astratto!Ripristina(o)
  BY <1>1, <1>3, <1>4
  DEF Astratto!Ripristina, Astratto!Diventa, Astratto!Tiene, Ricordi
<1> QED
  BY <1>5 DEF Astratto!Evento

\* completeTodo writes the completion alone.
LEMMA AstrattoSegna ==
  ASSUME Tipi, NEW o \in Operazioni, CompleteTodo(o)
  PROVE  Astratto!Evento
<1> DEFINE t == op[o].task
<1>1. /\ op[o].fase = "completa" /\ Prosegui(o, Ferma) /\ UNCHANGED creati
      /\ todo[t].esiste
      /\ todo' = [todo EXCEPT ![t] =
                    [todo[t] EXCEPT !.completato = ~op[o].letto.completato]]
  BY DEF CompleteTodo
<1>2. Ricordi[o] = Astratto!Ricordo("segno", t, op[o].letto)
  BY <1>1, RicordoSegno DEF Ricordi
<1>3. /\ Ricordi[o].tipo = "segno"
      /\ Ricordi[o].task = t
      /\ Ricordi[o].copia = op[o].letto
  BY <1>2 DEF Astratto!Ricordo
<1>4. Ricordi' = [Ricordi EXCEPT ![o] = Astratto!Niente]
  BY <1>1, AstrattoProsegui, FermaNiente
<1>5. Astratto!Segna(o)
  BY <1>1, <1>3, <1>4
  DEF Astratto!Segna, Astratto!Diventa, Astratto!Tiene, Ricordi
<1> QED
  BY <1>5 DEF Astratto!Evento

\* Either deletion takes the task that was condemned.
LEMMA AstrattoCancella ==
  ASSUME Tipi, NEW o \in Operazioni, op[o].fase \in {"cancella", "cancellaVuoto"},
         todo' = [todo EXCEPT ![op[o].task] = Inesistente],
         Prosegui(o, Ferma), UNCHANGED creati
  PROVE  Astratto!Evento
<1>1. Ricordi[o] = Astratto!Ricordo("condanna", op[o].task, Astratto!Mancante)
  BY RicordoCondanna DEF Ricordi
<1>2. Ricordi[o].tipo = "condanna" /\ Ricordi[o].task = op[o].task
  BY <1>1 DEF Astratto!Ricordo
<1>3. Ricordi' = [Ricordi EXCEPT ![o] = Astratto!Niente]
  BY AstrattoProsegui, FermaNiente
<1>4. Astratto!Cancella(o)
  BY <1>2, <1>3, StessoNiente
  DEF Astratto!Cancella, Astratto!Diventa, Astratto!Tiene, Ricordi
<1> QED
  BY <1>4 DEF Astratto!Evento

\* A delegation writes the list that it had read, changed at one user, and
\* either is done or has condemned the task that it has just emptied.
LEMMA AstrattoDelega ==
  ASSUME Tipi, NEW o \in Operazioni, NEW u \in Utenti, NEW l, NEW r,
         op[o].fase \in ConCopia, todo[op[o].task].esiste,
         \/ l = Aggiunto(op[o].letto.utenti, u)
         \/ op[o].letto.utenti[u] > 0 /\ l = Tolto(op[o].letto.utenti, u),
         todo' = [todo EXCEPT ![op[o].task] = ConUtenti(op[o].task, op[o].letto, l)],
         Ricordi' = [Ricordi EXCEPT ![o] = r],
         r = IF l = Vuota
             THEN Astratto!Ricordo("condanna", op[o].task, Inesistente)
             ELSE Astratto!Niente,
         UNCHANGED creati
  PROVE  Astratto!Evento
<1> DEFINE t == op[o].task
           c == op[o].letto.utenti
<1>1. Ricordi[o] = Astratto!Ricordo("copia", t, op[o].letto)
  BY RicordoCopia DEF Ricordi
<1>2. /\ Ricordi[o].tipo = "copia"
      /\ Ricordi[o].task = t
      /\ Ricordi[o].copia = op[o].letto
  BY <1>1 DEF Astratto!Ricordo
<1>3. todo' = [todo EXCEPT ![t] = [todo[t] EXCEPT !.utenti = l]]
  BY DEF ConUtenti
<1>4. l \in {[c EXCEPT ![u] = @ + 1]}
              \cup (IF c[u] > 0 THEN {[c EXCEPT ![u] = @ - 1]} ELSE {})
  BY DEF Aggiunto, Tolto
<1>5. todo[t].esiste
  OBVIOUS
<1>6. Astratto!Diventa(t, [todo[t] EXCEPT !.utenti = l])
  BY <1>3 DEF Astratto!Diventa
<1>7. Astratto!Tiene(o, IF l = Astratto!Nessuna
                        THEN Astratto!Ricordo("condanna", t, Astratto!Mancante)
                        ELSE Astratto!Niente)
  BY StessoNiente DEF Astratto!Tiene, Ricordi
<1> HIDE DEF t
<1>8. Astratto!Delega(o, u)
  BY <1>2, <1>4, <1>5, <1>6, <1>7 DEF Astratto!Delega, Ricordi
<1> QED
  BY <1>8 DEF Astratto!Evento

\* addUserToTodo.
LEMMA AstrattoScriviAdd ==
  ASSUME Tipi, NEW o \in Operazioni, ScriviAdd(o)
  PROVE  Astratto!Evento
<1> DEFINE u == op[o].utente
           l == Aggiunto(op[o].letto.utenti, u)
<1>1. /\ op[o].fase = "scriviAdd" /\ Prosegui(o, Ferma) /\ UNCHANGED creati
      /\ todo[op[o].task].esiste
      /\ todo' = [todo EXCEPT ![op[o].task] = ConUtenti(op[o].task, op[o].letto, l)]
  BY DEF ScriviAdd
<1>2. u \in Utenti /\ op[o].letto.utenti \in Lista
  BY <1>1, InCorsoTipi DEF ConUtente
<1>3. op[o].letto.utenti[u] < MaxVolte
  BY <1>1 DEF Tipi, TipiOp, BenFormata
<1>4. l # Vuota
  BY <1>2, <1>3, AggiuntoLista
<1>5. Ricordi' = [Ricordi EXCEPT ![o] = Astratto!Niente]
  BY <1>1, AstrattoProsegui, FermaNiente
<1>6. l = Aggiunto(op[o].letto.utenti, u)
  OBVIOUS
<1> HIDE DEF u, l
<1>7. op[o].fase \in ConCopia
  BY <1>1 DEF ConCopia
<1> QED
  BY <1>1, <1>2, <1>4, <1>5, <1>6, <1>7, AstrattoDelega

\* removeUserFromTodo.
LEMMA AstrattoScriviTogli ==
  ASSUME Tipi, NEW o \in Operazioni, ScriviTogli(o)
  PROVE  Astratto!Evento
<1> DEFINE u == op[o].utente
           l == Tolto(op[o].letto.utenti, u)
           x == [Fase(o, "cancellaVuoto") EXCEPT !.letto = Inesistente]
           dopo == IF l = Vuota THEN x ELSE Ferma
<1>1. /\ op[o].fase = "scriviTogli" /\ Prosegui(o, dopo) /\ UNCHANGED creati
      /\ todo[op[o].task].esiste
      /\ todo' = [todo EXCEPT ![op[o].task] = ConUtenti(op[o].task, op[o].letto, l)]
  BY DEF ScriviTogli, DaCancellare
<1>2. u \in Utenti
  BY <1>1, InCorsoTipi DEF ConUtente
<1>3. op[o].letto.utenti[u] > 0
  BY <1>1 DEF Tipi, TipiOp, BenFormata
<1>4. x.fase = "cancellaVuoto" /\ x.task = op[o].task
  BY DEF Fase, Tipi, TipiOp, Operazione
<1>5. RicordoDi(dopo) =
        IF l = Vuota THEN Astratto!Ricordo("condanna", op[o].task, Inesistente)
                     ELSE Astratto!Niente
  <2> HIDE DEF x, l
  <2> QED
    BY <1>4, RicordoCondanna, StessoNiente, FermaNiente
<1>6. l = Tolto(op[o].letto.utenti, u)
  OBVIOUS
<1> HIDE DEF u, l, x, dopo
<1>7. Ricordi' = [Ricordi EXCEPT ![o] = RicordoDi(dopo)]
  BY <1>1, AstrattoProsegui
<1>8. op[o].fase \in ConCopia
  BY <1>1 DEF ConCopia
<1> QED
  BY <1>1, <1>2, <1>3, <1>5, <1>6, <1>7, <1>8, AstrattoDelega

\* The two readings.
LEMMA AstrattoLeggi ==
  ASSUME Tipi, NEW o \in Operazioni, LeggiAdd(o) \/ LeggiTogli(o)
  PROVE  Astratto!Evento
<1> DEFINE t == op[o].task
<1>1. ASSUME NEW f \in {"scriviAdd", "scriviTogli"},
             op[o].fase \in {"leggiAdd", "leggiTogli"}, todo[t].esiste,
             Prosegui(o, [Fase(o, f) EXCEPT !.letto = todo[t]]),
             UNCHANGED <<todo, creati>>
      PROVE  Astratto!Evento
  <2> DEFINE x == [Fase(o, f) EXCEPT !.letto = todo[t]]
  <2>1. x.fase = f /\ x.task = t /\ x.letto = todo[t]
    BY DEF Fase, Tipi, TipiOp, Operazione
  <2>2. t \in IdTodo
    BY <1>1, InCorsoTipi
  <2>3. Prosegui(o, x)
    BY <1>1
  <2> HIDE DEF x
  <2> QED
    BY <1>1, <2>1, <2>2, <2>3, AstrattoGuarda DEF ConCopia
<1>2. CASE LeggiAdd(o)
  BY <1>1, <1>2 DEF LeggiAdd
<1>3. CASE LeggiTogli(o)
  BY <1>1, <1>3 DEF LeggiTogli
<1> QED
  BY <1>2, <1>3

\* Every awaited call is an event of Incarichi or invisible there.
LEMMA AstrattoPasso ==
  ASSUME Tipi, NEW o \in Operazioni, Passo(o)
  PROVE  Astratto!Evento
<1>1. CASE RepositoryAddTodo(o)
  BY <1>1, AstrattoNasce
<1>2. CASE UpdateTodo(o)
  BY <1>2, AstrattoRipristina
<1>3. CASE CompleteTodo(o)
  BY <1>3, AstrattoSegna
<1>4. CASE DeleteTodo(o)
  BY <1>4, AstrattoCancella DEF DeleteTodo
<1>5. CASE UtenteAssegnato(o)
  <2>1. PICK S, T : /\ Prosegui(o, [op[o] EXCEPT !.restanti = S, !.assegnati = T])
                    /\ UNCHANGED <<todo, creati>>
    BY <1>5 DEF UtenteAssegnato
  <2> DEFINE x == [op[o] EXCEPT !.restanti = S, !.assegnati = T]
  <2>2. x.fase = "verifica" /\ Prosegui(o, x)
    BY <1>5, <2>1 DEF UtenteAssegnato, Tipi, TipiOp, Operazione
  <2> HIDE DEF x
  <2> QED
    BY <2>1, <2>2, AstrattoInvisibile DEF ConRicordo, ConCopia
<1>6. CASE FineVerifica(o)
  BY <1>6, AstrattoFerma DEF FineVerifica
<1>7. CASE LeggiAdd(o) \/ LeggiTogli(o)
  BY <1>7, AstrattoLeggi
<1>8. CASE ScriviAdd(o)
  BY <1>8, AstrattoScriviAdd
<1>9. CASE ScriviTogli(o)
  BY <1>9, AstrattoScriviTogli
<1>10. CASE CancellaVuoto(o)
  BY <1>10, AstrattoCancella DEF CancellaVuoto
<1>11. CASE Fallisce(o)
  BY <1>11, AstrattoFerma DEF Fallisce
<1> QED
  BY <1>1, <1>2, <1>3, <1>4, <1>5, <1>6, <1>7, <1>8, <1>9, <1>10, <1>11 DEF Passo

-----------------------------------------------------------------------------

\* Closing DelegaTask does not show.
LEMMA AstrattoChiudiDelega ==
  ASSUME Tipi, NEW u \in Utenti, ChiudiDelega(u)
  PROVE  UNCHANGED Astratto!stato
<1>1. \A o \in Operazioni : op'[o] = Smontata(u)[o]
  BY DEF ChiudiDelega
<1>2. \A o \in Operazioni : RicordoDi(op'[o]) = RicordoDi(op[o])
  BY <1>1, SmontataInvisibile
<1>3. Ricordi' = Ricordi
  BY <1>2 DEF Ricordi
<1> QED
  BY <1>3 DEF ChiudiDelega, Astratto!stato, Ricordi

\* Whoever closes the application forgets everything.
LEMMA AstrattoChiudiApp ==
  ASSUME Tipi, NEW u \in Utenti, ChiudiApp(u)
  PROVE  Astratto!Evento
<1> DEFINE O == {o \in Operazioni : op[o].attore = u}
<1>1. \A o \in Operazioni : op'[o] = IF o \in O THEN Ferma ELSE op[o]
  BY DEF ChiudiApp
<1>2. Ricordi' = [o \in Operazioni |-> IF o \in O THEN Astratto!Niente
                                                  ELSE Ricordi[o]]
  BY <1>1, FermaNiente DEF Ricordi
<1>3. UNCHANGED <<todo, creati>> /\ O \in SUBSET Operazioni
  BY DEF ChiudiApp
<1> HIDE DEF O
<1>4. Astratto!Dimentica(O)
  BY <1>2, <1>3 DEF Astratto!Dimentica, Ricordi
<1> QED
  BY <1>3, <1>4 DEF Astratto!Evento

\* The initial states correspond: no task, and nobody remembers one.
LEMMA AstrattoInit == Init => Astratto!Inizio
<1> SUFFICES ASSUME Init PROVE Astratto!Inizio
  OBVIOUS
<1>1. Ricordi = [o \in Operazioni |-> Astratto!Niente]
  BY FermaNiente DEF Init, Ricordi
<1> QED
  BY <1>1, StessoNiente DEF Init, Astratto!Inizio, Ricordi

\* Steps correspond.
LEMMA AstrattoNext == Tipi /\ [Next]_vars => [Astratto!Evento]_(Astratto!stato)
<1> SUFFICES ASSUME Tipi, [Next]_vars
             PROVE  [Astratto!Evento]_(Astratto!stato)
  OBVIOUS
<1>1. CASE UNCHANGED vars
  BY <1>1 DEF vars, Astratto!stato, RicordoDi
<1>2. CASE Next
  BY <1>2, AstrattoComando, AstrattoPasso, AstrattoChiudiDelega,
     AstrattoChiudiApp DEF Next
<1> QED
  BY <1>1, <1>2

\* However the calls of TodoRepository interleave, and whichever of them fail, a
\* task changes only as Incarichi allows: by the memory that one operation holds,
\* used once.  In particular a delegation changes one user of the list it had
\* read and nothing else, and only an edit can bring a deleted task back.
THEOREM Raffinamento == Spec => RaffinaIncarichi
BY TipiInit, TipiNext, AstrattoInit, AstrattoNext, PTL
DEF Spec, RaffinaIncarichi, Astratto!Storia

=============================================================================
