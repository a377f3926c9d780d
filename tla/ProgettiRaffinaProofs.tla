------------------------ MODULE ProgettiRaffinaProofs ------------------------
(***************************************************************************)
(* Progetti implements Iscrizioni, for any number of users, projects,      *)
(* codes and simultaneous operations: the initial states correspond and    *)
(* every step is a step of Iscrizioni or changes nothing there.            *)
(***************************************************************************)
EXTENDS ProgettiRaffina, ProgettiProofs

\* The abstract state.
Vivo == [p \in IdProgetti |-> progetti[p].esiste]
Membri == [p \in IdProgetti |-> progetti[p].partecipanti]
Intenti == [o \in Operazioni |-> IntentoDi(op[o])]

\* A step that writes nothing shows in the intent of its own operation alone.
LEMMA AstrattoProsegui ==
  ASSUME Tipi, NEW o \in Operazioni, NEW dopo, Prosegui(o, dopo)
  PROVE  /\ Vivo' = Vivo
         /\ Membri' = Membri
         /\ Intenti' = [Intenti EXCEPT ![o] = IntentoDi(dopo)]
<1>1. /\ op'[o] = dopo
      /\ \A x \in Operazioni : x # o => op'[x] = op[x]
      /\ progetti' = progetti
  BY EffettoProsegui
<1>2. QED
  BY <1>1 DEF Vivo, Membri, Intenti

\* The intent of an operation depends on its phase, its project and its list.
LEMMA IntentoDipendeDa ==
  ASSUME NEW x, NEW y, x.fase = y.fase, x.progetto = y.progetto,
         x.letti = y.letti
  PROVE  IntentoDi(x) = IntentoDi(y)
  BY DEF IntentoDi

\* A write shows in its own project and in the intent of its own operation.
LEMMA AstrattoScrivi ==
  ASSUME Tipi, NEW o \in Operazioni, NEW p \in IdProgetti, NEW doc, NEW dopo,
         Scrivi(o, p, doc, dopo)
  PROVE  /\ Vivo' = [Vivo EXCEPT ![p] = doc.esiste]
         /\ Membri' = [Membri EXCEPT ![p] = doc.partecipanti]
         /\ Intenti' = [Intenti EXCEPT ![o] = IntentoDi(dopo)]
<1>1. /\ op'[o] = dopo
      /\ \A x \in Operazioni : x # o =>
           /\ op'[x].fase = op[x].fase
           /\ op'[x].progetto = op[x].progetto
           /\ op'[x].letti = op[x].letti
      /\ progetti'[p] = doc
      /\ \A q \in IdProgetti : q # p => progetti'[q] = progetti[q]
  BY EffettoScrivi
<1>2. \A x \in Operazioni : x # o => IntentoDi(op'[x]) = IntentoDi(op[x])
  BY <1>1, IntentoDipendeDa
<1>3. Vivo' = [Vivo EXCEPT ![p] = doc.esiste]
  BY <1>1 DEF Vivo
<1>4. Membri' = [Membri EXCEPT ![p] = doc.partecipanti]
  BY <1>1 DEF Membri
<1>5. Intenti' = [Intenti EXCEPT ![o] = IntentoDi(dopo)]
  BY <1>1, <1>2 DEF Intenti
<1>6. QED
  BY <1>3, <1>4, <1>5

\* Outside its two windows an operation intends nothing.
LEMMA FuoriFinestra ==
  ASSUME NEW x, x.fase \notin {"scrivi", "elimina"}
  PROVE  IntentoDi(x) = Astratto!Niente
  BY DEF IntentoDi, Astratto!Niente

\* What an operation that leaves no window behind does without writing is
\* invisible, or it gives up an intent.
LEMMA InvisibileORinuncia ==
  ASSUME Tipi, NEW o \in Operazioni, NEW dopo, Prosegui(o, dopo),
         IntentoDi(dopo) = Astratto!Niente,
         UNCHANGED <<creatore, codiceIniziale, codiciUsati>>
  PROVE  Astratto!Evento
<1>1. /\ Vivo' = Vivo
      /\ Membri' = Membri
      /\ Intenti' = [Intenti EXCEPT ![o] = Astratto!Niente]
  BY AstrattoProsegui
<1>2. Intenti' = [x \in Operazioni |-> IF x \in {o} THEN Astratto!Niente
                                                   ELSE Intenti[x]]
  BY <1>1 DEF Intenti
<1>3. Astratto!Rinuncia({o})
  BY <1>1, <1>2 DEF Astratto!Rinuncia, Vivo, Membri, Intenti
<1>4. {o} \in SUBSET Operazioni
  OBVIOUS
<1>5. QED
  BY <1>3, <1>4 DEF Astratto!Evento

-----------------------------------------------------------------------------

\* Starting an operation opens no window; submitting a code makes it known.
LEMMA AstrattoComando ==
  ASSUME Tipi, NEW o \in Operazioni, Comando(o)
  PROVE  [Astratto!Evento]_(Astratto!stato)
<1>1. ASSUME NEW f \in {"crea", "cercaCodice", "verifica", "leggi", "ricarica"},
             NEW u, NEW p, NEW c, Avvia(o, f, u, p, c)
      PROVE  /\ Vivo' = Vivo
             /\ Membri' = Membri
             /\ Intenti' = Intenti
  <2> DEFINE x == [Ferma EXCEPT !.fase = f, !.utente = u,
                                !.progetto = p, !.codice = c]
  <2>1. Prosegui(o, x) /\ op[o].fase = "ferma"
    BY <1>1 DEF Avvia
  <2>2. x.fase = f
    BY DEF Ferma
  <2> HIDE DEF x
  <2>3. IntentoDi(x) = Astratto!Niente /\ IntentoDi(op[o]) = Astratto!Niente
    BY <2>1, <2>2, FuoriFinestra
  <2>4. /\ Vivo' = Vivo
        /\ Membri' = Membri
        /\ Intenti' = [Intenti EXCEPT ![o] = IntentoDi(x)]
    BY <2>1, AstrattoProsegui
  <2>5. QED
    BY <2>3, <2>4 DEF Intenti
<1>2. CASE \E u \in Utenti, c \in Codici : AggiungiPartecipanteConCodice(o, u, c)
  <2>1. PICK u \in Utenti, c \in Codici : AggiungiPartecipanteConCodice(o, u, c)
    BY <1>2
  <2>2. Avvia(o, "cercaCodice", u, Nessuno, c)
    BY <2>1 DEF AggiungiPartecipanteConCodice
  <2>3. Vivo' = Vivo /\ Membri' = Membri /\ Intenti' = Intenti
    BY <2>2, <1>1
  <2>4. Astratto!Impara(u, c)
    BY <2>1, <2>3 DEF AggiungiPartecipanteConCodice, Astratto!Impara,
                      Vivo, Membri, Intenti
  <2>5. QED
    BY <2>4 DEF Astratto!Evento
<1>3. ASSUME NEW f \in {"crea", "verifica", "leggi", "ricarica"},
             NEW u, NEW p, NEW c, Avvia(o, f, u, p, c), UNCHANGED storia
      PROVE  UNCHANGED Astratto!stato
  <2>1. Vivo' = Vivo /\ Membri' = Membri /\ Intenti' = Intenti
    BY <1>3, <1>1
  <2>2. QED
    BY <1>3, <2>1 DEF Astratto!stato, storia, Vivo, Membri, Intenti
<1>4. CASE \E u \in Utenti : AddProgetto(o, u)
  BY <1>4, <1>3 DEF AddProgetto
<1>5. CASE \E u \in Utenti, p \in IdProgetti : AbbandonaProgetto(o, u, p)
  BY <1>5, <1>3 DEF AbbandonaProgetto
<1>6. CASE \E u \in Utenti, p \in IdProgetti : AggiornaProgetto(o, u, p)
  BY <1>6, <1>3 DEF AggiornaProgetto
<1>7. CASE \E u \in Utenti : Sincronizza(o, u)
  BY <1>7, <1>3 DEF Sincronizza
<1>8. QED
  BY <1>2, <1>4, <1>5, <1>6, <1>7 DEF Comando

\* What the reload, or nothing, that follows an operation intends.
LEMMA DopoNiente ==
  ASSUME NEW o \in Operazioni
  PROVE  /\ IntentoDi(Ferma) = Astratto!Niente
         /\ IntentoDi(Ricarica(o)) = Astratto!Niente
<1>1. Ferma.fase = "ferma" /\ Ricarica(o).fase = "ricarica"
  BY DEF Ferma, Ricarica
<1>2. QED
  BY <1>1, FuoriFinestra

\* Founding a project: the only creation of a document by creaProgetto.
LEMMA AstrattoCrea ==
  ASSUME Tipi, NEW o \in Operazioni, CreaProgetto(o)
  PROVE  Astratto!Evento
<1> DEFINE u == op[o].utente
<1>1. PICK p \in IdProgetti, c \in Codici :
        /\ creatore[p] = Nessuno
        /\ Scrivi(o, p, NuovoProgetto(u, c), Ricarica(o))
        /\ creatore' = [creatore EXCEPT ![p] = u]
        /\ codiceIniziale' = [codiceIniziale EXCEPT ![p] = c]
  BY DEF CreaProgetto
<1>2. u \in Utenti /\ codiciUsati' = codiciUsati
  BY DEF CreaProgetto, Tipi, TipiOp, BenFormata
<1>3. IntentoDi(Ricarica(o)) = Astratto!Niente /\ Intenti[o] = Astratto!Niente
  BY DopoNiente, FuoriFinestra DEF Intenti, CreaProgetto
<1>4. /\ Vivo' = [Vivo EXCEPT ![p] = TRUE]
      /\ Membri' = [Membri EXCEPT ![p] = {u}]
      /\ Intenti' = [Intenti EXCEPT ![o] = Astratto!Niente]
  <2>1. NuovoProgetto(u, c).esiste = TRUE /\ NuovoProgetto(u, c).partecipanti = {u}
    BY DEF NuovoProgetto
  <2>2. QED
    BY <1>1, <1>3, <2>1, AstrattoScrivi
<1>5. Intenti' = Intenti
  BY <1>3, <1>4 DEF Intenti
<1>6. Astratto!Fonda(p, u, c)
  BY <1>1, <1>2, <1>4, <1>5
  DEF Astratto!Fonda, Astratto!Diventa, Vivo, Membri, Intenti
<1>7. QED
  BY <1>2, <1>6 DEF Astratto!Evento

\* Entering with the code: what the search found is still the project that was
\* founded with the submitted code (Legittimita).
LEMMA AstrattoEntra ==
  ASSUME Tipi, Legittimita, NEW o \in Operazioni, AggiungiPartecipante(o)
  PROVE  Astratto!Evento
<1>1. PICK p \in IdProgetti, u \in Utenti :
        p = op[o].progetto /\ u = op[o].utente /\ p # Nessuno
  BY NessunoAssumption
  DEF AggiungiPartecipante, Tipi, TipiOp, BenFormata, ConProgetto
<1>2. codiceIniziale[p] \in codiciUsati[u]
  BY <1>1 DEF AggiungiPartecipante, Legittimita, OpLegittima
<1>3. progetti[p].esiste /\ UNCHANGED storia
      /\ Scrivi(o, p, ArrayUnion(progetti[p], u), Ricarica(o))
  BY <1>1 DEF AggiungiPartecipante
<1>4. /\ ArrayUnion(progetti[p], u).esiste = TRUE
      /\ ArrayUnion(progetti[p], u).partecipanti = progetti[p].partecipanti \cup {u}
  BY <1>1, <1>3 DEF ArrayUnion, Tipi, TipiOp, Documento
<1>5. IntentoDi(Ricarica(o)) = Astratto!Niente /\ Intenti[o] = Astratto!Niente
  BY DopoNiente, FuoriFinestra DEF Intenti, AggiungiPartecipante
<1>6. /\ Vivo' = [Vivo EXCEPT ![p] = TRUE]
      /\ Membri' = [Membri EXCEPT ![p] = Membri[p] \cup {u}]
      /\ Intenti' = Intenti
  <2>1. /\ Vivo' = [Vivo EXCEPT ![p] = TRUE]
        /\ Membri' = [Membri EXCEPT ![p] = progetti[p].partecipanti \cup {u}]
        /\ Intenti' = [Intenti EXCEPT ![o] = Astratto!Niente]
    BY <1>1, <1>3, <1>4, <1>5, AstrattoScrivi
  <2>2. QED
    BY <1>1, <1>5, <2>1 DEF Membri, Intenti
<1>7. Astratto!Entra(p, u)
  BY <1>1, <1>2, <1>3, <1>6
  DEF Astratto!Entra, Astratto!Diventa, Vivo, Membri, Intenti, storia
<1>8. QED
  BY <1>1, <1>7 DEF Astratto!Evento

\* Leaving: the arrayRemove of abbandonaProgetto.
LEMMA AstrattoEsce ==
  ASSUME Tipi, NEW o \in Operazioni, RimuoviPartecipante(o)
  PROVE  Astratto!Evento
<1> DEFINE dopo == [op[o] EXCEPT !.fase = "leggiLista"]
<1>1. PICK p \in IdProgetti, u \in Utenti :
        p = op[o].progetto /\ u = op[o].utente /\ UNCHANGED storia
  BY DEF RimuoviPartecipante, Tipi, TipiOp, BenFormata, ConProgetto
<1>2. CASE progetti[p].esiste
  <2>1. Scrivi(o, p, ArrayRemove(progetti[p], u), dopo)
    BY <1>1, <1>2 DEF RimuoviPartecipante
  <2>2. /\ ArrayRemove(progetti[p], u).esiste = TRUE
        /\ ArrayRemove(progetti[p], u).partecipanti = progetti[p].partecipanti \ {u}
    BY <1>1, <1>2 DEF ArrayRemove, Tipi, TipiOp, Documento
  <2>3. dopo.fase = "leggiLista"
    BY DEF Tipi, TipiOp, Operazione
  <2>4. IntentoDi(dopo) = Astratto!Niente /\ Intenti[o] = Astratto!Niente
    BY <2>3, FuoriFinestra DEF Intenti, RimuoviPartecipante
  <2> HIDE DEF dopo
  <2>5. /\ Vivo' = [Vivo EXCEPT ![p] = TRUE]
        /\ Membri' = [Membri EXCEPT ![p] = progetti[p].partecipanti \ {u}]
        /\ Intenti' = [Intenti EXCEPT ![o] = Astratto!Niente]
    BY <1>1, <2>1, <2>2, <2>4, AstrattoScrivi
  <2>6. Membri[p] = progetti[p].partecipanti /\ Intenti' = Intenti
    BY <1>1, <2>4, <2>5 DEF Membri, Intenti
  <2>7. Astratto!Esce(p, u)
    BY <1>1, <1>2, <2>5, <2>6
    DEF Astratto!Esce, Astratto!Diventa, Vivo, Membri, Intenti, storia
  <2>8. QED
    BY <1>1, <2>7 DEF Astratto!Evento
<1>3. CASE ~progetti[p].esiste
  BY <1>1, <1>3, DopoNiente, InvisibileORinuncia
  DEF RimuoviPartecipante, storia
<1>4. QED
  BY <1>2, <1>3

\* Opening a window: an edit has read, or a leave has found the list empty.
LEMMA AstrattoLegge ==
  ASSUME Tipi, NEW o \in Operazioni, GetProgettoById(o)
  PROVE  Astratto!Evento
<1> DEFINE p == op[o].progetto
           dopo == [op[o] EXCEPT !.fase = "scrivi",
                                 !.codice = progetti[p].codice,
                                 !.letti = progetti[p].partecipanti]
<1>1. p \in IdProgetti /\ UNCHANGED storia /\ op[o] \in Operazione
  BY DEF GetProgettoById, Tipi, TipiOp, BenFormata, ConProgetto
<1>2. CASE progetti[p].esiste
  <2>1. Prosegui(o, dopo)
    BY <1>2 DEF GetProgettoById
  <2>2. /\ dopo.fase = "scrivi"
        /\ dopo.progetto = p
        /\ dopo.letti = progetti[p].partecipanti
    BY <1>1 DEF Operazione
  <2> HIDE DEF dopo
  <2>3. IntentoDi(dopo) = [tipo |-> "riscrivi", progetto |-> p,
                           copia |-> progetti[p].partecipanti]
    BY <2>2 DEF IntentoDi
  <2>4. Intenti[o].tipo = "niente"
    BY FuoriFinestra DEF Intenti, GetProgettoById, Astratto!Niente
  <2>5. /\ Vivo' = Vivo
        /\ Membri' = Membri
        /\ Intenti' = [Intenti EXCEPT ![o] = IntentoDi(dopo)]
    BY <2>1, AstrattoProsegui
  <2>6. Astratto!Copia(o, p)
    BY <1>1, <1>2, <2>3, <2>4, <2>5
    DEF Astratto!Copia, Vivo, Membri, Intenti, storia
  <2> HIDE DEF p
  <2>7. QED
    BY <1>1, <2>6 DEF Astratto!Evento
<1>3. CASE ~progetti[p].esiste
  BY <1>1, <1>3, DopoNiente, InvisibileORinuncia DEF GetProgettoById, storia
<1>4. QED
  BY <1>2, <1>3

\* The verdict of getPartecipantiDelProgetto: nobody is left.
LEMMA AstrattoVede ==
  ASSUME Tipi, NEW o \in Operazioni, GetPartecipantiDelProgetto(o)
  PROVE  Astratto!Evento
<1> DEFINE p == op[o].progetto
           dopo == [op[o] EXCEPT !.fase = "elimina"]
<1>1. p \in IdProgetti /\ UNCHANGED storia /\ op[o] \in Operazione
  BY DEF GetPartecipantiDelProgetto, Tipi, TipiOp, BenFormata, ConProgetto
<1>2. CASE progetti[p].partecipanti = {}
  <2>1. Prosegui(o, dopo)
    BY <1>2 DEF GetPartecipantiDelProgetto, DaEliminare
  <2>2. dopo.fase = "elimina" /\ dopo.progetto = p
    BY <1>1 DEF Operazione
  <2> HIDE DEF dopo
  <2>3. IntentoDi(dopo) = [tipo |-> "cancella", progetto |-> p, copia |-> {}]
    BY <2>2 DEF IntentoDi
  <2>4. Intenti[o].tipo = "niente"
    BY FuoriFinestra DEF Intenti, GetPartecipantiDelProgetto, Astratto!Niente
  <2>5. /\ Vivo' = Vivo
        /\ Membri' = Membri
        /\ Intenti' = [Intenti EXCEPT ![o] = IntentoDi(dopo)]
    BY <2>1, AstrattoProsegui
  <2>6. Astratto!VedeVuoto(o, p)
    BY <1>1, <1>2, <2>3, <2>4, <2>5
    DEF Astratto!VedeVuoto, Vivo, Membri, Intenti, storia
  <2> HIDE DEF p
  <2>7. QED
    BY <1>1, <2>6 DEF Astratto!Evento
<1>3. CASE progetti[p].partecipanti # {}
  BY <1>1, <1>3, DopoNiente, InvisibileORinuncia
  DEF GetPartecipantiDelProgetto, DaEliminare, storia
<1>4. QED
  BY <1>2, <1>3

\* Using a window: the stale list goes back, or the project goes.
LEMMA AstrattoRiscrive ==
  ASSUME Tipi, NEW o \in Operazioni, SetProgetto(o)
  PROVE  Astratto!Evento
<1> DEFINE p == op[o].progetto
           doc == CopyWith(op[o].letti, op[o].codice)
<1>1. p \in IdProgetti /\ UNCHANGED storia /\ Scrivi(o, p, doc, Ferma)
  BY DEF SetProgetto, Tipi, TipiOp, BenFormata, ConProgetto
<1>2. doc.esiste = TRUE /\ doc.partecipanti = op[o].letti
  BY DEF CopyWith
<1>3. /\ Intenti[o].tipo = "riscrivi"
      /\ Intenti[o].progetto = p
      /\ Intenti[o].copia = op[o].letti
  BY DEF Intenti, IntentoDi, SetProgetto
<1> HIDE DEF doc
<1>4. /\ Vivo' = [Vivo EXCEPT ![p] = TRUE]
      /\ Membri' = [Membri EXCEPT ![p] = op[o].letti]
      /\ Intenti' = [Intenti EXCEPT ![o] = Astratto!Niente]
  BY <1>1, <1>2, DopoNiente, AstrattoScrivi
<1>5. Astratto!Riscrive(o)
  BY <1>1, <1>3, <1>4
  DEF Astratto!Riscrive, Astratto!Diventa, Vivo, Membri, Intenti, storia
<1>6. QED
  BY <1>5 DEF Astratto!Evento

\* The deletion that ends abbandonaProgetto.
LEMMA AstrattoCancella ==
  ASSUME Tipi, NEW o \in Operazioni, EliminaProgetto(o)
  PROVE  Astratto!Evento
<1> DEFINE p == op[o].progetto
<1>1. p \in IdProgetti /\ UNCHANGED storia
      /\ Scrivi(o, p, Inesistente, Ricarica(o))
  BY DEF EliminaProgetto, Tipi, TipiOp, BenFormata, ConProgetto
<1>2. Inesistente.esiste = FALSE /\ Inesistente.partecipanti = {}
  BY DEF Inesistente
<1>3. Intenti[o].tipo = "cancella" /\ Intenti[o].progetto = p
  BY DEF Intenti, IntentoDi, EliminaProgetto
<1>4. /\ Vivo' = [Vivo EXCEPT ![p] = FALSE]
      /\ Membri' = [Membri EXCEPT ![p] = {}]
      /\ Intenti' = [Intenti EXCEPT ![o] = Astratto!Niente]
  BY <1>1, <1>2, DopoNiente, AstrattoScrivi
<1>5. Astratto!Cancella(o)
  BY <1>1, <1>3, <1>4
  DEF Astratto!Cancella, Astratto!Diventa, Vivo, Membri, Intenti, storia
<1>6. QED
  BY <1>5 DEF Astratto!Evento

-----------------------------------------------------------------------------

\* Every awaited call is an event of Iscrizioni or invisible there.
LEMMA AstrattoPasso ==
  ASSUME Tipi, Legittimita, NEW o \in Operazioni, Passo(o)
  PROVE  Astratto!Evento
<1>a. op[o] \in Operazione
  BY DEF Tipi, TipiOp
<1>1. ASSUME NEW f \in {"unisci", "dialogo", "rimuovi"},
             Prosegui(o, [op[o] EXCEPT !.fase = f]), UNCHANGED storia
      PROVE  Astratto!Evento
  <2> DEFINE dopo == [op[o] EXCEPT !.fase = f]
  <2>1. dopo.fase = f
    BY <1>a DEF Operazione
  <2>2. Prosegui(o, dopo)
    BY <1>1
  <2> HIDE DEF dopo
  <2>3. IntentoDi(dopo) = Astratto!Niente
    BY <2>1, FuoriFinestra
  <2>4. QED
    BY <1>1, <2>2, <2>3, InvisibileORinuncia DEF storia
<1>2. ASSUME Prosegui(o, Ferma), UNCHANGED storia
      PROVE  Astratto!Evento
  BY <1>2, DopoNiente, InvisibileORinuncia DEF storia
<1>3. CASE CreaProgetto(o)
  BY <1>3, AstrattoCrea
<1>4. CASE GetProgettoIdByCodice(o)
  <2>1. PICK p \in ConCodice(op[o].codice) \cup {Nessuno} :
          Prosegui(o, [op[o] EXCEPT !.fase = "cercaElenco", !.progetto = p])
    BY <1>4 DEF GetProgettoIdByCodice
  <2> DEFINE dopo == [op[o] EXCEPT !.fase = "cercaElenco", !.progetto = p]
  <2>2. dopo.fase = "cercaElenco"
    BY <1>a DEF Operazione
  <2>3. Prosegui(o, dopo) /\ UNCHANGED storia
    BY <2>1, <1>4 DEF GetProgettoIdByCodice
  <2> HIDE DEF dopo
  <2>4. IntentoDi(dopo) = Astratto!Niente
    BY <2>2, FuoriFinestra
  <2>5. QED
    BY <2>3, <2>4, InvisibileORinuncia DEF storia
<1>5. CASE GetProgettiUtente(o)
  BY <1>5, <1>1 DEF GetProgettiUtente
<1>6. CASE AggiungiPartecipante(o)
  BY <1>6, AstrattoEntra
<1>7. CASE AggiungiPartecipanteFallisce(o)
  BY <1>7, <1>1 DEF AggiungiPartecipanteFallisce
<1>8. CASE MostraErrore(o)
  BY <1>8, <1>2 DEF MostraErrore
<1>9. CASE VerificaEsistenza(o)
  BY <1>9, <1>1, <1>2 DEF VerificaEsistenza
<1>10. CASE RimuoviPartecipante(o)
  BY <1>10, AstrattoEsce
<1>11. CASE GetPartecipantiDelProgetto(o)
  BY <1>11, AstrattoVede
<1>12. CASE EliminaProgetto(o)
  BY <1>12, AstrattoCancella
<1>13. CASE GetProgettoById(o)
  BY <1>13, AstrattoLegge
<1>14. CASE SetProgetto(o)
  BY <1>14, AstrattoRiscrive
<1>15. CASE CaricaProgettiUtente(o)
  BY <1>15, <1>2 DEF CaricaProgettiUtente
<1>16. CASE Fallisce(o)
  BY <1>16, <1>2 DEF Fallisce
<1>17. QED
  BY <1>3, <1>4, <1>5, <1>6, <1>7, <1>8, <1>9, <1>10, <1>11, <1>12, <1>13,
     <1>14, <1>15, <1>16 DEF Passo

\* Killing an application gives up whatever it intended.
LEMMA AstrattoChiudiApp ==
  ASSUME Tipi, NEW u \in Utenti, ChiudiApp(u)
  PROVE  Astratto!Evento
<1> DEFINE O == {o \in Operazioni : op[o].utente = u}
<1>1. Vivo' = Vivo /\ Membri' = Membri /\ UNCHANGED storia
  BY DEF ChiudiApp, Vivo, Membri
<1>2. \A o \in Operazioni : op'[o] = IF o \in O THEN Ferma ELSE op[o]
  BY DEF ChiudiApp
<1>3. IntentoDi(Ferma) = Astratto!Niente
  BY FuoriFinestra DEF Ferma
<1>4. Intenti' = [o \in Operazioni |-> IF o \in O THEN Astratto!Niente
                                                  ELSE Intenti[o]]
  BY <1>2, <1>3 DEF Intenti
<1> HIDE DEF O
<1>5. Astratto!Rinuncia(O)
  BY <1>1, <1>4 DEF Astratto!Rinuncia, Vivo, Membri, Intenti, storia
<1>6. O \in SUBSET Operazioni
  BY DEF O
<1>7. QED
  BY <1>5, <1>6 DEF Astratto!Evento

\* The initial states correspond: no project, nobody knows a code.
LEMMA AstrattoInit == Init => Astratto!Inizio
<1> SUFFICES ASSUME Init PROVE Astratto!Inizio
  OBVIOUS
<1>1. \A o \in Operazioni : op[o].fase = "ferma"
  BY DEF Init, Ferma
<1>2. \A o \in Operazioni : IntentoDi(op[o]) = Astratto!Niente
  BY <1>1, FuoriFinestra
<1>3. \A p \in IdProgetti : ~progetti[p].esiste /\ progetti[p].partecipanti = {}
  BY DEF Init, Inesistente
<1>4. Vivo = [p \in IdProgetti |-> FALSE] /\ Membri = [p \in IdProgetti |-> {}]
  <2>1. \A p \in IdProgetti : progetti[p].esiste = FALSE
    BY DEF Init, Inesistente
  <2>2. QED
    BY <1>3, <2>1 DEF Vivo, Membri
<1>5. Intenti = [o \in Operazioni |-> Astratto!Niente]
  BY <1>2 DEF Intenti
<1>6. QED
  BY <1>4, <1>5 DEF Init, Astratto!Inizio, Vivo, Membri, Intenti

\* Steps correspond.
LEMMA AstrattoNext ==
  InvLegittimita /\ [Next]_vars => [Astratto!Evento]_(Astratto!stato)
<1> SUFFICES ASSUME Tipi, Legittimita, [Next]_vars
             PROVE  [Astratto!Evento]_(Astratto!stato)
  BY DEF InvLegittimita
<1>1. CASE UNCHANGED vars
  BY <1>1 DEF vars, storia, Astratto!stato, IntentoDi
<1>2. CASE Next
  BY <1>2, AstrattoComando, AstrattoPasso, AstrattoChiudiApp DEF Next
<1>3. QED
  BY <1>1, <1>2

\* Whatever calls of RepositoryProgetto interleave, and whichever of them fail,
\* membership evolves as Iscrizioni says: one enters with the code, one leaves
\* by leaving or by a list put back, a project is deleted by whoever saw it
\* empty.
THEOREM Raffinamento == Spec => RaffinaIscrizioni
<1>1. Init => InvLegittimita
  BY TipiInit, LegittimitaInit DEF InvLegittimita
<1>2. QED
  BY <1>1, AstrattoInit, AstrattoNext, LegittimitaNext, PTL
  DEF Spec, RaffinaIscrizioni, Astratto!Storia

=============================================================================
