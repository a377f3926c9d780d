--------------------------- MODULE ProgettiProofs ---------------------------
(***************************************************************************)
(* Proofs of the safety invariants of Progetti, for any number of users,   *)
(* projects, codes and simultaneous operations: types, who may be among    *)
(* the participants, and then the races on participants, that is, what an  *)
(* edit or a deletion can clobber and who answers for a project without    *)
(* participants.                                                           *)
(***************************************************************************)
EXTENDS Progetti, TLAPS

\* The phases in which an operation has a project it will access.
ConProgetto == {"unisci", "verifica", "rimuovi", "leggiLista", "elimina",
                "leggi", "scrivi"}

\* An operation in flight has a user and, where it needs one, a project; only
\* an edit keeps a list of participants, so the others have "read" none.
BenFormata(x) ==
    /\ x \in Operazione
    /\ x.fase # "ferma" => x.utente \in Utenti
    /\ x.fase \in ConProgetto => x.progetto \in IdProgetti
    /\ x.fase # "scrivi" => x.letti = {}

\* The part of the type invariant about operations and documents.
TipiOp ==
    /\ op \in [Operazioni -> Operazione]
    /\ \A o \in Operazioni : BenFormata(op[o])
    /\ progetti \in [IdProgetti -> Documento]

Tipi == TypeOK /\ TipiOp

\* The idle operation is well formed.
LEMMA FermaBenFormata == BenFormata(Ferma)
  BY DEF BenFormata, Ferma, Operazione, Fasi, ConProgetto

\* An operation that has just started is well formed.
LEMMA AvviataBenFormata ==
  ASSUME NEW f \in {"crea", "cercaCodice", "verifica", "leggi", "ricarica"},
         NEW u \in Utenti, NEW p \in IdProgetti \cup {Nessuno},
         NEW c \in Codici \cup {Nessuno},
         f \in {"verifica", "leggi"} => p \in IdProgetti
  PROVE  BenFormata([Ferma EXCEPT !.fase = f, !.utente = u,
                                  !.progetto = p, !.codice = c])
  BY DEF BenFormata, Ferma, Operazione, Fasi, ConProgetto

\* So is what follows a success: the reload of the home list.
LEMMA RicaricaBenFormata ==
  ASSUME NEW o \in Operazioni, op[o].utente \in Utenti
  PROVE  BenFormata(Ricarica(o))
  BY DEF BenFormata, Ricarica, Ferma, Operazione, Fasi, ConProgetto

\* A step that writes nothing keeps the types when the operation it leaves
\* behind is well formed.
LEMMA ProseguiTipi ==
  ASSUME Tipi, NEW o \in Operazioni, NEW dopo, BenFormata(dopo),
         Prosegui(o, dopo)
  PROVE  TipiOp'
<1>1. dopo \in Operazione
  BY DEF BenFormata
<1>2. op' = [op EXCEPT ![o] = dopo] /\ progetti' = progetti
  BY DEF Prosegui
<1>3. op \in [Operazioni -> Operazione] /\ progetti \in [IdProgetti -> Documento]
  BY DEF Tipi, TipiOp
<1>4. \A x \in Operazioni : op'[x] = IF x = o THEN dopo ELSE op[x]
  BY <1>2, <1>3
<1>5. \A x \in Operazioni : BenFormata(op'[x])
  BY <1>4 DEF Tipi, TipiOp
<1>6. QED
  BY <1>1, <1>2, <1>3, <1>5 DEF TipiOp

\* A step that writes a document keeps the types.
LEMMA ScriviTipi ==
  ASSUME Tipi, NEW o \in Operazioni, NEW p \in IdProgetti,
         NEW doc \in Documento, NEW dopo, BenFormata(dopo),
         Scrivi(o, p, doc, dopo)
  PROVE  TipiOp'
<1>1. progetti' \in [IdProgetti -> Documento]
  BY DEF Scrivi, Tipi, TypeOK
<1>2. ASSUME NEW x \in Operazioni
      PROVE  BenFormata(op'[x])
  <2> DEFINE D == Differenza(progetti[p].partecipanti, doc.partecipanti)
  <2>1. D \in SUBSET Utenti
    BY DEF Tipi, TypeOK, Documento, Differenza
  <2>2. BenFormata([op[x] EXCEPT !.mutati = @ \cup D])
    <3> HIDE DEF D
    <3> QED BY <2>1 DEF Tipi, TipiOp, BenFormata, Operazione
  <2>3. op'[x] = IF x = o THEN dopo
                 ELSE IF Finestra(x, p) THEN [op[x] EXCEPT !.mutati = @ \cup D]
                 ELSE op[x]
    BY DEF Scrivi
  <2>4. QED
    BY <2>2, <2>3 DEF Tipi, TipiOp
<1>3. op' \in [Operazioni -> Operazione]
  <2>1. \A x \in Operazioni : op'[x] \in Operazione
    BY <1>2 DEF BenFormata
  <2>2. op' = [x \in Operazioni |-> op'[x]]
    BY DEF Scrivi
  <2>3. QED
    BY <2>1, <2>2
<1>4. QED
  BY <1>1, <1>2, <1>3 DEF TipiOp

\* So does the start of an operation.
LEMMA AvviaTipi ==
  ASSUME Tipi, NEW o \in Operazioni,
         NEW f \in {"crea", "cercaCodice", "verifica", "leggi", "ricarica"},
         NEW u \in Utenti, NEW p \in IdProgetti \cup {Nessuno},
         NEW c \in Codici \cup {Nessuno},
         f \in {"verifica", "leggi"} => p \in IdProgetti,
         Avvia(o, f, u, p, c)
  PROVE  TipiOp'
<1> DEFINE x == [Ferma EXCEPT !.fase = f, !.utente = u,
                              !.progetto = p, !.codice = c]
<1>1. BenFormata(x)
  BY AvviataBenFormata
<1>2. Prosegui(o, x)
  BY DEF Avvia
<1> HIDE DEF x
<1>3. QED
  BY <1>1, <1>2, ProseguiTipi

\* Initially, types and the shape of operations hold.
LEMMA TipiInit == Init => Tipi
  BY FermaBenFormata
  DEF Init, Tipi, TipiOp, TypeOK, Documento, Inesistente, BenFormata

\* Starting an operation keeps the types.
LEMMA TipiComando ==
  ASSUME Tipi, NEW o \in Operazioni, Comando(o)
  PROVE  Tipi'
<1>1. CASE \E u \in Utenti : AddProgetto(o, u)
  <2>1. TipiOp'
    BY <1>1, AvviaTipi DEF AddProgetto
  <2> QED BY <1>1, <2>1 DEF AddProgetto, Tipi, TipiOp, TypeOK, storia
<1>2. CASE \E u \in Utenti, c \in Codici : AggiungiPartecipanteConCodice(o, u, c)
  <2>1. TipiOp'
    BY <1>2, AvviaTipi DEF AggiungiPartecipanteConCodice
  <2> QED
    BY <1>2, <2>1 DEF AggiungiPartecipanteConCodice, Tipi, TipiOp, TypeOK
<1>3. CASE \E u \in Utenti, p \in IdProgetti : AbbandonaProgetto(o, u, p)
  <2>1. TipiOp'
    BY <1>3, AvviaTipi DEF AbbandonaProgetto
  <2> QED BY <1>3, <2>1 DEF AbbandonaProgetto, Tipi, TipiOp, TypeOK, storia
<1>4. CASE \E u \in Utenti, p \in IdProgetti : AggiornaProgetto(o, u, p)
  <2>1. TipiOp'
    BY <1>4, AvviaTipi DEF AggiornaProgetto
  <2> QED BY <1>4, <2>1 DEF AggiornaProgetto, Tipi, TipiOp, TypeOK, storia
<1>5. CASE \E u \in Utenti : Sincronizza(o, u)
  <2>1. TipiOp'
    BY <1>5, AvviaTipi DEF Sincronizza
  <2> QED BY <1>5, <2>1 DEF Sincronizza, Tipi, TipiOp, TypeOK, storia
<1>6. QED
  BY <1>1, <1>2, <1>3, <1>4, <1>5 DEF Comando

\* So does each call of Firestore.
LEMMA TipiPasso ==
  ASSUME Tipi, NEW o \in Operazioni, Passo(o)
  PROVE  Tipi'
<1> USE DEF Tipi
<1>a. BenFormata(op[o]) /\ op[o] \in Operazione
  BY DEF TipiOp
<1>b. op[o].fase # "ferma" => BenFormata(Ricarica(o))
  BY <1>a, RicaricaBenFormata DEF BenFormata
<1>c. \A p \in IdProgetti : progetti[p] \in Documento
  BY DEF TipiOp
<1>1. CASE CreaProgetto(o)
  <2>1. PICK p \in IdProgetti, c \in Codici :
          /\ Scrivi(o, p, NuovoProgetto(op[o].utente, c), Ricarica(o))
          /\ creatore' = [creatore EXCEPT ![p] = op[o].utente]
          /\ codiceIniziale' = [codiceIniziale EXCEPT ![p] = c]
    BY <1>1 DEF CreaProgetto
  <2>2. op[o].utente \in Utenti
    BY <1>1, <1>a DEF CreaProgetto, BenFormata
  <2>3. NuovoProgetto(op[o].utente, c) \in Documento
    BY <2>2 DEF NuovoProgetto, Documento
  <2>4. TipiOp'
    BY <1>1, <1>b, <2>1, <2>3, ScriviTipi DEF CreaProgetto
  <2> QED BY <1>1, <2>1, <2>2, <2>4 DEF CreaProgetto, TypeOK, TipiOp
<1>2. CASE GetProgettoIdByCodice(o)
  <2>1. PICK p \in ConCodice(op[o].codice) \cup {Nessuno} :
          Prosegui(o, [op[o] EXCEPT !.fase = "cercaElenco", !.progetto = p])
    BY <1>2 DEF GetProgettoIdByCodice
  <2>2. BenFormata([op[o] EXCEPT !.fase = "cercaElenco", !.progetto = p])
    BY <1>a, <1>2
    DEF GetProgettoIdByCodice, BenFormata, Operazione, Fasi, ConProgetto, ConCodice
  <2>3. TipiOp'
    BY <2>1, <2>2, ProseguiTipi
  <2> QED BY <1>2, <2>3 DEF GetProgettoIdByCodice, TypeOK, TipiOp, storia
<1>3. CASE GetProgettiUtente(o)
  <2>1. BenFormata([op[o] EXCEPT !.fase = "dialogo"])
    BY <1>a, <1>3
    DEF GetProgettiUtente, BenFormata, Operazione, Fasi, ConProgetto
  <2>2. op[o].progetto # Nessuno => BenFormata([op[o] EXCEPT !.fase = "unisci"])
    BY <1>a, <1>3
    DEF GetProgettiUtente, BenFormata, Operazione, Fasi, ConProgetto
  <2>3. TipiOp'
    BY <1>3, <2>1, <2>2, ProseguiTipi DEF GetProgettiUtente
  <2> QED BY <1>3, <2>3 DEF GetProgettiUtente, TypeOK, TipiOp, storia
<1>4. CASE AggiungiPartecipante(o)
  <2>1. op[o].utente \in Utenti /\ op[o].progetto \in IdProgetti
    BY <1>a, <1>4 DEF AggiungiPartecipante, BenFormata, ConProgetto
  <2>2. ArrayUnion(progetti[op[o].progetto], op[o].utente) \in Documento
    BY <2>1, <1>c DEF ArrayUnion, Documento
  <2>3. TipiOp'
    BY <1>b, <1>4, <2>1, <2>2, ScriviTipi DEF AggiungiPartecipante
  <2> QED BY <1>4, <2>3 DEF AggiungiPartecipante, TypeOK, TipiOp, storia
<1>5. CASE AggiungiPartecipanteFallisce(o)
  <2>1. BenFormata([op[o] EXCEPT !.fase = "dialogo"])
    BY <1>a, <1>5
    DEF AggiungiPartecipanteFallisce, BenFormata, Operazione, Fasi, ConProgetto
  <2>2. TipiOp'
    BY <1>5, <2>1, ProseguiTipi DEF AggiungiPartecipanteFallisce
  <2> QED BY <1>5, <2>2 DEF AggiungiPartecipanteFallisce, TypeOK, TipiOp, storia
<1>6. CASE MostraErrore(o)
  <2>1. TipiOp'
    BY <1>6, FermaBenFormata, ProseguiTipi DEF MostraErrore
  <2> QED BY <1>6, <2>1 DEF MostraErrore, TypeOK, TipiOp, storia
<1>7. CASE VerificaEsistenza(o)
  <2>1. BenFormata([op[o] EXCEPT !.fase = "rimuovi"])
    BY <1>a, <1>7
    DEF VerificaEsistenza, BenFormata, Operazione, Fasi, ConProgetto
  <2>2. TipiOp'
    BY <1>7, <2>1, FermaBenFormata, ProseguiTipi DEF VerificaEsistenza
  <2> QED BY <1>7, <2>2 DEF VerificaEsistenza, TypeOK, TipiOp, storia
<1>8. CASE RimuoviPartecipante(o)
  <2>1. op[o].progetto \in IdProgetti
    BY <1>a, <1>8 DEF RimuoviPartecipante, BenFormata, ConProgetto
  <2>2. ArrayRemove(progetti[op[o].progetto], op[o].utente) \in Documento
    BY <2>1, <1>c DEF ArrayRemove, Documento
  <2>3. BenFormata([op[o] EXCEPT !.fase = "leggiLista"])
    BY <1>a, <1>8
    DEF RimuoviPartecipante, BenFormata, Operazione, Fasi, ConProgetto
  <2>4. CASE progetti[op[o].progetto].esiste
    <3>1. TipiOp'
      BY <1>8, <2>1, <2>2, <2>3, <2>4, ScriviTipi DEF RimuoviPartecipante
    <3> QED BY <1>8, <3>1 DEF RimuoviPartecipante, TypeOK, TipiOp, storia
  <2>5. CASE ~progetti[op[o].progetto].esiste
    <3>1. TipiOp'
      BY <1>8, <2>5, FermaBenFormata, ProseguiTipi DEF RimuoviPartecipante
    <3> QED BY <1>8, <3>1 DEF RimuoviPartecipante, TypeOK, TipiOp, storia
  <2> QED BY <2>4, <2>5
<1>9. CASE GetPartecipantiDelProgetto(o)
  <2>1. BenFormata([op[o] EXCEPT !.fase = "elimina"])
    BY <1>a, <1>9
    DEF GetPartecipantiDelProgetto, BenFormata, Operazione, Fasi, ConProgetto
  <2>2. TipiOp'
    BY <1>9, <1>b, <2>1, ProseguiTipi DEF GetPartecipantiDelProgetto
  <2> QED BY <1>9, <2>2 DEF GetPartecipantiDelProgetto, TypeOK, TipiOp, storia
<1>10. CASE EliminaProgetto(o)
  <2>1. op[o].progetto \in IdProgetti
    BY <1>a, <1>10 DEF EliminaProgetto, BenFormata, ConProgetto
  <2>2. Inesistente \in Documento
    BY DEF Inesistente, Documento
  <2>3. TipiOp'
    BY <1>b, <1>10, <2>1, <2>2, ScriviTipi DEF EliminaProgetto
  <2> QED BY <1>10, <2>3 DEF EliminaProgetto, TypeOK, TipiOp, storia
<1>11. CASE GetProgettoById(o)
  <2> DEFINE doc == progetti[op[o].progetto]
  <2>1. op[o].progetto \in IdProgetti
    BY <1>a, <1>11 DEF GetProgettoById, BenFormata, ConProgetto
  <2>2. doc.codice \in Codici \cup {Nessuno} /\ doc.partecipanti \in SUBSET Utenti
    BY <2>1, <1>c DEF Documento
  <2>3. BenFormata([op[o] EXCEPT !.fase = "scrivi", !.codice = doc.codice,
                                 !.letti = doc.partecipanti])
    BY <1>a, <1>11, <2>1, <2>2
    DEF GetProgettoById, BenFormata, Operazione, Fasi, ConProgetto
  <2>4. TipiOp'
    BY <1>11, <2>3, FermaBenFormata, ProseguiTipi DEF GetProgettoById
  <2> QED BY <1>11, <2>4 DEF GetProgettoById, TypeOK, TipiOp, storia
<1>12. CASE SetProgetto(o)
  <2>1. op[o].progetto \in IdProgetti
    BY <1>a, <1>12 DEF SetProgetto, BenFormata, ConProgetto
  <2>2. CopyWith(op[o].letti, op[o].codice) \in Documento
    BY <1>a DEF CopyWith, Documento, Operazione
  <2>3. TipiOp'
    BY <1>12, <2>1, <2>2, FermaBenFormata, ScriviTipi DEF SetProgetto
  <2> QED BY <1>12, <2>1, <2>3 DEF SetProgetto, TypeOK, TipiOp, storia
<1>13. CASE CaricaProgettiUtente(o)
  <2>1. TipiOp'
    BY <1>13, FermaBenFormata, ProseguiTipi DEF CaricaProgettiUtente
  <2> QED
    BY <1>13, <2>1 DEF CaricaProgettiUtente, TypeOK, TipiOp, storia, ProgettiDi
<1>14. CASE Fallisce(o)
  <2>1. TipiOp'
    BY <1>14, FermaBenFormata, ProseguiTipi DEF Fallisce
  <2> QED BY <1>14, <2>1 DEF Fallisce, TypeOK, TipiOp, storia, Orfani
<1>15. QED
  BY <1>1, <1>2, <1>3, <1>4, <1>5, <1>6, <1>7, <1>8, <1>9, <1>10, <1>11,
     <1>12, <1>13, <1>14 DEF Passo

\* Closing the application keeps the types.
LEMMA TipiChiudiApp ==
  ASSUME Tipi, NEW u \in Utenti, ChiudiApp(u)
  PROVE  Tipi'
<1>1. TipiOp'
  BY FermaBenFormata DEF ChiudiApp, Tipi, TipiOp, BenFormata
<1> QED BY <1>1 DEF ChiudiApp, Tipi, TipiOp, TypeOK, storia, Orfani

\* Every step of the system keeps types and the shape of operations.
LEMMA TipiNext == Tipi /\ [Next]_vars => Tipi'
<1> SUFFICES ASSUME Tipi, [Next]_vars PROVE Tipi'
  OBVIOUS
<1>1. CASE UNCHANGED vars
  BY <1>1 DEF vars, storia, Tipi, TipiOp, TypeOK
<1>2. CASE Next
  BY <1>2, TipiComando, TipiPasso, TipiChiudiApp DEF Next
<1>3. QED
  BY <1>1, <1>2

\* The types hold in every reachable state, whatever the number of users,
\* projects and operations, and every operation in flight has the user and the
\* project it needs.
THEOREM TipiCorretti == Spec => [](TypeOK /\ TipiOp)
<1>1. Init => Tipi
  BY TipiInit
<1>2. Tipi /\ [Next]_vars => Tipi'
  BY TipiNext
<1>3. QED
  BY <1>1, <1>2, PTL DEF Spec, Tipi

-----------------------------------------------------------------------------
(***************************************************************************)
(* Codes and admissions.  The two invariants are not inductive: an edit    *)
(* writes back what it has read, possibly after everyone has left and the  *)
(* project has been deleted, so what it holds must be as good as what is   *)
(* stored; and a join acts on a project it found several calls earlier.    *)
(***************************************************************************)

\* The document doc may be stored as project p.
Legittimo(p, doc) ==
    doc.esiste => /\ codiceIniziale[p] # Nessuno
                  /\ doc.codice = codiceIniziale[p]
                  /\ \A u \in doc.partecipanti : Ammesso(u, p)

OpLegittima(x) ==
    /\ x.fase = "cercaCodice" => x.codice \in codiciUsati[x.utente]
    /\ (x.fase \in {"cercaElenco", "unisci"} /\ x.progetto # Nessuno) =>
           codiceIniziale[x.progetto] \in codiciUsati[x.utente]
    /\ x.fase = "scrivi" => Legittimo(x.progetto, CopyWith(x.letti, x.codice))

Legittimita ==
    /\ \A p \in IdProgetti : creatore[p] = Nessuno <=> codiceIniziale[p] = Nessuno
    /\ \A p \in IdProgetti : Legittimo(p, progetti[p])
    /\ \A o \in Operazioni : OpLegittima(op[o])

\* Initially there is no project, hence nothing to justify.
LEMMA LegittimitaInit == Init => Legittimita
  BY DEF Init, Legittimita, Legittimo, OpLegittima, Inesistente, Ferma

\* What a step does to the operations and the documents it is not about.
LEMMA EffettoProsegui ==
  ASSUME Tipi, NEW o \in Operazioni, NEW dopo, Prosegui(o, dopo)
  PROVE  /\ op'[o] = dopo
         /\ \A x \in Operazioni : x # o => op'[x] = op[x]
         /\ progetti' = progetti
  BY DEF Prosegui, Tipi, TipiOp

\* A write changes its own document and its own operation; what the other
\* operations remember of it only grows in mutati.
LEMMA EffettoScrivi ==
  ASSUME Tipi, NEW o \in Operazioni, NEW p \in IdProgetti, NEW doc, NEW dopo,
         Scrivi(o, p, doc, dopo)
  PROVE  /\ op'[o] = dopo
         /\ \A x \in Operazioni : x # o =>
              /\ op'[x].fase = op[x].fase
              /\ op'[x].utente = op[x].utente
              /\ op'[x].progetto = op[x].progetto
              /\ op'[x].codice = op[x].codice
              /\ op'[x].letti = op[x].letti
         /\ progetti'[p] = doc
         /\ \A q \in IdProgetti : q # p => progetti'[q] = progetti[q]
<1>1. ASSUME NEW x \in Operazioni, x # o
      PROVE  /\ op'[x].fase = op[x].fase
             /\ op'[x].utente = op[x].utente
             /\ op'[x].progetto = op[x].progetto
             /\ op'[x].codice = op[x].codice
             /\ op'[x].letti = op[x].letti
  <2> DEFINE D == Differenza(progetti[p].partecipanti, doc.partecipanti)
  <2>1. op[x] \in Operazione
    BY DEF Tipi, TipiOp
  <2>2. op'[x] = IF Finestra(x, p) THEN [op[x] EXCEPT !.mutati = @ \cup D]
                 ELSE op[x]
    BY <1>1 DEF Scrivi
  <2> HIDE DEF D
  <2>3. QED
    BY <2>1, <2>2 DEF Operazione, D
<1>2. op'[o] = dopo
  BY DEF Scrivi
<1>3. progetti'[p] = doc /\ \A q \in IdProgetti : q # p => progetti'[q] = progetti[q]
  BY DEF Scrivi, Tipi, TipiOp
<1>4. QED
  BY <1>1, <1>2, <1>3

\* The marks that a write leaves on the other operations are irrelevant to
\* their legitimacy.
LEMMA EffettoMutati ==
  ASSUME Tipi, NEW o \in Operazioni, NEW p \in IdProgetti, NEW doc, NEW dopo,
         Scrivi(o, p, doc, dopo), NEW x \in Operazioni, x # o, Finestra(x, p)
  PROVE  op'[x].mutati = op[x].mutati \cup
                         Differenza(progetti[p].partecipanti, doc.partecipanti)
<1> DEFINE D == Differenza(progetti[p].partecipanti, doc.partecipanti)
<1>1. op[x] \in Operazione
  BY DEF Tipi, TipiOp
<1>2. op'[x] = [op[x] EXCEPT !.mutati = @ \cup D]
  BY DEF Scrivi
<1> HIDE DEF D
<1>3. op'[x].mutati = op[x].mutati \cup D
  BY <1>1, <1>2 DEF Operazione
<1>4. QED
  BY <1>3 DEF D

\* A step that writes nothing keeps Legittimita if what it leaves is legitimate.
LEMMA LegittimitaProsegui ==
  ASSUME Tipi, Legittimita, NEW o \in Operazioni, NEW dopo, OpLegittima(dopo),
         Prosegui(o, dopo), UNCHANGED storia
  PROVE  Legittimita'
<1>1. /\ op'[o] = dopo
      /\ \A x \in Operazioni : x # o => op'[x] = op[x]
      /\ progetti' = progetti
  BY EffettoProsegui
<1>2. ASSUME NEW x \in Operazioni PROVE OpLegittima(op[x])'
  BY <1>1 DEF Legittimita, OpLegittima, Legittimo, Ammesso, storia
<1>3. QED
  BY <1>1, <1>2 DEF Legittimita, Legittimo, Ammesso, storia

\* So does one that writes a legitimate document and is then done with it.
LEMMA LegittimitaScrivi ==
  ASSUME Tipi, Legittimita, NEW o \in Operazioni, NEW p \in IdProgetti, NEW doc,
         NEW dopo, OpLegittima(dopo), Legittimo(p, doc),
         Scrivi(o, p, doc, dopo), UNCHANGED storia
  PROVE  Legittimita'
<1>1. /\ op'[o] = dopo
      /\ \A x \in Operazioni : x # o =>
           /\ op'[x].fase = op[x].fase
           /\ op'[x].utente = op[x].utente
           /\ op'[x].progetto = op[x].progetto
           /\ op'[x].codice = op[x].codice
           /\ op'[x].letti = op[x].letti
      /\ progetti'[p] = doc
      /\ \A q \in IdProgetti : q # p => progetti'[q] = progetti[q]
  BY EffettoScrivi
<1>2. ASSUME NEW x \in Operazioni PROVE OpLegittima(op[x])'
  BY <1>1 DEF Legittimita, OpLegittima, Legittimo, Ammesso, CopyWith, storia
<1>3. ASSUME NEW q \in IdProgetti PROVE Legittimo(q, progetti[q])'
  BY <1>1 DEF Legittimita, Legittimo, Ammesso, storia
<1>4. QED
  BY <1>2, <1>3 DEF Legittimita, storia

\* The idle operation and a reload claim nothing.
LEMMA FermaLegittima == OpLegittima(Ferma)
  BY DEF OpLegittima, Ferma

\* Neither does the reload that follows a success.
LEMMA RicaricaLegittima ==
  ASSUME NEW o \in Operazioni
  PROVE  OpLegittima(Ricarica(o))
  BY DEF OpLegittima, Ricarica, Ferma

\* Starting an operation other than a join.
LEMMA LegittimitaAvvia ==
  ASSUME Tipi, Legittimita, NEW o \in Operazioni,
         NEW f \in {"crea", "verifica", "leggi", "ricarica"},
         NEW u, NEW p, NEW c, Avvia(o, f, u, p, c), UNCHANGED storia
  PROVE  Legittimita'
<1> DEFINE x == [Ferma EXCEPT !.fase = f, !.utente = u,
                              !.progetto = p, !.codice = c]
<1>1. OpLegittima(x)
  BY DEF OpLegittima, Ferma
<1>2. Prosegui(o, x)
  BY DEF Avvia
<1> HIDE DEF x
<1>3. QED
  BY <1>1, <1>2, LegittimitaProsegui

\* Every way of starting an operation keeps Legittimita.
LEMMA LegittimitaComando ==
  ASSUME Tipi, Legittimita, NEW o \in Operazioni, Comando(o)
  PROVE  Legittimita'
<1>1. CASE \E u \in Utenti : AddProgetto(o, u)
  BY <1>1, LegittimitaAvvia DEF AddProgetto
<1>2. CASE \E u \in Utenti, c \in Codici : AggiungiPartecipanteConCodice(o, u, c)
  <2>1. PICK u \in Utenti, c \in Codici : AggiungiPartecipanteConCodice(o, u, c)
    BY <1>2
  <2> DEFINE y == [Ferma EXCEPT !.fase = "cercaCodice", !.utente = u,
                                !.progetto = Nessuno, !.codice = c]
  <2>2. /\ Prosegui(o, y)
        /\ codiciUsati' = [codiciUsati EXCEPT ![u] = @ \cup {c}]
        /\ UNCHANGED <<creatore, codiceIniziale>>
    BY <2>1 DEF AggiungiPartecipanteConCodice, Avvia
  <2>3. y.fase = "cercaCodice" /\ y.utente = u /\ y.codice = c
    BY DEF Ferma
  <2> HIDE DEF y
  <2>4. /\ op'[o] = y
        /\ \A x \in Operazioni : x # o => op'[x] = op[x]
        /\ progetti' = progetti
    BY <2>2, EffettoProsegui
  <2>5. codiciUsati \in [Utenti -> SUBSET Codici]
    BY DEF Tipi, TypeOK
  <2>6. \A v \in Utenti : codiciUsati[v] \subseteq codiciUsati'[v]
    BY <2>2, <2>5
  <2>7. c \in codiciUsati'[u]
    BY <2>2, <2>5
  <2>8. \A x \in Operazioni : BenFormata(op[x])
    BY DEF Tipi, TipiOp
  <2>9. \A v \in Utenti, p \in IdProgetti : Ammesso(v, p) => Ammesso(v, p)'
    BY <2>2, <2>6 DEF Ammesso
  <2>10. ASSUME NEW x \in Operazioni PROVE OpLegittima(op[x])'
    <3>1. CASE x = o
      BY <3>1, <2>3, <2>4, <2>7 DEF OpLegittima
    <3>2. CASE x # o
      <4>1. op'[x] = op[x] /\ OpLegittima(op[x]) /\ BenFormata(op[x])
        BY <3>2, <2>4, <2>8 DEF Legittimita
      <4>2. CASE op[x].fase = "scrivi"
        <5>1. op[x].letti \subseteq Utenti /\ op[x].progetto \in IdProgetti
          BY <4>1, <4>2 DEF BenFormata, Operazione, ConProgetto
        <5>2. QED
          BY <4>1, <4>2, <5>1, <2>2, <2>9
          DEF OpLegittima, Legittimo, CopyWith
      <4>3. CASE op[x].fase \in {"cercaCodice", "cercaElenco", "unisci"}
        BY <4>1, <4>3, <2>2, <2>6 DEF OpLegittima, BenFormata
      <4>4. QED
        BY <4>1, <4>2, <4>3 DEF OpLegittima
    <3>3. QED
      BY <3>1, <3>2
  <2>11. ASSUME NEW p \in IdProgetti PROVE Legittimo(p, progetti[p])'
    <3>1. progetti[p].partecipanti \subseteq Utenti
      BY DEF Tipi, TipiOp, Documento
    <3>2. QED
      BY <3>1, <2>2, <2>4, <2>9 DEF Legittimita, Legittimo
  <2>12. QED
    BY <2>2, <2>10, <2>11 DEF Legittimita
<1>3. CASE \E u \in Utenti, p \in IdProgetti : AbbandonaProgetto(o, u, p)
  BY <1>3, LegittimitaAvvia DEF AbbandonaProgetto
<1>4. CASE \E u \in Utenti, p \in IdProgetti : AggiornaProgetto(o, u, p)
  BY <1>4, LegittimitaAvvia DEF AggiornaProgetto
<1>5. CASE \E u \in Utenti : Sincronizza(o, u)
  BY <1>5, LegittimitaAvvia DEF Sincronizza
<1>6. QED
  BY <1>1, <1>2, <1>3, <1>4, <1>5 DEF Comando

\* The creation of a project touches no other project, and no operation had
\* anything to say about the new one.
LEMMA LegittimitaCrea ==
  ASSUME Tipi, Legittimita, NEW o \in Operazioni, CreaProgetto(o)
  PROVE  Legittimita'
<1>1. PICK p \in IdProgetti, c \in Codici :
        /\ creatore[p] = Nessuno
        /\ Scrivi(o, p, NuovoProgetto(op[o].utente, c), Ricarica(o))
        /\ creatore' = [creatore EXCEPT ![p] = op[o].utente]
        /\ codiceIniziale' = [codiceIniziale EXCEPT ![p] = c]
  BY DEF CreaProgetto
<1>2. codiciUsati' = codiciUsati
  BY DEF CreaProgetto
<1>3. op[o].utente \in Utenti
  BY DEF CreaProgetto, Tipi, TipiOp, BenFormata
<1>4. /\ op'[o] = Ricarica(o)
      /\ \A x \in Operazioni : x # o =>
           /\ op'[x].fase = op[x].fase
           /\ op'[x].utente = op[x].utente
           /\ op'[x].progetto = op[x].progetto
           /\ op'[x].codice = op[x].codice
           /\ op'[x].letti = op[x].letti
      /\ progetti'[p] = NuovoProgetto(op[o].utente, c)
      /\ \A q \in IdProgetti : q # p => progetti'[q] = progetti[q]
  BY <1>1, EffettoScrivi
<1>5. codiceIniziale[p] = Nessuno
  BY <1>1 DEF Legittimita
<1>6. /\ creatore \in [IdProgetti -> Utenti \cup {Nessuno}]
      /\ codiceIniziale \in [IdProgetti -> Codici \cup {Nessuno}]
      /\ codiciUsati \in [Utenti -> SUBSET Codici]
  BY DEF Tipi, TypeOK
<1>7. \A q \in IdProgetti : q # p =>
         creatore'[q] = creatore[q] /\ codiceIniziale'[q] = codiceIniziale[q]
  BY <1>1, <1>6
<1>8. creatore'[p] = op[o].utente /\ codiceIniziale'[p] = c
  BY <1>1, <1>6
<1>9. ASSUME NEW x \in Operazioni PROVE OpLegittima(op[x])'
  <2>1. CASE x = o
    BY <2>1, <1>4 DEF OpLegittima, Ricarica, Ferma
  <2>2. CASE x # o
    <3>1. OpLegittima(op[x]) /\ BenFormata(op[x])
      BY DEF Legittimita, Tipi, TipiOp
    <3>2. CASE op[x].fase = "cercaCodice"
      BY <3>1, <3>2, <2>2, <1>2, <1>4 DEF OpLegittima
    <3>3. CASE op[x].fase \in {"cercaElenco", "unisci"} /\ op[x].progetto # Nessuno
      <4>1. op[x].progetto \in IdProgetti /\ op[x].utente \in Utenti
        BY <3>1, <3>3 DEF BenFormata, Operazione
      <4>2. codiceIniziale[op[x].progetto] \in Codici
        BY <3>1, <3>3, <4>1, <1>6 DEF OpLegittima
      <4>3. op[x].progetto # p
        BY <4>2, <1>5, NessunoAssumption
      <4>4. QED
        BY <3>1, <3>3, <4>1, <4>3, <2>2, <1>2, <1>4, <1>7 DEF OpLegittima
    <3>4. CASE op[x].fase = "scrivi"
      <4>1. op[x].progetto \in IdProgetti
        BY <3>1, <3>4 DEF BenFormata, ConProgetto
      <4>2. op[x].progetto # p
        BY <3>1, <3>4, <1>5 DEF OpLegittima, Legittimo, CopyWith
      <4>3. QED
        BY <3>1, <3>4, <4>1, <4>2, <2>2, <1>2, <1>4, <1>7
        DEF OpLegittima, Legittimo, CopyWith, Ammesso
    <3>5. QED
      BY <3>2, <3>3, <3>4, <2>2, <1>4 DEF OpLegittima
  <2>3. QED
    BY <2>1, <2>2
<1>10. ASSUME NEW q \in IdProgetti PROVE Legittimo(q, progetti[q])'
  <2>1. CASE q = p
    BY <2>1, <1>4, <1>8, NessunoAssumption DEF Legittimo, NuovoProgetto, Ammesso
  <2>2. CASE q # p
    BY <2>2, <1>2, <1>4, <1>7 DEF Legittimita, Legittimo, Ammesso
  <2>3. QED
    BY <2>1, <2>2
<1>11. \A q \in IdProgetti : creatore'[q] = Nessuno <=> codiceIniziale'[q] = Nessuno
  BY <1>3, <1>7, <1>8, NessunoAssumption DEF Legittimita
<1>12. QED
  BY <1>9, <1>10, <1>11 DEF Legittimita

\* So does every awaited call, the stale write of an edit included.
LEMMA LegittimitaPasso ==
  ASSUME Tipi, Legittimita, NEW o \in Operazioni, Passo(o)
  PROVE  Legittimita'
<1>a. BenFormata(op[o]) /\ OpLegittima(op[o]) /\ op[o] \in Operazione
  BY DEF Tipi, TipiOp, Legittimita
<1>b. OpLegittima(Ferma) /\ OpLegittima(Ricarica(o))
  BY FermaLegittima, RicaricaLegittima
<1>1. CASE CreaProgetto(o)
  BY <1>1, LegittimitaCrea
<1>2. CASE GetProgettoIdByCodice(o)
  <2>1. PICK p \in ConCodice(op[o].codice) \cup {Nessuno} :
          Prosegui(o, [op[o] EXCEPT !.fase = "cercaElenco", !.progetto = p])
    BY <1>2 DEF GetProgettoIdByCodice
  <2>2. p # Nessuno => codiceIniziale[p] = op[o].codice
    BY DEF ConCodice, Legittimita, Legittimo
  <2>3. op[o].codice \in codiciUsati[op[o].utente]
    BY <1>a, <1>2 DEF GetProgettoIdByCodice, OpLegittima
  <2>4. OpLegittima([op[o] EXCEPT !.fase = "cercaElenco", !.progetto = p])
    BY <1>a, <2>2, <2>3 DEF OpLegittima, Operazione
  <2>5. QED
    BY <1>2, <2>1, <2>4, LegittimitaProsegui DEF GetProgettoIdByCodice
<1>3. CASE GetProgettiUtente(o)
  <2>1. OpLegittima([op[o] EXCEPT !.fase = "unisci"])
    BY <1>a, <1>3 DEF GetProgettiUtente, OpLegittima, Operazione
  <2>2. OpLegittima([op[o] EXCEPT !.fase = "dialogo"])
    BY <1>a DEF OpLegittima, Operazione
  <2>3. QED
    BY <1>3, <2>1, <2>2, LegittimitaProsegui DEF GetProgettiUtente
<1>4. CASE AggiungiPartecipante(o)
  <2> DEFINE p == op[o].progetto
             u == op[o].utente
  <2>1. p \in IdProgetti /\ u \in Utenti /\ p # Nessuno
    BY <1>a, <1>4, NessunoAssumption
    DEF AggiungiPartecipante, BenFormata, ConProgetto
  <2>2. codiceIniziale[p] \in codiciUsati[u]
    BY <1>a, <1>4, <2>1 DEF AggiungiPartecipante, OpLegittima
  <2>3. Legittimo(p, progetti[p]) /\ progetti[p] \in Documento
    BY <2>1 DEF Legittimita, Tipi, TipiOp
  <2>4. Legittimo(p, ArrayUnion(progetti[p], u))
    BY <2>2, <2>3, <1>4
    DEF AggiungiPartecipante, Legittimo, ArrayUnion, Ammesso, Documento
  <2>5. QED
    BY <1>4, <1>b, <2>1, <2>4, LegittimitaScrivi DEF AggiungiPartecipante
<1>5. CASE AggiungiPartecipanteFallisce(o)
  <2>1. OpLegittima([op[o] EXCEPT !.fase = "dialogo"])
    BY <1>a DEF OpLegittima, Operazione
  <2>2. QED
    BY <1>5, <2>1, LegittimitaProsegui DEF AggiungiPartecipanteFallisce
<1>6. CASE MostraErrore(o)
  BY <1>6, <1>b, LegittimitaProsegui DEF MostraErrore
<1>7. CASE VerificaEsistenza(o)
  <2>1. OpLegittima([op[o] EXCEPT !.fase = "rimuovi"])
    BY <1>a DEF OpLegittima, Operazione
  <2>2. QED
    BY <1>7, <1>b, <2>1, LegittimitaProsegui DEF VerificaEsistenza
<1>8. CASE RimuoviPartecipante(o)
  <2> DEFINE p == op[o].progetto
  <2>1. p \in IdProgetti
    BY <1>a, <1>8 DEF RimuoviPartecipante, BenFormata, ConProgetto
  <2>2. Legittimo(p, progetti[p]) /\ progetti[p] \in Documento
    BY <2>1 DEF Legittimita, Tipi, TipiOp
  <2>3. Legittimo(p, ArrayRemove(progetti[p], op[o].utente))
    BY <2>2 DEF Legittimo, ArrayRemove, Documento
  <2>4. OpLegittima([op[o] EXCEPT !.fase = "leggiLista"])
    BY <1>a DEF OpLegittima, Operazione
  <2>5. QED
    BY <1>8, <1>b, <2>1, <2>3, <2>4, LegittimitaScrivi, LegittimitaProsegui
    DEF RimuoviPartecipante
<1>9. CASE GetPartecipantiDelProgetto(o)
  <2>1. OpLegittima([op[o] EXCEPT !.fase = "elimina"])
    BY <1>a DEF OpLegittima, Operazione
  <2>2. QED
    BY <1>9, <1>b, <2>1, LegittimitaProsegui DEF GetPartecipantiDelProgetto
<1>10. CASE EliminaProgetto(o)
  <2>1. op[o].progetto \in IdProgetti
    BY <1>a, <1>10 DEF EliminaProgetto, BenFormata, ConProgetto
  <2>2. Legittimo(op[o].progetto, Inesistente)
    BY DEF Legittimo, Inesistente
  <2>3. QED
    BY <1>10, <1>b, <2>1, <2>2, LegittimitaScrivi DEF EliminaProgetto
<1>11. CASE GetProgettoById(o)
  <2> DEFINE p == op[o].progetto
             x == [op[o] EXCEPT !.fase = "scrivi", !.codice = progetti[p].codice,
                                !.letti = progetti[p].partecipanti]
  <2>1. p \in IdProgetti
    BY <1>a, <1>11 DEF GetProgettoById, BenFormata, ConProgetto
  <2>2. Legittimo(p, progetti[p]) /\ progetti[p] \in Documento
    BY <2>1 DEF Legittimita, Tipi, TipiOp
  <2>3. progetti[p].esiste => OpLegittima(x)
    BY <1>a, <2>2 DEF OpLegittima, Legittimo, CopyWith, Operazione, Documento
  <2>4. QED
    BY <1>11, <1>b, <2>3, LegittimitaProsegui DEF GetProgettoById
<1>12. CASE SetProgetto(o)
  <2>1. op[o].progetto \in IdProgetti
    BY <1>a, <1>12 DEF SetProgetto, BenFormata, ConProgetto
  <2>2. Legittimo(op[o].progetto, CopyWith(op[o].letti, op[o].codice))
    BY <1>a, <1>12 DEF SetProgetto, OpLegittima
  <2>3. QED
    BY <1>12, <1>b, <2>1, <2>2, LegittimitaScrivi DEF SetProgetto
<1>13. CASE CaricaProgettiUtente(o)
  BY <1>13, <1>b, LegittimitaProsegui DEF CaricaProgettiUtente
<1>14. CASE Fallisce(o)
  BY <1>14, <1>b, LegittimitaProsegui DEF Fallisce
<1>15. QED
  BY <1>1, <1>2, <1>3, <1>4, <1>5, <1>6, <1>7, <1>8, <1>9, <1>10, <1>11,
     <1>12, <1>13, <1>14 DEF Passo

\* Killing the application of a user keeps it too.
LEMMA LegittimitaChiudiApp ==
  ASSUME Tipi, Legittimita, NEW u \in Utenti, ChiudiApp(u)
  PROVE  Legittimita'
<1>1. ASSUME NEW x \in Operazioni PROVE OpLegittima(op[x])'
  <2>1. op'[x] = Ferma \/ op'[x] = op[x]
    BY DEF ChiudiApp
  <2>2. UNCHANGED <<creatore, codiceIniziale, codiciUsati>>
    BY DEF ChiudiApp, storia
  <2>3. OpLegittima(op[x]) /\ OpLegittima(Ferma)
    BY FermaLegittima DEF Legittimita
  <2>4. QED
    BY <2>1, <2>2, <2>3 DEF OpLegittima, Legittimo, Ammesso
<1>2. QED
  BY <1>1 DEF ChiudiApp, Legittimita, Legittimo, Ammesso, storia

\* Types and legitimacy together are inductive.
InvLegittimita == Tipi /\ Legittimita

\* The inductive step of both theorems below.
LEMMA LegittimitaNext == InvLegittimita /\ [Next]_vars => InvLegittimita'
<1> SUFFICES ASSUME Tipi, Legittimita, [Next]_vars PROVE Legittimita'
  BY TipiNext DEF InvLegittimita
<1>1. CASE UNCHANGED vars
  BY <1>1 DEF vars, storia, Legittimita, Legittimo, OpLegittima, Ammesso
<1>2. CASE Next
  BY <1>2, LegittimitaComando, LegittimitaPasso, LegittimitaChiudiApp DEF Next
<1>3. QED
  BY <1>1, <1>2

\* A participant of a project created it or submitted the code it was created
\* with: no interleaving of joins, leaves, deletions and stale edits, and no
\* failure, puts anyone else among the participants.
THEOREM AccessoSoloConCodice == Spec => []SoloConCodice
<1>1. Init => InvLegittimita
  BY TipiInit, LegittimitaInit DEF InvLegittimita
<1>2. InvLegittimita => SoloConCodice
  BY DEF InvLegittimita, Legittimita, Legittimo, SoloConCodice
<1>3. QED
  BY <1>1, <1>2, LegittimitaNext, PTL DEF Spec

\* The code of a project never changes while its document exists, even if a
\* late edit brings a deleted document back.
THEOREM CodiceImmutabile == Spec => []CodiceStabile
<1>1. Init => InvLegittimita
  BY TipiInit, LegittimitaInit DEF InvLegittimita
<1>2. InvLegittimita => CodiceStabile
  BY DEF InvLegittimita, Legittimita, Legittimo, CodiceStabile
<1>3. QED
  BY <1>1, <1>2, LegittimitaNext, PTL DEF Spec

-----------------------------------------------------------------------------
(* PerditeSoloInFinestra *)

\* What x has read of its project differs from what is stored only in users
\* whose membership x has seen change.
Coerente(x) ==
    (x.fase \in {"scrivi", "elimina"} /\ x.progetto \in IdProgetti) =>
        Differenza(progetti[x.progetto].partecipanti, x.letti) \subseteq x.mutati

\* PerditeSoloInFinestra, operation by operation.
LEMMA PerditeCoerenti ==
  PerditeSoloInFinestra <=> \A o \in Operazioni : Coerente(op[o])
  BY DEF PerditeSoloInFinestra, Coerente, Finestra

\* A call that writes nothing keeps every open window coherent.
LEMMA CoerenteProsegui ==
  ASSUME Tipi, PerditeSoloInFinestra, NEW o \in Operazioni, NEW dopo,
         Coerente(dopo), Prosegui(o, dopo)
  PROVE  PerditeSoloInFinestra'
<1>1. /\ op'[o] = dopo
      /\ \A x \in Operazioni : x # o => op'[x] = op[x]
      /\ progetti' = progetti
  BY EffettoProsegui
<1>2. \A x \in Operazioni : Coerente(op[x])
  BY PerditeCoerenti
<1>3. ASSUME NEW x \in Operazioni PROVE Coerente(op[x])'
  BY <1>1, <1>2 DEF Coerente
<1>4. QED
  BY <1>3, PerditeCoerenti DEF PerditeSoloInFinestra, Coerente, Finestra

\* A write is recorded by every other operation whose window is open.
LEMMA CoerenteScrivi ==
  ASSUME Tipi, PerditeSoloInFinestra, NEW o \in Operazioni, NEW p \in IdProgetti,
         NEW doc, NEW dopo, dopo.fase \notin {"scrivi", "elimina"},
         Scrivi(o, p, doc, dopo)
  PROVE  PerditeSoloInFinestra'
<1>1. /\ op'[o] = dopo
      /\ \A x \in Operazioni : x # o =>
           /\ op'[x].fase = op[x].fase
           /\ op'[x].utente = op[x].utente
           /\ op'[x].progetto = op[x].progetto
           /\ op'[x].codice = op[x].codice
           /\ op'[x].letti = op[x].letti
      /\ progetti'[p] = doc
      /\ \A q \in IdProgetti : q # p => progetti'[q] = progetti[q]
  BY EffettoScrivi
<1>2. SUFFICES ASSUME NEW x \in Operazioni, NEW q \in IdProgetti, Finestra(x, q)'
               PROVE  Differenza(progetti'[q].partecipanti, op'[x].letti)
                        \subseteq op'[x].mutati
  BY DEF PerditeSoloInFinestra
<1>3. x # o
  BY <1>1, <1>2 DEF Finestra
<1>4. Finestra(x, q)
  BY <1>1, <1>2, <1>3 DEF Finestra
<1>5. Differenza(progetti[q].partecipanti, op[x].letti) \subseteq op[x].mutati
  BY <1>4 DEF PerditeSoloInFinestra
<1>6. CASE q = p
  <2>1. op'[x].mutati = op[x].mutati \cup
                        Differenza(progetti[p].partecipanti, doc.partecipanti)
    BY <1>3, <1>4, <1>6, EffettoMutati
  <2>2. QED
    BY <2>1, <1>1, <1>3, <1>5, <1>6 DEF Differenza
<1>7. CASE q # p
  <2>1. op'[x] = op[x]
    BY <1>3, <1>4, <1>7 DEF Scrivi, Finestra
  <2>2. QED
    BY <2>1, <1>1, <1>5, <1>7
<1>8. QED
  BY <1>6, <1>7

\* Every step keeps the windows coherent.
LEMMA PerditeNext ==
  ASSUME Tipi, PerditeSoloInFinestra, [Next]_vars
  PROVE  PerditeSoloInFinestra'
<1>a. Coerente(Ferma)
  BY DEF Coerente, Ferma
<1>b. \A o \in Operazioni : Coerente(Ricarica(o)) /\ Ricarica(o).fase = "ricarica"
  BY DEF Coerente, Ricarica, Ferma
<1>c. \A o \in Operazioni : BenFormata(op[o]) /\ op[o] \in Operazione
  BY DEF Tipi, TipiOp
<1>d. Ferma.fase = "ferma"
  BY DEF Ferma
<1>1. ASSUME NEW o \in Operazioni, Comando(o)
      PROVE  PerditeSoloInFinestra'
  <2>1. PICK f \in {"crea", "cercaCodice", "verifica", "leggi", "ricarica"},
             u \in Utenti, p \in IdProgetti \cup {Nessuno},
             c \in Codici \cup {Nessuno} : Avvia(o, f, u, p, c)
    BY <1>1 DEF Comando, AddProgetto, AggiungiPartecipanteConCodice,
                AbbandonaProgetto, AggiornaProgetto, Sincronizza
  <2> DEFINE x == [Ferma EXCEPT !.fase = f, !.utente = u,
                                !.progetto = p, !.codice = c]
  <2>2. Coerente(x)
    BY DEF Coerente, Ferma
  <2>3. Prosegui(o, x)
    BY <2>1 DEF Avvia
  <2> HIDE DEF x
  <2>4. QED
    BY <2>2, <2>3, CoerenteProsegui
<1>2. ASSUME NEW o \in Operazioni, Passo(o)
      PROVE  PerditeSoloInFinestra'
  <2> DEFINE p == op[o].progetto
  <2>0. \A f \in Fasi \ {"scrivi", "elimina"} :
           /\ Coerente([op[o] EXCEPT !.fase = f])
           /\ [op[o] EXCEPT !.fase = f].fase = f
    BY <1>c DEF Coerente, Operazione
  <2>1. CASE CreaProgetto(o)
    BY <2>1, <1>b, CoerenteScrivi DEF CreaProgetto
  <2>2. CASE GetProgettoIdByCodice(o)
    <3>1. PICK q \in ConCodice(op[o].codice) \cup {Nessuno} :
            Prosegui(o, [op[o] EXCEPT !.fase = "cercaElenco", !.progetto = q])
      BY <2>2 DEF GetProgettoIdByCodice
    <3>2. Coerente([op[o] EXCEPT !.fase = "cercaElenco", !.progetto = q])
      BY <1>c DEF Coerente, Operazione
    <3>3. QED
      BY <3>1, <3>2, CoerenteProsegui
  <2>3. CASE GetProgettiUtente(o)
    BY <2>3, <2>0, CoerenteProsegui DEF GetProgettiUtente, Fasi
  <2>4. CASE AggiungiPartecipante(o)
    <3>1. p \in IdProgetti
      BY <1>c, <2>4 DEF AggiungiPartecipante, BenFormata, ConProgetto
    <3>2. QED
      BY <2>4, <3>1, <1>b, CoerenteScrivi DEF AggiungiPartecipante
  <2>5. CASE AggiungiPartecipanteFallisce(o)
    BY <2>5, <2>0, CoerenteProsegui DEF AggiungiPartecipanteFallisce, Fasi
  <2>6. CASE MostraErrore(o)
    BY <2>6, <1>a, CoerenteProsegui DEF MostraErrore
  <2>7. CASE VerificaEsistenza(o)
    BY <2>7, <1>a, <2>0, CoerenteProsegui DEF VerificaEsistenza, Fasi
  <2>8. CASE RimuoviPartecipante(o)
    <3>1. p \in IdProgetti
      BY <1>c, <2>8 DEF RimuoviPartecipante, BenFormata, ConProgetto
    <3>2. CASE progetti[p].esiste
      <4> DEFINE x == [op[o] EXCEPT !.fase = "leggiLista"]
      <4>1. Scrivi(o, p, ArrayRemove(progetti[p], op[o].utente), x)
        BY <2>8, <3>2 DEF RimuoviPartecipante
      <4>2. x.fase = "leggiLista"
        BY <2>0 DEF Fasi
      <4> HIDE DEF x
      <4>3. QED
        BY <3>1, <4>1, <4>2, CoerenteScrivi
    <3>3. CASE ~progetti[p].esiste
      BY <2>8, <3>3, <1>a, CoerenteProsegui DEF RimuoviPartecipante
    <3>4. QED
      BY <3>2, <3>3
  <2>9. CASE GetPartecipantiDelProgetto(o)
    <3>1. op[o].letti = {}
      BY <1>c, <2>9 DEF GetPartecipantiDelProgetto, BenFormata
    <3>2. progetti[p].partecipanti = {} =>
            Coerente([op[o] EXCEPT !.fase = "elimina"])
      BY <3>1, <1>c DEF Coerente, Operazione, Differenza
    <3>3. QED
      BY <2>9, <3>2, <1>b, CoerenteProsegui
      DEF GetPartecipantiDelProgetto, DaEliminare
  <2>10. CASE EliminaProgetto(o)
    <3>1. p \in IdProgetti
      BY <1>c, <2>10 DEF EliminaProgetto, BenFormata, ConProgetto
    <3>2. QED
      BY <2>10, <3>1, <1>b, CoerenteScrivi DEF EliminaProgetto
  <2>11. CASE GetProgettoById(o)
    <3> DEFINE x == [op[o] EXCEPT !.fase = "scrivi", !.codice = progetti[p].codice,
                                  !.letti = progetti[p].partecipanti]
    <3>1. Coerente(x)
      BY <1>c DEF Coerente, Operazione, Differenza
    <3>2. Prosegui(o, x) \/ Prosegui(o, Ferma)
      BY <2>11 DEF GetProgettoById
    <3> HIDE DEF x
    <3>3. QED
      BY <3>1, <3>2, <1>a, CoerenteProsegui
  <2>12. CASE SetProgetto(o)
    <3>1. p \in IdProgetti
      BY <1>c, <2>12 DEF SetProgetto, BenFormata, ConProgetto
    <3>2. QED
      BY <2>12, <3>1, <1>d, CoerenteScrivi DEF SetProgetto
  <2>13. CASE CaricaProgettiUtente(o)
    BY <2>13, <1>a, CoerenteProsegui DEF CaricaProgettiUtente
  <2>14. CASE Fallisce(o)
    BY <2>14, <1>a, CoerenteProsegui DEF Fallisce
  <2>15. QED
    BY <1>2, <2>1, <2>2, <2>3, <2>4, <2>5, <2>6, <2>7, <2>8, <2>9, <2>10,
       <2>11, <2>12, <2>13, <2>14 DEF Passo
<1>3. ASSUME NEW u \in Utenti, ChiudiApp(u)
      PROVE  PerditeSoloInFinestra'
  <2>1. \A x \in Operazioni : op'[x] = Ferma \/ op'[x] = op[x]
    BY <1>3 DEF ChiudiApp
  <2>2. QED
    BY <1>3, <1>d, <2>1 DEF ChiudiApp, PerditeSoloInFinestra, Finestra
<1>4. CASE UNCHANGED vars
  BY <1>4 DEF vars, PerditeSoloInFinestra, Finestra
<1>5. QED
  BY <1>1, <1>2, <1>3, <1>4 DEF Next

\* An edit can undo, and a deletion can hit, only joins and leaves that happened
\* between the operation's own reading and writing of the project.
THEOREM DanniSoloInFinestra == Spec => []PerditeSoloInFinestra
<1> DEFINE Inv == Tipi /\ PerditeSoloInFinestra
<1>1. Init => Inv
  BY TipiInit DEF Init, PerditeSoloInFinestra, Finestra, Ferma
<1>2. Inv /\ [Next]_vars => Inv'
  BY TipiNext, PerditeNext
<1>3. QED
  BY <1>1, <1>2, PTL DEF Spec

-----------------------------------------------------------------------------
(* OrfaniSpiegati *)

Vuoto(p) == progetti[p].esiste /\ progetti[p].partecipanti = {}

\* Operation x answers for project p.
Risponde(x, p) == x.progetto = p /\ x.fase \in {"leggiLista", "elimina"}

\* A step that writes nothing: the operation may drop its responsibility only
\* for a project that is not empty, or whose interruption is recorded.
LEMMA OrfaniProsegui ==
  ASSUME Tipi, OrfaniSpiegati, NEW o \in Operazioni, NEW dopo, Prosegui(o, dopo),
         interrotti \subseteq interrotti',
         \A p \in IdProgetti : (Risponde(op[o], p) /\ Vuoto(p)) =>
            Risponde(dopo, p) \/ p \in interrotti'
  PROVE  OrfaniSpiegati'
<1>1. /\ op'[o] = dopo
      /\ \A x \in Operazioni : x # o => op'[x] = op[x]
      /\ progetti' = progetti
  BY EffettoProsegui
<1>2. SUFFICES ASSUME NEW p \in IdProgetti, Vuoto(p)'
               PROVE  p \in interrotti' \/ \E x \in Operazioni : Risponde(op'[x], p)
  BY DEF OrfaniSpiegati, Vuoto, Risponde
<1>3. Vuoto(p)
  BY <1>1, <1>2 DEF Vuoto
<1>4. CASE p \in interrotti
  BY <1>4
<1>5. CASE \E x \in Operazioni : Risponde(op[x], p)
  <2>1. PICK x \in Operazioni : Risponde(op[x], p)
    BY <1>5
  <2>2. CASE x = o
    BY <1>1, <1>3, <2>1, <2>2
  <2>3. CASE x # o
    BY <1>1, <2>1, <2>3
  <2>4. QED
    BY <2>2, <2>3
<1>6. QED
  BY <1>3, <1>4, <1>5 DEF OrfaniSpiegati, Vuoto, Risponde

\* A step that writes project p: afterwards p is not empty, or somebody answers
\* for it; the other projects are as before.
LEMMA OrfaniScrivi ==
  ASSUME Tipi, OrfaniSpiegati, NEW o \in Operazioni, NEW p \in IdProgetti,
         NEW doc, NEW dopo, Scrivi(o, p, doc, dopo),
         interrotti \ {p} \subseteq interrotti',
         \A q \in IdProgetti : Risponde(op[o], q) => q = p,
         (doc.esiste /\ doc.partecipanti = {}) =>
            Risponde(dopo, p) \/ p \in interrotti'
  PROVE  OrfaniSpiegati'
<1>1. /\ op'[o] = dopo
      /\ \A x \in Operazioni : x # o =>
           /\ op'[x].fase = op[x].fase
           /\ op'[x].utente = op[x].utente
           /\ op'[x].progetto = op[x].progetto
           /\ op'[x].codice = op[x].codice
           /\ op'[x].letti = op[x].letti
      /\ progetti'[p] = doc
      /\ \A q \in IdProgetti : q # p => progetti'[q] = progetti[q]
  BY EffettoScrivi
<1>2. SUFFICES ASSUME NEW q \in IdProgetti, Vuoto(q)'
               PROVE  q \in interrotti' \/ \E x \in Operazioni : Risponde(op'[x], q)
  BY DEF OrfaniSpiegati, Vuoto, Risponde
<1>3. CASE q = p
  BY <1>1, <1>2, <1>3 DEF Vuoto
<1>4. CASE q # p
  <2>1. Vuoto(q)
    BY <1>1, <1>2, <1>4 DEF Vuoto
  <2>2. CASE q \in interrotti
    BY <1>4, <2>2
  <2>3. CASE \E x \in Operazioni : Risponde(op[x], q)
    <3>1. PICK x \in Operazioni : Risponde(op[x], q)
      BY <2>3
    <3>2. x # o
      BY <3>1, <1>4
    <3>3. Risponde(op'[x], q)
      BY <3>1, <3>2, <1>1 DEF Risponde
    <3>4. QED
      BY <3>3
  <2>4. QED
    BY <2>1, <2>2, <2>3 DEF OrfaniSpiegati, Vuoto, Risponde
<1>5. QED
  BY <1>3, <1>4

\* Every step keeps each project without participants accounted for.
LEMMA OrfaniNext ==
  ASSUME Tipi, OrfaniSpiegati, [Next]_vars
  PROVE  OrfaniSpiegati'
<1>c. \A o \in Operazioni : BenFormata(op[o]) /\ op[o] \in Operazione
  BY DEF Tipi, TipiOp
<1>1. ASSUME NEW o \in Operazioni, Comando(o)
      PROVE  OrfaniSpiegati'
  <2>1. /\ op[o].fase = "ferma"
        /\ interrotti' = interrotti
        /\ \E dopo : Prosegui(o, dopo)
    BY <1>1 DEF Comando, AddProgetto, AggiungiPartecipanteConCodice,
                AbbandonaProgetto, AggiornaProgetto, Sincronizza, Avvia
  <2>2. QED
    BY <2>1, OrfaniProsegui DEF Risponde
<1>2. ASSUME NEW o \in Operazioni, Passo(o)
      PROVE  OrfaniSpiegati'
  <2> DEFINE p == op[o].progetto
  <2>1. CASE CreaProgetto(o)
    <3>1. PICK q \in IdProgetti, c \in Codici :
            Scrivi(o, q, NuovoProgetto(op[o].utente, c), Ricarica(o))
      BY <2>1 DEF CreaProgetto
    <3>2. NuovoProgetto(op[o].utente, c).partecipanti # {}
      BY DEF NuovoProgetto
    <3>3. op[o].fase = "crea" /\ interrotti' = interrotti
      BY <2>1 DEF CreaProgetto
    <3>4. \A q2 \in IdProgetti : ~Risponde(op[o], q2)
      BY <3>3 DEF Risponde
    <3>5. QED
      BY <3>1, <3>2, <3>3, <3>4, OrfaniScrivi
  <2>2. CASE \/ GetProgettoIdByCodice(o) \/ GetProgettiUtente(o)
             \/ AggiungiPartecipanteFallisce(o) \/ MostraErrore(o)
             \/ VerificaEsistenza(o) \/ GetProgettoById(o)
             \/ CaricaProgettiUtente(o)
    <3>1. op[o].fase \notin {"leggiLista", "elimina"} /\ interrotti' = interrotti
      BY <2>2 DEF GetProgettoIdByCodice, GetProgettiUtente,
                  AggiungiPartecipanteFallisce, MostraErrore, VerificaEsistenza,
                  GetProgettoById, CaricaProgettiUtente
    <3>2. \E dopo : Prosegui(o, dopo)
      BY <2>2 DEF GetProgettoIdByCodice, GetProgettiUtente,
                  AggiungiPartecipanteFallisce, MostraErrore, VerificaEsistenza,
                  GetProgettoById, CaricaProgettiUtente
    <3>3. QED
      BY <3>1, <3>2, OrfaniProsegui DEF Risponde
  <2>3. CASE AggiungiPartecipante(o)
    <3>1. p \in IdProgetti /\ op[o].fase = "unisci"
      BY <1>c, <2>3 DEF AggiungiPartecipante, BenFormata, ConProgetto
    <3>2. progetti[p] \in Documento
      BY <3>1 DEF Tipi, TipiOp
    <3>3. ArrayUnion(progetti[p], op[o].utente).partecipanti # {}
      BY <3>2 DEF ArrayUnion, Documento
    <3>4. /\ Scrivi(o, p, ArrayUnion(progetti[p], op[o].utente), Ricarica(o))
          /\ interrotti' = interrotti \ {p}
      BY <2>3 DEF AggiungiPartecipante
    <3>5. \A q \in IdProgetti : ~Risponde(op[o], q)
      BY <3>1 DEF Risponde
    <3>6. QED
      BY <3>1, <3>3, <3>4, <3>5, OrfaniScrivi
  <2>4. CASE RimuoviPartecipante(o)
    <3>1. p \in IdProgetti /\ op[o].fase = "rimuovi" /\ interrotti' = interrotti
      BY <1>c, <2>4 DEF RimuoviPartecipante, BenFormata, ConProgetto
    <3>2. \A q \in IdProgetti : ~Risponde(op[o], q)
      BY <3>1 DEF Risponde
    <3>3. CASE progetti[p].esiste
      <4> DEFINE x == [op[o] EXCEPT !.fase = "leggiLista"]
      <4>1. Scrivi(o, p, ArrayRemove(progetti[p], op[o].utente), x)
        BY <2>4, <3>3 DEF RimuoviPartecipante
      <4>2. Risponde(x, p)
        BY <1>c DEF Risponde, Operazione
      <4> HIDE DEF x
      <4>3. QED
        BY <3>1, <3>2, <4>1, <4>2, OrfaniScrivi
    <3>4. CASE ~progetti[p].esiste
      BY <2>4, <3>1, <3>2, <3>4, OrfaniProsegui DEF RimuoviPartecipante
    <3>5. QED
      BY <3>3, <3>4
  <2>5. CASE GetPartecipantiDelProgetto(o)
    <3>1. interrotti' = interrotti
      BY <2>5 DEF GetPartecipantiDelProgetto
    <3>2. CASE progetti[p].partecipanti = {}
      <4> DEFINE x == [op[o] EXCEPT !.fase = "elimina"]
      <4>1. Prosegui(o, x)
        BY <2>5, <3>2 DEF GetPartecipantiDelProgetto, DaEliminare
      <4>2. \A q \in IdProgetti : Risponde(op[o], q) => Risponde(x, q)
        BY <1>c DEF Risponde, Operazione
      <4> HIDE DEF x
      <4>3. QED
        BY <3>1, <4>1, <4>2, OrfaniProsegui
    <3>3. CASE progetti[p].partecipanti # {}
      <4>1. Prosegui(o, Ricarica(o))
        BY <2>5, <3>3 DEF GetPartecipantiDelProgetto, DaEliminare
      <4>2. \A q \in IdProgetti : ~(Risponde(op[o], q) /\ Vuoto(q))
        BY <3>3 DEF Risponde, Vuoto
      <4>3. QED
        BY <3>1, <4>1, <4>2, OrfaniProsegui
    <3>4. QED
      BY <3>2, <3>3
  <2>6. CASE EliminaProgetto(o)
    <3>1. p \in IdProgetti
      BY <1>c, <2>6 DEF EliminaProgetto, BenFormata, ConProgetto
    <3>2. /\ Scrivi(o, p, Inesistente, Ricarica(o))
          /\ interrotti' = interrotti \ {p}
      BY <2>6 DEF EliminaProgetto
    <3>3. \A q \in IdProgetti : Risponde(op[o], q) => q = p
      BY DEF Risponde
    <3>4. ~Inesistente.esiste
      BY DEF Inesistente
    <3>5. QED
      BY <3>1, <3>2, <3>3, <3>4, OrfaniScrivi
  <2>7. CASE SetProgetto(o)
    <3> DEFINE doc == CopyWith(op[o].letti, op[o].codice)
    <3>1. p \in IdProgetti /\ op[o].fase = "scrivi"
      BY <1>c, <2>7 DEF SetProgetto, BenFormata, ConProgetto
    <3>2. Scrivi(o, p, doc, Ferma) /\ interrotti \ {p} \subseteq interrotti'
      BY <2>7 DEF SetProgetto
    <3>3. doc.partecipanti = {} => p \in interrotti'
      BY <2>7 DEF SetProgetto, CopyWith
    <3>4. \A q \in IdProgetti : ~Risponde(op[o], q)
      BY <3>1 DEF Risponde
    <3> HIDE DEF doc
    <3>5. QED
      BY <3>1, <3>2, <3>3, <3>4, OrfaniScrivi
  <2>8. CASE Fallisce(o)
    <3>1. Prosegui(o, Ferma) /\ interrotti' = interrotti \cup Orfani({o})
      BY <2>8 DEF Fallisce
    <3>2. \A q \in IdProgetti : (Risponde(op[o], q) /\ Vuoto(q)) => q \in interrotti'
      BY <3>1 DEF Orfani, Risponde, Vuoto
    <3>3. QED
      BY <3>1, <3>2, OrfaniProsegui
  <2>9. QED
    BY <1>2, <2>1, <2>2, <2>3, <2>4, <2>5, <2>6, <2>7, <2>8 DEF Passo
<1>3. ASSUME NEW u \in Utenti, ChiudiApp(u)
      PROVE  OrfaniSpiegati'
  <2> DEFINE mie == {o \in Operazioni : op[o].utente = u}
  <2>1. /\ progetti' = progetti
        /\ interrotti' = interrotti \cup Orfani(mie)
        /\ \A x \in Operazioni : op[x].utente # u => op'[x] = op[x]
    BY <1>3 DEF ChiudiApp
  <2>2. SUFFICES ASSUME NEW p \in IdProgetti, Vuoto(p)
                 PROVE  p \in interrotti' \/ \E x \in Operazioni : Risponde(op'[x], p)
    BY <2>1 DEF OrfaniSpiegati, Vuoto, Risponde
  <2>3. CASE p \in interrotti
    BY <2>1, <2>3
  <2>4. ASSUME NEW x \in Operazioni, Risponde(op[x], p)
        PROVE  p \in interrotti' \/ \E y \in Operazioni : Risponde(op'[y], p)
    <3>1. CASE op[x].utente = u
      BY <2>1, <2>2, <2>4, <3>1 DEF Orfani, Risponde, Vuoto
    <3>2. CASE op[x].utente # u
      BY <2>1, <2>4, <3>2
    <3>3. QED
      BY <3>1, <3>2
  <2>5. QED
    BY <2>2, <2>3, <2>4 DEF OrfaniSpiegati, Vuoto, Risponde
<1>4. CASE UNCHANGED vars
  BY <1>4 DEF vars, OrfaniSpiegati
<1>5. QED
  BY <1>1, <1>2, <1>3, <1>4 DEF Next

\* A project without participants has an operation that will examine it, or is
\* one of those whose abandonment was interrupted or undone by an edit.
THEOREM OrfaniSempreSpiegati == Spec => []OrfaniSpiegati
<1> DEFINE Inv == Tipi /\ OrfaniSpiegati
<1>1. Init => Inv
  BY TipiInit DEF Init, OrfaniSpiegati, Inesistente
<1>2. Inv /\ [Next]_vars => Inv'
  BY TipiNext, OrfaniNext
<1>3. QED
  BY <1>1, <1>2, PTL DEF Spec

-----------------------------------------------------------------------------
(* Deletion.  Of the calls that write a project, only those of addProgetto *)
(* and aggiornaProgetto may create a document: the first takes a new id,   *)
(* the second needs a reading of the project from when it existed.         *)

\* A step that writes nothing leaves p buried if no edit has read p by it.
LEMMA SepoltoProsegui ==
  ASSUME Tipi, NEW p \in IdProgetti, Sepolto(p), NEW o \in Operazioni, NEW dopo,
         Prosegui(o, dopo), UNCHANGED creatore,
         ~(dopo.fase = "scrivi" /\ dopo.progetto = p)
  PROVE  Sepolto(p)'
<1>1. /\ op'[o] = dopo
      /\ \A x \in Operazioni : x # o => op'[x] = op[x]
      /\ progetti' = progetti
  BY EffettoProsegui
<1>2. QED
  BY <1>1 DEF Sepolto

\* So does one that writes another project, or deletes one.
LEMMA SepoltoScrivi ==
  ASSUME Tipi, NEW p \in IdProgetti, Sepolto(p), NEW o \in Operazioni,
         NEW q \in IdProgetti, NEW doc, NEW dopo, Scrivi(o, q, doc, dopo),
         creatore'[p] = creatore[p], dopo.fase # "scrivi",
         q # p \/ ~doc.esiste
  PROVE  Sepolto(p)'
<1>1. /\ op'[o] = dopo
      /\ \A x \in Operazioni : x # o => /\ op'[x].fase = op[x].fase
                                        /\ op'[x].progetto = op[x].progetto
      /\ progetti'[q] = doc
      /\ \A r \in IdProgetti : r # q => progetti'[r] = progetti[r]
  BY EffettoScrivi
<1>2. ~progetti'[p].esiste
  BY <1>1 DEF Sepolto
<1>3. QED
  BY <1>1, <1>2 DEF Sepolto

\* What follows a success, or the end of an operation, stores nothing more.
LEMMA NonScrivono ==
  ASSUME NEW o \in Operazioni
  PROVE  Ricarica(o).fase # "scrivi" /\ Ferma.fase # "scrivi"
  BY DEF Ricarica, Ferma

\* Nothing that users start stores a project, or is about to.
LEMMA SepoltoComando ==
  ASSUME Tipi, NEW p \in IdProgetti, Sepolto(p), NEW o \in Operazioni, Comando(o)
  PROVE  Sepolto(p)'
<1>1. PICK f \in Fasi \ {"scrivi"} : \E u, q, c : Avvia(o, f, u, q, c)
  BY DEF Comando, AddProgetto, AggiungiPartecipanteConCodice, AbbandonaProgetto,
         AggiornaProgetto, Sincronizza, Fasi
<1>2. PICK u, q, c : Avvia(o, f, u, q, c)
  BY <1>1
<1>3. PICK dopo : /\ dopo = [Ferma EXCEPT !.fase = f, !.utente = u,
                                          !.progetto = q, !.codice = c]
                  /\ Prosegui(o, dopo)
  BY <1>2 DEF Avvia
<1>4. dopo.fase = f
  BY <1>3 DEF Ferma
<1>5. UNCHANGED creatore
  BY DEF Comando, AddProgetto, AggiungiPartecipanteConCodice, AbbandonaProgetto,
         AggiornaProgetto, Sincronizza, storia
<1>6. QED
  BY <1>1, <1>3, <1>4, <1>5, SepoltoProsegui

\* Every call that an operation awaits leaves p buried.
LEMMA SepoltoPasso ==
  ASSUME Tipi, NEW p \in IdProgetti, Sepolto(p), NEW o \in Operazioni, Passo(o)
  PROVE  Sepolto(p)'
<1> DEFINE q == op[o].progetto
<1>0. op[o] \in Operazione /\ BenFormata(op[o])
  BY DEF Tipi, TipiOp
<1>1. CASE CreaProgetto(o)
  <2>1. PICK n \in IdProgetti, c \in Codici :
          /\ creatore[n] = Nessuno
          /\ Scrivi(o, n, NuovoProgetto(op[o].utente, c), Ricarica(o))
          /\ creatore' = [creatore EXCEPT ![n] = op[o].utente]
    BY <1>1 DEF CreaProgetto
  <2>2. n # p
    BY <2>1 DEF Sepolto
  <2>3. creatore'[p] = creatore[p]
    BY <2>1, <2>2 DEF Tipi, TypeOK
  <2>4. QED
    BY <2>1, <2>2, <2>3, NonScrivono, SepoltoScrivi
<1>2. CASE GetProgettoById(o)
  <2>1. q \in IdProgetti
    BY <1>0, <1>2 DEF GetProgettoById, BenFormata, ConProgetto
  <2>2. PICK dopo : /\ Prosegui(o, dopo)
                    /\ \/ dopo = Ferma
                       \/ /\ progetti[q].esiste
                          /\ dopo = [op[o] EXCEPT !.fase = "scrivi",
                                        !.codice = progetti[q].codice,
                                        !.letti = progetti[q].partecipanti]
    BY <1>2 DEF GetProgettoById
  <2>3. dopo = Ferma \/ dopo.progetto # p
    BY <1>0, <2>2 DEF Operazione, Sepolto
  <2>4. UNCHANGED creatore
    BY <1>2 DEF GetProgettoById, storia
  <2>5. QED
    BY <2>2, <2>3, <2>4, NonScrivono, SepoltoProsegui
<1>3. CASE AggiungiPartecipante(o) \/ RimuoviPartecipante(o)
  <2>1. q \in IdProgetti /\ UNCHANGED creatore
    BY <1>0, <1>3 DEF AggiungiPartecipante, RimuoviPartecipante, BenFormata,
                      ConProgetto, storia
  <2>2. CASE progetti[q].esiste
    <3>1. q # p
      BY <2>2 DEF Sepolto
    <3>2. PICK doc, dopo : /\ Scrivi(o, q, doc, dopo)
                           /\ \/ dopo = Ricarica(o)
                              \/ dopo = [op[o] EXCEPT !.fase = "leggiLista"]
      BY <1>3, <2>2 DEF AggiungiPartecipante, RimuoviPartecipante
    <3>3. dopo.fase # "scrivi"
      BY <1>0, <3>2, NonScrivono DEF Operazione
    <3>4. QED
      BY <2>1, <3>1, <3>2, <3>3, SepoltoScrivi
  <2>3. CASE ~progetti[q].esiste
    <3>1. Prosegui(o, Ferma)
      BY <1>3, <2>3 DEF AggiungiPartecipante, RimuoviPartecipante
    <3>2. QED
      BY <2>1, <3>1, NonScrivono, SepoltoProsegui
  <2>4. QED
    BY <2>2, <2>3
<1>4. CASE EliminaProgetto(o)
  <2>1. /\ q \in IdProgetti
        /\ Scrivi(o, q, Inesistente, Ricarica(o))
        /\ UNCHANGED creatore
    BY <1>0, <1>4 DEF EliminaProgetto, BenFormata, ConProgetto, storia
  <2>2. ~Inesistente.esiste
    BY DEF Inesistente
  <2>3. QED
    BY <2>1, <2>2, NonScrivono, SepoltoScrivi
<1>5. CASE SetProgetto(o)
  <2>1. /\ q \in IdProgetti
        /\ Scrivi(o, q, CopyWith(op[o].letti, op[o].codice), Ferma)
        /\ UNCHANGED creatore
    BY <1>0, <1>5 DEF SetProgetto, BenFormata, ConProgetto, storia
  <2>2. q # p
    BY <1>5 DEF SetProgetto, Sepolto
  <2>3. QED
    BY <2>1, <2>2, NonScrivono, SepoltoScrivi
<1>6. CASE \/ GetProgettoIdByCodice(o) \/ GetProgettiUtente(o)
           \/ AggiungiPartecipanteFallisce(o) \/ MostraErrore(o)
           \/ VerificaEsistenza(o) \/ GetPartecipantiDelProgetto(o)
           \/ CaricaProgettiUtente(o) \/ Fallisce(o)
  <2>1. PICK dopo : Prosegui(o, dopo) /\ dopo.fase # "scrivi"
    <3>1. PICK dopo : /\ Prosegui(o, dopo)
                      /\ \/ dopo = Ferma
                         \/ dopo = Ricarica(o)
                         \/ \E n \in IdProgetti \cup {Nessuno} :
                              dopo = [op[o] EXCEPT !.fase = "cercaElenco",
                                                   !.progetto = n]
                         \/ \E f \in {"unisci", "dialogo", "rimuovi", "elimina"} :
                              dopo = [op[o] EXCEPT !.fase = f]
      BY <1>6 DEF GetProgettoIdByCodice, GetProgettiUtente,
                  AggiungiPartecipanteFallisce, MostraErrore, VerificaEsistenza,
                  GetPartecipantiDelProgetto, CaricaProgettiUtente, Fallisce,
                  ConCodice
    <3>2. dopo.fase # "scrivi"
      BY <1>0, <3>1, NonScrivono DEF Operazione
    <3>3. QED
      BY <3>1, <3>2
  <2>2. UNCHANGED creatore
    BY <1>6 DEF GetProgettoIdByCodice, GetProgettiUtente,
                AggiungiPartecipanteFallisce, MostraErrore, VerificaEsistenza,
                GetPartecipantiDelProgetto, CaricaProgettiUtente, Fallisce, storia
  <2>3. QED
    BY <2>1, <2>2, SepoltoProsegui
<1>7. QED
  BY <1>1, <1>2, <1>3, <1>4, <1>5, <1>6 DEF Passo

\* The end of an application starts no edit.
LEMMA SepoltoChiudiApp ==
  ASSUME NEW p \in IdProgetti, Sepolto(p), NEW u \in Utenti, ChiudiApp(u)
  PROVE  Sepolto(p)'
<1>1. \A x \in Operazioni : op'[x] = Ferma \/ op'[x] = op[x]
  BY DEF ChiudiApp
<1>2. UNCHANGED <<progetti, creatore>>
  BY DEF ChiudiApp, storia
<1>3. QED
  BY <1>1, <1>2 DEF Sepolto, Ferma

\* A deleted project that no edit still holds is never seen again.
THEOREM EliminazioneSempreDefinitiva == Spec => EliminazioneDefinitiva
<1> DEFINE Resta == \A p \in IdProgetti : Sepolto(p) => Sepolto(p)'
<1>1. ASSUME Tipi, Next PROVE Resta
  BY <1>1, SepoltoComando, SepoltoPasso, SepoltoChiudiApp DEF Next
<1>2. Tipi /\ [Next]_vars => [Resta]_vars
  BY <1>1
<1>3. QED
  BY <1>2, TipiInit, TipiNext, PTL DEF Spec, EliminazioneDefinitiva

=============================================================================
