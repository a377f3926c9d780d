------------------------------ MODULE Progetti ------------------------------
(***************************************************************************)
(* The `progetti` collection of Firestore and the operations that          *)
(* RepositoryProgetto / ProgettoViewModel perform on it, on behalf of      *)
(* several users on several devices.                                       *)
(*                                                                         *)
(* Dart runs each device's code on one thread, so an operation runs        *)
(* undisturbed from one `await` to the next; what it awaits is a single    *)
(* call of Firestore, atomic on one document.  An operation is therefore a *)
(* record in one of the slots of `Operazioni` whose `fase` names the call  *)
(* it awaits, and each call is one action.  No operation of this code uses *)
(* a transaction: everything may happen between two calls.                 *)
(*                                                                         *)
(* Left out: the fields of a project that the edit form owns (nome,        *)
(* descrizione, dates, priorita, voto, completato): an edit writes them    *)
(* from the form and no operation modelled here reads them.                *)
(***************************************************************************)

CONSTANTS
    Utenti,      \* uids of the users of the application
    IdProgetti,  \* automatic ids of documents of `progetti`
    Codici,      \* values of generaCodiceProgetto
    Operazioni,  \* slots: as many operations as may be in flight at once
    Nessuno      \* null

ASSUME NessunoAssumption ==
    /\ Nessuno \notin Utenti
    /\ Nessuno \notin IdProgetti
    /\ Nessuno \notin Codici

VARIABLES
    progetti,  \* [IdProgetti -> Documento]: the collection
    op,        \* [Operazioni -> Operazione]: the operations in flight
    visti,     \* [Utenti -> SUBSET IdProgetti]: projects on the user's screens
    errore,    \* [Utenti -> BOOLEAN]: _erroreAggiungiProgetto is not null
    \* History, read by the properties and by nothing else:
    creatore,        \* [IdProgetti -> uid that created it, or Nessuno]
    codiceIniziale,  \* [IdProgetti -> code it was created with, or Nessuno]
    codiciUsati,     \* [Utenti -> codes the user has submitted to join]
    interrotti       \* projects left empty by an interrupted operation

storia == <<creatore, codiceIniziale, codiciUsati>>

vars == <<progetti, op, visti, errore, storia, interrotti>>

Documento == [esiste       : BOOLEAN,
              partecipanti : SUBSET Utenti,
              codice       : Codici \cup {Nessuno}]

Inesistente == [esiste |-> FALSE, partecipanti |-> {}, codice |-> Nessuno]

Fasi == {"ferma",
         "crea",                                          \* addProgetto
         "cercaCodice", "cercaElenco", "unisci", "dialogo",  \* join by code
         "verifica", "rimuovi", "leggiLista", "elimina",  \* abbandonaProgetto
         "leggi", "scrivi",                               \* aggiornaProgetto
         "ricarica"}                                      \* caricaProgettiUtente

Operazione == [fase     : Fasi,
               utente   : Utenti \cup {Nessuno},
               progetto : IdProgetti \cup {Nessuno},
               codice   : Codici \cup {Nessuno},  \* typed in, or read
               letti    : SUBSET Utenti,          \* participants read
               mutati   : SUBSET Utenti]          \* history: see Finestra

Ferma == [fase |-> "ferma", utente |-> Nessuno, progetto |-> Nessuno,
          codice |-> Nessuno, letti |-> {}, mutati |-> {}]

Init == /\ progetti = [p \in IdProgetti |-> Inesistente]
        /\ op = [o \in Operazioni |-> Ferma]
        /\ visti = [u \in Utenti |-> {}]
        /\ errore = [u \in Utenti |-> FALSE]
        /\ creatore = [p \in IdProgetti |-> Nessuno]
        /\ codiceIniziale = [p \in IdProgetti |-> Nessuno]
        /\ codiciUsati = [u \in Utenti |-> {}]
        /\ interrotti = {}

-----------------------------------------------------------------------------
(***************************************************************************)
(* Firestore, as the repository uses it.  `update` throws when the         *)
(* document does not exist; `set` creates it; `delete` of a missing        *)
(* document succeeds.                                                      *)
(***************************************************************************)

ArrayUnion(doc, u) == [doc EXCEPT !.partecipanti = @ \cup {u}]

ArrayRemove(doc, u) == [doc EXCEPT !.partecipanti = @ \ {u}]

\* The document that addProgetto stores for its creator u.
NuovoProgettoSenzaUtente(u, c) ==
    [esiste |-> TRUE, partecipanti |-> {Nessuno}, codice |-> c]
NuovoProgetto(u, c) == [esiste |-> TRUE, partecipanti |-> {u}, codice |-> c]

\* The document that an edit stores: `copyWith` keeps the participants and the
\* code as they were read.
CopyWithSenzaCodice(letti, codice) ==
    [esiste |-> TRUE, partecipanti |-> letti, codice |-> Nessuno]
CopyWith(letti, codice) ==
    [esiste |-> TRUE, partecipanti |-> letti, codice |-> codice]

\* abbandonaProgetto deletes the project when the list it has read is empty.
EliminaSempre(lista) == TRUE
EliminaMai(lista) == FALSE
EliminaSeRestaUno(lista) == \A u, v \in lista : u = v
DaEliminare(lista) == lista = {}

ProgettiDi(u) == {p \in IdProgetti : progetti[p].esiste
                                     /\ u \in progetti[p].partecipanti}

\* The documents with code c.
ConQualsiasiCodice(c) == {p \in IdProgetti : progetti[p].esiste}
ConCodice(c) == {p \in IdProgetti : progetti[p].esiste
                                    /\ progetti[p].codice = c}

\* Operation x has read the participants of p and is about to write on the
\* strength of that reading.
Finestra(x, p) == op[x].progetto = p /\ op[x].fase \in {"scrivi", "elimina"}

Differenza(S, T) == (S \ T) \cup (T \ S)

\* Operation o stores `doc` as project p and goes on as `dopo`.  History: every
\* operation whose window on p is open records whose membership has changed.
Scrivi(o, p, doc, dopo) ==
    /\ progetti' = [progetti EXCEPT ![p] = doc]
    /\ op' = [x \in Operazioni |->
                IF x = o THEN dopo
                ELSE IF Finestra(x, p)
                     THEN [op[x] EXCEPT !.mutati = @ \cup
                             Differenza(progetti[p].partecipanti, doc.partecipanti)]
                     ELSE op[x]]

\* Operation o goes on as `dopo` without writing.
Prosegui(o, dopo) == op' = [op EXCEPT ![o] = dopo] /\ UNCHANGED progetti

\* The reload of the home list of o's user, which ends most operations.
Ricarica(o) == [Ferma EXCEPT !.fase = "ricarica", !.utente = op[o].utente]

\* Operation o starts in phase f, for user u on project p with code c.
Avvia(o, f, u, p, c) ==
    /\ op[o].fase = "ferma"
    /\ Prosegui(o, [Ferma EXCEPT !.fase = f, !.utente = u,
                                 !.progetto = p, !.codice = c])

-----------------------------------------------------------------------------
(* addProgetto: the "Conferma" button of the dialog, project name given.   *)

AddProgetto(o, u) ==
    /\ Avvia(o, "crea", u, Nessuno, Nessuno)
    /\ UNCHANGED <<visti, errore, storia, interrotti>>

\* The document gets a fresh automatic id and a random code, which nothing
\* compares with the codes in use.
CreaProgetto(o) ==
    /\ op[o].fase = "crea"
    /\ \E p \in IdProgetti, c \in Codici :
         /\ creatore[p] = Nessuno
         /\ Scrivi(o, p, NuovoProgetto(op[o].utente, c), Ricarica(o))
         /\ creatore' = [creatore EXCEPT ![p] = op[o].utente]
         /\ codiceIniziale' = [codiceIniziale EXCEPT ![p] = c]
    /\ UNCHANGED <<visti, errore, codiciUsati, interrotti>>

-----------------------------------------------------------------------------
(* aggiungiPartecipanteConCodice: "Conferma" with a code typed in.         *)

AggiungiPartecipanteConCodice(o, u, c) ==
    /\ Avvia(o, "cercaCodice", u, Nessuno, c)
    /\ codiciUsati' = [codiciUsati EXCEPT ![u] = @ \cup {c}]
    /\ UNCHANGED <<visti, errore, creatore, codiceIniziale, interrotti>>

\* Mutant: an unknown code is waited for.
AttendeIlCodice(o) ==
    /\ op[o].fase = "cercaCodice"
    /\ \E p \in ConCodice(op[o].codice) :
         Prosegui(o, [op[o] EXCEPT !.fase = "cercaElenco", !.progetto = p])
    /\ UNCHANGED <<visti, errore, storia, interrotti>>

\* docs[0] of the query; null when there is none, and when the query throws.
GetProgettoIdByCodice(o) ==
    /\ op[o].fase = "cercaCodice"
    /\ \E p \in ConCodice(op[o].codice) \cup {Nessuno} :
         Prosegui(o, [op[o] EXCEPT !.fase = "cercaElenco", !.progetto = p])
    /\ UNCHANGED <<visti, errore, storia, interrotti>>

\* The query for the user's own projects; an exception yields the empty list.
GetProgettiUtente(o) ==
    LET u == op[o].utente
        p == op[o].progetto
    IN  /\ op[o].fase = "cercaElenco"
        /\ \E mieiProgetti \in {ProgettiDi(u), {}} :
             IF p # Nessuno /\ p \notin mieiProgetti
             THEN /\ Prosegui(o, [op[o] EXCEPT !.fase = "unisci"])
                  /\ UNCHANGED errore
             ELSE /\ Prosegui(o, [op[o] EXCEPT !.fase = "dialogo"])
                  /\ errore' = [errore EXCEPT ![u] = TRUE]
        /\ UNCHANGED <<visti, storia, interrotti>>

\* Mutant: the participant is stored with `set`, which creates the document.
AggiungiPartecipanteConSet(o) ==
    LET u == op[o].utente
        p == op[o].progetto
    IN  /\ op[o].fase = "unisci"
        /\ Scrivi(o, p, [ArrayUnion(progetti[p], u) EXCEPT !.esiste = TRUE],
                  Ricarica(o))
        /\ errore' = [errore EXCEPT ![u] = FALSE]
        /\ interrotti' = interrotti \ {p}
        /\ UNCHANGED <<visti, storia>>

AggiungiPartecipante(o) ==
    LET u == op[o].utente
        p == op[o].progetto
    IN  /\ op[o].fase = "unisci"
        /\ progetti[p].esiste
        /\ Scrivi(o, p, ArrayUnion(progetti[p], u), Ricarica(o))
        /\ errore' = [errore EXCEPT ![u] = FALSE]
        /\ interrotti' = interrotti \ {p}
        /\ UNCHANGED <<visti, storia>>

\* The update throws: the document is gone, or the call fails.
AggiungiPartecipanteFallisce(o) ==
    /\ op[o].fase = "unisci"
    /\ Prosegui(o, [op[o] EXCEPT !.fase = "dialogo"])
    /\ errore' = [errore EXCEPT ![op[o].utente] = TRUE]
    /\ UNCHANGED <<visti, storia, interrotti>>

\* The frame that builds the error dialog reads erroreAggiungiProgetto!.
MostraErrore(o) ==
    /\ op[o].fase = "dialogo"
    /\ Prosegui(o, Ferma)
    /\ UNCHANGED <<visti, errore, storia, interrotti>>

-----------------------------------------------------------------------------
(* abbandonaProgetto: from the menu of a project on the user's screens.    *)

AbbandonaProgetto(o, u, p) ==
    /\ p \in visti[u]
    /\ Avvia(o, "verifica", u, p, Nessuno)
    /\ UNCHANGED <<visti, errore, storia, interrotti>>

VerificaEsistenza(o) ==
    /\ op[o].fase = "verifica"
    /\ Prosegui(o, IF progetti[op[o].progetto].esiste
                   THEN [op[o] EXCEPT !.fase = "rimuovi"]
                   ELSE Ferma)
    /\ UNCHANGED <<visti, errore, storia, interrotti>>

RimuoviPartecipante(o) ==
    LET p == op[o].progetto
    IN  /\ op[o].fase = "rimuovi"
        /\ IF progetti[p].esiste
           THEN Scrivi(o, p, ArrayRemove(progetti[p], op[o].utente),
                       [op[o] EXCEPT !.fase = "leggiLista"])
           ELSE Prosegui(o, Ferma)
        /\ UNCHANGED <<visti, errore, storia, interrotti>>

\* A missing document reads as the empty list.
GetPartecipantiDelProgetto(o) ==
    LET lista == progetti[op[o].progetto].partecipanti
    IN  /\ op[o].fase = "leggiLista"
        /\ Prosegui(o, IF DaEliminare(lista)
                       THEN [op[o] EXCEPT !.fase = "elimina"]
                       ELSE Ricarica(o))
        /\ UNCHANGED <<visti, errore, storia, interrotti>>

EliminaProgetto(o) ==
    LET p == op[o].progetto
    IN  /\ op[o].fase = "elimina"
        /\ Scrivi(o, p, Inesistente, Ricarica(o))
        /\ interrotti' = interrotti \ {p}
        /\ UNCHANGED <<visti, errore, storia>>

-----------------------------------------------------------------------------
(* aggiornaProgetto: the save button of ModificaProgetto.                  *)

AggiornaProgetto(o, u, p) ==
    /\ p \in visti[u]
    /\ Avvia(o, "leggi", u, p, Nessuno)
    /\ UNCHANGED <<visti, errore, storia, interrotti>>

\* null, when the document is missing, ends the operation silently.
GetProgettoById(o) ==
    LET doc == progetti[op[o].progetto]
    IN  /\ op[o].fase = "leggi"
        /\ Prosegui(o, IF doc.esiste
                       THEN [op[o] EXCEPT !.fase = "scrivi",
                                          !.codice = doc.codice,
                                          !.letti = doc.partecipanti]
                       ELSE Ferma)
        /\ UNCHANGED <<visti, errore, storia, interrotti>>

\* `set` stores the whole document, whether or not it still exists.  The list
\* that is reloaded next belongs to a view model of the edit screen alone.
SetProgetto(o) ==
    LET p == op[o].progetto
    IN  /\ op[o].fase = "scrivi"
        /\ Scrivi(o, p, CopyWith(op[o].letti, op[o].codice), Ferma)
        /\ interrotti' = IF op[o].letti = {} THEN interrotti \cup {p}
                                             ELSE interrotti \ {p}
        /\ UNCHANGED <<visti, errore, storia>>

-----------------------------------------------------------------------------
(* caricaProgettiUtente: home page, "sync", and the tail of operations.    *)

Sincronizza(o, u) ==
    /\ Avvia(o, "ricarica", u, Nessuno, Nessuno)
    /\ UNCHANGED <<visti, errore, storia, interrotti>>

\* A screen opened on a project stays usable after the list has dropped it.
CaricaProgettiUtente(o) ==
    LET u == op[o].utente
    IN  /\ op[o].fase = "ricarica"
        /\ visti' = [visti EXCEPT ![u] = @ \cup ProgettiDi(u)]
        /\ Prosegui(o, Ferma)
        /\ UNCHANGED <<errore, storia, interrotti>>

-----------------------------------------------------------------------------
(* Failures.                                                               *)

\* Projects that o's disappearance leaves empty with nobody to delete them.
Orfani(O) == {p \in IdProgetti :
                /\ progetti[p].esiste
                /\ progetti[p].partecipanti = {}
                /\ \E o \in O : op[o].fase \in {"leggiLista", "elimina"}
                                /\ op[o].progetto = p}

\* The call that o awaits throws, with no effect in Firestore; the exception
\* reaches the top of the handler.  (Calls whose exceptions the repository
\* turns into a null or an empty list are dealt with in their own actions.)
Fallisce(o) ==
    /\ op[o].fase \notin {"ferma", "cercaCodice", "cercaElenco", "unisci",
                          "dialogo"}
    /\ Prosegui(o, Ferma)
    /\ errore' = IF op[o].fase = "crea"
                 THEN [errore EXCEPT ![op[o].utente] = TRUE] ELSE errore
    /\ interrotti' = interrotti \cup Orfani({o})
    /\ UNCHANGED <<visti, storia>>

\* The application of user u is closed or killed, wherever its operations are.
ChiudiApp(u) ==
    LET mie == {o \in Operazioni : op[o].utente = u}
    IN  /\ op' = [o \in Operazioni |-> IF o \in mie THEN Ferma ELSE op[o]]
        /\ visti' = [visti EXCEPT ![u] = {}]
        /\ errore' = [errore EXCEPT ![u] = FALSE]
        /\ interrotti' = interrotti \cup Orfani(mie)
        /\ UNCHANGED <<progetti, storia>>

-----------------------------------------------------------------------------

Comando(o) ==
    \/ \E u \in Utenti : AddProgetto(o, u)
    \/ \E u \in Utenti, c \in Codici : AggiungiPartecipanteConCodice(o, u, c)
    \/ \E u \in Utenti, p \in IdProgetti : AbbandonaProgetto(o, u, p)
    \/ \E u \in Utenti, p \in IdProgetti : AggiornaProgetto(o, u, p)
    \/ \E u \in Utenti : Sincronizza(o, u)

Passo(o) ==
    \/ CreaProgetto(o)
    \/ GetProgettoIdByCodice(o)
    \/ GetProgettiUtente(o)
    \/ AggiungiPartecipante(o)
    \/ AggiungiPartecipanteFallisce(o)
    \/ MostraErrore(o)
    \/ VerificaEsistenza(o)
    \/ RimuoviPartecipante(o)
    \/ GetPartecipantiDelProgetto(o)
    \/ EliminaProgetto(o)
    \/ GetProgettoById(o)
    \/ SetProgetto(o)
    \/ CaricaProgettiUtente(o)
    \/ Fallisce(o)

Next == \/ \E o \in Operazioni : Comando(o) \/ Passo(o)
        \/ \E u \in Utenti : ChiudiApp(u)

Spec == Init /\ [][Next]_vars

\* A call of Firestore that is awaited eventually returns or throws.
FairSpec == Spec /\ \A o \in Operazioni : WF_vars(Passo(o))

-----------------------------------------------------------------------------
(***************************************************************************)
(* Properties.                                                             *)
(***************************************************************************)

\* The variables have their types: in particular an operation never carries a
\* null user, project or participant into a document.
TypeOK ==
    /\ progetti \in [IdProgetti -> Documento]
    /\ op \in [Operazioni -> Operazione]
    /\ visti \in [Utenti -> SUBSET IdProgetti]
    /\ errore \in [Utenti -> BOOLEAN]
    /\ creatore \in [IdProgetti -> Utenti \cup {Nessuno}]
    /\ codiceIniziale \in [IdProgetti -> Codici \cup {Nessuno}]
    /\ codiciUsati \in [Utenti -> SUBSET Codici]
    /\ interrotti \in SUBSET IdProgetti

\* u may legitimately appear among the participants of p.
Ammesso(u, p) == creatore[p] = u \/ codiceIniziale[p] \in codiciUsati[u]

\* Whoever appears among the participants of a project created it or submitted
\* the code it was created with (aggiungiPartecipanteConCodice), whatever
\* stale snapshots aggiornaProgetto has written back in the meantime.
SoloConCodice ==
    \A p \in IdProgetti : progetti[p].esiste =>
        \A u \in progetti[p].partecipanti : Ammesso(u, p)

\* The code of a project, which members share with each other and newcomers
\* search for, is the one generated by addProgetto for as long as the document
\* exists, through edits and through a deletion undone by a late edit.
CodiceStabile ==
    \A p \in IdProgetti : progetti[p].esiste =>
        /\ codiceIniziale[p] # Nessuno
        /\ progetti[p].codice = codiceIniziale[p]

\* What an operation has read of the participants still holds of the document
\* when it writes, except for users whose membership changed in between: an
\* edit can undo, and a deletion can hit, only joins and leaves that took
\* place inside the operation's own read-to-write window.
PerditeSoloInFinestra ==
    \A o \in Operazioni, p \in IdProgetti : Finestra(o, p) =>
        Differenza(progetti[p].partecipanti, op[o].letti) \subseteq op[o].mutati

\* p was created and deleted, and no edit that read it is still to be stored.
Sepolto(p) ==
    /\ creatore[p] # Nessuno
    /\ ~progetti[p].esiste
    /\ \A o \in Operazioni : ~(op[o].fase = "scrivi" /\ op[o].progetto = p)

\* A deletion (eliminaProgetto) is final once the edits that had read the
\* project are stored or have failed: no late join, departure, edit from a
\* screen that still shows the project, or creation brings it back.
EliminazioneDefinitiva ==
    [][\A p \in IdProgetti : Sepolto(p) => Sepolto(p)']_vars

\* A project without participants is about to be examined by an operation that
\* abandons it (abbandonaProgetto), unless that operation was interrupted or
\* an edit wrote the empty list back.
OrfaniSpiegati ==
    \A p \in IdProgetti :
        (progetti[p].esiste /\ progetti[p].partecipanti = {}) =>
            \/ p \in interrotti
            \/ \E o \in Operazioni : /\ op[o].progetto = p
                                     /\ op[o].fase \in {"leggiLista", "elimina"}

\* Every operation returns control to the user, whatever the others do.
OgniOperazioneTermina ==
    \A o \in Operazioni : op[o].fase # "ferma" ~> op[o].fase = "ferma"

\* abbandonaProgetto: a project that is left without participants is deleted,
\* or someone enters it, or the operation was interrupted.
VuotoVieneEliminato ==
    \A p \in IdProgetti :
        (progetti[p].esiste /\ progetti[p].partecipanti = {} /\ p \notin interrotti)
        ~> (\/ ~progetti[p].esiste
            \/ progetti[p].partecipanti # {}
            \/ p \in interrotti)

(***************************************************************************)
(* What the repository's comments promise and the code does not keep.      *)
(***************************************************************************)

\* "elimina il progetto se non ci sono piu' partecipanti": a project that is
\* deleted by abbandonaProgetto has no participants.
EliminaSoloVuoti ==
    [][\A p \in IdProgetti :
         (progetti[p].esiste /\ ~progetti'[p].esiste)
         => progetti[p].partecipanti = {}]_vars

=============================================================================
