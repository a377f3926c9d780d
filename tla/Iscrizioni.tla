----------------------------- MODULE Iscrizioni -----------------------------
(***************************************************************************)
(* Membership of the projects, as the users experience it: what the calls  *)
(* of RepositoryProgetto amount to when all that is looked at is who is in *)
(* which project.  A project is founded, people who hold its code enter,   *)
(* people leave.  Two things go beyond that, because no operation of this  *)
(* code is a transaction: whoever edits a project holds a copy of its      *)
(* members and may put it back at any later time, and whoever has seen a   *)
(* project empty may delete it at any later time.                          *)
(*                                                                         *)
(* Progetti, which has one action per awaited call, implements this        *)
(* specification (ProgettiRaffina).                                        *)
(***************************************************************************)

CONSTANTS
    Utenti, IdProgetti, Codici,
    Operazioni,  \* whoever may hold a copy or a verdict
    Nessuno

VARIABLES
    vivo,       \* [IdProgetti -> BOOLEAN]: the project exists
    membri,     \* [IdProgetti -> SUBSET Utenti]
    fondatore,  \* [IdProgetti -> who founded it, or Nessuno]
    codice,     \* [IdProgetti -> the code it was founded with, or Nessuno]
    noti,       \* [Utenti -> codes the user has got hold of]
    intento     \* [Operazioni -> Intento]

stato == <<vivo, membri, fondatore, codice, noti, intento>>

Intento == [tipo     : {"niente", "riscrivi", "cancella"},
            progetto : IdProgetti \cup {Nessuno},
            copia    : SUBSET Utenti]

Niente == [tipo |-> "niente", progetto |-> Nessuno, copia |-> {}]

Inizio == /\ vivo = [p \in IdProgetti |-> FALSE]
          /\ membri = [p \in IdProgetti |-> {}]
          /\ fondatore = [p \in IdProgetti |-> Nessuno]
          /\ codice = [p \in IdProgetti |-> Nessuno]
          /\ noti = [u \in Utenti |-> {}]
          /\ intento = [o \in Operazioni |-> Niente]

\* The members of p become S.
Diventa(p, esiste, S) == /\ vivo' = [vivo EXCEPT ![p] = esiste]
                         /\ membri' = [membri EXCEPT ![p] = S]

Impara(u, c) ==
    /\ noti' = [noti EXCEPT ![u] = @ \cup {c}]
    /\ UNCHANGED <<vivo, membri, fondatore, codice, intento>>

Fonda(p, u, c) ==
    /\ fondatore[p] = Nessuno
    /\ Diventa(p, TRUE, {u})
    /\ fondatore' = [fondatore EXCEPT ![p] = u]
    /\ codice' = [codice EXCEPT ![p] = c]
    /\ UNCHANGED <<noti, intento>>

Entra(p, u) ==
    /\ vivo[p]
    /\ codice[p] \in noti[u]
    /\ Diventa(p, TRUE, membri[p] \cup {u})
    /\ UNCHANGED <<fondatore, codice, noti, intento>>

Esce(p, u) ==
    /\ vivo[p]
    /\ Diventa(p, TRUE, membri[p] \ {u})
    /\ UNCHANGED <<fondatore, codice, noti, intento>>

Copia(o, p) ==
    /\ intento[o].tipo = "niente"
    /\ vivo[p]
    /\ intento' = [intento EXCEPT ![o] =
           [tipo |-> "riscrivi", progetto |-> p, copia |-> membri[p]]]
    /\ UNCHANGED <<vivo, membri, fondatore, codice, noti>>

\* The copy goes back, whatever has happened since; the project may be revived.
Riscrive(o) ==
    /\ intento[o].tipo = "riscrivi"
    /\ Diventa(intento[o].progetto, TRUE, intento[o].copia)
    /\ intento' = [intento EXCEPT ![o] = Niente]
    /\ UNCHANGED <<fondatore, codice, noti>>

VedeVuoto(o, p) ==
    /\ intento[o].tipo = "niente"
    /\ membri[p] = {}
    /\ intento' = [intento EXCEPT ![o] =
           [tipo |-> "cancella", progetto |-> p, copia |-> {}]]
    /\ UNCHANGED <<vivo, membri, fondatore, codice, noti>>

\* The project goes, whoever is in it by now.
Cancella(o) ==
    /\ intento[o].tipo = "cancella"
    /\ Diventa(intento[o].progetto, FALSE, {})
    /\ intento' = [intento EXCEPT ![o] = Niente]
    /\ UNCHANGED <<fondatore, codice, noti>>

\* The operations in O come to nothing: a call fails or an application ends.
Rinuncia(O) ==
    /\ intento' = [o \in Operazioni |-> IF o \in O THEN Niente ELSE intento[o]]
    /\ UNCHANGED <<vivo, membri, fondatore, codice, noti>>

Evento ==
    \/ \E u \in Utenti, c \in Codici : Impara(u, c)
    \/ \E p \in IdProgetti, u \in Utenti, c \in Codici : Fonda(p, u, c)
    \/ \E p \in IdProgetti, u \in Utenti : Entra(p, u)
    \/ \E p \in IdProgetti, u \in Utenti : Esce(p, u)
    \/ \E o \in Operazioni, p \in IdProgetti : Copia(o, p)
    \/ \E o \in Operazioni, p \in IdProgetti : VedeVuoto(o, p)
    \/ \E o \in Operazioni : Riscrive(o)
    \/ \E o \in Operazioni : Cancella(o)
    \/ \E O \in SUBSET Operazioni : Rinuncia(O)

Storia == Inizio /\ [][Evento]_stato

=============================================================================
