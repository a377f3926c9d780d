-------------------------------- MODULE Conti --------------------------------
(***************************************************************************)
(* Accounts as their owners experience them, whatever Authentication, the  *)
(* collection `utenti` and the screens do in between: an address is free   *)
(* until a registration begins, and is left half-way unless that very      *)
(* registration completes it; then its owner confirms it, enters the       *)
(* application and, once, becomes known.  Nothing of this is ever undone.  *)
(*                                                                         *)
(* Accesso implements this specification (AccessoRaffina).                 *)
(***************************************************************************)
CONSTANTS
    Account,
    Grafi,    \* places where somebody may be logged in
    Nessuno

VARIABLES
    conto,        \* [Account -> how far the life of an account has come]
    registranti,  \* addresses whose registration is half-way and going on
    invitati,     \* addresses that have been asked to confirm
    confermati,   \* addresses that their owner has confirmed
    dentro        \* [Grafi -> who is logged in there]

stato == <<conto, registranti, invitati, confermati, dentro>>

Completi == {"nuovo", "conosciuto"}

Inizio == /\ conto = [e \in Account |-> "libero"]
          /\ registranti = {}
          /\ invitati = {}
          /\ confermati = {}
          /\ dentro = [g \in Grafi |-> Nessuno]

Diventa(e, s) == conto' = [conto EXCEPT ![e] = s]

\* A free address is taken, ...
Inizia(e) ==
    /\ UNCHANGED <<invitati, confermati, dentro>>
    /\ conto[e] = "libero"
    /\ Diventa(e, "sospeso")
    /\ registranti' = registranti \cup {e}

\* ... and has a profile if the registration goes through.  Somebody who has an
\* account, not necessarily e, may be asked to confirm his address.
Completa(e) ==
    /\ UNCHANGED <<confermati, dentro>>
    /\ e \in registranti
    /\ conto[e] = "sospeso"
    /\ Diventa(e, "nuovo")
    /\ registranti' = registranti \ {e}
    /\ \/ UNCHANGED invitati
       \/ \E f \in Account \ confermati : /\ conto[f] # "libero"
                                          /\ invitati' = invitati \cup {f}

\* If it does not, nobody will ever complete it.
Rinuncia(e) ==
    /\ UNCHANGED <<conto, invitati, confermati, dentro>>
    /\ e \in registranti
    /\ registranti' = registranti \ {e}

\* Whoever was asked confirms.
Conferma(e) ==
    /\ UNCHANGED <<conto, registranti, invitati, dentro>>
    /\ e \in invitati
    /\ conto[e] # "libero"
    /\ confermati' = confermati \cup {e}

\* Only the owner of a confirmed address with a profile is let in, ...
Entra(g, e) ==
    /\ UNCHANGED <<conto, registranti, invitati, confermati>>
    /\ e \in confermati
    /\ conto[e] \in Completi
    /\ dentro' = [dentro EXCEPT ![g] = e]

\* ... becomes known, ...
Conosce(e) ==
    /\ UNCHANGED <<registranti, invitati, confermati, dentro>>
    /\ e \in confermati
    /\ conto[e] \in Completi
    /\ Diventa(e, "conosciuto")

\* ... and is out again.
Esce(g) ==
    /\ UNCHANGED <<conto, registranti, invitati, confermati>>
    /\ dentro' = [dentro EXCEPT ![g] = Nessuno]

\* The device starts again: nobody is in and no registration goes on.
Riparte ==
    /\ UNCHANGED <<conto, invitati, confermati>>
    /\ registranti' = {}
    /\ dentro' = [g \in Grafi |-> Nessuno]

Evento ==
    \/ \E e \in Account : \/ Inizia(e) \/ Completa(e) \/ Rinuncia(e)
                          \/ Conferma(e) \/ Conosce(e)
    \/ \E g \in Grafi, e \in Account : Entra(g, e)
    \/ \E g \in Grafi : Esce(g)
    \/ Riparte

Storia == Inizio /\ [][Evento]_stato

=============================================================================
