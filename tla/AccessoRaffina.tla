--------------------------- MODULE AccessoRaffina ---------------------------
(***************************************************************************)
(* Accesso implements Conti: the account of Authentication and the profile *)
(* of `utenti` together are the account of Conti, a registration that      *)
(* awaits `set` is the one that may complete it, and the user of a view    *)
(* model is who is in.  Routes, logins on their way, currentUser and       *)
(* loading buttons are invisible.                                          *)
(***************************************************************************)
EXTENDS Accesso

StatoDi(e) == CASE account[e] = "assente" -> "libero"
                [] account[e] # "assente" /\ profilo[e] = "assente" -> "sospeso"
                [] account[e] # "assente" /\ profilo[e] = "primo" -> "nuovo"
                [] account[e] # "assente" /\ profilo[e] = "visto" -> "conosciuto"

InRegistrazione == {op[o].email : o \in {x \in Operazioni : op[x].fase = "set"}}

Astratto == INSTANCE Conti WITH
    conto       <- [e \in Account |-> StatoDi(e)],
    registranti <- InRegistrazione,
    invitati    <- mail,
    confermati  <- {e \in Account : account[e] = "verificato"},
    dentro      <- [g \in Grafi |-> vm[g].utenteCorrente]

\* Two services and as many operations as overlap keep one account per address,
\* whose life goes on in order: a registration completes only what it has begun
\* itself, a half-way one is never completed by another, a known user is never
\* new again, and only a confirmed address with a profile is ever let in.
RaffinaConti == Astratto!Storia

=============================================================================
