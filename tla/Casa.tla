-------------------------------- MODULE Casa --------------------------------
(***************************************************************************)
(* The home page of one user: the fields of ProgettoViewModel it shows     *)
(* (the projects, the count of open tasks of each, the completed projects, *)
(* the spinner), the operations that reload them, and the navigator they   *)
(* end on.                                                                 *)
(*                                                                         *)
(* The dialog that joins or creates a project keeps the navigator across   *)
(* an await and pops it afterwards; the dialog can be dismissed, or its    *)
(* button pressed again, while the call is under way.  The projects of the *)
(* user on the server change by his own operations only: what others do to *)
(* them is the subject of Progetti.                                        *)
(*                                                                         *)
(* As in Progetti a slot is one activity of the device and every awaited   *)
(* call is one action; a query is answered in one step and its answer      *)
(* arrives in another.                                                     *)
(***************************************************************************)
EXTENDS Naturals, Sequences, FiniteSets

CONSTANTS
    Progetti,
    Completi,    \* those marked as completed
    Slot,        \* activities at a time
    MaxPila,     \* bound: pages and dialogs on the navigator
    Nessuno      \* null

ASSUME CompletiAssumption == Completi \subseteq Progetti
ASSUME SlotAssumption == IsFiniteSet(Slot)
ASSUME MaxPilaAssumption == MaxPila \in Nat \ {0}
ASSUME NessunoAssumption ==
    Nessuno \notin Progetti \cup {"entra", "crea", "abbandona"}

VARIABLES
    iscritto,    \* server: the projects the user is in
    pila,        \* the navigator: "casa", "dialogo", or the page of a project
    progetti,    \* _progetti
    contati,     \* the keys of _attivitaProgetti
    completati,  \* _progettiCompletati
    caricando,   \* _isLoading
    op,          \* [Slot -> Attivita]
    storia       \* history, read by the properties only

vars == <<iscritto, pila, progetti, contati, completati, caricando, op, storia>>

Attivita == [fase     : {"ferma", "entra", "crea", "abbandona", "fatto",
                         "chiede", "letti", "conta",
                         "chiedeCompletati", "lettiCompletati"},
             comando  : {"entra", "crea", "abbandona", Nessuno},
             progetto : Progetti \cup {Nessuno},
             dialogo  : BOOLEAN,           \* the dialog that made the call is open
             iniziale : BOOLEAN,           \* _init: goes on to the completed ones
             lista    : SUBSET Progetti,   \* what was read
             resto    : SUBSET Progetti]   \* still to be counted

\* incerto: the last loads of the projects overlapped or an exception was
\* answered with less than there is; usciti: projects left since the completed
\* ones were last asked for; sopravvissuta: a call has outlived its dialog.
Storia == [incerto : BOOLEAN, usciti : SUBSET Progetti,
           sopravvissuta : BOOLEAN]

Ferma == [fase |-> "ferma", comando |-> Nessuno, progetto |-> Nessuno,
          dialogo |-> FALSE, iniziale |-> FALSE, lista |-> {}, resto |-> {}]

Liberi == {k \in Slot : op[k].fase = "ferma"}

Carico == [Ferma EXCEPT !.fase = "chiede"]
CaricoCompletati == [Ferma EXCEPT !.fase = "chiedeCompletati"]

DiProgetti == {"chiede", "letti", "conta"}
DiCompletati == {"chiedeCompletati", "lettiCompletati"}

InCorso(o, fasi) == {k \in Slot : o[k].fase \in fasi}

\* The login screen has just been replaced by the first home page: the load of
\* _init is still under way and initState starts another.
Init ==
    /\ iscritto \in SUBSET Progetti
    /\ pila = <<"casa">>
    /\ progetti = {} /\ contati = {} /\ completati = {}
    /\ caricando = TRUE
    /\ \E i, j \in Slot :
         /\ i # j
         /\ op = [k \in Slot |-> IF k = i THEN [Carico EXCEPT !.iniziale = TRUE]
                                 ELSE IF k = j THEN Carico ELSE Ferma]
    /\ storia = [incerto |-> TRUE, usciti |-> {}, sopravvissuta |-> FALSE]

-----------------------------------------------------------------------------
(* The navigator, and the loads a step starts.                             *)

InCima(pagina) == pila # <<>> /\ pila[Len(pila)] = pagina

\* pop: on an empty navigator it throws.
SenzaCima == SubSeq(pila, 1, Len(pila) - 1)

\* Activities that have lost their dialog, if the dialog was what went away.
AncoraColDialogo(o) == o
SenzaDialogo(o) == IF InCima("dialogo")
                   THEN [k \in Slot |-> [o[k] EXCEPT !.dialogo = FALSE]]
                   ELSE o

\* The step leaves the activities o, of which the slots `cp` start to load the
\* projects and the slots `cc` the completed ones.
Partono(o, cp, cc) ==
    [k \in Slot |-> IF k \in cp THEN Carico
                    ELSE IF k \in cc THEN CaricoCompletati ELSE o[k]]

\* What the history makes of it: a load of the projects that meets no other one
\* settles what is shown, and so does one of the completed projects.
Annota(o, cp, cc) ==
    storia' = [incerto |-> IF cp = {} THEN storia.incerto
                           ELSE \/ InCorso(o, DiProgetti) # {}
                                \/ \E j, k \in cp : j # k,
               usciti  |-> IF cc # {} /\ InCorso(o, DiCompletati) = {} THEN {}
                           ELSE storia.usciti,
               sopravvissuta |-> \/ storia.sopravvissuta
                                 \/ InCima("dialogo") /\ pila' # pila /\
                                    (\E k \in Slot : o[k].dialogo)]

ApriDialogo ==
    /\ InCima("casa")
    /\ Len(pila) < MaxPila
    /\ pila' = Append(pila, "dialogo")
    /\ UNCHANGED <<iscritto, progetti, contati, completati, caricando, op, storia>>

\* Annulla, the back gesture, or a tap beside the dialog.
Annulla ==
    /\ InCima("dialogo")
    /\ pila' = SenzaCima
    /\ op' = SenzaDialogo(op)
    /\ Annota(op, {}, {})
    /\ UNCHANGED <<iscritto, progetti, contati, completati, caricando>>

ApriProgetto(p) ==
    /\ InCima("casa")
    /\ ~caricando
    /\ p \in progetti
    /\ Len(pila) < MaxPila
    /\ pila' = Append(pila, p)
    /\ UNCHANGED <<iscritto, progetti, contati, completati, caricando, op, storia>>

Indietro ==
    /\ Len(pila) > 1
    /\ ~InCima("dialogo")
    /\ pila' = SenzaCima
    /\ UNCHANGED <<iscritto, progetti, contati, completati, caricando, op, storia>>

\* The page on top is replaced by a new home page, whose initState loads the
\* projects in slot k; o is what the step leaves of the activities.
NuovaCasa(o, k) ==
    /\ pila' = Append(SenzaCima, "casa")
    /\ op' = Partono(SenzaDialogo(o), {k}, {})
    /\ caricando' = TRUE
    /\ Annota(o, {k}, {})

Freccia ==
    /\ \E p \in Progetti : InCima(p)
    /\ \E k \in Liberi : NuovaCasa(op, k)
    /\ UNCHANGED <<iscritto, progetti, contati, completati>>

Sincronizza ==
    /\ InCima("casa")
    /\ \E j, k \in Liberi :
         /\ j # k
         /\ op' = Partono(op, {j}, {k})
         /\ UNCHANGED pila
         /\ Annota(op, {j}, {k})
    /\ caricando' = TRUE
    /\ UNCHANGED <<iscritto, progetti, contati, completati>>

-----------------------------------------------------------------------------
(* Joining, creating and leaving a project.                                *)

\* The button is not disabled while a call is under way.
Conferma(c) ==
    /\ InCima("dialogo")
    /\ \E k \in Liberi, p \in Progetti :
         op' = [op EXCEPT ![k] = [Ferma EXCEPT !.fase = c, !.comando = c,
                                               !.progetto = p,
                                               !.dialogo = TRUE]]
    /\ UNCHANGED <<iscritto, pila, progetti, contati, completati, caricando, storia>>

Abbandona ==
    /\ \E k \in Liberi, p \in Progetti :
         /\ InCima(p)
         /\ op' = [op EXCEPT ![k] = [Ferma EXCEPT !.fase = "abbandona",
                                                  !.comando = "abbandona",
                                                  !.progetto = p]]
    /\ UNCHANGED <<iscritto, pila, progetti, contati, completati, caricando, storia>>

\* The server stores it.  A join of a project he is in is refused.
Memorizza(k) ==
    /\ \/ /\ op[k].fase \in {"entra", "crea"}
          /\ op[k].progetto \notin iscritto
          /\ iscritto' = iscritto \cup {op[k].progetto}
          /\ UNCHANGED storia
       \/ /\ op[k].fase = "abbandona"
          /\ iscritto' = iscritto \ {op[k].progetto}
          /\ storia' = [storia EXCEPT !.usciti = @ \cup {op[k].progetto}]
    /\ op' = [op EXCEPT ![k].fase = "fatto"]
    /\ UNCHANGED <<pila, progetti, contati, completati, caricando>>

\* The dialog's handler after its await.  addProgetto swallows exceptions, so
\* that the pop follows in any case; a join that was refused or that threw leaves
\* the dialog.
ChiudeDueVolte(c, riuscita) == SubSeq(pila, 1, Len(pila) - 2)
Chiude(c, riuscita) == IF c = "crea" \/ riuscita THEN SenzaCima ELSE pila

\* After success both lists are loaded.  addProgetto also replaces its dialog, if
\* it is still there, by a home page that the pop takes away at once: its
\* initState may have run or not.
Ritorna(k) ==
    LET c == op[k].comando
        riuscita == op[k].fase = "fatto"
        o == [op EXCEPT ![k] = Ferma]
    IN /\ c \in {"entra", "crea"}
       /\ pila' = Chiude(c, riuscita)
       /\ \E cp, cc \in SUBSET (Liberi \cup {k}) :
            /\ cp \cap cc = {}
            /\ Cardinality(cp) \in IF ~riuscita THEN {0}
                                   ELSE IF c = "crea" /\ op[k].dialogo THEN {1, 2}
                                   ELSE {1}
            /\ Cardinality(cc) = IF riuscita THEN 1 ELSE 0
            /\ op' = Partono(IF pila' = pila THEN o ELSE SenzaDialogo(o), cp, cc)
            /\ Annota(o, cp, cc)
       /\ caricando' = (caricando \/ riuscita)
       /\ UNCHANGED <<iscritto, progetti, contati, completati>>

\* The menu of a project holds the navigator: whatever is on top is replaced.
\* An exception, also one after the user has been removed, ends the handler.
RitornaAbbandona(k) ==
    LET o == [op EXCEPT ![k] = Ferma]
    IN /\ op[k].comando = "abbandona"
       /\ \/ op[k].fase = "fatto" /\ pila # <<>> /\ NuovaCasa(o, k)
          \/ /\ op' = o
             /\ storia' = [storia EXCEPT !.incerto = @ \/ op[k].fase = "fatto"]
             /\ UNCHANGED <<pila, caricando>>
       /\ UNCHANGED <<iscritto, progetti, contati, completati>>

-----------------------------------------------------------------------------
(* caricaProgettiUtente and caricaProgettiCompletatiUtente.                *)

\* The query is answered; an exception is answered with an empty list.
CompletatiSenzaFiltro == Completi
CompletatiUtente == iscritto \cap Completi

Interroga(k) ==
    /\ \/ /\ op[k].fase = "chiede"
          /\ \/ /\ op' = [op EXCEPT ![k].fase = "letti", ![k].lista = iscritto]
                /\ UNCHANGED storia
             \/ /\ op' = [op EXCEPT ![k].fase = "letti"]
                /\ storia' = [storia EXCEPT !.incerto = TRUE]
       \/ /\ op[k].fase = "chiedeCompletati"
          /\ \E lista \in {{}, CompletatiUtente} :
               op' = [op EXCEPT ![k].fase = "lettiCompletati", ![k].lista = lista]
          /\ UNCHANGED storia
    /\ UNCHANGED <<iscritto, pila, progetti, contati, completati, caricando>>

\* The projects whose tasks are counted for the new map.
SoloMaiContati(lista) == lista \ contati
DaContare(lista) == lista

\* `finally`, and for _init the load of the completed projects.
LasciaCaricando == caricando
FineCaricamento == FALSE

Concludi(k, mappa) ==
    /\ contati' = mappa
    /\ caricando' = FineCaricamento
    /\ LET o == [op EXCEPT ![k] = Ferma]
           cc == IF op[k].iniziale THEN {k} ELSE {}
       IN /\ op' = Partono(o, {}, cc)
          /\ Annota(o, {}, cc)

\* The list is assigned first, ...
AssegnaProgetti(k) ==
    /\ op[k].fase = "letti"
    /\ progetti' = op[k].lista
    /\ UNCHANGED pila
    /\ IF DaContare(op[k].lista) = {}
       THEN Concludi(k, {})
       ELSE /\ op' = [op EXCEPT ![k].fase = "conta",
                                ![k].lista = DaContare(op[k].lista),
                                ![k].resto = DaContare(op[k].lista)]
            /\ UNCHANGED <<contati, caricando, storia>>
    /\ UNCHANGED <<iscritto, completati>>

\* ... then the tasks of each project are counted (an exception counts none), and
\* the last count completes the map.
Conta(k) ==
    /\ op[k].fase = "conta"
    /\ UNCHANGED pila
    /\ \E p \in op[k].resto :
         IF op[k].resto = {p}
         THEN Concludi(k, op[k].lista)
         ELSE /\ op' = [op EXCEPT ![k].resto = @ \ {p}]
              /\ UNCHANGED <<contati, caricando, storia>>
    /\ UNCHANGED <<iscritto, progetti, completati>>

AssegnaCompletati(k) ==
    /\ op[k].fase = "lettiCompletati"
    /\ completati' = op[k].lista
    /\ op' = [op EXCEPT ![k] = Ferma]
    /\ UNCHANGED <<iscritto, pila, progetti, contati, caricando, storia>>

-----------------------------------------------------------------------------

Avanza(k) == \/ Memorizza(k) \/ Ritorna(k) \/ RitornaAbbandona(k)
             \/ Interroga(k) \/ AssegnaProgetti(k) \/ Conta(k)
             \/ AssegnaCompletati(k)

Utente == \/ ApriDialogo \/ Annulla \/ Indietro \/ Freccia \/ Sincronizza
          \/ \E p \in Progetti : ApriProgetto(p)
          \/ \E c \in {"entra", "crea"} : Conferma(c)
          \/ Abbandona

\* After the last page has been popped nothing is left to do.
SchermoVuoto == pila = <<>> /\ Liberi = Slot /\ UNCHANGED vars

Next == Utente \/ (\E k \in Slot : Avanza(k)) \/ SchermoVuoto

Spec == Init /\ [][Next]_vars

-----------------------------------------------------------------------------
(* Properties.                                                             *)

\* Types, and where the dialog is: on top, and known to the calls it made.
TypeOK ==
    /\ iscritto \subseteq Progetti
    /\ pila \in Seq({"casa", "dialogo"} \cup Progetti)
    /\ Len(pila) <= MaxPila
    /\ progetti \subseteq Progetti
    /\ contati \subseteq Progetti
    /\ completati \subseteq Progetti
    /\ caricando \in BOOLEAN
    /\ op \in [Slot -> Attivita]
    /\ storia \in Storia
    /\ \A i \in DOMAIN pila : pila[i] = "dialogo" => i = Len(pila)
    /\ \A k \in Slot : op[k].dialogo => InCima("dialogo")

\* caricaProgettiUtente assigns the list, then awaits one count per project and
\* assigns the map; loads are started by _init, initState, Sync, a join and a new
\* project, in any interleaving.  Whenever nothing is under way, the page shows
\* the projects the user is in, each with a count, unless the last loads
\* overlapped or something threw.
CasaAggiornata ==
    Liberi = Slot /\ ~storia.incerto => progetti = iscritto /\ contati = progetti

\* SezioneProgressi divides the completed projects by the projects, but the two
\* lists are not always loaded together: of the completed projects that are not
\* among the projects, the user has left every one since he last asked.
ProgressiSpiegati ==
    Liberi = Slot /\ ~storia.incerto => completati \ progetti \subseteq storia.usciti

\* A handler pops the navigator it kept across its await, whatever is on top by
\* then.  The last page goes only if some call has outlived its dialog (dismissed,
\* replaced, or closed by a second press of the button).
VuotoSpiegato == pila = <<>> => storia.sopravvissuta

\* isLoading is set and reset by overlapping loads in any order: a spinner that is
\* shown belongs to a load of the projects that is still under way.
CaricandoSpiegato == caricando => InCorso(op, DiProgetti) # {}

=============================================================================
