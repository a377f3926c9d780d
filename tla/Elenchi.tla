------------------------------ MODULE Elenchi ------------------------------
(***************************************************************************)
(* The task lists of one device.  Every LemieAttivita screen shows one of  *)
(* three lists, but the lists are fields of the one ProgettoViewModel that *)
(* all the screens of a NavGraph share, while the spinner                  *)
(* (isLoadingAttivita) and the selected tab are fields of each screen.     *)
(* Screens stay mounted, with their requests, when another page covers     *)
(* them, and their requests survive them when they are closed.             *)
(*                                                                         *)
(* The tasks themselves are a clock, which ticks at each write of this     *)
(* device that is stored; a list is a project and the time it was read at. *)
(* A slot is one awaited call: a write of a task, or a load of a list.     *)
(* The fetch of the project itself (isLoadingProgetto) only delays what    *)
(* the user can tap and is left out, and so is the due date computed from  *)
(* the lists, which the page it is passed to never reads.                  *)
(***************************************************************************)
EXTENDS Naturals, Sequences, FiniteSets

CONSTANTS
    Progetti,     \* the projects of the user
    MaxSchermi,   \* bound: LemieAttivita screens mounted at a time
    Slot,         \* awaited calls at a time
    MaxPila,      \* bound: pages on the navigator
    MaxOra,       \* bound: writes of this device that are stored
    Nessuno       \* null

ASSUME BoundsAssumption == /\ MaxSchermi \in Nat \ {0}
                           /\ MaxPila \in Nat \ {0}
                           /\ MaxOra \in Nat
ASSUME NessunoAssumption == Nessuno \notin Progetti \cup Slot \cup Nat

Schermi == 1..MaxSchermi

\* The other pages: YourProjectsPage and ModificaProgetto.
Home == 0
Modifica == MaxSchermi + 1
Pagine == Schermi \cup {Home, Modifica}

VARIABLES
    pila,      \* the navigator: a sequence of pages
    schermo,   \* [Schermi -> Schermo]: the state of LemieAttivita
    elenco,    \* [Liste -> Elenco]: the lists of the shared view model
    op,        \* [Slot -> Chiamata]
    ora,       \* 0..MaxOra: the collection `Todo`
    storia     \* history: what each screen has asked for and written

vars == <<pila, schermo, elenco, op, ora, storia>>

\* attivitaNonCompletate, attivitaNonCompletateAll, attivitaCompletate, and the
\* tab that shows each of them.
Liste == {"mie", "tutte", "completate"}

Ore == 0..MaxOra

Schermo == [progetto : Progetti \cup {Nessuno}, linguetta : Liste,
            caricando : BOOLEAN]

Elenco == [progetto : Progetti \cup {Nessuno}, ora : Ore]

DiRiga == {"elimina", "completa", "riapre", "modifica"}
Comandi == DiRiga \cup {"aggiungi", "abbandona"}

Chiamata == [fase     : {"ferma", "scrive", "scritta", "chiede", "letta"},
             comando  : Comandi \cup {Nessuno},
             schermo  : Schermi \cup {Nessuno},     \* Nessuno: closed since
             progetto : Progetti \cup {Nessuno},
             lista    : Liste \cup {Nessuno},
             ora : Ore,
             resto    : SUBSET Liste]               \* _handleModificaTask: tabs
                                                    \* still to be tested

\* scritta: the last write of this screen that has returned; ultimo: the load it
\* started last of the list on its tab, until it arrives; superato: some other
\* load has assigned that list since.
Storia == [scritta : Ore, ultimo : Slot \cup {Nessuno},
           superato : BOOLEAN]

Chiuso == [progetto |-> Nessuno, linguetta |-> "mie", caricando |-> FALSE]

Ferma == [fase |-> "ferma", comando |-> Nessuno, schermo |-> Nessuno,
          progetto |-> Nessuno, lista |-> Nessuno, ora |-> 0,
          resto |-> {}]

SenzaStoria == [scritta |-> 0, ultimo |-> Nessuno, superato |-> FALSE]

Init == /\ pila = <<Home>>
        /\ schermo = [s \in Schermi |-> Chiuso]
        /\ elenco = [l \in Liste |-> [progetto |-> Nessuno, ora |-> 0]]
        /\ op = [k \in Slot |-> Ferma]
        /\ ora = 0
        /\ storia = [s \in Schermi |-> SenzaStoria]

-----------------------------------------------------------------------------
(* The navigator.                                                          *)

Cima == pila[Len(pila)]

Montati == {s \in Schermi : schermo[s].progetto # Nessuno}

Liberi == {k \in Slot : op[k].fase = "ferma"}

\* The number of a screen says nothing: the lowest free one.
Prossimo == CHOOSE s \in Schermi \ Montati : \A z \in Schermi \ Montati : s <= z

Carico(s, p, l, resto) ==
    [Ferma EXCEPT !.fase = "chiede", !.schermo = s, !.progetto = p,
                  !.lista = l, !.resto = resto]

\* Screen s, of project p, starts the loads ks, a function from slots to lists.
Chiamate(o, s, p, ks, resto) ==
    [k \in Slot |-> IF k \in DOMAIN ks THEN Carico(s, p, ks[k], resto)
                    ELSE o[k]]

\* ... one of them for the list on its tab l, or none.
Ricordati(h, s, l, ks) ==
    IF \E k \in DOMAIN ks : ks[k] = l
    THEN [h EXCEPT ![s].ultimo = CHOOSE k \in DOMAIN ks : ks[k] = l,
                   ![s].superato = FALSE]
    ELSE h

\* A slot for each list of `liste`, taken from the slots `dove`.
Assegna(liste, dove) ==
    {ks \in UNION {[D -> liste] : D \in SUBSET dove} :
        /\ \A l \in liste : \E k \in DOMAIN ks : ks[k] = l
        /\ \A j, k \in DOMAIN ks : ks[j] = ks[k] => j = k}

\* dispose: the calls of a closed screen go on without it.
AncoraMontato(o, s) == o
Smontato(o, s) ==
    [k \in Slot |-> IF o[k].schermo = s
                    THEN [o[k] EXCEPT !.schermo = Nessuno, !.resto = {}]
                    ELSE o[k]]

Smonta(o) ==
    IF Cima \in Schermi
    THEN /\ schermo' = [schermo EXCEPT ![Cima] = Chiuso]
         /\ storia' = [storia EXCEPT ![Cima] = SenzaStoria]
         /\ op' = Smontato(o, Cima)
    ELSE /\ op' = o
         /\ UNCHANGED <<schermo, storia>>

\* pushNamed(leMieAttivita, p): initState loads the user's tasks.
Apri(p) ==
    /\ Len(pila) < MaxPila
    /\ Schermi \ Montati # {}
    /\ LET s == Prossimo
       IN /\ pila' = Append(pila, s)
          /\ schermo' = [schermo EXCEPT ![s] = [Chiuso EXCEPT !.progetto = p,
                                                       !.caricando = TRUE]]
          /\ \E ks \in Assegna({"mie"}, Liberi) :
               /\ op' = Chiamate(op, s, p, ks, {})
               /\ storia' = Ricordati(storia, s, "mie", ks)
    /\ UNCHANGED <<elenco, ora>>

ApriProgetto(p) == Cima = Home /\ Apri(p)

\* The menu pushes ModificaProgetto; saving pushes a new screen of the project.
ApriModifica ==
    /\ Cima \in Schermi
    /\ Len(pila) < MaxPila
    /\ pila' = Append(pila, Modifica)
    /\ UNCHANGED <<schermo, elenco, op, ora, storia>>

SalvaProgetto ==
    /\ Cima = Modifica
    /\ Apri(schermo[pila[Len(pila) - 1]].progetto)

\* The arrow replaces the screen by a new home page; the system's back gesture
\* pops the page, and what was covered is shown again as it is.
Freccia ==
    /\ Cima \in Schermi
    /\ pila' = [pila EXCEPT ![Len(pila)] = Home]
    /\ Smonta(op)
    /\ UNCHANGED <<elenco, ora>>

Indietro ==
    /\ Len(pila) > 1
    /\ pila' = SubSeq(pila, 1, Len(pila) - 1)
    /\ Smonta(op)
    /\ UNCHANGED <<elenco, ora>>

-----------------------------------------------------------------------------
(* LemieAttivita: tabs, buttons, and what returns.                         *)

\* _handleCompletate, _handleNonCompletate, _handleLeMie
Richieste(l) == IF l = "mie" THEN {"mie", "tutte"} ELSE {l}

Tocca(l) ==
    /\ Cima \in Schermi
    /\ schermo' = [schermo EXCEPT ![Cima].linguetta = l,
                                  ![Cima].caricando = TRUE]
    /\ \E ks \in Assegna(Richieste(l), Liberi) :
         /\ op' = Chiamate(op, Cima, schermo[Cima].progetto, ks, {})
         /\ storia' = Ricordati(storia, Cima, l, ks)
    /\ UNCHANGED <<pila, elenco, ora>>

\* A row's buttons are there when its list is on display; they work on its task,
\* whatever project the list is of.  _handleComplete passes true or false by the
\* tab; the button that adds is hidden on the tab of the completed tasks.
Offerto(s, c) ==
    /\ c \in DiRiga => /\ ~schermo[s].caricando
                       /\ elenco[schermo[s].linguetta].progetto # Nessuno
    /\ c = "riapre" => schermo[s].linguetta = "completate"
    /\ c \in {"completa", "aggiungi"} => schermo[s].linguetta # "completate"

Premi(c) ==
    /\ Cima \in Schermi
    /\ Offerto(Cima, c)
    /\ \E k \in Liberi :
         op' = [op EXCEPT ![k] = [Ferma EXCEPT !.fase = "scrive",
                                               !.comando = c,
                                               !.schermo = Cima]]
    /\ UNCHANGED <<pila, schermo, elenco, ora, storia>>

\* Firestore stores the write, and later the call returns.
Memorizza(k) ==
    /\ op[k].fase = "scrive"
    /\ IF op[k].comando = "abbandona" THEN UNCHANGED ora
       ELSE ora < MaxOra /\ ora' = ora + 1
    /\ op' = [op EXCEPT ![k].fase = "scritta", ![k].ora = ora']
    /\ UNCHANGED <<pila, schermo, elenco, storia>>

\* What a screen loads again when its write has returned, `l` being the tab that
\* is selected by then.  _handleComplete on the tab of the completed tasks loads
\* that list and then also the selected one; elsewhere it does not test for the
\* tab of the completed tasks.  addTodo and updateTodo report an exception and
\* nothing is loaded; deleteTodo and completeTodo swallow it.
RicaricaLeMie(c, l, riuscita) == {"mie"}
Ricaricati(c, l, riuscita) ==
    IF c = "riapre" THEN {"completate", l}
    ELSE IF c = "completa" THEN {l} \ {"completate"}
    ELSE IF c = "elimina" \/ riuscita THEN {l}
    ELSE {}

\* _handleModificaTask tests the three tabs in this order, each after awaiting
\* the load of the one before.
Seguenti(l) == CASE l = "completate" -> {"mie", "tutte"}
                 [] l = "mie"        -> {"tutte"}
                 [] l = "tutte"      -> {}

\* A write of a mounted screen returns or throws.  The history notes the write,
\* and the one case in which a successful write is not followed by a load of the
\* tab on display.
Ritorna(k) ==
    LET s == op[k].schermo
        c == op[k].comando
        l == schermo[s].linguetta
        riuscita == op[k].fase = "scritta"
        liste == Ricaricati(c, l, riuscita)
        dimenticato == c = "completa" /\ l = "completate"
        h == [storia EXCEPT
                ![s].scritta = IF op[k].ora > @ THEN op[k].ora ELSE @,
                ![s].superato = @ \/ dimenticato,
                ![s].ultimo = IF dimenticato THEN Nessuno ELSE @]
    IN /\ op[k].fase \in {"scrive", "scritta"}
       /\ c # "abbandona"
       /\ s # Nessuno
       /\ schermo' = [schermo EXCEPT ![s].caricando = @ \/ liste # {}]
       /\ \E ks \in Assegna(liste, Liberi \cup {k}) :
            /\ op' = Chiamate([op EXCEPT ![k] = Ferma], s, schermo[s].progetto,
                              ks, IF c = "modifica" THEN Seguenti(l) ELSE {})
            /\ storia' = Ricordati(h, s, l, ks)
       /\ UNCHANGED <<pila, elenco, ora>>

\* The screen was closed in the meantime: setState throws and nothing is loaded.
RitornaAlVuoto(k) ==
    /\ op[k].fase \in {"scrive", "scritta"}
    /\ op[k].comando # "abbandona"
    /\ op[k].schermo = Nessuno
    /\ op' = [op EXCEPT ![k] = Ferma]
    /\ UNCHANGED <<pila, schermo, elenco, ora, storia>>

\* Abbandona holds the navigator, not the screen: whatever page is on top by now
\* is replaced by the home page.
RitornaAbbandona(k) ==
    /\ op[k].comando = "abbandona"
    /\ op[k].fase \in {"scrive", "scritta"}
    /\ IF op[k].fase = "scritta"
       THEN /\ pila' = [pila EXCEPT ![Len(pila)] = Home]
            /\ Smonta([op EXCEPT ![k] = Ferma])
       ELSE /\ op' = [op EXCEPT ![k] = Ferma]
            /\ UNCHANGED <<pila, schermo, storia>>
    /\ UNCHANGED <<elenco, ora>>

-----------------------------------------------------------------------------
(* A load of a list.                                                       *)

\* getAttivitaByProgettoId: the query is answered, and the answer travels.  (The
\* client may add its own writes that are still under way; the model does not
\* count on it.)
Interroga(k) ==
    /\ op[k].fase = "chiede"
    /\ op' = [op EXCEPT ![k].fase = "letta",
                        ![k].ora = ora]
    /\ UNCHANGED <<pila, schermo, elenco, ora, storia>>

\* The assignment of the list, which happens whoever asked for it.  An exception
\* was answered with an empty list, in which nothing is out of date.
Assegnato(k) ==
    [progetto |-> op[k].progetto,
     ora |-> IF op[k].fase = "chiede" THEN ora ELSE op[k].ora]

Superati(k) ==
    [s \in Schermi |->
        IF storia[s].ultimo = k THEN [storia[s] EXCEPT !.ultimo = Nessuno]
        ELSE IF /\ s \in Montati
                /\ schermo[s].linguetta = op[k].lista
                /\ storia[s].ultimo = Nessuno
        THEN [storia[s] EXCEPT !.superato = TRUE]
        ELSE storia[s]]

\* The finally of _fetch...: the screen stops its spinner, unless _handleModifica-
\* Task goes on to the tab selected by now.  If the screen was closed, setState
\* throws after the list has been assigned.
NonSpegne(s) == schermo[s].caricando
Spegne(s) == FALSE

Arriva(k) ==
    LET s == op[k].schermo
    IN /\ op[k].fase \in {"chiede", "letta"}
       /\ elenco' = [elenco EXCEPT ![op[k].lista] = Assegnato(k)]
       /\ IF s # Nessuno /\ schermo[s].linguetta \in op[k].resto
          THEN LET l == schermo[s].linguetta
                   ks == [j \in {k} |-> l]
               IN /\ op' = Chiamate(op, s, schermo[s].progetto, ks,
                                    op[k].resto \cap Seguenti(l))
                  /\ storia' = Ricordati(Superati(k), s, l, ks)
                  /\ schermo' = [schermo EXCEPT ![s].caricando = TRUE]
          ELSE /\ op' = [op EXCEPT ![k] = Ferma]
               /\ storia' = Superati(k)
               /\ schermo' = IF s = Nessuno THEN schermo
                             ELSE [schermo EXCEPT ![s].caricando = Spegne(s)]
       /\ UNCHANGED <<pila, ora>>

-----------------------------------------------------------------------------

Avanza(k) == \/ Memorizza(k) \/ Ritorna(k) \/ RitornaAlVuoto(k)
                \/ RitornaAbbandona(k) \/ Interroga(k) \/ Arriva(k)

Utente == \/ \E p \in Progetti : ApriProgetto(p)
          \/ ApriModifica \/ SalvaProgetto \/ Freccia \/ Indietro
          \/ \E l \in Liste : Tocca(l)
          \/ \E c \in Comandi : Premi(c)

Next == Utente \/ \E k \in Slot : Avanza(k)

Spec == Init /\ [][Next]_vars

-----------------------------------------------------------------------------
(* Properties.                                                             *)

\* Types; a screen is mounted iff it is on the navigator, there once; and a call
\* acts on the screen that made it or, when that was closed, on none.
TypeOK ==
    /\ pila \in Seq(Pagine)
    /\ Len(pila) \in 1..MaxPila
    /\ schermo \in [Schermi -> Schermo]
    /\ elenco \in [Liste -> Elenco]
    /\ op \in [Slot -> Chiamata]
    /\ ora \in Ore
    /\ storia \in [Schermi -> Storia]
    /\ \A s \in Schermi :
         Cardinality({i \in DOMAIN pila : pila[i] = s}) =
            IF s \in Montati THEN 1 ELSE 0
    /\ \A k \in Slot : op[k].schermo # Nessuno => op[k].schermo \in Montati

DiSchermo(s, fasi) == {k \in Slot : op[k].schermo = s /\ op[k].fase \in fasi}

\* isLoadingAttivita is shared by all the loads of a screen, set and reset by
\* each of them in any order: a spinner that is shown belongs to a load that is
\* still to arrive.
SpinnerSpiegato ==
    \A s \in Montati : schermo[s].caricando => DiSchermo(s, {"chiede", "letta"}) # {}

\* The lists are shared by all screens and by loads in flight; what a screen
\* shows once it has nothing under way is its own project, with every write made
\* on it that has returned (or nothing, after an exception), unless a load that
\* it did not start last has overwritten the list since.
ElencoAggiornato ==
    \A s \in Montati :
        LET l == schermo[s].linguetta
        IN (/\ ~schermo[s].caricando
            /\ ~storia[s].superato
            /\ \A k \in DiSchermo(s, {"chiede", "letta"}) : op[k].lista # l)
           => /\ elenco[l].progetto = schermo[s].progetto
              /\ elenco[l].ora >= storia[s].scritta

=============================================================================
