------------------------------ MODULE Scadenze ------------------------------
(***************************************************************************)
(* Due dates.  A task is due on a day chosen in a calendar between today   *)
(* and the deadline of its project, as the screen has read it; when the    *)
(* form is saved the view model refuses a date "before today".  Three      *)
(* clocks disagree: the moment the dialog was opened, the moment it is     *)
(* saved, and UTC, from which isDateBeforeToday takes the day.             *)
(*                                                                         *)
(* A DateTime is a number of hours on the device's own clock; its zone is  *)
(* an offset in hours, constant while the application runs (no daylight    *)
(* saving).  A calendar answers with the midnight that begins the day.     *)
(*                                                                         *)
(* One device, one project, one task at a time; the deadline of the        *)
(* project may also be moved by somebody else.                             *)
(***************************************************************************)
EXTENDS Integers

CONSTANTS
    Fusi,        \* offsets of the local clock from UTC
    Passo,       \* bound: hours that pass at a time
    MaxOra       \* bound: the last hour

Ore == 24

ASSUME FusiAssumption == Fusi \subseteq (-Ore)..Ore
ASSUME TempoAssumption == /\ Passo \in Nat \ {0}
                          /\ MaxOra \in Nat

VARIABLES
    adesso,      \* DateTime.now()
    fuso,        \* the device's offset
    progetto,    \* the deadline of the project on the server
    schermo,     \* dataScadenzaProgetto, as LemieAttivita has read it
    task,        \* the task on the server
    dialogo,     \* AddTodoDialog or EditTodoDialog
    esito,       \* history: the last date submitted
    scelta       \* history: how the due date of the task came about

vars == <<adesso, fuso, progetto, schermo, task, dialogo, esito, scelta>>

\* The day of a local time, and the midnight that begins a day.
Giorno(t) == t \div Ore
Mezzanotte(g) == g * Ore

Giorni == 1..Giorno(MaxOra)

Dialoghi == [tipo : {"chiuso", "aggiungi", "modifica"},
             odierna : Int,           \* _dataOdierna; EditTodoDialog has none
             data : Int,              \* _dataSelezionata, dataScadenza
             limite : Int,            \* dataScadenzaProgetto
             selezionabile : BOOLEAN] \* the calendar can be opened

Chiuso == [tipo |-> "chiuso", odierna |-> 0, data |-> 0, limite |-> 0,
           selezionabile |-> FALSE]

Task == [esiste : BOOLEAN, scadenza : Int, dataCreazione : Int]

NessunTask == [esiste |-> FALSE, scadenza |-> 0, dataCreazione |-> 0]

\* The second day, so that UTC is never in the past of hour 0; the project has
\* just been created, with the date its dialog proposes.
Init == /\ adesso = Ore
        /\ fuso \in Fusi
        /\ progetto = adesso + Ore
        /\ schermo = progetto
        /\ task = NessunTask
        /\ dialogo = Chiuso
        /\ esito = [quando |-> Ore, data |-> Ore, accettata |-> TRUE]
        /\ scelta = [limite |-> 0, dalCalendario |-> TRUE]

-----------------------------------------------------------------------------

\* isDateBeforeToday: now().toUtc().startOfDay() is the day of UTC, rebuilt as a
\* local midnight.
InizioDelGiornoDopo(t, f) == Mezzanotte(Giorno(t - f) + 1)
StartOfDayUtc(t, f) == Mezzanotte(Giorno(t - f))

IsDateBeforeToday(data) == data < StartOfDayUtc(adesso, fuso)

\* What showDatePicker asserts; it compares days.
CalendarioValido(iniziale, primo, ultimo) ==
    /\ Giorno(primo) <= Giorno(ultimo)
    /\ Giorno(iniziale) \in Giorno(primo)..Giorno(ultimo)

\* dataSelezionabile
SempreSelezionabile(limite) == TRUE
DataSelezionabile(limite) == adesso < limite

\* The days the calendar offers.
SenzaLimite(primo, ultimo) == {g \in Giorni : g >= Giorno(primo)}
GiorniOfferti(primo, ultimo) ==
    {g \in Giorni : g \in Giorno(primo)..Giorno(ultimo)}

Passa ==
    /\ adesso + Passo <= MaxOra
    /\ adesso' = adesso + Passo
    /\ UNCHANGED <<fuso, progetto, schermo, task, dialogo, esito, scelta>>

\* ModificaProgetto, on this device or another: any day since the creation.
SpostaScadenza ==
    /\ \E g \in Giorni : progetto' = Mezzanotte(g)
    /\ UNCHANGED <<adesso, fuso, schermo, task, dialogo, esito, scelta>>

\* A new screen of the project reads the deadline; an older one keeps its own.
ApriSchermo ==
    /\ dialogo.tipo = "chiuso"
    /\ schermo' = progetto
    /\ UNCHANGED <<adesso, fuso, progetto, task, dialogo, esito, scelta>>

ApriAggiungi ==
    /\ dialogo.tipo = "chiuso"
    /\ ~task.esiste
    /\ dialogo' = [tipo |-> "aggiungi", odierna |-> adesso, data |-> adesso,
                   limite |-> schermo,
                   selezionabile |-> DataSelezionabile(schermo)]
    /\ UNCHANGED <<adesso, fuso, progetto, schermo, task, esito, scelta>>

ApriModifica ==
    /\ dialogo.tipo = "chiuso"
    /\ task.esiste
    /\ dialogo' = [tipo |-> "modifica", odierna |-> 0, data |-> task.scadenza,
                   limite |-> schermo,
                   selezionabile |-> DataSelezionabile(schermo)]
    /\ UNCHANGED <<adesso, fuso, progetto, schermo, task, esito, scelta>>

\* _selectDate.  AddTodoDialog starts its calendar from the day it was opened on,
\* EditTodoDialog from now.
ScegliData ==
    /\ dialogo.tipo # "chiuso"
    /\ dialogo.selezionabile
    /\ LET primo == IF dialogo.tipo = "aggiungi" THEN dialogo.odierna ELSE adesso
       IN \E g \in GiorniOfferti(primo, dialogo.limite) :
            dialogo' = [dialogo EXCEPT !.data = Mezzanotte(g)]
    /\ UNCHANGED <<adesso, fuso, progetto, schermo, task, esito, scelta>>

Annulla ==
    /\ dialogo.tipo # "chiuso"
    /\ dialogo' = Chiuso
    /\ UNCHANGED <<adesso, fuso, progetto, schermo, task, esito, scelta>>

Prova(accettata) ==
    esito' = [quando |-> adesso, data |-> dialogo.data, accettata |-> accettata]

\* addTodo refuses without a word, and its dialog stays; updateTodo refuses with a
\* message, and its dialog has closed already.
Rifiuta ==
    /\ dialogo.tipo # "chiuso"
    /\ IsDateBeforeToday(dialogo.data)
    /\ Prova(FALSE)
    /\ dialogo' = IF dialogo.tipo = "aggiungi" THEN dialogo ELSE Chiuso
    /\ UNCHANGED <<adesso, fuso, progetto, schermo, task, scelta>>

\* Both dialogs build a new LeMieAttivita without a date of creation, which the
\* constructor then sets to now; an edit stores it too.
SenzaCreazione(data) == [esiste |-> TRUE, scadenza |-> data]
NuovaAttivita(data) == [esiste |-> TRUE, scadenza |-> data,
                        dataCreazione |-> adesso]

Salva ==
    /\ dialogo.tipo # "chiuso"
    /\ dialogo.tipo = "modifica" => task.esiste
    /\ ~IsDateBeforeToday(dialogo.data)
    /\ Prova(TRUE)
    /\ task' = NuovaAttivita(dialogo.data)
    /\ scelta' = IF dialogo.tipo = "modifica" /\ dialogo.data = task.scadenza
                 THEN scelta
                 ELSE [limite |-> dialogo.limite,
                       dalCalendario |-> dialogo.selezionabile]
    /\ dialogo' = Chiuso
    /\ UNCHANGED <<adesso, fuso, progetto, schermo>>

Elimina ==
    /\ dialogo.tipo = "chiuso"
    /\ task.esiste
    /\ task' = NessunTask
    /\ UNCHANGED <<adesso, fuso, progetto, schermo, dialogo, esito, scelta>>

Next == \/ Passa \/ SpostaScadenza \/ ApriSchermo \/ ApriAggiungi \/ ApriModifica
        \/ ScegliData \/ Annulla \/ Rifiuta \/ Salva \/ Elimina

Spec == Init /\ [][Next]_vars

-----------------------------------------------------------------------------
(* Properties.                                                             *)

TypeOK ==
    /\ adesso \in Nat /\ adesso >= Ore
    /\ fuso \in Fusi
    /\ progetto \in Int
    /\ schermo \in Int
    /\ task \in Task
    /\ dialogo \in Dialoghi
    /\ esito \in [quando : Nat, data : Int, accettata : BOOLEAN]
    /\ esito.quando >= Ore
    /\ scelta \in [limite : Int, dalCalendario : BOOLEAN]

\* isDateBeforeToday takes today's date from UTC.  Whatever the zone, the time of
\* day and the time the dialog stayed open, an accepted date is never earlier than
\* yesterday, and a refused one never later than today, by the device's calendar.
EntroUnGiorno ==
    IF esito.accettata THEN Giorno(esito.data) >= Giorno(esito.quando) - 1
                       ELSE Giorno(esito.data) <= Giorno(esito.quando)

\* AddTodoDialog captures today and the deadline when it is opened and may show
\* its calendar much later: what showDatePicker asserts holds even then.
CalendarioAggiungi ==
    dialogo.tipo = "aggiungi" /\ dialogo.selezionabile =>
        CalendarioValido(dialogo.data, dialogo.odierna, dialogo.limite)

\* The deadline of the project limits due dates only through the calendar, from a
\* value the screen read earlier.  A task is due after its project only if the
\* deadline was moved after it had been read for choosing that date, or if the
\* task was added when the deadline had passed and there was no calendar.
OltreSpiegato ==
    task.esiste /\ Giorno(task.scadenza) > Giorno(progetto) =>
        scelta.limite # progetto \/ ~scelta.dalCalendario

\* "La data di creazione originale del task" (ToDoRepository.dart:101): an edit
\* stores the task's own date of creation.
CreazioneOriginale ==
    [][task.esiste /\ task'.esiste => task'.dataCreazione = task.dataCreazione]_vars

=============================================================================
