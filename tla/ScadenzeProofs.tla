--------------------------- MODULE ScadenzeProofs ---------------------------
(***************************************************************************)
(* Theorems about Scadenze, for every set of zones within a day of UTC,    *)
(* every step of the clock and every horizon.                              *)
(***************************************************************************)
EXTENDS Scadenze, TLAPS

-----------------------------------------------------------------------------
(* Days and midnights.                                                     *)

\* A time is a whole number of days and a part of one.
LEMMA Divisione ==
    ASSUME NEW t \in Int
    PROVE  /\ Giorno(t) \in Int
           /\ Giorno(t) * 24 <= t
           /\ t < (Giorno(t) + 1) * 24
BY SMT DEF Giorno, Ore

\* The calendar's answer is a time of the day that was chosen.
LEMMA MezzanotteDelGiorno ==
    ASSUME NEW g \in Int
    PROVE  Mezzanotte(g) \in Int /\ Giorno(Mezzanotte(g)) = g
BY SMT DEF Giorno, Mezzanotte, Ore

\* A later time is not of an earlier day.
LEMMA GiornoMonotono ==
    ASSUME NEW s \in Int, NEW t \in Int, s <= t
    PROVE  Giorno(s) <= Giorno(t)
BY Divisione, SMT

\* startOfDay() of now().toUtc() is at most a day away from the local midnight.
LEMMA GiornoDiUtc ==
    ASSUME NEW t \in Int, NEW f \in (-24)..24
    PROVE  Giorno(t) - 1 <= Giorno(t - f) /\ Giorno(t - f) <= Giorno(t) + 1
<1>1. f \in Int /\ -24 <= f /\ f <= 24
  OBVIOUS
<1>2. t - f \in Int
  BY <1>1
<1>3. /\ Giorno(t) \in Int /\ Giorno(t) * 24 <= t /\ t < (Giorno(t) + 1) * 24
  BY Divisione
<1>4. /\ Giorno(t - f) \in Int
      /\ Giorno(t - f) * 24 <= t - f /\ t - f < (Giorno(t - f) + 1) * 24
  BY <1>2, Divisione
<1> QED
  BY <1>1, <1>3, <1>4, SMT

-----------------------------------------------------------------------------
(* Types.                                                                  *)

LEMMA TipiInit == Init => TypeOK
BY FusiAssumption
   DEF Init, TypeOK, Chiuso, NessunTask, Dialoghi, Task, Ore

\* Every step leaves the state well typed: what is stored or submitted comes from
\* the clock, the calendar or the dialog.
LEMMA TipiNext == TypeOK /\ [Next]_vars => TypeOK'
<1> SUFFICES ASSUME TypeOK, [Next]_vars PROVE TypeOK'
  OBVIOUS
<1> USE FusiAssumption, TempoAssumption DEF TypeOK, Ore
<1>1. CASE Passa
  BY <1>1 DEF Passa
<1>2. CASE SpostaScadenza
  BY <1>2, MezzanotteDelGiorno DEF SpostaScadenza, Giorni
<1>3. CASE ApriSchermo
  BY <1>3 DEF ApriSchermo
<1>4. CASE ApriAggiungi
  BY <1>4 DEF ApriAggiungi, Dialoghi, DataSelezionabile
<1>5. CASE ApriModifica
  BY <1>5 DEF ApriModifica, Dialoghi, Task, DataSelezionabile
<1>6. CASE ScegliData
  <2>1. PICK g \in Giorni : dialogo' = [dialogo EXCEPT !.data = Mezzanotte(g)]
    BY <1>6 DEF ScegliData, GiorniOfferti
  <2>2. Mezzanotte(g) \in Int
    BY MezzanotteDelGiorno DEF Giorni
  <2>3. dialogo' \in Dialoghi
    BY <2>1, <2>2 DEF Dialoghi
  <2> QED
    BY <1>6, <2>3 DEF ScegliData
<1>7. CASE Annulla
  BY <1>7 DEF Annulla, Chiuso, Dialoghi
<1>8. CASE Rifiuta
  BY <1>8 DEF Rifiuta, Prova, Chiuso, Dialoghi
<1>9. CASE Salva
  BY <1>9 DEF Salva, Prova, NuovaAttivita, Chiuso, Dialoghi, Task
<1>10. CASE Elimina
  BY <1>10 DEF Elimina, NessunTask, Task
<1>11. CASE UNCHANGED vars
  BY <1>11 DEF vars
<1> QED
  BY <1>1, <1>2, <1>3, <1>4, <1>5, <1>6, <1>7, <1>8, <1>9, <1>10, <1>11
     DEF Next

\* The state is well typed, whatever the zones and the step of the clock.
THEOREM TipiCorretti == Spec => []TypeOK
<1> QED
  BY TipiInit, TipiNext, PTL DEF Spec

-----------------------------------------------------------------------------
(* Today, by two calendars.                                                *)

\* What isDateBeforeToday lets through is at worst yesterday, what it refuses at
\* best today.
LEMMA OggiEIeri ==
    ASSUME TypeOK, dialogo \in Dialoghi
    PROVE  /\ ~IsDateBeforeToday(dialogo.data) =>
                Giorno(dialogo.data) >= Giorno(adesso) - 1
           /\ IsDateBeforeToday(dialogo.data) =>
                Giorno(dialogo.data) <= Giorno(adesso)
<1> DEFINE d == dialogo.data
           u == Giorno(adesso - fuso)
<1>1. /\ adesso \in Int /\ d \in Int
      /\ fuso \in (-24)..24 /\ adesso - fuso \in Int
  BY FusiAssumption DEF TypeOK, Dialoghi, Ore
<1>2. u \in Int /\ Giorno(adesso) \in Int /\ Giorno(d) \in Int
  BY <1>1, Divisione
<1>3. Giorno(adesso) - 1 <= u /\ u <= Giorno(adesso) + 1
  BY <1>1, GiornoDiUtc
<1>4. Mezzanotte(u) \in Int /\ Giorno(Mezzanotte(u)) = u
  BY <1>2, MezzanotteDelGiorno
<1>5. IsDateBeforeToday(d) <=> d < Mezzanotte(u)
  BY DEF IsDateBeforeToday, StartOfDayUtc
<1>6. ASSUME ~IsDateBeforeToday(d) PROVE Giorno(d) >= Giorno(adesso) - 1
  <2>1. Mezzanotte(u) <= d
    BY <1>1, <1>4, <1>5, <1>6
  <2>2. u <= Giorno(d)
    BY <2>1, <1>1, <1>4, GiornoMonotono
  <2> QED
    BY <2>2, <1>2, <1>3
<1>7. ASSUME IsDateBeforeToday(d) PROVE Giorno(d) <= Giorno(adesso)
  <2>1. d < u * 24
    BY <1>5, <1>7 DEF Mezzanotte, Ore
  <2>2. Giorno(d) * 24 <= d
    BY <1>1, Divisione
  <2>3. Giorno(d) < u
    BY <2>1, <2>2, <1>1, <1>2, SMT
  <2> QED
    BY <2>3, <1>2, <1>3
<1> QED
  BY <1>6, <1>7

\* Only a submission changes the outcome, and it records the moment and the date
\* it was judged by.
LEMMA EntroUnGiornoNext ==
    TypeOK /\ EntroUnGiorno /\ [Next]_vars => EntroUnGiorno'
<1> SUFFICES ASSUME TypeOK, EntroUnGiorno, [Next]_vars PROVE EntroUnGiorno'
  OBVIOUS
<1>1. dialogo \in Dialoghi
  BY DEF TypeOK
<1>2. CASE Rifiuta
  <2>1. esito' = [quando |-> adesso, data |-> dialogo.data, accettata |-> FALSE]
    BY <1>2 DEF Rifiuta, Prova
  <2>2. Giorno(dialogo.data) <= Giorno(adesso)
    BY <1>1, <1>2, OggiEIeri DEF Rifiuta
  <2> QED
    BY <2>1, <2>2 DEF EntroUnGiorno
<1>3. CASE Salva
  <2>1. esito' = [quando |-> adesso, data |-> dialogo.data, accettata |-> TRUE]
    BY <1>3 DEF Salva, Prova
  <2>2. Giorno(dialogo.data) >= Giorno(adesso) - 1
    BY <1>1, <1>3, OggiEIeri DEF Salva
  <2> QED
    BY <2>1, <2>2 DEF EntroUnGiorno
<1>4. CASE UNCHANGED esito
  BY <1>4 DEF EntroUnGiorno
<1> QED
  BY <1>2, <1>3, <1>4
     DEF Next, vars, Passa, SpostaScadenza, ApriSchermo, ApriAggiungi,
         ApriModifica, ScegliData, Annulla, Elimina

\* Whatever the zone and however long the dialog stayed open, an accepted due date
\* is not before yesterday and a refused one not after today.
THEOREM DateEntroUnGiorno == Spec => []EntroUnGiorno
<1>1. Init => EntroUnGiorno
  <2> SUFFICES ASSUME Init PROVE EntroUnGiorno
    OBVIOUS
  <2>1. esito.accettata /\ esito.quando = 24 /\ esito.data = 24
    BY DEF Init, Ore
  <2>2. Giorno(24) \in Int
    BY Divisione
  <2> QED
    BY <2>1, <2>2 DEF EntroUnGiorno
<1> QED
  BY <1>1, EntroUnGiornoNext, TipiCorretti, PTL DEF Spec

-----------------------------------------------------------------------------
(* The calendar.                                                           *)

\* The calendar of AddTodoDialog, opened now or later, starts on a day it offers.
LEMMA CalendarioNext ==
    TypeOK /\ CalendarioAggiungi /\ [Next]_vars => CalendarioAggiungi'
<1> SUFFICES ASSUME TypeOK, CalendarioAggiungi, [Next]_vars
             PROVE  CalendarioAggiungi'
  OBVIOUS
<1>1. CASE ApriAggiungi
  <2>1. /\ dialogo'.odierna = adesso /\ dialogo'.data = adesso
        /\ dialogo'.limite = schermo
        /\ dialogo'.selezionabile => adesso < schermo
    BY <1>1 DEF ApriAggiungi, DataSelezionabile
  <2>2. adesso \in Int /\ schermo \in Int
    BY DEF TypeOK
  <2>3. Giorno(adesso) \in Int /\ Giorno(schermo) \in Int
    BY <2>2, Divisione
  <2>4. adesso < schermo => Giorno(adesso) <= Giorno(schermo)
    BY <2>2, GiornoMonotono
  <2> QED
    BY <2>1, <2>3, <2>4 DEF CalendarioAggiungi, CalendarioValido
<1>2. CASE ApriModifica
  BY <1>2 DEF ApriModifica, CalendarioAggiungi
<1>3. CASE ScegliData
  <2> SUFFICES ASSUME dialogo'.tipo = "aggiungi", dialogo'.selezionabile
               PROVE  CalendarioValido(dialogo'.data, dialogo'.odierna,
                                       dialogo'.limite)
    BY DEF CalendarioAggiungi
  <2>1. dialogo \in Dialoghi
    BY DEF TypeOK
  <2>2. PICK g \in Giorni : dialogo' = [dialogo EXCEPT !.data = Mezzanotte(g)]
    BY <1>3 DEF ScegliData, GiorniOfferti
  <2>3. /\ dialogo'.tipo = dialogo.tipo /\ dialogo'.odierna = dialogo.odierna
        /\ dialogo'.limite = dialogo.limite /\ dialogo'.data = Mezzanotte(g)
        /\ dialogo'.selezionabile = dialogo.selezionabile
    BY <2>1, <2>2 DEF Dialoghi
  <2>4. PICK h \in GiorniOfferti(dialogo.odierna, dialogo.limite) :
            dialogo' = [dialogo EXCEPT !.data = Mezzanotte(h)]
    BY <1>3, <2>3 DEF ScegliData
  <2>5. h \in Int /\ h \in Giorno(dialogo.odierna)..Giorno(dialogo.limite)
    BY <2>4 DEF GiorniOfferti, Giorni
  <2>6. dialogo'.data = Mezzanotte(h) /\ Giorno(Mezzanotte(h)) = h
    BY <2>1, <2>4, <2>5, MezzanotteDelGiorno DEF Dialoghi
  <2>7. CalendarioValido(dialogo.data, dialogo.odierna, dialogo.limite)
    BY <2>3 DEF CalendarioAggiungi
  <2> QED
    BY <2>3, <2>5, <2>6, <2>7 DEF CalendarioValido
<1>4. CASE dialogo' = Chiuso
  BY <1>4 DEF CalendarioAggiungi, Chiuso
<1>5. CASE UNCHANGED dialogo
  BY <1>5 DEF CalendarioAggiungi
<1> QED
  BY <1>1, <1>2, <1>3, <1>4, <1>5
     DEF Next, vars, Passa, SpostaScadenza, ApriSchermo, Annulla, Rifiuta,
         Salva, Elimina

\* The assertions of showDatePicker hold for AddTodoDialog at any later time.
THEOREM CalendarioSempreValido == Spec => []CalendarioAggiungi
<1>1. Init => CalendarioAggiungi
  BY DEF Init, Chiuso, CalendarioAggiungi
<1> QED
  BY <1>1, CalendarioNext, TipiCorretti, PTL DEF Spec

-----------------------------------------------------------------------------
(* The deadline of the project.                                            *)

\* OltreSpiegato is not inductive: what a dialog is about to submit must respect
\* the limit too.  A date the calendar had a say in respects the limit it had
\* then; an edit that keeps the date keeps its justification.
Limitata ==
    /\ task.esiste /\ scelta.dalCalendario =>
            Giorno(task.scadenza) <= Giorno(scelta.limite)
    /\ dialogo.tipo = "modifica" /\ dialogo.selezionabile =>
            \/ dialogo.data = task.scadenza
            \/ Giorno(dialogo.data) <= Giorno(dialogo.limite)

\* Storing an edited or added date keeps it justified.
LEMMA LimitataSalva ==
    ASSUME TypeOK, CalendarioAggiungi, Limitata, Salva
    PROVE  Limitata'
<1>1. dialogo' = Chiuso /\ task'.scadenza = dialogo.data
  BY DEF Salva, NuovaAttivita
<1>2. dialogo \in Dialoghi /\ dialogo.tipo # "chiuso"
  BY DEF Salva, TypeOK
<1>3. CASE dialogo.tipo = "modifica" /\ dialogo.data = task.scadenza
  <2>1. scelta' = scelta /\ task.esiste
    BY <1>3 DEF Salva
  <2> QED
    BY <1>1, <1>3, <2>1 DEF Limitata, Chiuso
<1>4. CASE ~(dialogo.tipo = "modifica" /\ dialogo.data = task.scadenza)
  <2>1. scelta' = [limite |-> dialogo.limite,
                   dalCalendario |-> dialogo.selezionabile]
    BY <1>4 DEF Salva
  <2>2. CASE dialogo.tipo = "modifica"
    BY <1>1, <1>4, <2>1, <2>2 DEF Limitata, Chiuso
  <2>3. CASE dialogo.tipo = "aggiungi"
    <3>1. dialogo.selezionabile =>
            Giorno(dialogo.data) \in Giorno(dialogo.odierna)..Giorno(dialogo.limite)
      BY <2>3 DEF CalendarioAggiungi, CalendarioValido
    <3>2. /\ Giorno(dialogo.odierna) \in Int /\ Giorno(dialogo.limite) \in Int
      BY <1>2, Divisione DEF Dialoghi
    <3>3. dialogo.selezionabile => Giorno(dialogo.data) <= Giorno(dialogo.limite)
      BY <3>1, <3>2
    <3> QED
      BY <1>1, <2>1, <3>3 DEF Limitata, Chiuso
  <2> QED
    BY <1>2, <2>2, <2>3 DEF Dialoghi
<1> QED
  BY <1>3, <1>4

\* Every step keeps the justification of the stored date and of the date in the
\* dialog.
LEMMA LimitataNext ==
    TypeOK /\ CalendarioAggiungi /\ Limitata /\ [Next]_vars => Limitata'
<1> SUFFICES ASSUME TypeOK, CalendarioAggiungi, Limitata, [Next]_vars
             PROVE  Limitata'
  OBVIOUS
<1>1. CASE ApriAggiungi
  BY <1>1 DEF ApriAggiungi, Limitata
<1>2. CASE ApriModifica
  BY <1>2 DEF ApriModifica, Limitata
<1>3. CASE ScegliData
  <2>1. dialogo \in Dialoghi
    BY DEF TypeOK
  <2>2. CASE dialogo.tipo = "modifica"
    <3>1. PICK g \in GiorniOfferti(adesso, dialogo.limite) :
              dialogo' = [dialogo EXCEPT !.data = Mezzanotte(g)]
      BY <1>3, <2>2 DEF ScegliData
    <3>2. g \in Int /\ g \in Giorno(adesso)..Giorno(dialogo.limite)
      BY <3>1 DEF GiorniOfferti, Giorni
    <3>3. dialogo'.data = Mezzanotte(g) /\ Giorno(Mezzanotte(g)) = g
      BY <2>1, <3>1, <3>2, MezzanotteDelGiorno DEF Dialoghi
    <3>4. dialogo'.limite = dialogo.limite
      BY <2>1, <3>1 DEF Dialoghi
    <3>5. /\ adesso \in Int /\ dialogo.limite \in Int
      BY <2>1 DEF TypeOK, Dialoghi
    <3>6. Giorno(adesso) \in Int /\ Giorno(dialogo.limite) \in Int
      BY <3>5, Divisione
    <3>7. Giorno(dialogo'.data) <= Giorno(dialogo'.limite)
      BY <3>2, <3>3, <3>4, <3>6
    <3> QED
      BY <1>3, <3>7 DEF ScegliData, Limitata
  <2>3. CASE dialogo.tipo # "modifica"
    <3>1. dialogo'.tipo # "modifica"
      BY <1>3, <2>1, <2>3 DEF ScegliData, Dialoghi
    <3> QED
      BY <1>3, <3>1 DEF ScegliData, Limitata
  <2> QED
    BY <2>2, <2>3
<1>4. CASE Salva
  BY <1>4, LimitataSalva
<1>5. CASE Elimina
  BY <1>5 DEF Elimina, Limitata, NessunTask
<1>6. CASE (dialogo' = dialogo \/ dialogo' = Chiuso) /\ UNCHANGED <<task, scelta>>
  BY <1>6 DEF Limitata, Chiuso
<1> QED
  BY <1>1, <1>2, <1>3, <1>4, <1>5, <1>6
     DEF Next, vars, Passa, SpostaScadenza, ApriSchermo, Annulla, Rifiuta

\* A task is due after its project only because the deadline was moved after the
\* screen read it, or because the task was added with no calendar to limit it.
THEOREM OltreSempreSpiegato == Spec => []OltreSpiegato
<1>1. Init => Limitata
  BY DEF Init, Limitata, NessunTask, Chiuso
<1>2. TypeOK /\ Limitata => OltreSpiegato
  <2> SUFFICES ASSUME TypeOK, task.esiste, scelta.dalCalendario,
                      scelta.limite = progetto,
                      Giorno(task.scadenza) <= Giorno(scelta.limite)
               PROVE  ~(Giorno(task.scadenza) > Giorno(progetto))
    BY DEF Limitata, OltreSpiegato
  <2>1. task.scadenza \in Int /\ progetto \in Int
    BY DEF TypeOK, Task
  <2>2. Giorno(task.scadenza) \in Int /\ Giorno(progetto) \in Int
    BY <2>1, Divisione
  <2> QED
    BY <2>2
<1>3. Spec => []Limitata
  BY <1>1, LimitataNext, TipiCorretti, CalendarioSempreValido, PTL DEF Spec
<1> QED
  BY <1>2, <1>3, TipiCorretti, PTL

=============================================================================
