# TeamSync: a TLA+ verification project

TeamSync is a Flutter application for student teams. Users register, create
projects or join them with a code, and share out the tasks of a project. There
is no server code: every device talks to Firebase Authentication and to three
collections of Cloud Firestore (`utenti`, `progetti`, `Todo`) directly, with
single-document calls and without a single transaction. What the application
guarantees is therefore decided by how these calls interleave, on one device
and between devices, and by what is left behind when one of them fails. That is
what is modelled here.

The modules keep the names of the Dart code, which are Italian.

## 1. Inventory

| Component | State | Operations | What is hard | What makes it correct |
|---|---|---|---|---|
| **Projects**: `iTuoiProgetti/Repository`, `ViewModel`, `Model` | collection `progetti` (participants, code) | create, join by code, leave (deletes the project when it empties), edit, reload | leave is four calls, edit a read and a blind `set`, join two queries and an update: everything interleaves | nobody is a participant without the code; the code never changes; an empty project does not stay; nobody loses a membership or a project by someone else's timing |
| **Home page and project dialogs**: `home_page_progetti`, `i_tuoi_progetti_item`, `sezione_progressi_progetti` | `_progetti`, `_attivitaProgetti`, `_progettiCompletati`, `_isLoading`; the navigator | load, join and create from a dialog, leave, Sync, open a project | four triggers of the same load, which assigns its fields at different times; a dialog that can be closed while its call runs, and pops the navigator afterwards | once nothing is under way the page shows the user's projects, each with its count; the spinner belongs to a load; no pop empties the navigator by itself |
| **Tasks**: `leMieAttivita/Repository`, `ViewModel`, `Model` | collection `Todo` of a project (list of users, completed, dates) | add, edit, complete, delete, delegate (add or remove a user) | delegation and edit are read-modify-write on one document; removing the last user is an update and a deletion | a task without users does not stay; delegation touches nothing else |
| **Task lists**: `LeMieAttivitaUI` | three lists in the shared view model; tab and spinner in each screen | open, switch tab, reload after each write, close | lists are shared by all screens, spinners by all loads of a screen, loads outlive screens and overlap | a spinner that turns has a load to wait for; a quiet screen shows its own project with its own writes |
| **Rows, edit dialog, DelegaTask** | rows with their own state and no key, dialogs holding an old copy of the task, the map `_userAssigned` filled asynchronously | the buttons | what is acted on is what was read some time ago | every activity ends, also on a task that has gone |
| **Due dates**: `LeMieAttivitaViewModel`, `AddTodoDialog`, `EditTodoDialog` | the date in a dialog, the deadline it captured, the stored dates | choose a day, save, refuse | the day is that of UTC, the calendar's that of the device, the deadline that of an earlier read | a past day is never accepted by more than the zones allow; the calendar's arguments are valid whenever it is opened |
| **Accounts**: `login/Repository`, `ViewModel`, screens; `benvenuto` | Authentication (`currentUser`, verified or not), collection `utenti` (`primoAccesso`), `ViewModelUtente` | register, log in, reset password, first access, log out | registration is two calls in two services; login four; screens may be left and reopened while they run; `loginSuccessful` is never reset | only verified users become the current one; first access is recorded once; no half-made account goes unexplained; the login button comes back |
| **Navigation**: `navgraph`, `schermate`, `main` | stack of routes; one set of view models per `NavGraph` | push, replace, back; logout nests a new `NavGraph` in the old one | an operation that ends late replaces or pops whatever route is on top by then | the inner pages of a NavGraph are shown only after a login of that NavGraph |
| Information screens, calendar, profile section | none of their own | display | – | not modelled |
| `Priorita`, theme, `firebase_options`, platform folders | constants | – | – | not modelled |

Interaction: screens call view models, view models call repositories,
repositories await Firebase and the result travels back up; view models notify
the screens. Components share state in three places: the documents in Firestore
(all devices), `_auth.currentUser` (all operations of a device) and the view
models (all screens of a NavGraph).

`PROJECT.json` lists the hazards of this code, each at its line, with the
properties that are about it or the reason why there is none.

## 2. Modules

Each component has one module with its specification and one `MC` module that
adds the symmetry sets and small values of the TLC models.

| Module | Models | Checked by |
|---|---|---|
| `Progetti` | the collection `progetti` and create/join/leave/edit/reload by several users, one action per awaited call | `MCProgetti`, `ProgettiProofs` |
| `Iscrizioni` | abstract: who is in which project, with stale copies and stale verdicts as the only trace of concurrency | (through the refinement) |
| `ProgettiRaffina` | `Progetti` implements `Iscrizioni` | `MCProgetti`, `ProgettiRaffinaProofs` |
| `Attivita` | the collection `Todo` of one project, rows, edit dialog, DelegaTask | `MCAttivita`, `AttivitaProofs` |
| `Incarichi` | abstract: who is on which task and whether it is done, and what somebody remembers of a task as the only trace of concurrency | (through the refinement) |
| `AttivitaRaffina` | `Attivita` implements `Incarichi` | `MCAttivita`, `AttivitaRaffinaProofs` |
| `Elenchi` | the task lists of one device: shared lists, tabs, spinners, screens on the navigator | `MCElenchi`, `ElenchiProofs` |
| `Casa` | the home page of one user: its fields, its loads, its dialog and the navigator | `MCCasa`, `CasaProofs` |
| `Scadenze` | due dates of one task: zones, dialogs, calendar, the deadline of the project | `MCScadenze`, `ScadenzeProofs` |
| `Accesso` | accounts, login screens, first access, logout, nested NavGraphs on one device | `MCAccesso`, `AccessoProofs` |
| `Conti` | abstract: the life of an account as its owner sees it, and who is logged in where | (through the refinement) |
| `AccessoRaffina` | `Accesso` implements `Conti` | `MCAccesso`, `AccessoProofs` |

The modules divide the system by what is shared. `Progetti`, `Attivita` and
`Accesso` are about documents and accounts, which several actors write; `Elenchi`
and `Casa` about the fields of the view model, which several loads of one device
write while the documents move underneath; `Scadenze` about clocks. `Casa` and
`Elenchi` are therefore the reading side of `Progetti` and `Attivita`: what is an
opaque "reload" there is taken apart here, and what others do to the documents
is left to the former.

### How code becomes actions

Dart runs the code of a device on one thread, so a handler is undisturbed from
one `await` to the next. An *operation* is a record in a slot of the constant
set `Operazioni` (`Slot`); its field `fase` names the call it awaits, and each
call, with everything the handler does until the next `await`, is one action.
Starting an operation is an action too (`Comando`, `Utente`). Firestore is
modelled as the code uses it: one call reads or writes one document atomically;
`update` throws on a missing document, `set` creates it, `delete` of a missing
document succeeds. A call that fails has no effect (`Fallisce`, or the action of
the call itself where the repository turns the exception into a null or an empty
list). `ChiudiApp` and `Riavvia` end an application wherever its operations are.

Left out everywhere: Firestore's offline cache, a write that takes effect
although the call throws, several devices of one user, and texts.

**Progetti.** `progetti` is the collection, `op` the operations. `visti` is the
set of projects a user can still act on: it only grows until the application
ends, because a screen opened on a project stays on the navigation stack after
the list has dropped the project. `errore` says that `_erroreAggiungiProgetto`
is not null. `creatore`, `codiceIniziale`, `codiciUsati`, `interrotti` and the
field `mutati` of an operation are history, which no action reads in a guard
except that an automatic id is never used twice (`creatore[p] = Nessuno`).
An edit ends without a reload in the model: the list the code reloads belongs to
a view model that the edit screen creates for itself and throws away. The form
fields of a project (name, dates, priority, grade) are left out because no
operation reads them.

**Iscrizioni.** A project is founded, people who have got hold of its code
enter, members leave. What concurrency adds is an *intent* of each operation: a
copy of the members that will be written back (`riscrivi`, from
`aggiornaProgetto`), or the verdict that a project is empty and is to be deleted
(`cancella`, from `abbandonaProgetto`). Both may be carried out at any later
time, or never. `ProgettiRaffina` maps the phases of `Progetti` to these.

**Attivita.** The list `utenti` is kept as the number of occurrences of each
user, since `addUserToTodo` appends without looking. A slot can also be a row on
a screen or an open edit dialog, which hold the task as it was read. DelegaTask
is `delega[u]`; the field `modifica` of an operation started from it says
whether that screen is still mounted, as its final `setState` needs. A newly
opened DelegaTask replaces a buried one of the same user. If the participants of
the project cannot be read DelegaTask shows nobody; the model starts after that.

**Incarichi.** A task is born with one user, is marked done or not, gets or loses
one user, is put back as somebody remembers it, goes. What concurrency adds is
the *memory* of each operation: a copy of a task (`copia`), its completion alone
(`segno`), or that it is to go (`condanna`); it is used once, at any later time,
or forgotten. `AttivitaRaffina` maps rows, dialogs, edits and the second half of
a delegation to copies, `completeTodo` to `segno`, both deletions to `condanna`.
DelegaTask, its map and its checks do not appear in `Incarichi`, nor does what a
row's buttons look like: none of them can change what becomes of a task except
through a memory.

**Elenchi.** The tasks are a clock: `ora` ticks at each write of this device
that is stored, and a list is the project and the time it was read at. The three
lists are in `elenco`, once for all screens; `schermo` holds the selected tab
and `isLoadingAttivita` of each screen. A query is answered in one step and its
answer arrives in another, so that loads overlap and overtake each other; a read
may throw, which leaves an empty list. A load started by a screen that has been
closed still assigns the list. Nothing relies on Firestore showing a pending
write to a later query. `storia` is history: the last write of each screen that
has returned, the load it started last of the list on its tab, and whether
another load has assigned that list since. The fetch of the project and the due
date that the screen computes for a page that never reads it are left out.

**Casa.** `progetti`, `contati` (the keys of `_attivitaProgetti`), `completati`
and `caricando` are the fields of `ProgettoViewModel`; `iscritto` is what the
server has for this user, which here only his own operations change. The first
page starts two loads (`_init` and `initState`). The dialog that joins or creates
keeps the navigator across its await: if it has been dismissed meanwhile, or its
button was pressed again, it pops something else. `SchermoVuoto` is the state in
which such pops have removed the last page. `storia` records what the properties
need: whether the last loads overlapped or met an exception (`incerto`), which
projects were left since the completed ones were last asked for (`usciti`), and
whether a call has outlived its dialog (`sopravvissuta`).

**Scadenze.** A `DateTime` is a number of hours on the device's clock, a zone an
offset, constant while the application runs (no daylight saving). A calendar
answers with a midnight. `limite` is the deadline a dialog captured when it was
opened. `isDateBeforeToday` compares the chosen time with the midnight of the
day UTC is in, rebuilt as a local time.

**Accesso.** `vivi` numbers the mounted NavGraphs; logout from one nests the
next in it, and replacing a route unmounts what is nested in it. `pila[g]` is
the stack of a NavGraph's navigator, `vm[g]` its view models. A login screen
remembers the operation it is waiting for (`attende`), which is `isLoading`. The
lazily created `ProgettoViewModel` is created with the navigation that first
shows the home page. Passwords are left out: signing in to an existing account
may succeed or fail. The verification e-mail goes to whoever is authenticated
when it is sent, if it is sent at all. Messages about errors are left out.

**Conti.** An address is free, half-way through its registration, registered
(`nuovo`), or known (`conosciuto`, after the first access); nothing of this goes
back. A registration that is going on (`registranti`) completes what it has begun
itself or never will; an account left half-way stays so. Completing one may
invite somebody else to confirm, because the e-mail goes to `currentUser`. Who is
let in has confirmed his address and has a profile. `AccessoRaffina` puts the
account of Authentication and the document of `utenti` together as one account,
and forgets routes, logins on their way, `currentUser` and loading buttons.

## 3. What TLC checks

| Run | Instance | Shows |
|---|---|---|
| `progetti_gare` | 2 users, 1 project, 2 codes, 2 operations | `TypeOK`; `PerditeSoloInFinestra`: what a stale edit or deletion destroys changed inside its own read-to-write window; `OrfaniSpiegati`: every empty project has an operation that is about to deal with it, or is one of the recorded interruptions; `SoloConCodice` and `CodiceStabile`: nobody is in a project without its code, and the code never changes; `EliminazioneDefinitiva`: a deleted project comes back only through an edit that had read it before; `RaffinaIscrizioni`: `Progetti` implements `Iscrizioni` |
| `progetti_vivacita` | 2 users, 1 project, 1 code, 2 operations, fair | `OgniOperazioneTermina`, `VuotoVieneEliminato`: operations end, an emptied project does not stay |
| `attivita_sicura` | 2 users, 1 task, 2 operations, 2 occurrences | `TypeOK`; `SenzaUtentiSpiegato`: the same for tasks without users; `CompletatoNonDelegato`: delegation never undoes a completion; `EliminazioneDefinitiva`: a deleted task comes back only from a copy on a screen, in a dialog or in an edit being saved; `RaffinaIncarichi`: `Attivita` implements `Incarichi` |
| `attivita_viva` | 1 user, 1 task, 2 operations, fair | `OgniAttesaFinisce`, `SenzaUtentiCancellato` |
| `elenchi_due_schermi` | 2 projects, 2 screens, 2 calls, 4 pages, 1 stored write | `TypeOK`: every screen is on the navigator once and calls know whether theirs is still there; `SpinnerSpiegato`: a spinner that is shown has a load to wait for; `ElencoAggiornato`: a screen with nothing under way shows its project with its own writes, unless a load it did not start last has overwritten the list |
| `casa_carichi` | 2 projects, 1 of them completed, 3 activities, 2 pages | `TypeOK`; `CasaAggiornata`: once all is quiet the page shows the user's projects, all counted, unless the last loads overlapped; `ProgressiSpiegati`: a completed project that is missing from the projects was left; `VuotoSpiegato`: the last page is popped only by a call that outlived its dialog; `CaricandoSpiegato`: a spinner has its load |
| `scadenze_fusi` | zones 8 hours west, at and east of UTC; steps of 8 hours over three days | `TypeOK`; `EntroUnGiorno`: an accepted date is never before yesterday, a refused one never after today; `CalendarioAggiungi`: the calendar of the new-task dialog can be opened however long the dialog has been there; `OltreSpiegato`: why a task may be due after its project |
| `accesso_sicuro` | 2 accounts, 2 operations, 2 NavGraphs, 1 route each | `ProfiloSpiegato`: an account without a profile is one whose registration is going on or was interrupted; `SoloVerificati`: a view model holds only verified users; `PrimoAccessoNonTorna`: a recorded first access stays recorded; `RaffinaConti`: `Accesso` implements `Conti` |
| `accesso_uscita` | 1 account, 2 operations, 2 NavGraphs, 2 routes, fair | `TypeOK`; `DentroSoloDopoLogin`: late navigation never opens a NavGraph in which nobody logged in; `CaricamentoFinisce`: a login button that disappeared while loading comes back or its screen goes |

Some comments of the code say more than the code does. In these runs TLC finds
the counterexample:

| Run | Said | Done |
|---|---|---|
| `progetti_elimina_pieno` | a project is deleted "se non ci sono più partecipanti" | one with a participant who has just joined is deleted |
| `accesso_home` | "i progetti dell'utente corrente" | those of whoever was authenticated when the page was first built |
| `scadenze_creazione` | an edit stores "la data di creazione originale del task" | it stores the moment of the edit |

Relatives of these that the models contain and no run asks about: an edit in
flight undoes a join and recreates a deleted project, as `Iscrizioni` allows it
to; `updateTodo` recreates a deleted task; two concurrent additions to a task
lose one of the users; a user who is in the list twice survives his removal;
`removeUserFromTodo` deletes a task with a newly added user as
`abbandonaProgetto` does a project (these as `Incarichi` allows); after a
registration that stopped half-way the address is taken, and registering again
cannot succeed.

### Bounds

`Operazioni` and `Slot` bound what is in flight: two are enough for every race
of a pair and for the counterexamples above, and the theorems of section 4 hold
for any number; `Casa` has three, because two loads and the call that starts
the next are needed for one to overtake another. One document is enough for the
safety runs because no operation touches two; the proofs remove the bound.
`MaxVolte` bounds the occurrences of a user in a task (two make a duplicate).
`MaxGrafi` bounds nested NavGraphs (two: one before, one after a logout),
`MaxPila` the pages on a navigator (in `Elenchi` four: home, a project, the edit
page, and a project again on top). `MaxOra` bounds in `Elenchi` the stored writes
(one tells a list that has it from one that has not), in `Scadenze` the hours
(`Passo` of them at a time: with zones that are multiples of the step every
order of the local and the UTC midnight occurs). A numbered NavGraph is reused
only when no operation still refers to the old one. Documents and accounts are
created at most once per id. TLC may identify states that differ by a
permutation of users, projects, tasks or slots; the liveness runs use no
symmetry.

### Fairness

`FairSpec` of `Progetti`, `Attivita` and `Accesso` is weak fairness of the steps
of each slot: a Firebase call that is awaited eventually returns or throws. The
Firebase libraries end their calls or throw; a write issued while offline, whose
future waits for the connection, is outside this assumption. What users do, and
crashes, are never fair. `Casa`, `Elenchi` and `Scadenze` state safety only.

## 4. What is proved

Every theorem holds for all values of the constants, of which only the named
assumptions of the modules are used: that `Nessuno` is none of the other values,
that bounds are natural numbers (positive where something must fit), that the
slots of `Casa` are finitely many, and in `Scadenze` that zones are within a day of UTC (`FusiAssumption`).

| Module | Theorem | Statement |
|---|---|---|
| `ProgettiProofs` | `TipiCorretti` | `Spec => [](TypeOK /\ TipiOp)` |
| | `AccessoSoloConCodice` | `Spec => []SoloConCodice` |
| | `CodiceImmutabile` | `Spec => []CodiceStabile` |
| | `DanniSoloInFinestra` | `Spec => []PerditeSoloInFinestra` |
| | `OrfaniSempreSpiegati` | `Spec => []OrfaniSpiegati` |
| | `EliminazioneSempreDefinitiva` | `Spec => EliminazioneDefinitiva` |
| `ProgettiRaffinaProofs` | `Raffinamento` | `Spec => RaffinaIscrizioni` |
| `AttivitaProofs` | `TipiCorretti` | `Spec => [](TypeOK /\ Tipi)` |
| | `SenzaUtentiSempreSpiegati` | `Spec => []SenzaUtentiSpiegato` |
| | `CompletamentoNonDelegato` | `Spec => CompletatoNonDelegato` |
| | `EliminazioneSempreDefinitiva` | `Spec => EliminazioneDefinitiva` |
| `AttivitaRaffinaProofs` | `Raffinamento` | `Spec => RaffinaIncarichi` |
| `ElenchiProofs` | `TipiCorretti` | `Spec => [](TypeOK /\ Inv)` |
| | `SpinnerSempreSpiegato` | `Spec => []SpinnerSpiegato` |
| | `ElencoSempreAggiornato` | `Spec => []ElencoAggiornato` |
| `ScadenzeProofs` | `TipiCorretti` | `Spec => []TypeOK` |
| | `DateEntroUnGiorno` | `Spec => []EntroUnGiorno` |
| | `CalendarioSempreValido` | `Spec => []CalendarioAggiungi` |
| | `OltreSempreSpiegato` | `Spec => []OltreSpiegato` |
| `CasaProofs` | `TipiCorretti` | `Spec => [](TypeOK /\ Inv)` |
| | `VuotoSempreSpiegato` | `Spec => []VuotoSpiegato` |
| | `CaricandoSempreSpiegato` | `Spec => []CaricandoSpiegato` |
| | `CasaSempreAggiornata` | `Spec => []CasaAggiornata` |
| | `ProgressiSempreSpiegati` | `Spec => []ProgressiSpiegati` |
| `AccessoProofs` | `TipiCorretti` | `Spec => [](TypeOK /\ Tipi)` |
| | `DentroDopoLogin` | `Spec => []DentroSoloDopoLogin` |
| | `ProfiliSempreSpiegati` | `Spec => []ProfiloSpiegato` |
| | `UtentiVerificati` | `Spec => []SoloVerificati` |
| | `PrimoAccessoRegistrato` | `Spec => PrimoAccessoNonTorna` |
| | `ImplementaConti` | `Spec => RaffinaConti` |

**Progetti.**

- *Types.* `TypeOK` is not inductive: `aggiungiPartecipante` writes its user into
  a document, so one must know that an operation that has started carries a user,
  and from the phases that use it a project. `TipiOp` says so (`BenFormata`).
- *Membership and codes.* An edit writes back what it read, possibly after the
  project was deleted. So the same must be true of what operations remember:
  `Legittimita` says that each document, the snapshot of each pending edit and
  the project found by each pending join are legitimate, and that creator and
  initial code of a project are recorded together. The two theorems are two
  readings of it. History is needed because a code can only be compared with the
  one the project began with.
- *Races.* With types, `PerditeSoloInFinestra` is inductive: a write to a
  document is noted by every other operation whose window on it is open
  (`CoerenteScrivi`), and opening a window starts from equality.
- *Empty projects.* With types, `OrfaniSpiegati` is inductive: only
  `RimuoviPartecipante` and `SetProgetto` can empty a document
  (`OrfaniScrivi`), and an operation that could have deleted it leaves its phase
  only by deleting it, by finding it not empty or by being recorded
  (`OrfaniProsegui`).
- *Deletion.* `Sepolto(p)`, p was created, is gone and no edit holds a reading of
  it, is kept by every step: what writes with `update` needs a document that
  exists, `CreaProgetto` takes an id that was never used, and `GetProgettoById`
  opens no edit on a document it does not find (`SepoltoProsegui`,
  `SepoltoScrivi`). The last condition of `Sepolto` is needed: `SetProgetto`
  writes with `set`, and so revives a project deleted after it was read.
- *Refinement.* Each step of `Progetti` is an event of `Iscrizioni` or changes
  none of its variables. Two facts that the steps alone do not give are
  invariants, from `Legittimita`: a document that exists has the code it was
  founded with, and a pending join carries a code its user has got hold of,
  which is what `Entra` asks for.

**Attivita.** `Tipi` makes `TypeOK` inductive: operations carry users, and, like
the documents and the open DelegaTask screens, tasks that have been created. With it
`SenzaUtentiSpiegato` is inductive: a list is emptied by the removal of its last
occurrence, which goes on to delete the task, or by an edit that writes back an
empty list, which is recorded; and the operation about to delete leaves its
phase only by deleting or by being recorded. `CompletatoNonDelegato` is about
single steps: each action that writes `completato` is one of the two named, and
the others copy it. `EliminazioneDefinitiva` is about one step as well, but about
all that are on screen: a row or a dialog can come to hold a task only while the
task exists (`MostraRiga`, `SostituisciRiga`), keeps it until `UpdateTodo` stores
it again with `set`, and every other write needs the document (`SepoltoStep`,
`SepoltoComando`, `SepoltoPasso`). For the refinement two facts of `Tipi` are needed: a
delegation that removes somebody found him in the list it had read, so that the
list it writes is shorter by one; and one that adds somebody had room for him, so
that the list it writes is not the empty one and the task is not condemned. The
other steps map action by action; unmounting a DelegaTask screen changes only
the field `modifica` of its operations, of which `Incarichi` knows nothing
(`SmontataInvisibile`).

**Elenchi.** `Inv` is `Pila` and `Stato`. `Pila` says of the navigator that its
first page is the home page, that an edit page lies right above a screen, and
that each screen is on it once if it is mounted and not at all otherwise: what a
call that ends late replaces or uncovers is therefore known, and the number given
to a new screen is not in use. `Stato` says of the calls that they belong to a
mounted screen or to none (`Attive`), and of every mounted screen whose spinner
turns that a load of its own is in flight (`Attesa`), which is
`SpinnerSpiegato`. `ElencoAggiornato` needs `Raccontata`, about the load that a
screen started last of the list on its tab: as long as it is in flight it is of
that screen, tab and project, and if the query has been answered already, the
answer has every write of the screen that has returned, since a write starts a
load when it returns; once it has arrived and no other load has assigned the
list since, the list is the one it brought. The proof shows more than the
property asks for: the list is up to date also while another load keeps the
spinner turning. That the least free number of a screen exists is the
well-foundedness of the natural numbers (`WellFoundedInduction`).

**Scadenze.** Arithmetic about day boundaries. The bound of one day comes from
`FusiAssumption`: the day in UTC differs from the device's by at most one.
`OltreSpiegato` needs `Limitata`: a stored date that a calendar had a say in
respects the limit recorded for it, and what an edit dialog is about to submit
is either the old date or respects the limit that the dialog captured.

**Casa.** `Inv` makes `TypeOK`, `VuotoSpiegato` and `CaricandoSpiegato` inductive:
the first page is always a home page, so that the last page is never a dialog;
and an activity that joins or creates and has no dialog any more has been noted
in `sopravvissuta` (`Attive`). Hence a pop that takes the last page was made by
a call without a dialog. What the page shows needs `Riposo`. Its part `Quiete`
says that, unless `incerto`, at most one load of the projects is under way, and
that as long as no call has changed the server without having been reported, what that
load has read is what the server has; a call that is reported starts a load,
which must meet no other one to keep the history certain. `Lasciati` says the
same of completed projects, up to those in `usciti`. The set of slots is assumed
finite (`SlotAssumption`).

**Accesso.** `Tipi` makes both `TypeOK` and `DentroSoloDopoLogin` inductive: the
mounted NavGraphs are `1..n` (`Pile`), so that there is a page on screen and a
replaced route unmounts just the inner ones; pages behind a login are only where
`loginSuccessful` holds; and a first access is being recorded only there.
The other three theorems come from `Indirizzi`. Its first part, `Registrazioni`,
says that at most one operation per address is between `createUser` and `set`,
on an account that exists and has no profile: this is why a late `set` never
makes a first access first again. Its second, `Accessi`, that a login fetches a
profile only after the address was verified, and that whoever a view model holds
was verified and has a profile, and so has whoever's first access is being
recorded (the `update` of `updateFirstLogin` never meets a missing document).
`ProfiloSpiegato` is its third. The refinement of `Conti` rests on the same two:
that registrations are one per address makes the one that ends the only one to
leave `registranti` (`RegistranteFinisce`), and `Accessi` is what `Entra` and
`Conosce` ask for. All other calls of a login and of a logout change at most
whom one NavGraph holds (`UnaAvanti`), and what users do on the screens changes
nothing that `Conti` sees (`ComandoEffetti`).

Only model-checked: `OgniOperazioneTermina`, `VuotoVieneEliminato`,
`OgniAttesaFinisce`, `SenzaUtentiCancellato` and `CaricamentoFinisce`, that is,
liveness under fairness, which is out of the prover's reach. Every safety
property of the passing runs is a theorem.

## 5. Not modelled

- *Third-party code.* `ios/Pods` holds the C and C++ sources of gRPC, BoringSSL
  and the Firestore client: most of the lines of the repository and none of its
  logic. What the application sees of them is how the code under `lib` uses
  Firebase, and that is what is modelled.
- *Screens that only display*: information about a project, calendar, profile
  section, the pages of the welcome tour; `Priorita` and the theme.
- *Code without a caller or a reader*: `updateDataScadenzaTodo`,
  `dataMinimaScadenzaTask`, the due date that LemieAttivita computes.
- *The fetch of the project in LemieAttivita*: when it answers null the screen
  dereferences it and shows an error; the lists do not depend on it.
- *The navigator of AddTodoDialog*, whose button may be pressed twice: the same
  pattern is checked for the home page's dialog (`VuotoSpiegato`).
- *EditTodoDialog's calendar for an overdue task*, which can never be opened:
  nothing depends on timing there.
- *Two projects with the same code*: `Progetti` allows them, no run asks.
- *Both stacks at once*: no module has the login pages and the inner pages of
  one NavGraph together. `Accesso` ends at the home page, where `Casa` begins.
- *Daylight saving*, messages, layout.

## 6. Plan

Done: `Progetti` with the refinement of `Iscrizioni`, `Attivita` with that of
`Incarichi`, `Accesso` with that of `Conti`, `Elenchi`, `Casa`, `Scadenze`; proofs
of all their safety properties.

Left, in this order:

1. A composition of `Progetti` and `Attivita`: tasks of a project that is
   deleted, delegation to somebody who has left.
2. One module with the login pages and the inner pages on the same navigators.
