------------------------------ MODULE Accesso -------------------------------
(***************************************************************************)
(* Registration, login, first access and logout on one device: Firebase    *)
(* Authentication and the `utenti` collection as RepositoryUtente uses     *)
(* them, ViewModelUtente, the screens of login/ and benvenuto/, and the    *)
(* navigation between them.                                                *)
(*                                                                         *)
(* The home page's logout does not go back to the first screen: it pushes  *)
(* a whole new NavGraph, with new view models, into the navigator of the   *)
(* old one.  NavGraphs are thus nested; `vivi` numbers the mounted ones    *)
(* and the largest is on screen.  An operation keeps the navigator it      *)
(* started with, and when it ends it replaces that navigator's top route,  *)
(* whatever has taken its place.                                           *)
(*                                                                         *)
(* Left out: passwords (signing in to an existing account may succeed or   *)
(* fail), the contents of profiles, the messages about errors, and what    *)
(* lies beyond the home page.                                              *)
(***************************************************************************)
EXTENDS Naturals, Sequences

CONSTANTS
    Account,     \* e-mail addresses; also the uid of the account
    Operazioni,  \* slots: operations in flight
    MaxGrafi,    \* bound: NavGraphs nested in each other
    MaxPila,     \* bound: routes on one navigator
    Nessuno      \* null

ASSUME NessunoAssumption == Nessuno \notin Account /\ Nessuno \notin Operazioni

ASSUME LimitiAssumption == MaxGrafi \in Nat \ {0} /\ MaxPila \in Nat \ {0}

VARIABLES
    account,    \* [Account -> state of the account in Authentication]
    profilo,    \* [Account -> document of `utenti`]
    mail,       \* accounts that have been sent a verification e-mail
    auth,       \* _auth.currentUser
    vm,         \* [Grafi -> VM]: the view models of each NavGraph
    pila,       \* [Grafi -> Seq(Schermata)]: the routes of its navigator
    vivi,       \* mounted NavGraphs
    op,         \* [Operazioni -> Operazione]
    interrotti  \* history: accounts whose registration stopped half-way

vars == <<account, profilo, mail, auth, vm, pila, vivi, op, interrotti>>

firebase == <<account, profilo, mail, auth>>

Grafi == 1..MaxGrafi

StatiAccount == {"assente", "daVerificare", "verificato"}

\* primoAccesso of the document is true ("primo") or false ("visto").
StatiProfilo == {"assente", "primo", "visto"}

VM == [utenteCorrente      : Account \cup {Nessuno},
       loginSuccessful     : BOOLEAN,
       firstLogin          : BOOLEAN,
       progetti            : BOOLEAN,  \* ProgettoViewModel exists
       utenteCorrenteId    : Account \cup {Nessuno}]  \* ... and whose it is

NuovoVM == [utenteCorrente |-> Nessuno, loginSuccessful |-> FALSE,
            firstLogin |-> FALSE,
            progetti |-> FALSE, utenteCorrenteId |-> Nessuno]

Nomi == {"login", "registrazione", "verificaEmail", "recuperoPassword",
         "benvenuto", "ituoiProgetti", "NavGraph"}

\* A login screen that is loading hides its button; it waits for a slot.
Schermata == [nome : Nomi, attende : Operazioni \cup {Nessuno}]

Nuova(nome) == [nome |-> nome, attende |-> Nessuno]

Fasi == {"ferma",
         "signIn", "reload", "profilo", "primoAccesso",  \* login
         "createUser", "set",                            \* signUp
         "reset",                                        \* resetPassword
         "update",                                       \* updateFirstLogin
         "signOut"}                                      \* logout

Operazione == [fase  : Fasi,
               grafo : Grafi,  \* whose navigator and view models it uses
               email : Account \cup {Nessuno}]

Ferma == [fase |-> "ferma", grafo |-> 1, email |-> Nessuno]

Init == /\ account = [e \in Account |-> "assente"]
        /\ profilo = [e \in Account |-> "assente"]
        /\ mail = {}
        /\ auth = Nessuno
        /\ vm = [g \in Grafi |-> NuovoVM]
        /\ pila = [g \in Grafi |-> IF g = 1 THEN <<Nuova("login")>> ELSE <<>>]
        /\ vivi = {1}
        /\ op = [o \in Operazioni |-> Ferma]
        /\ interrotti = {}

-----------------------------------------------------------------------------
(* Navigators.                                                             *)

Attuale == CHOOSE g \in vivi : \A h \in vivi : h <= g

InCima(g) == pila[g][Len(pila[g])].nome

\* The user sees screen `nome` of NavGraph g.
Mostra(g, nome) == g = Attuale /\ InCima(g) = nome

Impila(s, nome) == Append(s, Nuova(nome))
SostituisciCima(s, nome) == [s EXCEPT ![Len(s)] = Nuova(nome)]

\* The NavGraphs nested in g go away with the route of g that is replaced.
ViviFinoA(g) == {h \in vivi : h <= g}

DopoSostituzione(g, nome) ==
    [h \in Grafi |-> CASE h < g -> pila[h]
                        [] h = g -> SostituisciCima(pila[g], nome)
                        [] h > g -> <<>>]

\* pushReplacementNamed on the navigator of g, if it is mounted.
Sostituisci(g, nome) ==
    IF g \in vivi
    THEN vivi' = ViviFinoA(g) /\ pila' = DopoSostituzione(g, nome)
    ELSE UNCHANGED <<vivi, pila>>

\* setState(isLoading = false) on the login screen that waits for o.
CaricaAncora(s, o) == s
FineCaricamento(s, o) ==
    [i \in 1..Len(s) |-> IF s[i].attende = o THEN Nuova(s[i].nome) ELSE s[i]]

\* The first build of the home page creates the ProgettoViewModel, whose _init
\* takes the user authenticated at that moment, once and for all.
ConProgetti(v, nome) ==
    IF nome = "ituoiProgetti" /\ ~v.progetti
    THEN [v EXCEPT !.progetti = TRUE, !.utenteCorrenteId = auth]
    ELSE v

AggiornaVM(g, v) == vm' = [vm EXCEPT ![g] = v]

Avvia(o, f, g, e) ==
    /\ op[o].fase = "ferma"
    /\ op' = [op EXCEPT ![o] = [fase |-> f, grafo |-> g, email |-> e]]

Prosegui(o, f) == op' = [op EXCEPT ![o].fase = f]

Termina(o) == op' = [op EXCEPT ![o] = Ferma]

\* The links between the screens of the login package.
Collegamento(g) ==
    /\ g = Attuale
    /\ \/ InCima(g) = "login" /\ Sostituisci(g, "registrazione")
       \/ InCima(g) \in {"registrazione", "verificaEmail"} /\ Sostituisci(g, "login")
       \/ /\ InCima(g) = "login"
          /\ Len(pila[g]) < MaxPila
          /\ pila' = [pila EXCEPT ![g] = Append(@, Nuova("recuperoPassword"))]
          /\ UNCHANGED vivi
    /\ UNCHANGED <<firebase, vm, op, interrotti>>

\* The system's back button.
Indietro(g) ==
    /\ g = Attuale
    /\ Len(pila[g]) > 1
    /\ pila' = [pila EXCEPT ![g] = SubSeq(@, 1, Len(@) - 1)]
    /\ UNCHANGED <<firebase, vm, vivi, op, interrotti>>

-----------------------------------------------------------------------------
(* login.                                                                  *)

Destinazione(v) == IF v.firstLogin THEN "benvenuto" ELSE "ituoiProgetti"

\* The end of the button's handler: leave the login screen if the view model
\* says that a login succeeded (loginSuccessful is never reset).
EntraComunque(v) == TRUE
Entra(v) == v.loginSuccessful

DopoLogin(o, g, v) ==
    LET nome == Destinazione(v)
        via == Entra(v) /\ g \in vivi
        p == IF via THEN DopoSostituzione(g, nome) ELSE pila
    IN  /\ AggiornaVM(g, IF via THEN ConProgetti(v, nome) ELSE v)
        /\ vivi' = IF via THEN ViviFinoA(g) ELSE vivi
        /\ pila' = [p EXCEPT ![g] = FineCaricamento(@, o)]

\* "Accedi": the button is there unless this screen is already loading.
PuoAccedere(g) ==
    Mostra(g, "login") /\ pila[g][Len(pila[g])].attende = Nessuno

\* "Accedi" with an address or password that is refused at once.
AccediSenzaDati(g) ==
    /\ PuoAccedere(g)
    /\ DopoLogin(Nessuno, g, vm[g])
    /\ UNCHANGED <<firebase, op, interrotti>>

Accedi(o, g, e) ==
    /\ PuoAccedere(g)
    /\ Avvia(o, "signIn", g, e)
    /\ pila' = [pila EXCEPT ![g][Len(pila[g])].attende = o]
    /\ UNCHANGED <<firebase, vm, vivi, interrotti>>

SignIn(o) ==
    /\ op[o].fase = "signIn"
    /\ account[op[o].email] # "assente"
    /\ auth' = op[o].email
    /\ Prosegui(o, "reload")
    /\ UNCHANGED <<account, profilo, mail, vm, pila, vivi, interrotti>>

\* The user's e-mail is verified, once reloaded; the user is the one who was
\* authenticated when the call was made.
VerificatoComunque(e) == TRUE
Verificato(e) == account[e] = "verificato"

IsEmailVerified(o) ==
    /\ op[o].fase = "reload"
    /\ IF Verificato(op[o].email)
       THEN /\ Prosegui(o, "profilo")
            /\ UNCHANGED <<vm, pila, vivi>>
       ELSE /\ DopoLogin(o, op[o].grafo, vm[op[o].grafo])
            /\ Termina(o)
    /\ UNCHANGED <<firebase, interrotti>>

\* null if the document is missing or the call throws.
FetchUserProfile(o) ==
    LET e == op[o].email
        g == op[o].grafo
    IN  /\ op[o].fase = "profilo"
        /\ \E u \in {Nessuno} \cup (IF profilo[e] = "assente" THEN {} ELSE {e}) :
             AggiornaVM(g, [vm[g] EXCEPT !.utenteCorrente = u])
        /\ Prosegui(o, "primoAccesso")
        /\ UNCHANGED <<firebase, pila, vivi, interrotti>>

\* A missing document reads as a first access.
IsFirstLogin(o) ==
    LET g == op[o].grafo
    IN  /\ op[o].fase = "primoAccesso"
        /\ DopoLogin(o, g, [vm[g] EXCEPT
               !.firstLogin = (profilo[op[o].email] # "visto"),
               !.loginSuccessful = TRUE])
        /\ Termina(o)
        /\ UNCHANGED <<firebase, interrotti>>

\* The login throws: wrong password or no such account, or a call fails.
LoginFallisce(o) ==
    /\ op[o].fase \in {"signIn", "reload", "primoAccesso"}
    /\ DopoLogin(o, op[o].grafo, vm[op[o].grafo])
    /\ Termina(o)
    /\ UNCHANGED <<firebase, interrotti>>

-----------------------------------------------------------------------------
(* signUp.                                                                 *)

\* "Next", with the fields filled in; the button is not disabled meanwhile.
SignUp(o, g, e) ==
    /\ Mostra(g, "registrazione")
    /\ Avvia(o, "createUser", g, e)
    /\ UNCHANGED <<firebase, vm, pila, vivi, interrotti>>

\* The address must be new; the new account is signed in.
IndirizzoLibero(e) == account[e] = "assente"

CreateUser(o) ==
    LET e == op[o].email
    IN  /\ op[o].fase = "createUser"
        /\ IndirizzoLibero(e)
        /\ account' = [account EXCEPT ![e] = "daVerificare"]
        /\ auth' = e
        /\ Prosegui(o, "set")
        /\ UNCHANGED <<profilo, mail, vm, pila, vivi, interrotti>>

\* profiloUtente, stored with primoAccesso true.
SenzaProfilo(e) == profilo
ConProfiloDelCorrente(e) ==
    IF auth = Nessuno THEN profilo ELSE [profilo EXCEPT ![auth] = "primo"]
ConProfilo(e) == [profilo EXCEPT ![e] = "primo"]

\* The profile is stored.  Then the verification e-mail goes, if it does, to
\* the user authenticated by now; nobody waits for it.
SetProfilo(o) ==
    LET e == op[o].email
    IN  /\ op[o].fase = "set"
        /\ profilo' = ConProfilo(e)
        /\ \E inviata \in BOOLEAN :
             mail' = IF inviata /\ auth # Nessuno /\ account[auth] = "daVerificare"
                     THEN mail \cup {auth} ELSE mail
        /\ Sostituisci(op[o].grafo, "verificaEmail")
        /\ Termina(o)
        /\ UNCHANGED <<account, auth, vm, interrotti>>

\* createUser or set throws; after set the account is there without a profile.
SignUpFallisce(o) ==
    LET e == op[o].email
    IN  /\ op[o].fase \in {"createUser", "set"}
        /\ interrotti' = IF op[o].fase = "set" THEN interrotti \cup {e}
                                               ELSE interrotti
        /\ Termina(o)
        /\ UNCHANGED <<firebase, vm, pila, vivi>>

\* The user follows the link in the e-mail.
VerificaIndirizzo(e) ==
    /\ e \in mail
    /\ account' = [account EXCEPT ![e] = "verificato"]
    /\ UNCHANGED <<profilo, mail, auth, vm, pila, vivi, op, interrotti>>

-----------------------------------------------------------------------------
(* resetPassword, updateFirstLogin, logout.                                *)

ResetPassword(o, g) ==
    /\ Mostra(g, "recuperoPassword")
    /\ Avvia(o, "reset", g, Nessuno)
    /\ UNCHANGED <<firebase, vm, pila, vivi, interrotti>>

SendPasswordResetEmail(o) ==
    /\ op[o].fase = "reset"
    /\ Sostituisci(op[o].grafo, "login")
    /\ Termina(o)
    /\ UNCHANGED <<firebase, vm, interrotti>>

\* "Inizia Ora": without a profile there is nothing to update.
UpdateFirstLogin(o, g) ==
    /\ Mostra(g, "benvenuto")
    /\ IF vm[g].utenteCorrente # Nessuno
       THEN /\ Avvia(o, "update", g, vm[g].utenteCorrente)
            /\ UNCHANGED <<vm, pila, vivi>>
       ELSE /\ Sostituisci(g, "ituoiProgetti")
            /\ AggiornaVM(g, ConProgetti(vm[g], "ituoiProgetti"))
            /\ UNCHANGED op
    /\ UNCHANGED <<firebase, interrotti>>

\* primoAccesso becomes false in the document of the user of the view model.
VistoIlCorrente(e) ==
    IF auth = Nessuno THEN profilo ELSE [profilo EXCEPT ![auth] = "visto"]
Visto(e) == [profilo EXCEPT ![e] = "visto"]

UpdatePrimoAccesso(o) ==
    LET g == op[o].grafo
    IN  /\ op[o].fase = "update"
        /\ profilo' = Visto(op[o].email)
        /\ Sostituisci(g, "ituoiProgetti")
        /\ AggiornaVM(g, ConProgetti(vm[g], "ituoiProgetti"))
        /\ Termina(o)
        /\ UNCHANGED <<account, mail, auth, interrotti>>

\* The menu entry starts the logout and shows the login screen at once.
Logout(o, g) ==
    /\ Mostra(g, "ituoiProgetti")
    /\ Avvia(o, "signOut", g, Nessuno)
    /\ Sostituisci(g, "login")
    /\ UNCHANGED <<firebase, vm, interrotti>>

\* Then a new NavGraph takes the place of all routes.
SignOut(o) ==
    LET g == op[o].grafo
        n == g + 1
    IN  /\ op[o].fase = "signOut"
        /\ auth' = Nessuno
        /\ IF g \in vivi
           THEN /\ n \in Grafi
                /\ \A x \in Operazioni : op[x].grafo # n
                /\ vivi' = ViviFinoA(g) \cup {n}
                /\ pila' = [h \in Grafi |->
                              CASE h < g -> pila[h]
                                [] h = g -> <<Nuova("NavGraph")>>
                                [] h = n -> <<Nuova("login")>>
                                [] OTHER -> <<>>]
                /\ AggiornaVM(n, NuovoVM)
           ELSE UNCHANGED <<vivi, pila, vm>>
        /\ Termina(o)
        /\ UNCHANGED <<account, profilo, mail, interrotti>>

\* These calls throw; the exception reaches the top of the handler.
Fallisce(o) ==
    /\ op[o].fase \in {"reset", "update", "signOut"}
    /\ Termina(o)
    /\ UNCHANGED <<firebase, vm, pila, vivi, interrotti>>

\* The application is killed and started again: Authentication remembers its
\* user, the view models do not.
Riavvia ==
    /\ vm' = [g \in Grafi |-> NuovoVM]
    /\ pila' = [g \in Grafi |-> IF g = 1 THEN <<Nuova("login")>> ELSE <<>>]
    /\ vivi' = {1}
    /\ op' = [o \in Operazioni |-> Ferma]
    /\ interrotti' = interrotti \cup
           {op[o].email : o \in {x \in Operazioni : op[x].fase = "set"}}
    /\ UNCHANGED firebase

-----------------------------------------------------------------------------

Comando(g) ==
    \/ Collegamento(g)
    \/ Indietro(g)
    \/ AccediSenzaDati(g)
    \/ \E o \in Operazioni, e \in Account : Accedi(o, g, e) \/ SignUp(o, g, e)
    \/ \E o \in Operazioni : \/ ResetPassword(o, g)
                             \/ UpdateFirstLogin(o, g)
                             \/ Logout(o, g)

Passo(o) ==
    \/ SignIn(o)
    \/ IsEmailVerified(o)
    \/ FetchUserProfile(o)
    \/ IsFirstLogin(o)
    \/ LoginFallisce(o)
    \/ CreateUser(o)
    \/ SetProfilo(o)
    \/ SignUpFallisce(o)
    \/ SendPasswordResetEmail(o)
    \/ UpdatePrimoAccesso(o)
    \/ SignOut(o)
    \/ Fallisce(o)

Next == \/ \E g \in Grafi : Comando(g)
        \/ \E o \in Operazioni : Passo(o)
        \/ \E e \in Account : VerificaIndirizzo(e)
        \/ Riavvia

Spec == Init /\ [][Next]_vars

\* A call that is awaited eventually returns or throws.
FairSpec == Spec /\ \A o \in Operazioni : WF_vars(Passo(o))

-----------------------------------------------------------------------------
(***************************************************************************)
(* Properties.                                                             *)
(***************************************************************************)

\* The variables have their types; every mounted navigator has a route and no
\* other has any.
TypeOK ==
    /\ account \in [Account -> StatiAccount]
    /\ profilo \in [Account -> StatiProfilo]
    /\ mail \in SUBSET Account
    /\ auth \in Account \cup {Nessuno}
    /\ vm \in [Grafi -> VM]
    /\ vivi \in SUBSET Grafi /\ vivi # {}
    /\ DOMAIN pila = Grafi
    /\ \A g \in Grafi : /\ pila[g] \in Seq(Schermata)
                        /\ Len(pila[g]) <= MaxPila
                        /\ g \in vivi <=> Len(pila[g]) > 0
    /\ op \in [Operazioni -> Operazione]
    /\ interrotti \in SUBSET Account

\* signUp: an account without a profile is being registered or its registration
\* was interrupted between the two calls; no other operation can leave one.
ProfiloSpiegato ==
    \A e \in Account : (account[e] # "assente" /\ profilo[e] = "assente") =>
        \/ e \in interrotti
        \/ \E o \in Operazioni : op[o].fase = "set" /\ op[o].email = e

\* login: whoever the view model of a NavGraph holds as utenteCorrente has
\* verified his address, however many logins and registrations overlap.
SoloVerificati ==
    \A g \in vivi : vm[g].utenteCorrente # Nessuno =>
        account[vm[g].utenteCorrente] = "verificato"

\* The welcome and home pages of a NavGraph are reached only after a login of
\* that NavGraph has succeeded, whichever operation replaced the route.
DentroSoloDopoLogin ==
    \A g \in vivi : \A i \in 1..Len(pila[g]) :
        pila[g][i].nome \in {"benvenuto", "ituoiProgetti"} => vm[g].loginSuccessful

\* isFirstLogin: once updateFirstLogin has recorded that the first access is
\* over, no registration, retried or late, makes it first again.
PrimoAccessoNonTorna ==
    [][\A e \in Account : profilo[e] = "visto" => profilo'[e] = "visto"]_vars

\* The login button comes back: a mounted login screen that is loading stops
\* loading or leaves the screen.
CaricamentoFinisce ==
    \A g \in Grafi, o \in Operazioni :
        (\E i \in 1..Len(pila[g]) : pila[g][i].attende = o)
        ~> ~(\E i \in 1..Len(pila[g]) : pila[g][i].attende = o)

(***************************************************************************)
(* What a comment of the code says and the code does not keep.             *)
(***************************************************************************)

\* caricaProgettiUtente "carica i progetti dell'utente corrente": on the home
\* page, the projects are those of the user whose profile is shown.
HomeCoerente ==
    \A g \in vivi : (/\ Mostra(g, "ituoiProgetti")
                     /\ vm[g].utenteCorrente # Nessuno
                     /\ vm[g].utenteCorrenteId # Nessuno)
                    => vm[g].utenteCorrenteId = vm[g].utenteCorrente

=============================================================================
