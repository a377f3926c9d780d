---------------------------- MODULE AccessoProofs ----------------------------
(***************************************************************************)
(* Theorems about Accesso, for any number of accounts and operations and   *)
(* for navigators and nestings of any depth.                               *)
(***************************************************************************)
EXTENDS AccessoRaffina, SequenceTheorems, TLAPS

\* The pages that are behind a login.
Interne == {"benvenuto", "ituoiProgetti"}

\* The phases of operations about one account.
ConEmail == {"signIn", "reload", "profilo", "primoAccesso", "createUser", "set",
             "update"}

BenFormata(x) == x \in Operazione /\ (x.fase \in ConEmail => x.email \in Account)

TipiFirebase ==
    /\ account \in [Account -> StatiAccount]
    /\ profilo \in [Account -> StatiProfilo]
    /\ mail \in SUBSET Account
    /\ auth \in Account \cup {Nessuno}
    /\ interrotti \in SUBSET Account

TipiVM == vm \in [Grafi -> VM]

\* A first access is being recorded only where somebody has logged in.
TipiOp ==
    /\ op \in [Operazioni -> Operazione]
    /\ \A o \in Operazioni :
         /\ BenFormata(op[o])
         /\ op[o].fase = "update" => vm[op[o].grafo].loginSuccessful

\* A navigator with stack s: `dentro` says that a login has succeeded there.
BenImpilata(s, dentro) ==
    /\ s \in Seq(Schermata)
    /\ Len(s) <= MaxPila
    /\ \A i \in 1..Len(s) : s[i].nome \in Interne => dentro

\* The mounted NavGraphs, m, are the outermost ones, and they have routes; p are
\* their routes and w their view models.
PileDi(p, m, w) ==
    /\ p = [g \in Grafi |-> p[g]]
    /\ \A g \in Grafi : /\ BenImpilata(p[g], w[g].loginSuccessful)
                        /\ g \in m <=> Len(p[g]) > 0
    /\ \E n \in Grafi : m = 1..n

Pile == PileDi(pila, vivi, vm)

\* TypeOK and DentroSoloDopoLogin, made inductive.
Tipi == TipiFirebase /\ TipiVM /\ TipiOp /\ Pile

-----------------------------------------------------------------------------
(* Stacks.                                                                 *)

\* A new route is a route.
LEMMA NuovaTipi ==
    ASSUME NEW nome \in Nomi
    PROVE  Nuova(nome) \in Schermata /\ Nuova(nome).nome = nome
BY DEF Nuova, Schermata

\* What is below what one has logged in to may be shown after the login too.
LEMMA DentroCresce ==
    ASSUME NEW s, NEW a, NEW b, BenImpilata(s, a), a => b
    PROVE  BenImpilata(s, b)
BY DEF BenImpilata

\* A stack without routes.
LEMMA VuotaImpilata == ASSUME NEW b PROVE BenImpilata(<<>>, b) /\ Len(<<>>) = 0
BY LimitiAssumption, EmptySeq DEF BenImpilata

\* A stack of one route.
LEMMA SolaImpilata ==
    ASSUME NEW nome \in Nomi \ Interne, NEW b
    PROVE  BenImpilata(<<Nuova(nome)>>, b) /\ Len(<<Nuova(nome)>>) = 1
<1>1. Nuova(nome) \in Schermata /\ Nuova(nome).nome \notin Interne
  BY NuovaTipi
<1> HIDE DEF Nuova
<1> QED
  BY <1>1, LimitiAssumption DEF BenImpilata

\* The login page of the first NavGraph.
RottaIniziale(g) == IF g = 1 THEN <<Nuova("login")>> ELSE <<>>

\* It is a navigator's stack, and the only one with a route.
LEMMA RottaInizialeImpilata ==
    ASSUME NEW g \in Grafi, NEW b
    PROVE  /\ BenImpilata(RottaIniziale(g), b)
           /\ g = 1 <=> Len(RottaIniziale(g)) > 0
<1>1. "login" \in Nomi \ Interne
  BY DEF Nomi, Interne
<1> DEFINE s == <<Nuova("login")>>
<1>2. BenImpilata(s, b) /\ Len(s) = 1
  BY <1>1, SolaImpilata
<1>3. BenImpilata(<<>>, b) /\ Len(<<>>) = 0
  BY VuotaImpilata
<1>4. CASE g = 1
  <2>1. RottaIniziale(g) = s
    BY <1>4 DEF RottaIniziale
  <2> HIDE DEF s
  <2> QED
    BY <1>2, <1>4, <2>1
<1>5. CASE g # 1
  <2>1. RottaIniziale(g) = <<>>
    BY <1>5 DEF RottaIniziale
  <2> QED
    BY <1>3, <1>5, <2>1
<1> QED
  BY <1>4, <1>5

\* pushReplacementNamed.
LEMMA SostituisciCimaImpilata ==
    ASSUME NEW s, NEW a, NEW b, BenImpilata(s, a), a => b, Len(s) > 0,
           NEW nome \in Nomi, nome \in Interne => b
    PROVE  /\ BenImpilata(SostituisciCima(s, nome), b)
           /\ Len(SostituisciCima(s, nome)) = Len(s)
<1> DEFINE r == SostituisciCima(s, nome)
<1>1. s \in Seq(Schermata) /\ Len(s) \in Nat /\ Len(s) \in 1..Len(s)
  BY LenProperties DEF BenImpilata
<1>2. Nuova(nome) \in Schermata /\ Nuova(nome).nome = nome
  BY NuovaTipi
<1>3. /\ r \in Seq(Schermata) /\ Len(r) = Len(s)
      /\ \A i \in 1..Len(s) : r[i] = IF i = Len(s) THEN Nuova(nome) ELSE s[i]
  BY <1>1, <1>2, ExceptSeq DEF SostituisciCima
<1> HIDE DEF r
<1> QED
  BY <1>2, <1>3 DEF BenImpilata, r

\* The end of isLoading changes no route's name.
LEMMA FineCaricamentoImpilata ==
    ASSUME NEW s, NEW b, BenImpilata(s, b), NEW o
    PROVE  /\ BenImpilata(FineCaricamento(s, o), b)
           /\ Len(FineCaricamento(s, o)) = Len(s)
<1> DEFINE r == FineCaricamento(s, o)
<1>1. s \in Seq(Schermata) /\ Len(s) \in Nat
  BY LenProperties DEF BenImpilata
<1>2. ASSUME NEW i \in 1..Len(s)
      PROVE  /\ s[i] \in Schermata
             /\ Nuova(s[i].nome) \in Schermata
             /\ Nuova(s[i].nome).nome = s[i].nome
  <2>1. s[i] \in Schermata
    BY <1>1, ElementOfSeq
  <2>2. s[i].nome \in Nomi
    BY <2>1 DEF Schermata
  <2> QED
    BY <2>1, <2>2, NuovaTipi
<1>3. r \in [1..Len(s) -> Schermata]
  BY <1>2 DEF FineCaricamento
<1>4. r \in Seq(Schermata)
  BY <1>1, <1>3, SeqDef
<1>5. Len(r) = Len(s)
  BY <1>1, <1>3, <1>4, LenProperties
<1>6. \A i \in 1..Len(s) : r[i].nome = s[i].nome
  BY <1>2 DEF FineCaricamento
<1> HIDE DEF r
<1> QED
  BY <1>4, <1>5, <1>6 DEF BenImpilata, r

\* The password page is put on top.
LEMMA RecuperoImpilata ==
    ASSUME NEW s, NEW b, BenImpilata(s, b), Len(s) < MaxPila
    PROVE  /\ BenImpilata(Append(s, Nuova("recuperoPassword")), b)
           /\ Len(Append(s, Nuova("recuperoPassword"))) > 0
<1> DEFINE n == Nuova("recuperoPassword")
           r == Append(s, n)
<1>1. s \in Seq(Schermata) /\ Len(s) \in Nat
  BY LenProperties DEF BenImpilata
<1>2. n \in Schermata /\ n.nome \notin Interne
  BY NuovaTipi DEF Nomi, Interne
<1> HIDE DEF n
<1>3. /\ r \in Seq(Schermata) /\ Len(r) = Len(s) + 1
      /\ \A i \in 1..Len(s) : r[i] = s[i]
      /\ r[Len(s) + 1] = n
  BY <1>1, <1>2, AppendProperties
<1> HIDE DEF r
<1>4. Len(r) <= MaxPila
  BY <1>1, <1>3, LimitiAssumption
<1>5. ASSUME NEW i \in 1..Len(r), r[i].nome \in Interne PROVE b
  <2>1. i \in 1..Len(s) \/ i = Len(s) + 1
    BY <1>1, <1>3
  <2> QED
    BY <1>2, <1>3, <1>5, <2>1 DEF BenImpilata
<1> QED
  BY <1>1, <1>3, <1>4, <1>5 DEF BenImpilata, r, n

\* The page on top goes.
LEMMA IndietroImpilata ==
    ASSUME NEW s, NEW b, BenImpilata(s, b), Len(s) > 1
    PROVE  /\ BenImpilata(SubSeq(s, 1, Len(s) - 1), b)
           /\ Len(SubSeq(s, 1, Len(s) - 1)) > 0
<1> DEFINE r == SubSeq(s, 1, Len(s) - 1)
<1>1. s \in Seq(Schermata) /\ Len(s) \in Nat
  BY LenProperties DEF BenImpilata
<1>2. \A i \in 1..(Len(s) - 1) : s[i] \in Schermata
  BY <1>1, ElementOfSeq
<1>3. /\ r \in Seq(Schermata)
      /\ Len(r) = Len(s) - 1
      /\ \A i \in 1..(Len(s) - 1) : r[i] = s[i]
  BY <1>1, <1>2, SubSeqProperties
<1> HIDE DEF r
<1> QED
  BY <1>1, <1>3, LimitiAssumption DEF BenImpilata, r

\* The login screen on top starts to load.
LEMMA AttendeImpilata ==
    ASSUME NEW s, NEW b, BenImpilata(s, b), Len(s) > 0, NEW o \in Operazioni
    PROVE  /\ BenImpilata([s EXCEPT ![Len(s)].attende = o], b)
           /\ Len([s EXCEPT ![Len(s)].attende = o]) = Len(s)
<1> DEFINE e == [s[Len(s)] EXCEPT !.attende = o]
           r == [s EXCEPT ![Len(s)] = e]
<1>1. s \in Seq(Schermata) /\ Len(s) \in Nat /\ Len(s) \in 1..Len(s)
  BY LenProperties DEF BenImpilata
<1>2. s[Len(s)] \in Schermata
  BY <1>1, ElementOfSeq
<1>3. e \in Schermata /\ e.nome = s[Len(s)].nome
  BY <1>2 DEF Schermata
<1> HIDE DEF e
<1>4. /\ r \in Seq(Schermata) /\ Len(r) = Len(s)
      /\ \A i \in 1..Len(s) : r[i] = IF i = Len(s) THEN e ELSE s[i]
  BY <1>1, <1>3, ExceptSeq
<1>5. BenImpilata(r, b)
  <2> HIDE DEF r
  <2> QED
    BY <1>3, <1>4 DEF BenImpilata
<1> QED
  BY <1>4, <1>5 DEF e

-----------------------------------------------------------------------------
(* Navigators.                                                             *)

\* The view models become w, and nobody is logged out of a NavGraph:
\* loginSuccessful is never reset.
Restano(w) ==
    \A g \in Grafi : vm[g].loginSuccessful => w[g].loginSuccessful

\* The NavGraph on screen is mounted and has a route.
LEMMA AttualeVivo ==
    ASSUME Pile
    PROVE  Attuale \in vivi /\ Attuale \in Grafi /\ Len(pila[Attuale]) > 0
<1>1. PICK n \in Grafi : vivi = 1..n
  BY DEF Pile, PileDi
<1>2. n \in Nat /\ n >= 1 /\ \A h \in 1..n : h \in Grafi
  BY LimitiAssumption DEF Grafi
<1>3. n \in vivi /\ \A h \in vivi : h <= n
  BY <1>1, <1>2
<1>4. Attuale \in vivi
  BY <1>3 DEF Attuale
<1> QED
  BY <1>1, <1>2, <1>4 DEF Pile, PileDi

\* The routes stay as they are.
LEMMA PileFerme ==
    ASSUME Pile, NEW w, Restano(w)
    PROVE  PileDi(pila, vivi, w)
<1>1. ASSUME NEW g \in Grafi
      PROVE  BenImpilata(pila[g], w[g].loginSuccessful)
  BY DentroCresce DEF Restano, Pile, PileDi
<1> QED
  BY <1>1 DEF Pile, PileDi

\* One stack changes.
LEMMA PileUna ==
    ASSUME NEW p, NEW m, NEW w, PileDi(p, m, w), NEW g \in Grafi, NEW s,
           BenImpilata(s, w[g].loginSuccessful), Len(s) > 0 <=> Len(p[g]) > 0
    PROVE  PileDi([p EXCEPT ![g] = s], m, w)
<1> DEFINE q == [p EXCEPT ![g] = s]
<1>0. DOMAIN p = Grafi
  BY DEF PileDi
<1>1. \A h \in Grafi : q[h] = IF h = g THEN s ELSE p[h]
  BY <1>0
<1>2. q = [h \in Grafi |-> q[h]]
  BY <1>0
<1> HIDE DEF q
<1>3. \A h \in Grafi : /\ BenImpilata(q[h], w[h].loginSuccessful)
                       /\ h \in m <=> Len(q[h]) > 0
  BY <1>1 DEF PileDi
<1> QED
  BY <1>2, <1>3 DEF PileDi, q

\* The route on top of a mounted navigator is replaced, with all that is nested
\* in it.  The pages behind a login need one.
LEMMA PileSostituzione ==
    ASSUME Pile, NEW w, Restano(w), NEW g \in Grafi, g \in vivi,
           NEW nome \in Nomi, nome \in Interne => w[g].loginSuccessful
    PROVE  PileDi(DopoSostituzione(g, nome), ViviFinoA(g), w)
<1> DEFINE p == DopoSostituzione(g, nome)
           m == ViviFinoA(g)
<1>1. PICK n \in Grafi : vivi = 1..n
  BY DEF Pile, PileDi
<1>2. /\ n \in Nat /\ g \in Nat /\ g >= 1 /\ g <= n /\ g \in Int
      /\ \A h \in Grafi : h \in Int /\ h >= 1
  BY <1>1, LimitiAssumption DEF Grafi
<1>3. m = 1..g
  BY <1>1, <1>2 DEF ViviFinoA
<1>4. ASSUME NEW h \in Grafi
      PROVE  /\ BenImpilata(p[h], w[h].loginSuccessful)
             /\ h \in m <=> Len(p[h]) > 0
  <2>1. BenImpilata(pila[h], w[h].loginSuccessful)
    BY PileFerme DEF PileDi
  <2>2. CASE h < g
    <3>1. p[h] = pila[h]
      BY <1>2, <2>2 DEF DopoSostituzione
    <3>2. h \in vivi /\ h \in m
      BY <1>1, <1>2, <1>3, <2>2
    <3> QED
      BY <2>1, <3>1, <3>2 DEF Pile, PileDi
  <2>3. CASE h = g
    <3>1. p[h] = SostituisciCima(pila[g], nome)
      BY <1>2, <2>3 DEF DopoSostituzione
    <3>2. BenImpilata(pila[g], w[g].loginSuccessful) /\ Len(pila[g]) > 0
      BY <2>1, <2>3 DEF Pile, PileDi
    <3>3. /\ BenImpilata(SostituisciCima(pila[g], nome), w[g].loginSuccessful)
          /\ Len(SostituisciCima(pila[g], nome)) > 0
      BY <3>2, SostituisciCimaImpilata
    <3> QED
      BY <1>2, <1>3, <2>3, <3>1, <3>3
  <2>4. CASE h > g
    <3>1. p[h] = <<>>
      BY <1>2, <2>4 DEF DopoSostituzione
    <3>2. h \notin m
      BY <1>2, <1>3, <2>4
    <3>3. BenImpilata(<<>>, w[h].loginSuccessful) /\ Len(<<>>) = 0
      BY VuotaImpilata
    <3> QED
      BY <3>1, <3>2, <3>3
  <2> QED
    BY <1>2, <2>2, <2>3, <2>4
<1>5. p = [h \in Grafi |-> p[h]]
  <2> DEFINE E(h) == CASE h < g -> pila[h]
                       [] h = g -> SostituisciCima(pila[g], nome)
                       [] h > g -> <<>>
  <2>1. p = [h \in Grafi |-> E(h)]
    BY DEF DopoSostituzione
  <2> HIDE DEF E, p
  <2> QED
    BY <2>1
<1> HIDE DEF p, m
<1>6. PileDi(p, m, w)
  BY <1>3, <1>4, <1>5 DEF PileDi
<1> QED
  BY <1>6 DEF p, m

\* So it is when the navigator may have gone.
LEMMA PileSostituisci ==
    ASSUME Pile, Restano(vm'), NEW g \in Grafi, NEW nome \in Nomi,
           Sostituisci(g, nome), nome \in Interne => vm'[g].loginSuccessful
    PROVE  Pile'
<1>1. CASE g \in vivi
  <2>1. PileDi(DopoSostituzione(g, nome), ViviFinoA(g), vm')
    BY <1>1, PileSostituzione
  <2> QED
    BY <1>1, <2>1 DEF Sostituisci, Pile
<1>2. CASE g \notin vivi
  <2>1. PileDi(pila, vivi, vm')
    BY PileFerme
  <2> QED
    BY <1>2, <2>1 DEF Sostituisci, Pile
<1> QED
  BY <1>1, <1>2

\* The home page's view model keeps what is known of logins.
LEMMA ConProgettiTipi ==
    ASSUME TipiFirebase, NEW v \in VM, NEW nome
    PROVE  /\ ConProgetti(v, nome) \in VM
           /\ ConProgetti(v, nome).loginSuccessful = v.loginSuccessful
           /\ ConProgetti(v, nome).utenteCorrente = v.utenteCorrente
BY DEF ConProgetti, VM, TipiFirebase

\* The view models of one NavGraph change.
LEMMA AggiornaTipi ==
    ASSUME TipiVM, NEW g \in Grafi, NEW v \in VM, AggiornaVM(g, v),
           vm[g].loginSuccessful => v.loginSuccessful
    PROVE  TipiVM' /\ Restano(vm')
BY DEF TipiVM, AggiornaVM, Restano

\* The end of the login button's handler.
LEMMA DopoLoginTipi ==
    ASSUME TipiFirebase, TipiVM, Pile, NEW o, NEW g \in Grafi, NEW v \in VM,
           vm[g].loginSuccessful => v.loginSuccessful, DopoLogin(o, g, v)
    PROVE  TipiVM' /\ Restano(vm') /\ Pile'
<1> DEFINE nome == Destinazione(v)
           via == Entra(v) /\ g \in vivi
           k == IF via THEN ConProgetti(v, nome) ELSE v
           p == IF via THEN DopoSostituzione(g, nome) ELSE pila
           m == IF via THEN ViviFinoA(g) ELSE vivi
<1>1. nome \in Nomi
  BY DEF Destinazione, Nomi
<1>2. k \in VM /\ k.loginSuccessful = v.loginSuccessful
  BY ConProgettiTipi
<1>3. AggiornaVM(g, k) /\ vivi' = m
      /\ pila' = [p EXCEPT ![g] = FineCaricamento(p[g], o)]
  BY DEF DopoLogin
<1>4. TipiVM' /\ Restano(vm')
  <2> HIDE DEF k
  <2> QED
    BY <1>2, <1>3, AggiornaTipi
<1>5. PileDi(p, m, vm')
  <2>1. CASE via
    <3>1. vm'[g].loginSuccessful
      <4>1. vm'[g] = k
        BY <1>3 DEF AggiornaVM, TipiVM
      <4> QED
        BY <1>2, <2>1, <4>1 DEF Entra
    <3>2. PileDi(DopoSostituzione(g, nome), ViviFinoA(g), vm')
      BY <1>1, <1>4, <2>1, <3>1, PileSostituzione
    <3> QED
      BY <2>1, <3>2
  <2>2. CASE ~via
    BY <1>4, <2>2, PileFerme
  <2> QED
    BY <2>1, <2>2
<1> HIDE DEF p, m
<1>6. /\ BenImpilata(FineCaricamento(p[g], o), vm'[g].loginSuccessful)
      /\ Len(FineCaricamento(p[g], o)) = Len(p[g])
  BY <1>5, FineCaricamentoImpilata DEF PileDi
<1>7. PileDi([p EXCEPT ![g] = FineCaricamento(p[g], o)], m, vm')
  BY <1>5, <1>6, PileUna
<1> QED
  BY <1>3, <1>4, <1>7 DEF Pile

-----------------------------------------------------------------------------
(* Operations.                                                             *)

\* View models that do not change.
LEMMA VMFermo ==
    ASSUME TipiVM, UNCHANGED vm
    PROVE  TipiVM' /\ Restano(vm')
BY DEF TipiVM, Restano

\* Operations that do not change.
LEMMA OpFerme ==
    ASSUME TipiOp, Restano(vm'), UNCHANGED op
    PROVE  TipiOp'
<1>1. \A o \in Operazioni : op[o].grafo \in Grafi
  BY DEF TipiOp, BenFormata, Operazione
<1> QED
  BY <1>1 DEF TipiOp, BenFormata, Restano

\* One operation goes on.
LEMMA ProseguiTipi ==
    ASSUME TipiOp, Restano(vm'), NEW o \in Operazioni, NEW x, BenFormata(x),
           x.fase = "update" => vm'[x.grafo].loginSuccessful,
           op' = [op EXCEPT ![o] = x]
    PROVE  TipiOp'
<1>1. op' \in [Operazioni -> Operazione]
  BY DEF TipiOp, BenFormata
<1>2. ASSUME NEW y \in Operazioni
      PROVE  /\ BenFormata(op'[y])
             /\ op'[y].fase = "update" => vm'[op'[y].grafo].loginSuccessful
  <2>1. CASE y = o
    BY <2>1 DEF TipiOp
  <2>2. CASE y # o
    <3>1. op'[y] = op[y] /\ BenFormata(op[y]) /\ op[y].grafo \in Grafi
      BY <2>2 DEF TipiOp, BenFormata, Operazione
    <3> QED
      BY <3>1 DEF TipiOp, Restano
  <2> QED
    BY <2>1, <2>2
<1> QED
  BY <1>1, <1>2 DEF TipiOp, BenFormata

\* One operation ends, ...
LEMMA TerminaTipi ==
    ASSUME TipiOp, Restano(vm'), NEW o \in Operazioni, Termina(o)
    PROVE  TipiOp'
<1>1. BenFormata(Ferma) /\ Ferma.fase # "update"
  BY LimitiAssumption DEF BenFormata, Ferma, Operazione, Fasi, Grafi, ConEmail
<1> QED
  BY <1>1, ProseguiTipi DEF Termina

\* ... starts, ...
LEMMA AvviaTipi ==
    ASSUME TipiOp, Restano(vm'), NEW o \in Operazioni, NEW f \in Fasi,
           NEW g \in Grafi, NEW e \in Account \cup {Nessuno}, Avvia(o, f, g, e),
           f \in ConEmail => e \in Account,
           f = "update" => vm'[g].loginSuccessful
    PROVE  TipiOp'
<1> DEFINE x == [fase |-> f, grafo |-> g, email |-> e]
<1>1. BenFormata(x) /\ x.fase = f /\ x.grafo = g
  BY DEF BenFormata, Operazione
<1>2. op' = [op EXCEPT ![o] = x]
  BY DEF Avvia
<1> HIDE DEF x
<1> QED
  BY <1>1, <1>2, ProseguiTipi

\* ... or awaits its next call about the same account.
LEMMA FaseTipi ==
    ASSUME TipiOp, Restano(vm'), NEW o \in Operazioni, op[o].fase \in ConEmail,
           NEW f \in Fasi, f # "update", Prosegui(o, f)
    PROVE  TipiOp'
<1> DEFINE x == [op[o] EXCEPT !.fase = f]
<1>1. BenFormata(op[o]) /\ op[o] \in Operazione
  BY DEF TipiOp, BenFormata
<1>2. BenFormata(x) /\ x.fase = f
  BY <1>1 DEF BenFormata, Operazione
<1>3. op' = [op EXCEPT ![o] = x]
  BY DEF Prosegui
<1> HIDE DEF x
<1> QED
  BY <1>2, <1>3, ProseguiTipi

\* What an operation is about.
LEMMA InCorso ==
    ASSUME TipiOp, NEW o \in Operazioni
    PROVE  /\ op[o].grafo \in Grafi
           /\ op[o].fase \in ConEmail => op[o].email \in Account
           /\ op[o].fase = "update" => vm[op[o].grafo].loginSuccessful
BY DEF TipiOp, BenFormata, Operazione

-----------------------------------------------------------------------------
(* Types.                                                                  *)

\* The first login screen.
LEMMA TipiInit == Init => Tipi
<1> SUFFICES ASSUME Init PROVE Tipi
  OBVIOUS
<1>1. TipiFirebase
  BY DEF Init, TipiFirebase, StatiAccount, StatiProfilo
<1>2. NuovoVM \in VM
  BY DEF NuovoVM, VM
<1>3. TipiVM
  BY <1>2 DEF Init, TipiVM
<1>4. BenFormata(Ferma) /\ Ferma.fase # "update"
  BY LimitiAssumption DEF BenFormata, Ferma, Operazione, Fasi, Grafi, ConEmail
<1>5. TipiOp
  BY <1>4 DEF Init, TipiOp, BenFormata
<1>6. 1 \in Grafi /\ vivi = 1..1
  BY LimitiAssumption DEF Init, Grafi
<1>7. ASSUME NEW g \in Grafi
      PROVE  /\ BenImpilata(pila[g], vm[g].loginSuccessful)
             /\ g \in vivi <=> Len(pila[g]) > 0
  <2>1. pila[g] = RottaIniziale(g) /\ (g \in vivi <=> g = 1)
    BY DEF Init, RottaIniziale
  <2> QED
    BY <2>1, RottaInizialeImpilata
<1>8. pila = [g \in Grafi |-> pila[g]]
  <2> DEFINE E(g) == IF g = 1 THEN <<Nuova("login")>> ELSE <<>>
  <2>1. pila = [g \in Grafi |-> E(g)]
    BY DEF Init
  <2> HIDE DEF E
  <2> QED
    BY <2>1
<1>9. Pile
  BY <1>6, <1>7, <1>8 DEF Pile, PileDi
<1> QED
  BY <1>1, <1>3, <1>5, <1>9 DEF Tipi

\* Firebase does not change.
LEMMA FirebaseFermo ==
    ASSUME TipiFirebase, UNCHANGED <<firebase, interrotti>>
    PROVE  TipiFirebase'
BY DEF TipiFirebase, firebase

\* Links, and the system's back button.
LEMMA CollegamentoTipi ==
    ASSUME Tipi, NEW g \in Grafi, Collegamento(g) \/ Indietro(g)
    PROVE  Tipi'
<1>1. UNCHANGED <<firebase, vm, op, interrotti>> /\ g = Attuale
  BY DEF Collegamento, Indietro
<1>2. TipiFirebase' /\ TipiVM' /\ Restano(vm') /\ TipiOp'
  BY <1>1, FirebaseFermo, VMFermo, OpFerme DEF Tipi
<1>3. PileDi(pila, vivi, vm')
  BY <1>2, PileFerme DEF Tipi
<1>4. BenImpilata(pila[g], vm'[g].loginSuccessful) /\ Len(pila[g]) > 0
  BY <1>1, <1>3, AttualeVivo DEF Tipi, PileDi
<1>5. Pile'
  <2>1. CASE Sostituisci(g, "registrazione") \/ Sostituisci(g, "login")
    <3>1. PICK nome \in {"registrazione", "login"} : Sostituisci(g, nome)
      BY <2>1
    <3>2. nome \in Nomi /\ nome \notin Interne
      BY DEF Nomi, Interne
    <3>3. Pile
      BY DEF Tipi
    <3> QED
      BY <1>2, <3>1, <3>2, <3>3, PileSostituisci
  <2>2. CASE /\ Len(pila[g]) < MaxPila /\ UNCHANGED vivi
             /\ pila' = [pila EXCEPT ![g] = Append(@, Nuova("recuperoPassword"))]
    <3> DEFINE s == Append(pila[g], Nuova("recuperoPassword"))
    <3>1. BenImpilata(s, vm'[g].loginSuccessful) /\ Len(s) > 0
      BY <1>4, <2>2, RecuperoImpilata
    <3>2. pila' = [pila EXCEPT ![g] = s] /\ UNCHANGED vivi
      BY <2>2
    <3> HIDE DEF s
    <3> QED
      BY <1>3, <1>4, <3>1, <3>2, PileUna DEF Pile
  <2>3. CASE Indietro(g)
    <3> DEFINE s == SubSeq(pila[g], 1, Len(pila[g]) - 1)
    <3>1. BenImpilata(s, vm'[g].loginSuccessful) /\ Len(s) > 0
      BY <1>4, <2>3, IndietroImpilata DEF Indietro
    <3>2. pila' = [pila EXCEPT ![g] = s] /\ UNCHANGED vivi
      BY <2>3 DEF Indietro
    <3> HIDE DEF s
    <3> QED
      BY <1>3, <1>4, <3>1, <3>2, PileUna DEF Pile
  <2> QED
    BY <2>1, <2>2, <2>3 DEF Collegamento
<1> QED
  BY <1>2, <1>5 DEF Tipi

\* The page on screen belongs to a mounted NavGraph; the welcome page only to
\* one with a login.
LEMMA MostraTipi ==
    ASSUME Pile, NEW g \in Grafi, NEW nome, Mostra(g, nome)
    PROVE  /\ g \in vivi /\ Len(pila[g]) > 0
           /\ nome \in Interne => vm[g].loginSuccessful
<1>1. g \in vivi /\ Len(pila[g]) > 0 /\ pila[g][Len(pila[g])].nome = nome
  BY AttualeVivo DEF Mostra, InCima
<1>2. BenImpilata(pila[g], vm[g].loginSuccessful)
  BY DEF Pile, PileDi
<1>3. Len(pila[g]) \in 1..Len(pila[g])
  BY <1>1, <1>2, LenProperties DEF BenImpilata
<1> QED
  BY <1>1, <1>2, <1>3 DEF BenImpilata

\* "Accedi" when nothing was asked of Firebase.
LEMMA SenzaDatiTipi ==
    ASSUME Tipi, NEW g \in Grafi, AccediSenzaDati(g)
    PROVE  Tipi'
<1>1. TipiVM /\ TipiOp /\ Pile /\ TipiFirebase /\ vm[g] \in VM
  BY DEF Tipi, TipiVM
<1>2. TipiVM' /\ Restano(vm') /\ Pile'
  BY <1>1, DopoLoginTipi DEF AccediSenzaDati
<1>3. TipiOp'
  BY <1>1, <1>2, OpFerme DEF AccediSenzaDati
<1>4. TipiFirebase'
  BY <1>1, FirebaseFermo DEF AccediSenzaDati
<1> QED
  BY <1>2, <1>3, <1>4 DEF Tipi

\* The other buttons.
LEMMA BottoniTipi ==
    ASSUME Tipi, NEW g \in Grafi, NEW o \in Operazioni,
           \/ \E e \in Account : Accedi(o, g, e) \/ SignUp(o, g, e)
           \/ ResetPassword(o, g) \/ UpdateFirstLogin(o, g) \/ Logout(o, g)
    PROVE  Tipi'
<1>0. TipiVM /\ TipiOp /\ Pile /\ TipiFirebase
  BY DEF Tipi
<1>1. TipiFirebase'
  BY <1>0, FirebaseFermo
  DEF Accedi, SignUp, ResetPassword, UpdateFirstLogin, Logout
<1>2. ASSUME NEW e \in Account, Accedi(o, g, e) PROVE Tipi'
  <2>1. TipiVM' /\ Restano(vm')
    BY <1>0, <1>2, VMFermo DEF Accedi
  <2>2. "signIn" \in Fasi \ {"update"}
    BY DEF Fasi
  <2>3. TipiOp'
    BY <1>0, <1>2, <2>1, <2>2, AvviaTipi DEF Accedi
  <2>4. PileDi(pila, vivi, vm')
    BY <1>0, <2>1, PileFerme
  <2> DEFINE s == [pila[g] EXCEPT ![Len(pila[g])].attende = o]
  <2>5. Len(pila[g]) > 0 /\ BenImpilata(pila[g], vm'[g].loginSuccessful)
    BY <1>0, <1>2, <2>4, MostraTipi DEF Accedi, PuoAccedere, PileDi
  <2>6. BenImpilata(s, vm'[g].loginSuccessful) /\ Len(s) = Len(pila[g])
    BY <2>5, AttendeImpilata
  <2>7. pila' = [pila EXCEPT ![g] = s] /\ UNCHANGED vivi
    BY <1>2 DEF Accedi
  <2> HIDE DEF s
  <2>8. Pile'
    BY <2>4, <2>6, <2>7, PileUna DEF Pile
  <2> QED
    BY <1>1, <2>1, <2>3, <2>8 DEF Tipi
<1>3. CASE (\E e \in Account : SignUp(o, g, e)) \/ ResetPassword(o, g)
  <2>1. UNCHANGED <<vm, pila, vivi>>
    BY <1>3 DEF SignUp, ResetPassword
  <2>2. TipiVM' /\ Restano(vm')
    BY <1>0, <2>1, VMFermo
  <2>3. /\ "createUser" \in Fasi \ {"update"}
        /\ "reset" \in Fasi \ {"update"}
        /\ "reset" \notin ConEmail
    BY DEF Fasi, ConEmail
  <2>4. TipiOp'
    BY <1>0, <1>3, <2>2, <2>3, AvviaTipi DEF SignUp, ResetPassword
  <2>5. PileDi(pila, vivi, vm')
    BY <1>0, <2>2, PileFerme
  <2>6. Pile'
    BY <2>1, <2>5 DEF Pile
  <2> QED
    BY <1>1, <2>2, <2>4, <2>6 DEF Tipi
<1>4. CASE UpdateFirstLogin(o, g)
  <2>0. "benvenuto" \in Interne /\ "ituoiProgetti" \in Nomi
    BY DEF Interne, Nomi
  <2>1. vm[g] \in VM /\ vm[g].loginSuccessful
    BY <1>0, <1>4, <2>0, MostraTipi DEF UpdateFirstLogin, TipiVM
  <2>2. CASE vm[g].utenteCorrente # Nessuno
    <3>1. UNCHANGED <<vm, pila, vivi>> /\ Avvia(o, "update", g, vm[g].utenteCorrente)
      BY <1>4, <2>2 DEF UpdateFirstLogin
    <3>2. TipiVM' /\ Restano(vm')
      BY <1>0, <3>1, VMFermo
    <3>3. "update" \in Fasi /\ vm[g].utenteCorrente \in Account
      BY <2>1, <2>2 DEF Fasi, VM
    <3>4. TipiOp'
      BY <1>0, <2>1, <3>1, <3>2, <3>3, AvviaTipi
    <3>5. PileDi(pila, vivi, vm')
      BY <1>0, <3>2, PileFerme
    <3>6. Pile'
      BY <3>1, <3>5 DEF Pile
    <3> QED
      BY <1>1, <3>2, <3>4, <3>6 DEF Tipi
  <2>3. CASE vm[g].utenteCorrente = Nessuno
    <3> DEFINE v == ConProgetti(vm[g], "ituoiProgetti")
    <3>1. v \in VM /\ v.loginSuccessful
      BY <1>0, <2>1, ConProgettiTipi
    <3>2. AggiornaVM(g, v) /\ Sostituisci(g, "ituoiProgetti") /\ UNCHANGED op
      BY <1>4, <2>3 DEF UpdateFirstLogin
    <3> HIDE DEF v
    <3>3. TipiVM' /\ Restano(vm')
      BY <1>0, <3>1, <3>2, AggiornaTipi
    <3>4. vm'[g].loginSuccessful
      BY <2>1, <3>3 DEF Restano
    <3>5. Pile'
      BY <1>0, <2>0, <3>2, <3>3, <3>4, PileSostituisci
    <3>6. TipiOp'
      BY <1>0, <3>2, <3>3, OpFerme
    <3> QED
      BY <1>1, <3>3, <3>5, <3>6 DEF Tipi
  <2> QED
    BY <2>2, <2>3
<1>5. CASE Logout(o, g)
  <2>1. TipiVM' /\ Restano(vm')
    BY <1>0, <1>5, VMFermo DEF Logout
  <2>2. "signOut" \in Fasi \ {"update"} /\ "signOut" \notin ConEmail
    BY DEF Fasi, ConEmail
  <2>3. TipiOp'
    BY <1>0, <1>5, <2>1, <2>2, AvviaTipi DEF Logout
  <2>4. "login" \in Nomi /\ "login" \notin Interne
    BY DEF Nomi, Interne
  <2>5. Pile'
    BY <1>0, <1>5, <2>1, <2>4, PileSostituisci DEF Logout
  <2> QED
    BY <1>1, <2>1, <2>3, <2>5 DEF Tipi
<1> QED
  BY <1>2, <1>3, <1>4, <1>5

\* The calls of login.
LEMMA LoginTipi ==
    ASSUME Tipi, NEW o \in Operazioni,
           \/ SignIn(o) \/ IsEmailVerified(o) \/ FetchUserProfile(o)
           \/ IsFirstLogin(o) \/ LoginFallisce(o)
    PROVE  Tipi'
<1>0. TipiVM /\ TipiOp /\ Pile /\ TipiFirebase
  BY DEF Tipi
<1>1. PICK g \in Grafi : g = op[o].grafo
  BY <1>0, InCorso
<1>2. PICK e \in Account : e = op[o].email
  <2>1. op[o].fase \in ConEmail
    BY DEF SignIn, IsEmailVerified, FetchUserProfile, IsFirstLogin,
           LoginFallisce, ConEmail
  <2> QED
    BY <1>0, <2>1, InCorso
<1>3. op[o].fase \in ConEmail /\ vm[g] \in VM
  BY <1>0 DEF SignIn, IsEmailVerified, FetchUserProfile, IsFirstLogin,
              LoginFallisce, ConEmail, TipiVM
<1>4. TipiFirebase'
  <2>1. CASE SignIn(o)
    BY <1>0, <1>2, <2>1 DEF SignIn, TipiFirebase
  <2>2. CASE ~SignIn(o)
    <3>1. UNCHANGED <<firebase, interrotti>>
      BY <2>2 DEF IsEmailVerified, FetchUserProfile, IsFirstLogin, LoginFallisce
    <3> QED
      BY <1>0, <3>1, FirebaseFermo
  <2> QED
    BY <2>1, <2>2
<1>5. {"reload", "profilo", "primoAccesso"} \subseteq Fasi \ {"update"}
  BY DEF Fasi
<1>6. CASE SignIn(o) \/ (IsEmailVerified(o) /\ Verificato(op[o].email))
  <2>1. /\ UNCHANGED <<vm, pila, vivi>>
        /\ Prosegui(o, "reload") \/ Prosegui(o, "profilo")
    BY <1>6 DEF SignIn, IsEmailVerified
  <2>2. TipiVM' /\ Restano(vm')
    BY <1>0, <2>1, VMFermo
  <2>3. TipiOp'
    BY <1>0, <1>3, <1>5, <2>1, <2>2, FaseTipi
  <2>4. PileDi(pila, vivi, vm')
    BY <1>0, <2>2, PileFerme
  <2>5. Pile'
    BY <2>1, <2>4 DEF Pile
  <2> QED
    BY <1>4, <2>2, <2>3, <2>5 DEF Tipi
<1>7. CASE FetchUserProfile(o)
  <2>1. PICK u \in Account \cup {Nessuno} :
          AggiornaVM(g, [vm[g] EXCEPT !.utenteCorrente = u])
    BY <1>1, <1>2, <1>7 DEF FetchUserProfile
  <2> DEFINE v == [vm[g] EXCEPT !.utenteCorrente = u]
  <2>2. v \in VM /\ v.loginSuccessful = vm[g].loginSuccessful
    BY <1>3 DEF VM
  <2> HIDE DEF v
  <2>3. TipiVM' /\ Restano(vm')
    BY <1>0, <2>1, <2>2, AggiornaTipi DEF v
  <2>4. Prosegui(o, "primoAccesso") /\ UNCHANGED <<pila, vivi>>
    BY <1>7 DEF FetchUserProfile
  <2>5. TipiOp'
    BY <1>0, <1>3, <1>5, <2>3, <2>4, FaseTipi
  <2>6. PileDi(pila, vivi, vm')
    BY <1>0, <2>3, PileFerme
  <2>7. Pile'
    BY <2>4, <2>6 DEF Pile
  <2> QED
    BY <1>4, <2>3, <2>5, <2>7 DEF Tipi
<1>8. CASE \/ IsEmailVerified(o) /\ ~Verificato(op[o].email)
           \/ IsFirstLogin(o) \/ LoginFallisce(o)
  <2>1. PICK v \in VM : /\ vm[g].loginSuccessful => v.loginSuccessful
                       /\ DopoLogin(o, g, v)
    <3>1. CASE IsFirstLogin(o)
      <4> DEFINE f == (profilo[e] # "visto")
                 v == [vm[g] EXCEPT !.firstLogin = f, !.loginSuccessful = TRUE]
      <4>1. f \in BOOLEAN
        OBVIOUS
      <4>2. DopoLogin(o, g, v)
        BY <1>1, <1>2, <3>1 DEF IsFirstLogin
      <4> HIDE DEF f
      <4>3. v \in VM /\ v.loginSuccessful
        BY <1>3, <4>1 DEF VM
      <4> HIDE DEF v
      <4> QED
        BY <4>2, <4>3
    <3>2. CASE ~IsFirstLogin(o)
      <4>1. DopoLogin(o, g, vm[g])
        BY <1>1, <1>8, <3>2 DEF IsEmailVerified, LoginFallisce
      <4> QED
        BY <1>3, <4>1
    <3> QED
      BY <3>1, <3>2
  <2>2. TipiVM' /\ Restano(vm') /\ Pile'
    BY <1>0, <2>1, DopoLoginTipi
  <2>3. Termina(o)
    BY <1>8 DEF IsEmailVerified, IsFirstLogin, LoginFallisce
  <2>4. TipiOp'
    BY <1>0, <2>2, <2>3, TerminaTipi
  <2> QED
    BY <1>4, <2>2, <2>4 DEF Tipi
<1> QED
  BY <1>6, <1>7, <1>8

\* The calls of signUp, and the user's answer to the e-mail.
LEMMA SignUpTipi ==
    ASSUME Tipi, NEW o \in Operazioni,
           \/ CreateUser(o) \/ SetProfilo(o) \/ SignUpFallisce(o)
    PROVE  Tipi'
<1>0. TipiVM /\ TipiOp /\ Pile /\ TipiFirebase
  BY DEF Tipi
<1>1. PICK g \in Grafi : g = op[o].grafo
  BY <1>0, InCorso
<1>2. PICK e \in Account : e = op[o].email
  <2>1. op[o].fase \in ConEmail
    BY DEF CreateUser, SetProfilo, SignUpFallisce, ConEmail
  <2> QED
    BY <1>0, <2>1, InCorso
<1>3. TipiFirebase'
  <2>1. CASE CreateUser(o)
    BY <1>0, <1>2, <2>1 DEF CreateUser, TipiFirebase, StatiAccount
  <2>2. CASE SetProfilo(o)
    BY <1>0, <1>2, <2>2 DEF SetProfilo, ConProfilo, TipiFirebase, StatiProfilo
  <2>3. CASE SignUpFallisce(o)
    BY <1>0, <1>2, <2>3 DEF SignUpFallisce, TipiFirebase, firebase
  <2> QED
    BY <2>1, <2>2, <2>3
<1>4. TipiVM' /\ Restano(vm')
  BY <1>0, VMFermo DEF CreateUser, SetProfilo, SignUpFallisce
<1>5. TipiOp'
  <2>1. CASE CreateUser(o)
    <3>1. "set" \in Fasi \ {"update"} /\ "createUser" \in ConEmail
      BY DEF Fasi, ConEmail
    <3> QED
      BY <1>0, <1>4, <2>1, <3>1, FaseTipi DEF CreateUser
  <2>2. CASE SetProfilo(o) \/ SignUpFallisce(o)
    BY <1>0, <1>4, <2>2, TerminaTipi DEF SetProfilo, SignUpFallisce
  <2> QED
    BY <2>1, <2>2
<1>6. Pile'
  <2>1. CASE SetProfilo(o)
    <3>1. "verificaEmail" \in Nomi /\ "verificaEmail" \notin Interne
      BY DEF Nomi, Interne
    <3> QED
      BY <1>0, <1>1, <1>4, <2>1, <3>1, PileSostituisci DEF SetProfilo
  <2>2. CASE UNCHANGED <<pila, vivi>>
    <3>1. PileDi(pila, vivi, vm')
      BY <1>0, <1>4, PileFerme
    <3> QED
      BY <2>2, <3>1 DEF Pile
  <2> QED
    BY <2>1, <2>2 DEF CreateUser, SignUpFallisce
<1> QED
  BY <1>3, <1>4, <1>5, <1>6 DEF Tipi

\* resetPassword and updateFirstLogin, and calls that throw.
LEMMA AltriTipi ==
    ASSUME Tipi, NEW o \in Operazioni,
           SendPasswordResetEmail(o) \/ UpdatePrimoAccesso(o) \/ Fallisce(o)
    PROVE  Tipi'
<1>0. TipiVM /\ TipiOp /\ Pile /\ TipiFirebase
  BY DEF Tipi
<1>1. PICK g \in Grafi : g = op[o].grafo
  BY <1>0, InCorso
<1>2. vm[g] \in VM /\ Termina(o)
  BY <1>0 DEF TipiVM, SendPasswordResetEmail, UpdatePrimoAccesso, Fallisce
<1>3. CASE SendPasswordResetEmail(o)
  <2>1. "login" \in Nomi /\ "login" \notin Interne
    BY DEF Nomi, Interne
  <2>2. TipiVM' /\ Restano(vm') /\ TipiFirebase'
    BY <1>0, <1>3, VMFermo, FirebaseFermo DEF SendPasswordResetEmail
  <2>3. Pile'
    BY <1>0, <1>1, <1>3, <2>1, <2>2, PileSostituisci DEF SendPasswordResetEmail
  <2> QED
    BY <1>0, <1>2, <2>2, <2>3, TerminaTipi DEF Tipi
<1>4. CASE UpdatePrimoAccesso(o)
  <2>1. "ituoiProgetti" \in Nomi
    BY DEF Nomi
  <2>2. vm[g].loginSuccessful /\ op[o].email \in Account
    BY <1>0, <1>1, <1>4, InCorso DEF UpdatePrimoAccesso, ConEmail
  <2> DEFINE v == ConProgetti(vm[g], "ituoiProgetti")
  <2>3. v \in VM /\ v.loginSuccessful
    BY <1>0, <1>2, <2>2, ConProgettiTipi
  <2>4. AggiornaVM(g, v) /\ Sostituisci(g, "ituoiProgetti")
    BY <1>1, <1>4 DEF UpdatePrimoAccesso
  <2> HIDE DEF v
  <2>5. TipiVM' /\ Restano(vm')
    BY <1>0, <2>3, <2>4, AggiornaTipi
  <2>6. vm'[g].loginSuccessful
    BY <2>2, <2>5 DEF Restano
  <2>7. Pile'
    BY <1>0, <2>1, <2>4, <2>5, <2>6, PileSostituisci
  <2>8. TipiFirebase'
    BY <1>0, <1>4, <2>2 DEF UpdatePrimoAccesso, Visto, TipiFirebase, StatiProfilo
  <2> QED
    BY <1>0, <1>2, <2>5, <2>7, <2>8, TerminaTipi DEF Tipi
<1>5. CASE Fallisce(o)
  <2>1. TipiVM' /\ Restano(vm') /\ TipiFirebase'
    BY <1>0, <1>5, VMFermo, FirebaseFermo DEF Fallisce
  <2>2. PileDi(pila, vivi, vm')
    BY <1>0, <2>1, PileFerme
  <2>3. Pile'
    BY <1>5, <2>2 DEF Fallisce, Pile
  <2> QED
    BY <1>0, <1>2, <2>1, <2>3, TerminaTipi DEF Tipi
<1> QED
  BY <1>3, <1>4, <1>5

\* Logout: a new NavGraph, that nobody has logged in to, in place of all routes.
\* Its number belongs to no operation of an earlier one.
LEMMA SignOutTipi ==
    ASSUME Tipi, NEW o \in Operazioni, SignOut(o)
    PROVE  Tipi'
<1>0. TipiVM /\ TipiOp /\ Pile /\ TipiFirebase
  BY DEF Tipi
<1>1. PICK g \in Grafi : g = op[o].grafo
  BY <1>0, InCorso
<1>2. TipiFirebase' /\ Termina(o)
  BY <1>0 DEF SignOut, TipiFirebase
<1>3. CASE g \notin vivi
  <2>1. UNCHANGED <<vivi, pila, vm>>
    BY <1>1, <1>3 DEF SignOut
  <2>2. TipiVM' /\ Restano(vm')
    BY <1>0, <2>1, VMFermo
  <2>3. PileDi(pila, vivi, vm')
    BY <1>0, <2>2, PileFerme
  <2>4. Pile'
    BY <2>1, <2>3 DEF Pile
  <2> QED
    BY <1>0, <1>2, <2>2, <2>4, TerminaTipi DEF Tipi
<1>4. CASE g \in vivi
  <2> DEFINE n == g + 1
             E(h) == CASE h < g -> pila[h]
                       [] h = g -> <<Nuova("NavGraph")>>
                       [] h = n -> <<Nuova("login")>>
                       [] OTHER -> <<>>
  <2>1. /\ n \in Grafi
        /\ \A x \in Operazioni : op[x].grafo # n
        /\ vivi' = ViviFinoA(g) \cup {n}
        /\ pila' = [h \in Grafi |-> E(h)]
        /\ vm' = [vm EXCEPT ![n] = NuovoVM]
    BY <1>1, <1>4 DEF SignOut, AggiornaVM
  <2>2. PICK m \in Grafi : vivi = 1..m
    BY <1>0 DEF Pile, PileDi
  <2>3. /\ m \in Nat /\ g \in Nat /\ g >= 1 /\ g <= m /\ g \in Int /\ n = g + 1
        /\ \A h \in Grafi : h \in Int /\ h >= 1
    BY <1>4, <2>2, LimitiAssumption DEF Grafi
  <2>4. vivi' = 1..n
    BY <2>1, <2>2, <2>3 DEF ViviFinoA
  <2>5. NuovoVM \in VM
    BY DEF NuovoVM, VM
  <2>6. TipiVM'
    BY <1>0, <2>1, <2>5 DEF TipiVM
  <2>7. \A h \in Grafi : h # n => vm'[h] = vm[h]
    BY <1>0, <2>1 DEF TipiVM
  <2>8. TipiOp'
    <3>1. BenFormata(Ferma) /\ Ferma.fase # "update"
      BY LimitiAssumption
      DEF BenFormata, Ferma, Operazione, Fasi, Grafi, ConEmail
    <3>2. ASSUME NEW x \in Operazioni
          PROVE  /\ BenFormata(op'[x])
                 /\ op'[x].fase = "update" => vm'[op'[x].grafo].loginSuccessful
      <4>1. op'[x] = IF x = o THEN Ferma ELSE op[x]
        BY <1>0, <1>2 DEF Termina, TipiOp
      <4>2. BenFormata(op[x]) /\ op[x].grafo \in Grafi /\ op[x].grafo # n
        BY <1>0, <2>1, InCorso DEF TipiOp
      <4>3. vm'[op[x].grafo] = vm[op[x].grafo]
        BY <2>7, <4>2
      <4> QED
        BY <1>0, <3>1, <4>1, <4>2, <4>3, InCorso
    <3>3. op' \in [Operazioni -> Operazione]
      BY <1>0, <1>2, <3>1 DEF Termina, TipiOp, BenFormata
    <3> QED
      BY <3>2, <3>3 DEF TipiOp, BenFormata
  <2>9. ASSUME NEW h \in Grafi
        PROVE  /\ BenImpilata(pila'[h], vm'[h].loginSuccessful)
               /\ h \in 1..n <=> Len(pila'[h]) > 0
    <3>0. pila'[h] = E(h) /\ h \in Int /\ h >= 1
      BY <2>1, <2>3
    <3>1. CASE h < g
      <4>1. pila'[h] = pila[h] /\ h # n /\ h \in vivi /\ h \in 1..n
        BY <2>2, <2>3, <3>0, <3>1
      <4> QED
        BY <1>0, <2>7, <4>1 DEF Pile, PileDi
    <3>2. CASE h = g \/ h = n
      <4>1. PICK nome \in {"NavGraph", "login"} : pila'[h] = <<Nuova(nome)>>
        BY <2>3, <3>0, <3>2
      <4>2. nome \in Nomi \ Interne
        BY DEF Nomi, Interne
      <4>3. h \in 1..n
        BY <2>3, <3>0, <3>2
      <4>4. /\ BenImpilata(<<Nuova(nome)>>, vm'[h].loginSuccessful)
            /\ Len(<<Nuova(nome)>>) = 1
        BY <4>2, SolaImpilata
      <4> QED
        BY <4>1, <4>3, <4>4
    <3>3. CASE h > n
      <4>1. pila'[h] = <<>> /\ h \notin 1..n
        BY <2>3, <3>0, <3>3
      <4>2. BenImpilata(<<>>, vm'[h].loginSuccessful) /\ Len(<<>>) = 0
        BY VuotaImpilata
      <4> QED
        BY <4>1, <4>2
    <3> QED
      BY <2>3, <3>0, <3>1, <3>2, <3>3
  <2>10. pila' = [h \in Grafi |-> pila'[h]]
    <3> HIDE DEF E
    <3> QED
      BY <2>1
  <2> HIDE DEF n
  <2>11. Pile'
    BY <2>1, <2>4, <2>9, <2>10 DEF Pile, PileDi
  <2> QED
    BY <1>2, <2>6, <2>8, <2>11 DEF Tipi
<1> QED
  BY <1>3, <1>4

\* The link in the e-mail.
LEMMA VerificaTipi ==
    ASSUME Tipi, NEW e \in Account, VerificaIndirizzo(e)
    PROVE  Tipi'
<1>0. TipiVM /\ TipiOp /\ Pile /\ TipiFirebase
  BY DEF Tipi
<1>1. UNCHANGED <<vm, pila, vivi, op>>
  BY DEF VerificaIndirizzo
<1>2. TipiFirebase'
  BY <1>0 DEF VerificaIndirizzo, TipiFirebase, StatiAccount
<1>3. TipiVM' /\ Restano(vm')
  BY <1>0, <1>1, VMFermo
<1>4. PileDi(pila, vivi, vm')
  BY <1>0, <1>3, PileFerme
<1>5. Pile'
  BY <1>1, <1>4 DEF Pile
<1> QED
  BY <1>0, <1>1, <1>2, <1>3, <1>5, OpFerme DEF Tipi

\* A restart is a beginning, except for what Firebase remembers.
LEMMA RiavviaTipi ==
    ASSUME Tipi, Riavvia
    PROVE  Tipi'
<1>1. TipiFirebase'
  <2>1. {op[o].email : o \in {x \in Operazioni : op[x].fase = "set"}}
          \in SUBSET Account
    BY InCorso DEF Tipi, ConEmail
  <2> QED
    BY <2>1 DEF Riavvia, Tipi, TipiFirebase, firebase
<1>2. NuovoVM \in VM
  BY DEF NuovoVM, VM
<1>3. TipiVM'
  BY <1>2 DEF Riavvia, TipiVM
<1>4. BenFormata(Ferma) /\ Ferma.fase # "update"
  BY LimitiAssumption DEF BenFormata, Ferma, Operazione, Fasi, Grafi, ConEmail
<1>5. TipiOp'
  BY <1>4 DEF Riavvia, TipiOp, BenFormata
<1> DEFINE s == <<Nuova("login")>>
           E(g) == IF g = 1 THEN s ELSE <<>>
<1>6. 1 \in Grafi /\ vivi' = 1..1 /\ pila' = [g \in Grafi |-> E(g)]
  BY LimitiAssumption DEF Riavvia, Grafi
<1>7. ASSUME NEW g \in Grafi
      PROVE  /\ BenImpilata(pila'[g], vm'[g].loginSuccessful)
             /\ g \in 1..1 <=> Len(pila'[g]) > 0
  <2>1. pila'[g] = RottaIniziale(g) /\ (g \in 1..1 <=> g = 1)
    BY <1>6 DEF RottaIniziale
  <2> QED
    BY <2>1, RottaInizialeImpilata
<1>8. pila' = [g \in Grafi |-> pila'[g]]
  <2> HIDE DEF E
  <2> QED
    BY <1>6
<1>9. Pile'
  BY <1>6, <1>7, <1>8 DEF Pile, PileDi
<1> QED
  BY <1>1, <1>3, <1>5, <1>9 DEF Tipi

\* Tipi is inductive.
LEMMA TipiNext == Tipi /\ [Next]_vars => Tipi'
<1> SUFFICES ASSUME Tipi, [Next]_vars PROVE Tipi'
  OBVIOUS
<1>1. CASE UNCHANGED vars
  BY <1>1 DEF vars, Tipi, TipiFirebase, TipiVM, TipiOp, BenFormata, Pile
<1>2. ASSUME NEW g \in Grafi, Comando(g) PROVE Tipi'
  BY <1>2, CollegamentoTipi, SenzaDatiTipi, BottoniTipi DEF Comando
<1>3. ASSUME NEW o \in Operazioni, Passo(o) PROVE Tipi'
  BY <1>3, LoginTipi, SignUpTipi, AltriTipi, SignOutTipi DEF Passo
<1> QED
  BY <1>1, <1>2, <1>3, VerificaTipi, RiavviaTipi DEF Next

\* However logins, registrations, logouts and first accesses overlap, the state is
\* well typed; in particular there is always a page on screen.
THEOREM TipiCorretti == Spec => [](TypeOK /\ Tipi)
<1>1. Tipi => TypeOK
  <2> SUFFICES ASSUME Tipi PROVE TypeOK
    OBVIOUS
  <2>1. vivi \in SUBSET Grafi /\ vivi # {}
    <3>1. PICK n \in Grafi : vivi = 1..n
      BY DEF Tipi, Pile, PileDi
    <3> QED
      BY <3>1, LimitiAssumption DEF Grafi
  <2>2. DOMAIN pila = Grafi
    BY DEF Tipi, Pile, PileDi
  <2> QED
    BY <2>1, <2>2
    DEF Tipi, TipiFirebase, TipiVM, TipiOp, Pile, PileDi, BenImpilata, TypeOK
<1> QED
  BY <1>1, TipiInit, TipiNext, PTL DEF Spec

\* The welcome and home pages are behind a login of their own NavGraph, although
\* handlers that end late replace whatever page is on top by then.
THEOREM DentroDopoLogin == Spec => []DentroSoloDopoLogin
<1>1. Tipi => DentroSoloDopoLogin
  <2> SUFFICES ASSUME Tipi, NEW g \in vivi, NEW i \in 1..Len(pila[g]),
                      pila[g][i].nome \in {"benvenuto", "ituoiProgetti"}
               PROVE  vm[g].loginSuccessful
    BY DEF DentroSoloDopoLogin
  <2>1. g \in Grafi
    BY LimitiAssumption DEF Tipi, Pile, PileDi, Grafi
  <2> QED
    BY <2>1 DEF Tipi, Pile, PileDi, BenImpilata, Interne
<1> QED
  BY <1>1, TipiInit, TipiNext, PTL DEF Spec

-----------------------------------------------------------------------------
(* Accounts and profiles.                                                  *)

\* What makes SoloVerificati, ProfiloSpiegato and PrimoAccessoNonTorna inductive.
\* Registrations: createUser succeeds once per address, so that only one
\* operation is about to store its profile, and nobody has stored it before.
Registrazioni ==
    /\ \A o \in Operazioni : op[o].fase = "set" =>
          /\ account[op[o].email] # "assente"
          /\ profilo[op[o].email] = "assente"
    /\ \A o, x \in Operazioni :
          (op[o].fase = "set" /\ op[x].fase = "set" /\ op[o].email = op[x].email)
          => o = x
    /\ \A e \in Account : profilo[e] # "assente" => account[e] # "assente"
    /\ \A e \in mail : account[e] # "assente"

\* Logins: what is known of a user was read after his address was verified.
Entrato(e) == account[e] = "verificato" /\ profilo[e] # "assente"

Accessi ==
    /\ \A o \in Operazioni :
          /\ op[o].fase = "profilo" => account[op[o].email] = "verificato"
          /\ op[o].fase = "update" => Entrato(op[o].email)
    /\ \A g \in Grafi : vm[g].utenteCorrente # Nessuno =>
          Entrato(vm[g].utenteCorrente)

Indirizzi == Registrazioni /\ Accessi /\ ProfiloSpiegato

\* Steps that store no profile and do not touch registrations.
LEMMA IndirizziFermi ==
    ASSUME Tipi, Tipi', Indirizzi, UNCHANGED <<profilo, mail, interrotti>>,
           \A e \in Account :
               \/ account'[e] = account[e]
               \/ account[e] # "assente" /\ account'[e] = "verificato",
           \A o \in Operazioni :
               \/ op'[o] = op[o]
               \/ /\ op[o].fase # "set" /\ op'[o].fase # "set"
                  /\ op'[o].fase = "profilo" =>
                        account[op'[o].email] = "verificato"
                  /\ op'[o].fase = "update" => Entrato(op'[o].email),
           \A g \in Grafi :
               \/ vm'[g].utenteCorrente = vm[g].utenteCorrente
               \/ vm'[g].utenteCorrente = Nessuno
               \/ Entrato(vm'[g].utenteCorrente)
    PROVE  Indirizzi'
<1>1. ASSUME NEW o \in Operazioni
      PROVE  op'[o].fase \in ConEmail => op'[o].email \in Account
  BY InCorso DEF Tipi, TipiOp, BenFormata
<1>2. \A g \in Grafi : vm[g].utenteCorrente \in Account \cup {Nessuno}
                      /\ vm'[g].utenteCorrente \in Account \cup {Nessuno}
  BY DEF Tipi, TipiVM, VM
<1>3. mail \subseteq Account
  BY DEF Tipi, TipiFirebase
<1>4. Registrazioni'
  BY <1>1, <1>3 DEF Indirizzi, Registrazioni, ConEmail
<1>5. Accessi'
  BY <1>1, <1>2, NessunoAssumption DEF Indirizzi, Accessi, Entrato, ConEmail
<1>6. ProfiloSpiegato'
  BY DEF Indirizzi, ProfiloSpiegato
<1> QED
  BY <1>4, <1>5, <1>6 DEF Indirizzi

\* createUser: the address was free, so nobody knows it yet.
LEMMA CreateUserIndirizzi ==
    ASSUME Tipi, Tipi', Indirizzi, NEW o \in Operazioni, CreateUser(o)
    PROVE  Indirizzi'
<1>1. PICK e \in Account : e = op[o].email
  BY InCorso DEF CreateUser, Tipi, ConEmail
<1>2. /\ account[e] = "assente"
      /\ account' = [account EXCEPT ![e] = "daVerificare"]
      /\ UNCHANGED <<profilo, mail, vm, interrotti>>
      /\ op' = [op EXCEPT ![o].fase = "set"]
      /\ op[o].fase = "createUser"
  BY <1>1 DEF CreateUser, IndirizzoLibero, Prosegui
<1>3. profilo[e] = "assente"
  BY <1>2 DEF Indirizzi, Registrazioni
<1>4. \A x \in Account : account'[x] = IF x = e THEN "daVerificare" ELSE account[x]
  BY <1>2 DEF Tipi, TipiFirebase
<1>5. /\ op'[o].fase = "set" /\ op'[o].email = e
      /\ \A x \in Operazioni : x # o => op'[x] = op[x]
  BY <1>1, <1>2 DEF Tipi, TipiOp, BenFormata, Operazione
<1>6. \A x \in Operazioni : op[x].fase \in ConEmail => op[x].email \in Account
  BY InCorso DEF Tipi
<1>7. \A g \in Grafi : vm[g].utenteCorrente \in Account \cup {Nessuno}
  BY DEF Tipi, TipiVM, VM
<1>8. mail \subseteq Account
  BY DEF Tipi, TipiFirebase
<1>9. Registrazioni'
  BY <1>2, <1>3, <1>4, <1>5, <1>6, <1>8 DEF Indirizzi, Registrazioni, ConEmail
<1>10. Accessi'
  BY <1>2, <1>4, <1>5, <1>6, <1>7
  DEF Indirizzi, Accessi, Entrato, ConEmail
<1>11. ProfiloSpiegato'
  BY <1>2, <1>4, <1>5 DEF Indirizzi, ProfiloSpiegato
<1> QED
  BY <1>9, <1>10, <1>11 DEF Indirizzi

\* updateFirstLogin leaves users alone.
LEMMA UpdateUtente ==
    ASSUME Tipi, NEW o \in Operazioni, UpdatePrimoAccesso(o)
    PROVE  \A g \in Grafi : vm'[g].utenteCorrente = vm[g].utenteCorrente
<1> DEFINE v == ConProgetti(vm[op[o].grafo], "ituoiProgetti")
<1>1. vm' = [vm EXCEPT ![op[o].grafo] = v]
  BY DEF UpdatePrimoAccesso, AggiornaVM
<1>2. op[o].grafo \in Grafi /\ vm[op[o].grafo] \in VM
  BY InCorso DEF Tipi, TipiVM
<1>3. v.utenteCorrente = vm[op[o].grafo].utenteCorrente
  BY <1>2, ConProgettiTipi DEF Tipi
<1> HIDE DEF v
<1> QED
  BY <1>1, <1>3 DEF Tipi, TipiVM, VM

\* set and updateFirstLogin: a profile is stored.
LEMMA ProfiloIndirizzi ==
    ASSUME Tipi, Tipi', Indirizzi, NEW o \in Operazioni,
           SetProfilo(o) \/ UpdatePrimoAccesso(o)
    PROVE  Indirizzi'
<1>0. op[o].fase \in {"set", "update"} /\ op[o].fase \in ConEmail
  BY DEF SetProfilo, UpdatePrimoAccesso, ConEmail
<1>1. PICK e \in Account : e = op[o].email
  BY <1>0, InCorso DEF Tipi
<1>2. PICK s \in {"primo", "visto"} : profilo' = [profilo EXCEPT ![e] = s]
  BY <1>1 DEF SetProfilo, ConProfilo, UpdatePrimoAccesso, Visto
<1>3. /\ UNCHANGED <<account, interrotti>>
      /\ op' = [op EXCEPT ![o] = Ferma]
      /\ \A x \in mail' : x \in mail \/ account[x] = "daVerificare"
  BY DEF SetProfilo, UpdatePrimoAccesso, Termina
<1>4. account[e] # "assente"
  <2>1. CASE SetProfilo(o)
    BY <1>1, <2>1 DEF SetProfilo, Indirizzi, Registrazioni
  <2>2. CASE UpdatePrimoAccesso(o)
    BY <1>1, <2>2 DEF UpdatePrimoAccesso, Indirizzi, Accessi, Entrato
  <2> QED
    BY <2>1, <2>2
<1>5. \A x \in Account : profilo'[x] = IF x = e THEN s ELSE profilo[x]
  BY <1>2 DEF Tipi, TipiFirebase
<1>6. /\ op'[o].fase = "ferma"
      /\ \A x \in Operazioni : x # o => op'[x] = op[x]
  BY <1>3 DEF Tipi, TipiOp, Ferma
<1>7. ASSUME NEW x \in Operazioni, x # o, op[x].fase = "set"
      PROVE  op[x].email # e
  <2>1. CASE op[o].fase = "set"
    BY <1>1, <1>7, <2>1 DEF Indirizzi, Registrazioni
  <2>2. CASE op[o].fase = "update"
    BY <1>1, <1>7, <2>2 DEF Indirizzi, Registrazioni, Accessi, Entrato
  <2> QED
    BY <1>0, <2>1, <2>2
<1>8. \A x \in Operazioni : op[x].fase \in ConEmail => op[x].email \in Account
  BY InCorso DEF Tipi
<1>9. \A g \in Grafi : /\ vm[g].utenteCorrente \in Account \cup {Nessuno}
                      /\ vm'[g].utenteCorrente = vm[g].utenteCorrente
  <2>1. \A g \in Grafi : vm[g].utenteCorrente \in Account \cup {Nessuno}
    BY DEF Tipi, TipiVM, VM
  <2>2. SetProfilo(o) => UNCHANGED vm
    BY DEF SetProfilo
  <2> QED
    BY <2>1, <2>2, UpdateUtente
<1>10. mail \subseteq Account /\ mail' \subseteq Account
  BY DEF Tipi, TipiFirebase
<1>11. Registrazioni'
  BY <1>3, <1>4, <1>5, <1>6, <1>7, <1>8, <1>10
  DEF Indirizzi, Registrazioni, ConEmail
<1>12. Accessi'
  BY <1>2, <1>3, <1>5, <1>6, <1>8, <1>9, NessunoAssumption
  DEF Indirizzi, Accessi, Entrato, ConEmail
<1>13. ProfiloSpiegato'
  <2>1. ASSUME NEW x \in Account, account'[x] # "assente", profilo'[x] = "assente"
        PROVE  \/ x \in interrotti'
               \/ \E y \in Operazioni : op'[y].fase = "set" /\ op'[y].email = x
    BY <1>1, <1>2, <1>3, <1>5, <1>6, <2>1 DEF Indirizzi, ProfiloSpiegato
  <2> QED
    BY <2>1 DEF ProfiloSpiegato
<1> QED
  BY <1>11, <1>12, <1>13 DEF Indirizzi

\* Registrations that come to nothing, one or all at a restart: those between
\* their two calls are recorded.
LEMMA InterrottiIndirizzi ==
    ASSUME Tipi, Tipi', Indirizzi,
           UNCHANGED <<account, profilo, mail>>,
           \A o \in Operazioni : op'[o] = op[o] \/ op'[o].fase = "ferma",
           \A g \in Grafi : \/ vm'[g].utenteCorrente = vm[g].utenteCorrente
                           \/ vm'[g].utenteCorrente = Nessuno,
           interrotti \subseteq interrotti',
           \A o \in Operazioni : op[o].fase = "set" =>
               op'[o] = op[o] \/ op[o].email \in interrotti'
    PROVE  Indirizzi'
<1>1. Registrazioni'
  BY DEF Indirizzi, Registrazioni
<1>2. Accessi'
  BY DEF Indirizzi, Accessi, Entrato
<1>3. ProfiloSpiegato'
  BY DEF Indirizzi, ProfiloSpiegato
<1> QED
  BY <1>1, <1>2, <1>3 DEF Indirizzi

\* createUser or set throws, or the application starts again.
LEMMA FallimentiIndirizzi ==
    ASSUME Tipi, Tipi', Indirizzi,
           Riavvia \/ \E o \in Operazioni : SignUpFallisce(o)
    PROVE  Indirizzi'
<1>1. CASE Riavvia
  <2>1. \A o \in Operazioni : op'[o].fase = "ferma"
    BY <1>1 DEF Riavvia, Ferma
  <2>2. \A g \in Grafi : vm'[g].utenteCorrente = Nessuno
    BY <1>1 DEF Riavvia, NuovoVM
  <2>3. \A o \in Operazioni : op[o].fase = "set" => op[o].email \in interrotti'
    BY <1>1 DEF Riavvia
  <2>4. UNCHANGED <<account, profilo, mail>> /\ interrotti \subseteq interrotti'
    BY <1>1 DEF Riavvia, firebase
  <2> QED
    BY <2>1, <2>2, <2>3, <2>4, InterrottiIndirizzi
<1>2. ASSUME NEW o \in Operazioni, SignUpFallisce(o) PROVE Indirizzi'
  <2>1. /\ op' = [op EXCEPT ![o] = Ferma]
        /\ UNCHANGED <<account, profilo, mail, vm>>
        /\ interrotti \subseteq interrotti'
        /\ op[o].fase = "set" => op[o].email \in interrotti'
    BY <1>2 DEF SignUpFallisce, Termina, firebase
  <2>2. \A x \in Operazioni :
          IF x = o THEN op'[x].fase = "ferma" ELSE op'[x] = op[x]
    BY <2>1 DEF Tipi, TipiOp, Ferma
  <2> QED
    BY <2>1, <2>2, InterrottiIndirizzi
<1> QED
  BY <1>1, <1>2

\* The end of the login button's handler leaves users alone.
LEMMA DopoLoginUtente ==
    ASSUME Tipi, NEW o, NEW g \in Grafi, NEW v \in VM, DopoLogin(o, g, v)
    PROVE  \A h \in Grafi : vm'[h].utenteCorrente =
               IF h = g THEN v.utenteCorrente ELSE vm[h].utenteCorrente
<1> DEFINE k == IF Entra(v) /\ g \in vivi
                THEN ConProgetti(v, Destinazione(v)) ELSE v
<1>1. k.utenteCorrente = v.utenteCorrente
  BY ConProgettiTipi DEF Tipi
<1>2. vm' = [vm EXCEPT ![g] = k]
  BY DEF DopoLogin, AggiornaVM
<1> HIDE DEF k
<1> QED
  BY <1>1, <1>2 DEF Tipi, TipiVM

\* So it does when a login comes to nothing.
LEMMA LoginVano ==
    ASSUME Tipi, NEW o, NEW g \in Grafi, DopoLogin(o, g, vm[g])
    PROVE  \A h \in Grafi : vm'[h].utenteCorrente = vm[h].utenteCorrente
<1>1. PICK v \in VM : v = vm[g]
  BY DEF Tipi, TipiVM
<1>2. \A h \in Grafi : vm'[h].utenteCorrente =
          IF h = g THEN v.utenteCorrente ELSE vm[h].utenteCorrente
  BY <1>1, DopoLoginUtente
<1> QED
  BY <1>1, <1>2

\* One operation goes on, and the others wait.
LEMMA UnaProsegue ==
    ASSUME TipiOp, NEW o \in Operazioni, NEW x, op' = [op EXCEPT ![o] = x]
    PROVE  \A y \in Operazioni : op'[y] = IF y = o THEN x ELSE op[y]
BY DEF TipiOp

\* What the user does: only logins and registrations start anew, and a first
\* access is recorded for the user of the view model.
LEMMA ComandoEffetti ==
    ASSUME Tipi, Indirizzi, NEW g \in Grafi, Comando(g)
    PROVE  /\ UNCHANGED <<account, profilo, mail, interrotti>>
           /\ \A h \in Grafi : vm'[h].utenteCorrente = vm[h].utenteCorrente
           /\ \A o \in Operazioni :
                \/ op'[o] = op[o]
                \/ /\ op[o].fase # "set" /\ op'[o].fase # "set"
                   /\ op'[o].fase # "profilo"
                   /\ op'[o].fase = "update" => Entrato(op'[o].email)
<1>0. UNCHANGED <<account, profilo, mail, interrotti>>
  BY DEF Comando, Collegamento, Indietro, AccediSenzaDati, Accedi, SignUp,
         ResetPassword, UpdateFirstLogin, Logout, firebase
<1>1. \A h \in Grafi : vm'[h].utenteCorrente = vm[h].utenteCorrente
  <2>1. CASE AccediSenzaDati(g)
    BY <2>1, LoginVano DEF AccediSenzaDati
  <2>2. CASE \E o \in Operazioni :
               /\ UpdateFirstLogin(o, g)
               /\ AggiornaVM(g, ConProgetti(vm[g], "ituoiProgetti"))
    <3> DEFINE k == ConProgetti(vm[g], "ituoiProgetti")
    <3>1. k.utenteCorrente = vm[g].utenteCorrente
      BY ConProgettiTipi DEF Tipi, TipiVM
    <3>2. vm' = [vm EXCEPT ![g] = k]
      BY <2>2 DEF AggiornaVM
    <3> HIDE DEF k
    <3> QED
      BY <3>1, <3>2 DEF Tipi, TipiVM
  <2>3. CASE UNCHANGED vm
    BY <2>3
  <2> QED
    BY <2>1, <2>2, <2>3
    DEF Comando, Collegamento, Indietro, Accedi, SignUp, ResetPassword,
        UpdateFirstLogin, Logout
<1>2. \A o \in Operazioni :
        \/ op'[o] = op[o]
        \/ /\ op[o].fase # "set" /\ op'[o].fase # "set"
           /\ op'[o].fase # "profilo"
           /\ op'[o].fase = "update" => Entrato(op'[o].email)
  <2>1. CASE UNCHANGED op
    BY <2>1
  <2>2. ASSUME NEW o \in Operazioni, NEW f, NEW e, Avvia(o, f, g, e),
               f \notin {"set", "profilo"},
               f = "update" => Entrato(e)
        PROVE  \A z \in Operazioni :
                 \/ op'[z] = op[z]
                 \/ /\ op[z].fase # "set" /\ op'[z].fase # "set"
                    /\ op'[z].fase # "profilo"
                    /\ op'[z].fase = "update" => Entrato(op'[z].email)
    <3> DEFINE x == [fase |-> f, grafo |-> g, email |-> e]
    <3>1. op[o].fase = "ferma" /\ op' = [op EXCEPT ![o] = x]
      BY <2>2 DEF Avvia
    <3>2. x.fase = f /\ x.email = e
      OBVIOUS
    <3> HIDE DEF x
    <3>3. \A y \in Operazioni : op'[y] = IF y = o THEN x ELSE op[y]
      BY <3>1, UnaProsegue DEF Tipi
    <3> QED
      BY <2>2, <3>1, <3>2, <3>3
  <2>3. \/ UNCHANGED op
        \/ \E o \in Operazioni, e \in Account \cup {Nessuno} :
             \/ Avvia(o, "signIn", g, e) \/ Avvia(o, "createUser", g, e)
             \/ Avvia(o, "reset", g, e) \/ Avvia(o, "signOut", g, e)
             \/ /\ Avvia(o, "update", g, e) /\ e = vm[g].utenteCorrente
                /\ e # Nessuno
    <3>1. vm[g].utenteCorrente \in Account \cup {Nessuno}
      BY DEF Tipi, TipiVM, VM
    <3> QED
      BY <3>1
      DEF Comando, Collegamento, Indietro, AccediSenzaDati, Accedi, SignUp,
          ResetPassword, UpdateFirstLogin, Logout
  <2>4. vm[g].utenteCorrente # Nessuno => Entrato(vm[g].utenteCorrente)
    BY DEF Indirizzi, Accessi
  <2> QED
    BY <2>1, <2>2, <2>3, <2>4
<1> QED
  BY <1>0, <1>1, <1>2

\* So nothing comes undone.
LEMMA ComandoIndirizzi ==
    ASSUME Tipi, Tipi', Indirizzi, NEW g \in Grafi, Comando(g)
    PROVE  Indirizzi'
BY ComandoEffetti, IndirizziFermi

\* One operation goes on that stores no profile; at most one NavGraph gets a user,
\* or loses its own.
UnaAvanti(o) ==
    /\ UNCHANGED <<account, profilo, mail, interrotti>>
    /\ op[o].fase # "set"
    /\ \E x : /\ op' = [op EXCEPT ![o] = x]
              /\ x.fase \notin {"set", "update"}
              /\ x.fase = "profilo" => account[x.email] = "verificato"
    /\ \/ \A h \in Grafi : vm'[h].utenteCorrente = vm[h].utenteCorrente
       \/ \E g \in Grafi, u \in Account \cup {Nessuno} :
            /\ u # Nessuno => Entrato(u)
            /\ \A h \in Grafi : vm'[h].utenteCorrente =
                  IF h = g THEN u ELSE vm[h].utenteCorrente

\* So it is when an operation ends and no user comes or goes.
LEMMA FineAvanti ==
    ASSUME NEW o, op' = [op EXCEPT ![o] = Ferma], op[o].fase # "set",
           UNCHANGED <<account, profilo, mail, interrotti>>,
           \A h \in Grafi : vm'[h].utenteCorrente = vm[h].utenteCorrente
    PROVE  UnaAvanti(o)
<1>1. Ferma.fase = "ferma"
  BY DEF Ferma
<1>2. \E x : /\ op' = [op EXCEPT ![o] = x]
             /\ x.fase \notin {"set", "update"}
             /\ x.fase = "profilo" => account[x.email] = "verificato"
  <2>1. PICK x : x = Ferma
    OBVIOUS
  <2> QED
    BY <1>1, <2>1
<1> QED
  BY <1>2 DEF UnaAvanti

\* Nothing comes undone by it.
LEMMA UnaIndirizzi ==
    ASSUME Tipi, Tipi', Indirizzi, NEW o \in Operazioni, UnaAvanti(o)
    PROVE  Indirizzi'
<1>1. PICK x : /\ op' = [op EXCEPT ![o] = x]
               /\ x.fase \notin {"set", "update"}
               /\ x.fase = "profilo" => account[x.email] = "verificato"
  BY DEF UnaAvanti
<1>2. \A y \in Operazioni : op'[y] = IF y = o THEN x ELSE op[y]
  BY <1>1, UnaProsegue DEF Tipi
<1>3. \A y \in Operazioni :
        \/ op'[y] = op[y]
        \/ /\ op[y].fase # "set" /\ op'[y].fase # "set"
           /\ op'[y].fase = "profilo" => account[op'[y].email] = "verificato"
           /\ op'[y].fase = "update" => Entrato(op'[y].email)
  BY <1>1, <1>2 DEF UnaAvanti
<1>4. \A g \in Grafi : \/ vm'[g].utenteCorrente = vm[g].utenteCorrente
                      \/ vm'[g].utenteCorrente = Nessuno
                      \/ Entrato(vm'[g].utenteCorrente)
  <2>1. CASE \A h \in Grafi : vm'[h].utenteCorrente = vm[h].utenteCorrente
    BY <2>1
  <2>2. CASE \E g \in Grafi, u \in Account \cup {Nessuno} :
               /\ u # Nessuno => Entrato(u)
               /\ \A h \in Grafi : vm'[h].utenteCorrente =
                     IF h = g THEN u ELSE vm[h].utenteCorrente
    <3>1. PICK g \in Grafi, u \in Account \cup {Nessuno} :
            /\ u # Nessuno => Entrato(u)
            /\ \A h \in Grafi : vm'[h].utenteCorrente =
                  IF h = g THEN u ELSE vm[h].utenteCorrente
      BY <2>2
    <3> QED
      BY <3>1
  <2> QED
    BY <2>1, <2>2 DEF UnaAvanti
<1> QED
  BY <1>3, <1>4, IndirizziFermi DEF UnaAvanti

\* The record of an operation that awaits its next call.
LEMMA ProseguiRecord ==
    ASSUME TipiOp, NEW o \in Operazioni, NEW f, Prosegui(o, f)
    PROVE  \E x : /\ op' = [op EXCEPT ![o] = x]
                  /\ x.fase = f /\ x.email = op[o].email
<1> DEFINE x == [op[o] EXCEPT !.fase = f]
<1>1. op[o] \in Operazione
  BY DEF TipiOp
<1>2. x.fase = f /\ x.email = op[o].email
  BY <1>1 DEF Operazione
<1>3. op' = [op EXCEPT ![o] = x]
  BY DEF Prosegui
<1> HIDE DEF x
<1> QED
  BY <1>2, <1>3

\* login: only the profile of a verified user is fetched.
LEMMA LoginAvanti ==
    ASSUME Tipi, Indirizzi, NEW o \in Operazioni,
           \/ SignIn(o) \/ IsEmailVerified(o) \/ FetchUserProfile(o)
           \/ IsFirstLogin(o) \/ LoginFallisce(o)
    PROVE  UnaAvanti(o)
<1> DEFINE g == op[o].grafo
<1>1. op[o].grafo \in Grafi /\ vm[op[o].grafo] \in VM
  BY InCorso DEF Tipi, TipiVM
<1>3. UNCHANGED <<account, profilo, mail, interrotti>>
  BY DEF SignIn, IsEmailVerified, FetchUserProfile, IsFirstLogin, LoginFallisce,
         firebase
<1>4. CASE SignIn(o)
  <2>1. PICK x : /\ op' = [op EXCEPT ![o] = x]
                 /\ x.fase = "reload"
    BY <1>4, ProseguiRecord DEF SignIn, Tipi
  <2> QED
    BY <1>3, <1>4, <2>1 DEF UnaAvanti, SignIn
<1>5. CASE IsEmailVerified(o)
  <2>1. CASE Verificato(op[o].email)
    <3>1. PICK x : /\ op' = [op EXCEPT ![o] = x]
                   /\ x.fase = "profilo" /\ x.email = op[o].email
      BY <1>5, <2>1, ProseguiRecord DEF IsEmailVerified, Tipi
    <3>2. account[x.email] = "verificato" /\ UNCHANGED vm /\ op[o].fase = "reload"
      BY <1>5, <2>1, <3>1 DEF IsEmailVerified, Verificato
    <3> QED
      BY <1>3, <3>1, <3>2 DEF UnaAvanti
  <2>2. CASE ~Verificato(op[o].email)
    <3>1. /\ DopoLogin(o, op[o].grafo, vm[op[o].grafo])
          /\ op' = [op EXCEPT ![o] = Ferma]
          /\ op[o].fase = "reload"
      BY <1>5, <2>2 DEF IsEmailVerified, Termina
    <3>2. \A h \in Grafi : vm'[h].utenteCorrente = vm[h].utenteCorrente
      BY <1>1, <3>1, LoginVano
    <3> QED
      BY <1>3, <3>1, <3>2, FineAvanti
  <2> QED
    BY <2>1, <2>2
<1>6. CASE FetchUserProfile(o)
  <2>1. PICK e \in Account : e = op[o].email
    BY <1>6, InCorso DEF FetchUserProfile, Tipi, ConEmail
  <2>2. account[e] = "verificato" /\ op[o].fase = "profilo"
    BY <1>6, <2>1 DEF FetchUserProfile, Indirizzi, Accessi
  <2>3. PICK u : /\ u = Nessuno \/ (u = e /\ profilo[e] # "assente")
                 /\ AggiornaVM(g, [vm[g] EXCEPT !.utenteCorrente = u])
    BY <1>6, <2>1 DEF FetchUserProfile
  <2>4. PICK x : /\ op' = [op EXCEPT ![o] = x]
                 /\ x.fase = "primoAccesso"
    BY <1>6, ProseguiRecord DEF FetchUserProfile, Tipi
  <2>5. \A h \in Grafi : vm'[h].utenteCorrente =
            IF h = g THEN u ELSE vm[h].utenteCorrente
    <3> DEFINE k == [vm[g] EXCEPT !.utenteCorrente = u]
    <3>1. k.utenteCorrente = u
      BY <1>1 DEF VM
    <3>2. vm' = [vm EXCEPT ![g] = k]
      BY <2>3 DEF AggiornaVM
    <3> HIDE DEF k
    <3> QED
      BY <3>1, <3>2 DEF Tipi, TipiVM
  <2>6. u \in Account \cup {Nessuno} /\ (u # Nessuno => Entrato(u)) /\ g \in Grafi
    BY <1>1, <2>2, <2>3 DEF Entrato
  <2> HIDE DEF g
  <2> QED
    BY <1>3, <2>2, <2>4, <2>5, <2>6 DEF UnaAvanti
<1>7. CASE IsFirstLogin(o)
  <2> DEFINE v == [vm[g] EXCEPT
                       !.firstLogin = (profilo[op[o].email] # "visto"),
                       !.loginSuccessful = TRUE]
  <2>1. v \in VM /\ v.utenteCorrente = vm[g].utenteCorrente
    BY <1>1 DEF VM
  <2>2. /\ DopoLogin(o, g, v)
        /\ op' = [op EXCEPT ![o] = Ferma]
        /\ op[o].fase = "primoAccesso"
    BY <1>7 DEF IsFirstLogin, Termina
  <2> HIDE DEF v
  <2>3. \A h \in Grafi : vm'[h].utenteCorrente = vm[h].utenteCorrente
    BY <1>1, <2>1, <2>2, DopoLoginUtente
  <2> QED
    BY <1>3, <2>2, <2>3, FineAvanti
<1>8. CASE LoginFallisce(o)
  <2>1. /\ DopoLogin(o, op[o].grafo, vm[op[o].grafo])
        /\ op' = [op EXCEPT ![o] = Ferma]
        /\ op[o].fase \in {"signIn", "reload", "primoAccesso"}
    BY <1>8 DEF LoginFallisce, Termina
  <2>2. \A h \in Grafi : vm'[h].utenteCorrente = vm[h].utenteCorrente
    BY <1>1, <2>1, LoginVano
  <2> QED
    BY <1>3, <2>1, <2>2, FineAvanti
<1> QED
  BY <1>4, <1>5, <1>6, <1>7, <1>8

\* resetPassword, logout and calls that throw; after a logout the new NavGraph
\* knows nobody.
LEMMA AltriAvanti ==
    ASSUME Tipi, NEW o \in Operazioni,
           SendPasswordResetEmail(o) \/ SignOut(o) \/ Fallisce(o)
    PROVE  UnaAvanti(o)
<1>1. /\ op' = [op EXCEPT ![o] = Ferma]
      /\ op[o].fase # "set"
      /\ UNCHANGED <<account, profilo, mail, interrotti>>
      /\ \/ UNCHANGED vm
         \/ \E n \in Grafi : AggiornaVM(n, NuovoVM)
  BY DEF SendPasswordResetEmail, SignOut, Fallisce, Termina, firebase
<1>2. Ferma.fase = "ferma"
  BY DEF Ferma
<1>3. ASSUME NEW n \in Grafi, AggiornaVM(n, NuovoVM)
      PROVE  \A h \in Grafi : vm'[h].utenteCorrente =
                 IF h = n THEN Nessuno ELSE vm[h].utenteCorrente
  <2>1. \A h \in Grafi : vm'[h] = IF h = n THEN NuovoVM ELSE vm[h]
    BY <1>3 DEF AggiornaVM, Tipi, TipiVM
  <2>2. NuovoVM.utenteCorrente = Nessuno
    BY DEF NuovoVM
  <2> QED
    BY <2>1, <2>2
<1> QED
  BY <1>1, <1>2, <1>3 DEF UnaAvanti

\* Verification e-mails go to accounts that exist.
LEMMA VerificaIndirizzi ==
    ASSUME Tipi, Tipi', Indirizzi, NEW e \in Account, VerificaIndirizzo(e)
    PROVE  Indirizzi'
<1>1. /\ e \in mail
      /\ account' = [account EXCEPT ![e] = "verificato"]
      /\ UNCHANGED <<profilo, mail, vm, op, interrotti>>
  BY DEF VerificaIndirizzo
<1>2. account[e] # "assente"
  BY <1>1 DEF Indirizzi, Registrazioni
<1>3. \A x \in Account :
        account'[x] = IF x = e THEN "verificato" ELSE account[x]
  BY <1>1 DEF Tipi, TipiFirebase
<1> QED
  BY <1>1, <1>2, <1>3, IndirizziFermi

\* Nobody is registered, and nobody has logged in.
LEMMA IndirizziInit == Init => Indirizzi
<1> SUFFICES ASSUME Init PROVE Indirizzi
  OBVIOUS
<1>1. /\ \A o \in Operazioni : op[o].fase = "ferma"
      /\ \A g \in Grafi : vm[g].utenteCorrente = Nessuno
      /\ \A e \in Account : account[e] = "assente" /\ profilo[e] = "assente"
      /\ mail = {}
  BY DEF Init, Ferma, NuovoVM
<1> QED
  BY <1>1 DEF Indirizzi, Registrazioni, Accessi, ProfiloSpiegato

\* Every step keeps them so.
LEMMA IndirizziNext == Tipi /\ Indirizzi /\ [Next]_vars => Indirizzi'
<1> SUFFICES ASSUME Tipi, Indirizzi, [Next]_vars PROVE Indirizzi'
  OBVIOUS
<1>1. Tipi'
  BY TipiNext
<1>2. CASE UNCHANGED vars
  BY <1>2 DEF vars, Indirizzi, Registrazioni, Accessi, Entrato, ProfiloSpiegato
<1>3. ASSUME NEW g \in Grafi, Comando(g) PROVE Indirizzi'
  BY <1>1, <1>3, ComandoIndirizzi
<1>4. ASSUME NEW o \in Operazioni, Passo(o) PROVE Indirizzi'
  BY <1>1, <1>4, LoginAvanti, AltriAvanti, UnaIndirizzi, CreateUserIndirizzi,
     ProfiloIndirizzi, FallimentiIndirizzi
  DEF Passo
<1>5. ASSUME NEW e \in Account, VerificaIndirizzo(e) PROVE Indirizzi'
  BY <1>1, <1>5, VerificaIndirizzi
<1> QED
  BY <1>1, <1>2, <1>3, <1>4, <1>5, FallimentiIndirizzi DEF Next

\* signUp is two calls in two services: an account that has no profile is being
\* registered or its registration was interrupted between them.
THEOREM ProfiliSempreSpiegati == Spec => []ProfiloSpiegato
<1>1. Indirizzi => ProfiloSpiegato
  BY DEF Indirizzi
<1> QED
  BY <1>1, TipiInit, TipiNext, IndirizziInit, IndirizziNext, PTL DEF Spec

\* login: a view model only ever holds a user who has verified his address,
\* whatever other logins and registrations do to currentUser meanwhile.
THEOREM UtentiVerificati == Spec => []SoloVerificati
<1>1. Tipi /\ Indirizzi => SoloVerificati
  <2> SUFFICES ASSUME Tipi, Indirizzi, NEW g \in vivi,
                      vm[g].utenteCorrente # Nessuno
               PROVE  account[vm[g].utenteCorrente] = "verificato"
    BY DEF SoloVerificati
  <2>1. g \in Grafi
    BY LimitiAssumption DEF Tipi, Pile, PileDi, Grafi
  <2> QED
    BY <2>1 DEF Indirizzi, Accessi, Entrato
<1> QED
  BY <1>1, TipiInit, TipiNext, IndirizziInit, IndirizziNext, PTL DEF Spec

\* isFirstLogin: set stores a profile only where there is none, so that a first
\* access that updateFirstLogin has recorded is never forgotten.
THEOREM PrimoAccessoRegistrato == Spec => PrimoAccessoNonTorna
<1> DEFINE Resta == \A e \in Account : profilo[e] = "visto" => profilo'[e] = "visto"
<1>1. Tipi /\ Indirizzi /\ [Next]_vars => [Resta]_vars
  <2> SUFFICES ASSUME Tipi, Indirizzi, [Next]_vars PROVE [Resta]_vars
    OBVIOUS
  <2>1. CASE UNCHANGED profilo
    BY <2>1
  <2>2. ASSUME NEW o \in Operazioni, SetProfilo(o) PROVE Resta
    <3>1. /\ profilo' = [profilo EXCEPT ![op[o].email] = "primo"]
          /\ profilo[op[o].email] = "assente"
      BY <2>2 DEF SetProfilo, ConProfilo, Indirizzi, Registrazioni
    <3> QED
      BY <3>1 DEF Tipi, TipiFirebase
  <2>3. ASSUME NEW o \in Operazioni, UpdatePrimoAccesso(o) PROVE Resta
    <3>1. profilo' = [profilo EXCEPT ![op[o].email] = "visto"]
      BY <2>3 DEF UpdatePrimoAccesso, Visto
    <3> QED
      BY <3>1 DEF Tipi, TipiFirebase
  <2>4. \/ UNCHANGED profilo
        \/ \E o \in Operazioni : SetProfilo(o) \/ UpdatePrimoAccesso(o)
    BY DEF Next, Comando, Passo, Collegamento, Indietro, AccediSenzaDati, Accedi,
           SignUp, ResetPassword, UpdateFirstLogin, Logout, SignIn,
           IsEmailVerified, FetchUserProfile, IsFirstLogin, LoginFallisce,
           CreateUser, SignUpFallisce, SendPasswordResetEmail, SignOut, Fallisce,
           VerificaIndirizzo, Riavvia, firebase, vars
  <2> QED
    BY <2>1, <2>2, <2>3, <2>4
<1> QED
  BY <1>1, TipiInit, TipiNext, IndirizziInit, IndirizziNext, PTL
  DEF Spec, PrimoAccessoNonTorna

-----------------------------------------------------------------------------
(* Accesso implements Conti.                                               *)

\* What `conto`, `confermati` and `dentro` of Conti are here.
Conto == [e \in Account |-> StatoDi(e)]

Confermati == {e \in Account : account[e] = "verificato"}

Presenti == [g \in Grafi |-> vm[g].utenteCorrente]

\* How far an account has come, by its document.
LEMMA StatoDiCasi ==
    ASSUME NEW e \in Account
    PROVE  /\ account[e] = "assente" => StatoDi(e) = "libero"
           /\ account[e] # "assente" =>
                /\ profilo[e] = "assente" => StatoDi(e) = "sospeso"
                /\ profilo[e] = "primo" => StatoDi(e) = "nuovo"
                /\ profilo[e] = "visto" => StatoDi(e) = "conosciuto"
BY DEF StatoDi

\* So it is after a step.
LEMMA StatoDiCasiDopo ==
    ASSUME NEW e \in Account
    PROVE  /\ account'[e] = "assente" => StatoDi(e)' = "libero"
           /\ account'[e] # "assente" =>
                /\ profilo'[e] = "assente" => StatoDi(e)' = "sospeso"
                /\ profilo'[e] = "primo" => StatoDi(e)' = "nuovo"
                /\ profilo'[e] = "visto" => StatoDi(e)' = "conosciuto"
BY DEF StatoDi

\* A free address is one without an account, and an account goes on through its
\* registration until its profile is stored.
LEMMA ContoDice ==
    ASSUME Tipi, NEW e \in Account
    PROVE  /\ Conto[e] = StatoDi(e)
           /\ account[e] # "assente" => Conto[e] # "libero"
           /\ account[e] # "assente" /\ profilo[e] # "assente" =>
                Conto[e] \in Astratto!Completi
BY StatoDiCasi
DEF Tipi, TipiFirebase, StatiAccount, StatiProfilo, Conto, Astratto!Completi

\* Accounts and profiles stay as they are.
LEMMA ContoFermo ==
    ASSUME UNCHANGED <<account, profilo>>
    PROVE  UNCHANGED <<Conto, Confermati>>
BY DEF Conto, Confermati, StatoDi

\* One account comes further.
LEMMA ContoDiventa ==
    ASSUME NEW e \in Account, NEW s, StatoDi(e)' = s,
           \A x \in Account \ {e} :
               account'[x] = account[x] /\ profilo'[x] = profilo[x]
    PROVE  Conto' = [Conto EXCEPT ![e] = s]
<1>1. ASSUME NEW x \in Account \ {e} PROVE StatoDi(x)' = StatoDi(x)
  BY <1>1 DEF StatoDi
<1>2. Conto' = [x \in Account |-> IF x = e THEN s ELSE StatoDi(x)]
  BY <1>1 DEF Conto
<1> QED
  BY <1>2 DEF Conto

\* One operation ends, and the others wait.
LEMMA UnaTermina ==
    ASSUME TipiOp, NEW o \in Operazioni, Termina(o)
    PROVE  /\ op'[o].fase = "ferma"
           /\ \A x \in Operazioni : x # o => op'[x] = op[x]
<1>1. PICK x : x.fase = "ferma" /\ op' = [op EXCEPT ![o] = x]
  <2>1. Ferma.fase = "ferma"
    BY DEF Ferma
  <2> QED
    BY <2>1 DEF Termina
<1>2. \A y \in Operazioni : op'[y] = IF y = o THEN x ELSE op[y]
  BY <1>1, UnaProsegue
<1> QED
  BY <1>1, <1>2

\* Registrations that are not between their two calls do not show, ...
LEMMA RegistrantiFermi ==
    ASSUME \A x \in Operazioni :
               op'[x] = op[x] \/ (op[x].fase # "set" /\ op'[x].fase # "set")
    PROVE  UNCHANGED InRegistrazione
<1>1. {x \in Operazioni : op'[x].fase = "set"} =
      {x \in Operazioni : op[x].fase = "set"}
  OBVIOUS
<1>2. ASSUME NEW x \in Operazioni, op[x].fase = "set"
      PROVE  op'[x].email = op[x].email
  BY <1>2
<1> QED
  BY <1>1, <1>2 DEF InRegistrazione

\* ... and no two of them are of one address.
LEMMA RegistranteFinisce ==
    ASSUME Tipi, Indirizzi, NEW o \in Operazioni, op[o].fase = "set", Termina(o)
    PROVE  /\ op[o].email \in InRegistrazione
           /\ InRegistrazione' = InRegistrazione \ {op[o].email}
<1>1. /\ op'[o].fase = "ferma"
      /\ \A x \in Operazioni : x # o => op'[x] = op[x]
  BY UnaTermina DEF Tipi
<1>2. ASSUME NEW x \in Operazioni, x # o, op[x].fase = "set"
      PROVE  op[x].email # op[o].email
  BY <1>2 DEF Indirizzi, Registrazioni
<1> QED
  BY <1>1, <1>2 DEF InRegistrazione

\* Users stay where they are.
LEMMA PresentiFermi ==
    ASSUME \A g \in Grafi : vm'[g].utenteCorrente = vm[g].utenteCorrente
    PROVE  UNCHANGED Presenti
BY DEF Presenti

\* The instance, in the words above.
LEMMA AstrattoStato ==
    ASSUME UNCHANGED <<Conto, InRegistrazione, mail, Confermati, Presenti>>
    PROVE  UNCHANGED Astratto!stato
BY DEF Astratto!stato, Conto, Confermati, Presenti

\* What the user does on the screens only asks for something.
LEMMA AstrattoComando ==
    ASSUME Tipi, Indirizzi, NEW g \in Grafi, Comando(g)
    PROVE  UNCHANGED Astratto!stato
BY ComandoEffetti, ContoFermo, RegistrantiFermi, PresentiFermi, AstrattoStato

\* The user of one NavGraph comes or goes, at most.
LEMMA AstrattoAvanti ==
    ASSUME Tipi, Indirizzi, NEW o \in Operazioni, UnaAvanti(o)
    PROVE  [Astratto!Evento]_(Astratto!stato)
<1>1. PICK x : op' = [op EXCEPT ![o] = x] /\ x.fase \notin {"set", "update"}
  BY DEF UnaAvanti
<1>2. \A y \in Operazioni : op'[y] = IF y = o THEN x ELSE op[y]
  BY <1>1, UnaProsegue DEF Tipi
<1>3. UNCHANGED <<Conto, Confermati, InRegistrazione, mail>>
  BY <1>1, <1>2, ContoFermo, RegistrantiFermi DEF UnaAvanti
<1>4. CASE \A h \in Grafi : vm'[h].utenteCorrente = vm[h].utenteCorrente
  BY <1>3, <1>4, PresentiFermi, AstrattoStato
<1>5. ASSUME NEW g \in Grafi, NEW u \in Account \cup {Nessuno},
             u # Nessuno => Entrato(u),
             \A h \in Grafi : vm'[h].utenteCorrente =
                 IF h = g THEN u ELSE vm[h].utenteCorrente
      PROVE  Astratto!Evento
  <2>1. Presenti' = [Presenti EXCEPT ![g] = u]
    BY <1>5 DEF Presenti
  <2>2. CASE u = Nessuno
    <3>1. Astratto!Esce(g)
      BY <1>3, <2>1, <2>2 DEF Astratto!Esce, Conto, Confermati, Presenti
    <3> QED
      BY <3>1 DEF Astratto!Evento
  <2>3. CASE u # Nessuno
    <3>1. /\ u \in Account /\ u \in Confermati
          /\ Conto[u] \in Astratto!Completi
      BY <1>5, <2>3, ContoDice DEF Entrato, Confermati
    <3>2. Astratto!Entra(g, u)
      BY <1>3, <2>1, <3>1 DEF Astratto!Entra, Conto, Confermati, Presenti
    <3> QED
      BY <3>1, <3>2 DEF Astratto!Evento
  <2> QED
    BY <2>2, <2>3
<1> QED
  BY <1>4, <1>5 DEF UnaAvanti

\* createUser begins a registration of a free address.
LEMMA AstrattoInizia ==
    ASSUME Tipi, Indirizzi, NEW o \in Operazioni, CreateUser(o)
    PROVE  Astratto!Evento
<1>1. PICK e \in Account : e = op[o].email
  BY InCorso DEF CreateUser, Tipi, ConEmail
<1>2. /\ account[e] = "assente"
      /\ account' = [account EXCEPT ![e] = "daVerificare"]
      /\ UNCHANGED <<profilo, mail, vm>>
      /\ op' = [op EXCEPT ![o].fase = "set"]
      /\ op[o].fase = "createUser"
  BY <1>1 DEF CreateUser, IndirizzoLibero, Prosegui
<1>3. profilo[e] = "assente"
  BY <1>2 DEF Indirizzi, Registrazioni
<1>4. \A x \in Account : account'[x] = IF x = e THEN "daVerificare" ELSE account[x]
  BY <1>2 DEF Tipi, TipiFirebase
<1>5. /\ op'[o].fase = "set" /\ op'[o].email = e
      /\ \A x \in Operazioni : x # o => op'[x] = op[x]
  BY <1>1, <1>2 DEF Tipi, TipiOp, BenFormata, Operazione
<1>6. Conto[e] = "libero"
  BY <1>2, StatoDiCasi DEF Conto
<1>7. Conto' = [Conto EXCEPT ![e] = "sospeso"]
  <2>1. StatoDi(e)' = "sospeso"
    BY <1>2, <1>3, <1>4, StatoDiCasiDopo
  <2> QED
    BY <1>2, <1>4, <2>1, ContoDiventa
<1>8. InRegistrazione' = InRegistrazione \cup {e}
  BY <1>2, <1>5 DEF InRegistrazione
<1>9. Confermati' = Confermati
  BY <1>2, <1>4 DEF Confermati
<1>10. Astratto!Inizia(e)
  BY <1>2, <1>6, <1>7, <1>8, <1>9
  DEF Astratto!Inizia, Astratto!Diventa, Conto, Confermati
<1> QED
  BY <1>10 DEF Astratto!Evento

\* set completes the registration that createUser has begun; the e-mail goes to
\* whoever is authenticated by now.
LEMMA AstrattoCompleta ==
    ASSUME Tipi, Indirizzi, NEW o \in Operazioni, SetProfilo(o)
    PROVE  Astratto!Evento
<1>1. PICK e \in Account : e = op[o].email
  BY InCorso DEF SetProfilo, Tipi, ConEmail
<1>2. /\ op[o].fase = "set" /\ Termina(o)
      /\ profilo' = [profilo EXCEPT ![e] = "primo"]
      /\ UNCHANGED <<account, vm>>
  BY <1>1 DEF SetProfilo, ConProfilo
<1>3. account[e] # "assente" /\ profilo[e] = "assente"
  BY <1>1, <1>2 DEF Indirizzi, Registrazioni
<1>4. \A x \in Account : profilo'[x] = IF x = e THEN "primo" ELSE profilo[x]
  BY <1>2 DEF Tipi, TipiFirebase
<1>5. Conto[e] = "sospeso"
  BY <1>3, StatoDiCasi DEF Conto
<1>6. Conto' = [Conto EXCEPT ![e] = "nuovo"]
  <2>1. StatoDi(e)' = "nuovo"
    BY <1>2, <1>3, <1>4, StatoDiCasiDopo
  <2> QED
    BY <1>2, <1>4, <2>1, ContoDiventa
<1>7. e \in InRegistrazione /\ InRegistrazione' = InRegistrazione \ {e}
  BY <1>1, <1>2, RegistranteFinisce
<1>8. UNCHANGED <<Confermati, Presenti>>
  BY <1>2 DEF Confermati, Presenti
<1>9. \/ UNCHANGED mail
      \/ \E f \in Account \ Confermati : /\ Conto[f] # "libero"
                                         /\ mail' = mail \cup {f}
  <2>1. CASE auth # Nessuno /\ account[auth] = "daVerificare"
             /\ mail' = mail \cup {auth}
    <3>1. auth \in Account \ Confermati
      BY <2>1 DEF Tipi, TipiFirebase, Confermati
    <3>2. Conto[auth] # "libero"
      BY <2>1, <3>1, ContoDice
    <3> QED
      BY <2>1, <3>1, <3>2
  <2> QED
    BY <2>1 DEF SetProfilo
<1>10. Astratto!Completa(e)
  BY <1>5, <1>6, <1>7, <1>8, <1>9
  DEF Astratto!Completa, Astratto!Diventa, Conto, Confermati, Presenti
<1> QED
  BY <1>10 DEF Astratto!Evento

\* A call of signUp throws: the registration is given up, if it had begun.
LEMMA AstrattoRinuncia ==
    ASSUME Tipi, Indirizzi, NEW o \in Operazioni, SignUpFallisce(o)
    PROVE  [Astratto!Evento]_(Astratto!stato)
<1>1. /\ Termina(o) /\ op[o].fase \in {"createUser", "set"}
      /\ UNCHANGED <<account, profilo, mail, vm>>
  BY DEF SignUpFallisce, firebase
<1>2. UNCHANGED <<Conto, Confermati, Presenti>>
  BY <1>1, ContoFermo, PresentiFermi
<1>3. CASE op[o].fase = "set"
  <2>1. PICK e \in Account : e = op[o].email
    BY <1>3, InCorso DEF Tipi, ConEmail
  <2>2. e \in InRegistrazione /\ InRegistrazione' = InRegistrazione \ {e}
    BY <1>1, <1>3, <2>1, RegistranteFinisce
  <2>3. Astratto!Rinuncia(e)
    BY <1>1, <1>2, <2>2 DEF Astratto!Rinuncia, Conto, Confermati, Presenti
  <2> QED
    BY <2>3 DEF Astratto!Evento
<1>4. CASE op[o].fase # "set"
  <2>1. \A x \in Operazioni :
          op'[x] = op[x] \/ (op[x].fase # "set" /\ op'[x].fase # "set")
    BY <1>1, <1>4, UnaTermina DEF Tipi
  <2> QED
    BY <1>1, <1>2, <2>1, RegistrantiFermi, AstrattoStato
<1> QED
  BY <1>3, <1>4

\* updateFirstLogin: somebody who has been let in becomes known.
LEMMA AstrattoConosce ==
    ASSUME Tipi, Indirizzi, NEW o \in Operazioni, UpdatePrimoAccesso(o)
    PROVE  Astratto!Evento
<1>1. PICK e \in Account : e = op[o].email
  BY InCorso DEF UpdatePrimoAccesso, Tipi, ConEmail
<1>2. /\ op[o].fase = "update" /\ Termina(o)
      /\ profilo' = [profilo EXCEPT ![e] = "visto"]
      /\ UNCHANGED <<account, mail>>
  BY <1>1 DEF UpdatePrimoAccesso, Visto
<1>3. Entrato(e)
  BY <1>1, <1>2 DEF Indirizzi, Accessi
<1>4. e \in Confermati /\ Conto[e] \in Astratto!Completi
  BY <1>3, ContoDice DEF Entrato, Confermati
<1>5. \A x \in Account : profilo'[x] = IF x = e THEN "visto" ELSE profilo[x]
  BY <1>2 DEF Tipi, TipiFirebase
<1>6. Conto' = [Conto EXCEPT ![e] = "conosciuto"]
  <2>1. StatoDi(e)' = "conosciuto"
    BY <1>2, <1>3, <1>5, StatoDiCasiDopo DEF Entrato
  <2> QED
    BY <1>2, <1>5, <2>1, ContoDiventa
<1>7. UNCHANGED InRegistrazione
  <2>1. \A x \in Operazioni :
          op'[x] = op[x] \/ (op[x].fase # "set" /\ op'[x].fase # "set")
    BY <1>2, UnaTermina DEF Tipi
  <2> QED
    BY <2>1, RegistrantiFermi
<1>8. UNCHANGED <<Confermati, Presenti>>
  BY <1>2, UpdateUtente, PresentiFermi DEF Confermati
<1>9. Astratto!Conosce(e)
  BY <1>2, <1>4, <1>6, <1>7, <1>8
  DEF Astratto!Conosce, Astratto!Diventa, Conto, Confermati, Presenti
<1> QED
  BY <1>9 DEF Astratto!Evento

\* The link in the e-mail confirms an account that exists.
LEMMA AstrattoConferma ==
    ASSUME Tipi, Indirizzi, NEW e \in Account, VerificaIndirizzo(e)
    PROVE  Astratto!Evento
<1>1. /\ e \in mail
      /\ account' = [account EXCEPT ![e] = "verificato"]
      /\ UNCHANGED <<profilo, mail, vm, op>>
  BY DEF VerificaIndirizzo
<1>2. account[e] # "assente"
  BY <1>1 DEF Indirizzi, Registrazioni
<1>3. \A x \in Account : account'[x] = IF x = e THEN "verificato" ELSE account[x]
  BY <1>1 DEF Tipi, TipiFirebase
<1>4. Conto[e] # "libero"
  BY <1>2, ContoDice
<1>5. Conto' = Conto
  <2>1. ASSUME NEW x \in Account PROVE StatoDi(x)' = StatoDi(x)
    <3>1. profilo'[x] = profilo[x] /\ profilo[x] \in StatiProfilo
      BY <1>1 DEF Tipi, TipiFirebase
    <3>2. account'[x] = "assente" <=> account[x] = "assente"
      BY <1>2, <1>3
    <3> QED
      BY <3>1, <3>2, StatoDiCasi, StatoDiCasiDopo DEF StatiProfilo
  <2> QED
    BY <2>1 DEF Conto
<1>6. Confermati' = Confermati \cup {e}
  BY <1>3 DEF Confermati
<1>7. UNCHANGED <<InRegistrazione, Presenti>>
  BY <1>1 DEF InRegistrazione, Presenti
<1>8. Astratto!Conferma(e)
  BY <1>1, <1>4, <1>5, <1>6, <1>7
  DEF Astratto!Conferma, Conto, Confermati, Presenti
<1> QED
  BY <1>8 DEF Astratto!Evento

\* A restart forgets registrations and users.
LEMMA AstrattoRiparte ==
    ASSUME Riavvia
    PROVE  Astratto!Evento
<1>1. \A o \in Operazioni : op'[o].fase = "ferma"
  BY DEF Riavvia, Ferma
<1>2. InRegistrazione' = {}
  BY <1>1 DEF InRegistrazione
<1>3. \A g \in Grafi : vm'[g].utenteCorrente = Nessuno
  BY DEF Riavvia, NuovoVM
<1>4. Presenti' = [g \in Grafi |-> Nessuno]
  BY <1>3 DEF Presenti
<1>5. UNCHANGED <<Conto, Confermati, mail>>
  BY ContoFermo DEF Riavvia, firebase
<1>6. Astratto!Riparte
  BY <1>2, <1>4, <1>5 DEF Astratto!Riparte, Conto, Confermati, Presenti
<1> QED
  BY <1>6 DEF Astratto!Evento

\* Nobody has an account, and nobody is in.
LEMMA AstrattoInizio == Init => Astratto!Inizio
<1> SUFFICES ASSUME Init PROVE Astratto!Inizio
  OBVIOUS
<1>1. /\ \A o \in Operazioni : op[o].fase = "ferma"
      /\ \A g \in Grafi : vm[g].utenteCorrente = Nessuno
      /\ \A e \in Account : account[e] = "assente"
      /\ mail = {}
  BY DEF Init, Ferma, NuovoVM
<1>2. Conto = [e \in Account |-> "libero"]
  BY <1>1, StatoDiCasi DEF Conto
<1>3. InRegistrazione = {} /\ Confermati = {}
  BY <1>1 DEF InRegistrazione, Confermati
<1>4. Presenti = [g \in Grafi |-> Nessuno]
  BY <1>1 DEF Presenti
<1> QED
  BY <1>1, <1>2, <1>3, <1>4 DEF Astratto!Inizio, Conto, Confermati, Presenti

\* Every step is an event of Conti, or none.
LEMMA AstrattoNext ==
    Tipi /\ Indirizzi /\ [Next]_vars => [Astratto!Evento]_(Astratto!stato)
<1> SUFFICES ASSUME Tipi, Indirizzi, [Next]_vars
             PROVE  [Astratto!Evento]_(Astratto!stato)
  OBVIOUS
<1>1. CASE UNCHANGED vars
  <2>1. UNCHANGED <<account, profilo, mail, vm, op>>
    BY <1>1 DEF vars
  <2>2. UNCHANGED InRegistrazione
    BY <2>1 DEF InRegistrazione
  <2> QED
    BY <2>1, <2>2, ContoFermo, PresentiFermi, AstrattoStato
<1>2. ASSUME NEW g \in Grafi, Comando(g) PROVE UNCHANGED Astratto!stato
  BY <1>2, AstrattoComando
<1>3. ASSUME NEW o \in Operazioni, Passo(o)
      PROVE  [Astratto!Evento]_(Astratto!stato)
  BY <1>3, LoginAvanti, AltriAvanti, AstrattoAvanti, AstrattoInizia,
     AstrattoCompleta, AstrattoRinuncia, AstrattoConosce
  DEF Passo
<1> QED
  BY <1>1, <1>2, <1>3, AstrattoConferma, AstrattoRiparte DEF Next

\* The two services and the overlapping handlers of ViewModelUtente keep, of each
\* address, one account whose life only goes on: a profile is stored by the very
\* registration that created the account, a confirmed address stays so, only
\* confirmed addresses with a profile are let in, and who is known stays known.
THEOREM ImplementaConti == Spec => RaffinaConti
BY TipiInit, TipiNext, IndirizziInit, IndirizziNext, AstrattoInizio, AstrattoNext,
   PTL DEF Spec, RaffinaConti, Astratto!Storia

=============================================================================
