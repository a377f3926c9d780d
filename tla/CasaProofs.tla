----------------------------- MODULE CasaProofs -----------------------------
(***************************************************************************)
(* Theorems about Casa, for any number of projects and of activities at a  *)
(* time, and for a navigator of any depth.                                 *)
(***************************************************************************)
EXTENDS Casa, SequenceTheorems, FiniteSetTheorems, TLAPS

Pagine == {"casa", "dialogo"} \cup Progetti

\* The phases of calls that the user has started.
DiComando == {"entra", "crea", "abbandona", "fatto"}

Comandata(x) ==
    /\ x.fase \notin DiComando => x.comando = Nessuno
    /\ x.fase \in DiComando \ {"fatto"} => x.progetto \in Progetti

Campi == /\ iscritto \subseteq Progetti
         /\ progetti \subseteq Progetti
         /\ contati \subseteq Progetti
         /\ completati \subseteq Progetti
         /\ caricando \in BOOLEAN
         /\ storia \in Storia

\* A navigator with the pages s: the first is the home page, and a dialog is only
\* on top.
Impilata(s) == /\ s \in Seq(Pagine)
               /\ Len(s) <= MaxPila
               /\ \A i \in 1..Len(s) : s[i] = "dialogo" => i = Len(s)
               /\ Len(s) > 0 => s[1] = "casa"

DialogoSu(s) == Len(s) > 0 /\ s[Len(s)] = "dialogo"

\* The activities o over the pages s: the dialog an activity believes open is open,
\* and those that have lost theirs are accounted for in the history st.
Attive(o, s, st) ==
    /\ o \in [Slot -> Attivita]
    /\ \A k \in Slot :
         /\ Comandata(o[k])
         /\ o[k].dialogo => DialogoSu(s)
         /\ (o[k].comando \in {"entra", "crea"} /\ ~o[k].dialogo) =>
               st.sopravvissuta

\* TypeOK, VuotoSpiegato and CaricandoSpiegato, made inductive.
Inv == /\ Campi
       /\ Impilata(pila)
       /\ Attive(op, pila, storia)
       /\ VuotoSpiegato
       /\ CaricandoSpiegato

-----------------------------------------------------------------------------
(* Pages.                                                                  *)

\* Without its top page the navigator shows no dialog.
LEMMA SenzaCimaImpilata ==
    ASSUME NEW s, Impilata(s), NEW r, r = SubSeq(s, 1, Len(s) - 1)
    PROVE  /\ Impilata(r)
           /\ Len(r) = IF Len(s) = 0 THEN 0 ELSE Len(s) - 1
           /\ \A i \in 1..Len(r) : r[i] # "dialogo"
<1>1. s \in Seq(Pagine) /\ Len(s) \in Nat
  BY LenProperties DEF Impilata
<1>2. \A i \in 1..(Len(s) - 1) : s[i] \in Pagine
  BY <1>1, ElementOfSeq
<1>3. /\ r \in Seq(Pagine)
      /\ Len(r) = IF Len(s) = 0 THEN 0 ELSE Len(s) - 1
      /\ \A i \in 1..Len(r) : r[i] = s[i]
  BY <1>1, <1>2, SubSeqProperties
<1>4. Len(r) \in Nat
  BY <1>3, LenProperties
<1>5. \A i \in 1..Len(r) : i \in 1..Len(s) /\ i # Len(s)
  BY <1>1, <1>3, <1>4
<1>6. \A i \in 1..Len(r) : r[i] # "dialogo"
  BY <1>3, <1>5 DEF Impilata
<1>7. Len(r) <= MaxPila
  BY <1>1, <1>3, MaxPilaAssumption DEF Impilata
<1>8. Len(r) > 0 => r[1] = "casa"
  BY <1>1, <1>3, <1>4 DEF Impilata
<1>9. Impilata(r)
  BY <1>3, <1>6, <1>7, <1>8 DEF Impilata
<1> QED
  BY <1>3, <1>6, <1>9

\* A page is put on a navigator that shows no dialog.
LEMMA AggiuntaImpilata ==
    ASSUME NEW s, Impilata(s), NEW x \in Pagine, Len(s) < MaxPila,
           \A i \in 1..Len(s) : s[i] # "dialogo",
           Len(s) = 0 => x = "casa"
    PROVE  Impilata(Append(s, x)) /\ Len(Append(s, x)) > 0
<1> DEFINE r == Append(s, x)
<1>1. s \in Seq(Pagine) /\ Len(s) \in Nat /\ MaxPila \in Nat
  BY LenProperties, MaxPilaAssumption DEF Impilata
<1>2. /\ r \in Seq(Pagine)
      /\ Len(r) = Len(s) + 1
      /\ \A i \in 1..Len(s) : r[i] = s[i]
      /\ r[Len(s) + 1] = x
  BY <1>1, AppendProperties
<1> HIDE DEF r
<1>3. Impilata(r)
  <2>1. \A i \in 1..Len(r) : i # Len(r) => i \in 1..Len(s)
    BY <1>1, <1>2
  <2> QED
    BY <1>1, <1>2, <2>1 DEF Impilata
<1> QED
  BY <1>1, <1>2, <1>3 DEF r

\* The page on top is replaced by a home page.
LEMMA CasaImpilata ==
    ASSUME Impilata(pila), Len(pila) > 0
    PROVE  /\ Impilata(Append(SenzaCima, "casa"))
           /\ Len(Append(SenzaCima, "casa")) > 0
           /\ InCima("dialogo") => Append(SenzaCima, "casa") # pila
<1>0. Len(pila) \in Nat
  BY LenProperties DEF Impilata
<1>1. /\ Impilata(SenzaCima)
      /\ Len(SenzaCima) = Len(pila) - 1
      /\ \A i \in 1..Len(SenzaCima) : SenzaCima[i] # "dialogo"
  <2>1. PICK r : r = SubSeq(pila, 1, Len(pila) - 1)
    OBVIOUS
  <2>2. /\ Impilata(r)
        /\ Len(r) = IF Len(pila) = 0 THEN 0 ELSE Len(pila) - 1
        /\ \A i \in 1..Len(r) : r[i] # "dialogo"
    BY <2>1, SenzaCimaImpilata
  <2>3. SenzaCima = r
    BY <2>1 DEF SenzaCima
  <2> QED
    BY <1>0, <2>2, <2>3
<1>2. Len(pila) \in Nat /\ MaxPila \in Nat /\ Len(pila) <= MaxPila
      /\ SenzaCima \in Seq(Pagine)
  BY <1>1, LenProperties, MaxPilaAssumption DEF Impilata
<1>3. Len(SenzaCima) < MaxPila
  BY <1>1, <1>2
<1> HIDE DEF SenzaCima
<1>4. Append(SenzaCima, "casa")[Len(pila)] = "casa"
  BY <1>1, <1>2, AppendProperties DEF Pagine
<1> QED
  BY <1>1, <1>2, <1>3, <1>4, AggiuntaImpilata DEF InCima, Pagine

\* The dialog is on top.
LEMMA InCimaDialogo ==
    ASSUME Impilata(pila)
    PROVE  /\ InCima("dialogo") <=> DialogoSu(pila)
           /\ pila = <<>> <=> Len(pila) = 0
<1>1. pila \in Seq(Pagine) /\ Len(pila) \in Nat
  BY LenProperties DEF Impilata
<1>2. pila = <<>> <=> Len(pila) = 0
  BY <1>1, EmptySeq
<1> QED
  BY <1>1, <1>2 DEF InCima, DialogoSu

-----------------------------------------------------------------------------
(* Activities.                                                             *)

\* What is not under way, and what is about to load.
LEMMA Nuove ==
    /\ Ferma \in Attivita /\ Ferma.fase = "ferma"
    /\ Ferma.comando = Nessuno /\ Ferma.dialogo = FALSE
    /\ Carico \in Attivita /\ Carico.fase = "chiede"
    /\ Carico.comando = Nessuno /\ Carico.dialogo = FALSE
    /\ CaricoCompletati \in Attivita /\ CaricoCompletati.fase = "chiedeCompletati"
    /\ CaricoCompletati.comando = Nessuno /\ CaricoCompletati.dialogo = FALSE
BY DEF Ferma, Carico, CaricoCompletati, Attivita

\* One activity changes.
LEMMA AttivaUna ==
    ASSUME NEW o, NEW s, NEW st, Attive(o, s, st), NEW k \in Slot,
           NEW x \in Attivita, Comandata(x), x.dialogo => DialogoSu(s),
           (x.comando \in {"entra", "crea"} /\ ~x.dialogo) => st.sopravvissuta
    PROVE  /\ Attive([o EXCEPT ![k] = x], s, st)
           /\ \A j \in Slot : [o EXCEPT ![k] = x][j] = IF j = k THEN x ELSE o[j]
<1> DEFINE p == [o EXCEPT ![k] = x]
<1>1. p \in [Slot -> Attivita] /\ \A j \in Slot : p[j] = IF j = k THEN x ELSE o[j]
  BY DEF Attive
<1> HIDE DEF p
<1>2. Attive(p, s, st)
  BY <1>1 DEF Attive
<1> QED
  BY <1>1, <1>2 DEF p

\* One activity ends.
LEMMA AttivaFerma ==
    ASSUME NEW o, NEW s, NEW st, Attive(o, s, st), NEW k \in Slot
    PROVE  /\ Attive([o EXCEPT ![k] = Ferma], s, st)
           /\ \A j \in Slot :
                [o EXCEPT ![k] = Ferma][j] = IF j = k THEN Ferma ELSE o[j]
<1>1. Comandata(Ferma)
  BY Nuove DEF Comandata, DiComando
<1> QED
  BY <1>1, Nuove, NessunoAssumption, AttivaUna

\* Loads start.
LEMMA AttivePartono ==
    ASSUME NEW o, NEW s, NEW st, Attive(o, s, st), NEW cp, NEW cc
    PROVE  /\ Attive(Partono(o, cp, cc), s, st)
           /\ \A k \in Slot : Partono(o, cp, cc)[k] =
                 IF k \in cp THEN Carico
                 ELSE IF k \in cc THEN CaricoCompletati ELSE o[k]
<1> DEFINE p == Partono(o, cp, cc)
<1>1. \A k \in Slot : p[k] = IF k \in cp THEN Carico
                             ELSE IF k \in cc THEN CaricoCompletati ELSE o[k]
  BY DEF Partono
<1>2. p \in [Slot -> Attivita]
  BY Nuove DEF Partono, Attive
<1> HIDE DEF p
<1>3. Comandata(Carico) /\ Comandata(CaricoCompletati)
  BY Nuove DEF Comandata, DiComando
<1>4. Attive(p, s, st)
  <2>1. ASSUME NEW k \in Slot
        PROVE  /\ Comandata(p[k])
               /\ p[k].dialogo => DialogoSu(s)
               /\ (p[k].comando \in {"entra", "crea"} /\ ~p[k].dialogo) =>
                     st.sopravvissuta
    <3>1. CASE p[k] = o[k]
      BY <3>1 DEF Attive
    <3>2. CASE p[k] \in {Carico, CaricoCompletati}
      BY <1>3, <3>2, Nuove, NessunoAssumption
    <3> QED
      BY <1>1, <3>1, <3>2
  <2> QED
    BY <1>2, <2>1 DEF Attive
<1> QED
  BY <1>1, <1>4 DEF p

\* What is noted only grows, and losing a dialog is noted.
LEMMA AnnotaStoria ==
    ASSUME Campi, NEW o, NEW cp, NEW cc, Annota(o, cp, cc)
    PROVE  /\ storia' \in Storia
           /\ storia.sopravvissuta => storia'.sopravvissuta
           /\ (/\ InCima("dialogo") /\ pila' # pila
               /\ \E k \in Slot : o[k].dialogo) => storia'.sopravvissuta
<1> DEFINE a == IF cp = {} THEN storia.incerto
                ELSE \/ InCorso(o, DiProgetti) # {}
                     \/ \E j, k \in cp : j # k
           b == IF cc # {} /\ InCorso(o, DiCompletati) = {} THEN {}
                ELSE storia.usciti
           c == \/ storia.sopravvissuta
                \/ InCima("dialogo") /\ pila' # pila /\ (\E k \in Slot : o[k].dialogo)
<1>1. storia' = [incerto |-> a, usciti |-> b, sopravvissuta |-> c]
  BY DEF Annota
<1>2. storia.incerto \in BOOLEAN /\ storia.sopravvissuta \in BOOLEAN
      /\ storia.usciti \in SUBSET Progetti
  BY DEF Campi, Storia
<1>3. a \in BOOLEAN
  BY <1>2
<1>4. b \in SUBSET Progetti
  BY <1>2
<1>5. c \in BOOLEAN
  BY <1>2
<1>6. storia.sopravvissuta => c
  OBVIOUS
<1>7. (InCima("dialogo") /\ pila' # pila /\ \E k \in Slot : o[k].dialogo) => c
  OBVIOUS
<1> HIDE DEF a, b, c
<1>8. storia' \in Storia /\ storia'.sopravvissuta = c
  BY <1>1, <1>3, <1>4, <1>5 DEF Storia
<1> QED
  BY <1>6, <1>7, <1>8

\* A page goes away, and what it had of a dialog with it.
LEMMA AttiveSenzaDialogo ==
    ASSUME Inv, NEW o, Attive(o, pila, storia), NEW cp, NEW cc,
           Annota(o, cp, cc), InCima("dialogo") => pila' # pila, NEW s
    PROVE  /\ Attive(SenzaDialogo(o), s, storia')
           /\ \A k \in Slot : /\ SenzaDialogo(o)[k].fase = o[k].fase
                              /\ SenzaDialogo(o)[k].lista = o[k].lista
<1>1. /\ storia.sopravvissuta => storia'.sopravvissuta
      /\ InCima("dialogo") /\ (\E k \in Slot : o[k].dialogo)
           => storia'.sopravvissuta
  BY AnnotaStoria DEF Inv
<1>2. InCima("dialogo") <=> DialogoSu(pila)
  BY InCimaDialogo DEF Inv
<1> DEFINE p == SenzaDialogo(o)
<1>3. CASE InCima("dialogo")
  <2> DEFINE x(k) == [o[k] EXCEPT !.dialogo = FALSE]
  <2>1. p = [k \in Slot |-> x(k)]
    BY <1>3 DEF SenzaDialogo
  <2>2. ASSUME NEW k \in Slot
        PROVE  /\ x(k) \in Attivita /\ x(k).fase = o[k].fase
               /\ x(k).comando = o[k].comando /\ x(k).dialogo = FALSE
               /\ x(k).progetto = o[k].progetto /\ x(k).lista = o[k].lista
    <3>1. o[k] \in Attivita
      BY DEF Attive
    <3> QED
      BY <3>1 DEF Attivita
  <2> HIDE DEF x
  <2>3. p \in [Slot -> Attivita] /\ \A k \in Slot : p[k] = x(k)
    BY <2>1, <2>2
  <2> HIDE DEF p
  <2>4. Attive(p, s, storia')
    <3>1. ASSUME NEW k \in Slot
          PROVE  /\ Comandata(p[k])
                 /\ ~p[k].dialogo
                 /\ p[k].comando \in {"entra", "crea"} => storia'.sopravvissuta
      BY <1>1, <1>3, <2>2, <2>3 DEF Attive, Comandata
    <3> QED
      BY <2>3, <3>1 DEF Attive
  <2> QED
    BY <2>2, <2>3, <2>4 DEF p
<1>4. CASE ~InCima("dialogo")
  <2>1. p = o
    BY <1>4 DEF SenzaDialogo
  <2>2. \A k \in Slot : ~o[k].dialogo
    BY <1>2, <1>4 DEF Attive
  <2>3. Attive(o, s, storia')
    BY <1>1, <2>2 DEF Attive
  <2> QED
    BY <2>1, <2>3
<1> QED
  BY <1>3, <1>4

-----------------------------------------------------------------------------
(* Steps.                                                                  *)

\* A spinner that was explained stays so while no load ends.
LEMMA CaricandoResta ==
    ASSUME CaricandoSpiegato, caricando' => caricando,
           \A k \in Slot : op[k].fase \in DiProgetti => op'[k].fase \in DiProgetti
    PROVE  CaricandoSpiegato'
BY DEF CaricandoSpiegato, InCorso

\* A load explains any spinner.
LEMMA CaricandoNuovo ==
    ASSUME NEW k \in Slot, op'[k].fase \in DiProgetti
    PROVE  CaricandoSpiegato'
BY DEF CaricandoSpiegato, InCorso

\* The top page goes.
LEMMA CimaTolta ==
    ASSUME Impilata(pila)
    PROVE  /\ Impilata(SenzaCima)
           /\ Len(SenzaCima) = IF Len(pila) = 0 THEN 0 ELSE Len(pila) - 1
           /\ Len(pila) \in Nat /\ Len(SenzaCima) \in Nat
           /\ Len(pila) > 0 => SenzaCima # pila
           /\ ~DialogoSu(SenzaCima)
<1>0. Len(pila) \in Nat
  BY LenProperties DEF Impilata
<1>1. PICK r : r = SubSeq(pila, 1, Len(pila) - 1)
  OBVIOUS
<1>2. /\ Impilata(r)
      /\ Len(r) = IF Len(pila) = 0 THEN 0 ELSE Len(pila) - 1
      /\ \A i \in 1..Len(r) : r[i] # "dialogo"
  BY <1>1, SenzaCimaImpilata
<1>3. Len(r) \in Nat
  BY <1>2, LenProperties DEF Impilata
<1>4. ~DialogoSu(r)
  BY <1>2, <1>3 DEF DialogoSu
<1>5. Len(pila) > 0 => Len(r) # Len(pila)
  BY <1>0, <1>2
<1>6. SenzaCima = r
  BY <1>1 DEF SenzaCima
<1> QED
  BY <1>0, <1>2, <1>3, <1>4, <1>5, <1>6

\* Opening and leaving pages and dialogs.
LEMMA PagineInv ==
    ASSUME Inv, \/ ApriDialogo \/ Indietro \/ \E p \in Progetti : ApriProgetto(p)
    PROVE  Inv'
<1>1. /\ UNCHANGED <<iscritto, progetti, contati, completati, caricando, op, storia>>
      /\ ~InCima("dialogo")
      /\ \/ pila # <<>>
         \/ Len(pila) > 1
  BY DEF ApriDialogo, Indietro, ApriProgetto, InCima
<1>2. Impilata(pila) /\ Len(pila) \in Nat /\ ~DialogoSu(pila) /\ Len(pila) > 0
  BY <1>1, InCimaDialogo, CimaTolta DEF Inv
<1>3. \A i \in 1..Len(pila) : pila[i] # "dialogo"
  BY <1>2 DEF Impilata, DialogoSu
<1>4. Impilata(pila') /\ Len(pila') > 0
  <2>1. CASE Indietro
    BY <1>2, <2>1, CimaTolta DEF Indietro
  <2>2. ASSUME NEW x \in Pagine, Len(pila) < MaxPila, pila' = Append(pila, x)
        PROVE  Impilata(pila') /\ Len(pila') > 0
    BY <1>2, <1>3, <2>2, AggiuntaImpilata
  <2> QED
    BY <2>1, <2>2 DEF ApriDialogo, ApriProgetto, Pagine
<1>5. Attive(op', pila', storia')
  <2>1. \A k \in Slot : ~op[k].dialogo
    BY <1>2 DEF Inv, Attive
  <2> QED
    BY <1>1, <2>1 DEF Inv, Attive
<1>6. Campi' /\ CaricandoSpiegato'
  BY <1>1 DEF Inv, Campi, CaricandoSpiegato, InCorso
<1>7. VuotoSpiegato'
  BY <1>4, EmptySeq DEF VuotoSpiegato
<1> QED
  BY <1>4, <1>5, <1>6, <1>7 DEF Inv

\* The dialog is never the first page, so the page below it stays.
LEMMA AnnullaInv ==
    ASSUME Inv, Annulla
    PROVE  Inv'
<1>1. /\ InCima("dialogo") /\ pila' = SenzaCima /\ op' = SenzaDialogo(op)
      /\ Annota(op, {}, {})
      /\ UNCHANGED <<iscritto, progetti, contati, completati, caricando>>
  BY DEF Annulla
<1>2. /\ DialogoSu(pila) /\ Len(pila) \in Nat /\ Impilata(SenzaCima)
      /\ Len(SenzaCima) = IF Len(pila) = 0 THEN 0 ELSE Len(pila) - 1
      /\ Len(pila) > 0 => SenzaCima # pila
  BY <1>1, InCimaDialogo, CimaTolta DEF Inv
<1>3. Len(pila) > 1
  BY <1>2 DEF Inv, Impilata, DialogoSu
<1>4. Attive(op', pila', storia')
      /\ \A k \in Slot : op'[k].fase = op[k].fase
  BY <1>1, <1>2, <1>3, AttiveSenzaDialogo DEF Inv
<1>5. CaricandoSpiegato'
  BY <1>1, <1>4, CaricandoResta DEF Inv
<1>6. Campi'
  <2>1. storia' \in Storia
    BY <1>1, AnnotaStoria DEF Inv
  <2> QED
    BY <1>1, <2>1 DEF Inv, Campi
<1>7. VuotoSpiegato'
  <2>1. Len(pila') > 0
    BY <1>1, <1>2, <1>3
  <2> QED
    BY <2>1, EmptySeq DEF VuotoSpiegato
<1> QED
  BY <1>1, <1>2, <1>4, <1>5, <1>6, <1>7 DEF Inv

\* A new home page, of which the activities o are left.
LEMMA NuovaCasaInv ==
    ASSUME Inv, NEW o, NEW k \in Slot, Attive(o, pila, storia), Len(pila) > 0,
           NuovaCasa(o, k), UNCHANGED <<iscritto, progetti, contati, completati>>
    PROVE  Inv'
<1>1. /\ pila' = Append(SenzaCima, "casa")
      /\ op' = Partono(SenzaDialogo(o), {k}, {})
      /\ caricando' = TRUE
      /\ Annota(o, {k}, {})
  BY DEF NuovaCasa
<1>2. /\ Impilata(pila') /\ Len(pila') > 0
      /\ InCima("dialogo") => pila' # pila
  BY <1>1, CasaImpilata DEF Inv
<1>3. Attive(SenzaDialogo(o), pila', storia')
  BY <1>1, <1>2, AttiveSenzaDialogo
<1>4. Attive(op', pila', storia') /\ op'[k] = Carico
  BY <1>1, <1>3, AttivePartono
<1>5. CaricandoSpiegato'
  BY <1>4, Nuove, CaricandoNuovo DEF DiProgetti
<1>6. Campi'
  <2>1. storia' \in Storia
    BY <1>1, AnnotaStoria DEF Inv
  <2> QED
    BY <1>1, <2>1 DEF Inv, Campi
<1>7. VuotoSpiegato'
  BY <1>2, EmptySeq DEF VuotoSpiegato
<1> QED
  BY <1>2, <1>4, <1>5, <1>6, <1>7 DEF Inv

\* The back arrow of a project's page, and Sync.
LEMMA RicaricaInv ==
    ASSUME Inv, Freccia \/ Sincronizza
    PROVE  Inv'
<1>1. CASE Freccia
  <2>1. Len(pila) > 0
    <3>1. pila # <<>>
      BY <1>1 DEF Freccia, InCima
    <3> QED
      BY <3>1, InCimaDialogo, CimaTolta DEF Inv
  <2> QED
    BY <1>1, <2>1, NuovaCasaInv DEF Freccia, Liberi, Inv
<1>2. CASE Sincronizza
  <2>1. PICK j \in Slot, k \in Slot : op' = Partono(op, {j}, {k})
                                      /\ Annota(op, {j}, {k})
    BY <1>2 DEF Sincronizza, Liberi
  <2>2. UNCHANGED <<iscritto, progetti, contati, completati, pila>>
        /\ caricando' = TRUE
    BY <1>2 DEF Sincronizza
  <2>3. storia' \in Storia /\ (storia.sopravvissuta => storia'.sopravvissuta)
    BY <2>1, AnnotaStoria DEF Inv
  <2>4. Attive(op, pila', storia')
    BY <2>2, <2>3 DEF Inv, Attive
  <2>5. Attive(op', pila', storia') /\ op'[j] = Carico
    BY <2>1, <2>4, AttivePartono
  <2>6. CaricandoSpiegato'
    BY <2>5, Nuove, CaricandoNuovo DEF DiProgetti
  <2> QED
    BY <2>2, <2>3, <2>5, <2>6 DEF Inv, Campi, VuotoSpiegato
<1> QED
  BY <1>1, <1>2

\* One activity, k, becomes x, and nothing happens to the pages.
LEMMA UnaInv ==
    ASSUME Inv, NEW k \in Slot, NEW x \in Attivita,
           op' = [j \in Slot |-> IF j = k THEN x ELSE op[j]],
           Comandata(x), x.dialogo => DialogoSu(pila),
           (x.comando \in {"entra", "crea"} /\ ~x.dialogo) =>
               storia.sopravvissuta,
           op[k].fase \in DiProgetti => x.fase \in DiProgetti,
           UNCHANGED <<pila, caricando>>,
           Campi', storia.sopravvissuta => storia'.sopravvissuta
    PROVE  Inv'
<1>1. op' \in [Slot -> Attivita] /\ \A j \in Slot : op'[j] = IF j = k THEN x ELSE op[j]
  BY DEF Inv, Attive
<1>2. Attive(op', pila', storia')
  BY <1>1 DEF Inv, Attive
<1>3. CaricandoSpiegato'
  BY <1>1, CaricandoResta DEF Inv
<1> QED
  BY <1>2, <1>3 DEF Inv, VuotoSpiegato

\* Joining, creating and leaving: pressing the button, and the server's part.
LEMMA ComandiInv ==
    ASSUME Inv, \/ Abbandona \/ \E c \in {"entra", "crea"} : Conferma(c)
                \/ \E k \in Slot : Memorizza(k)
    PROVE  Inv'
<1>0. op \in [Slot -> Attivita]
  BY DEF Inv, Attive
<1>1. ASSUME NEW c \in {"entra", "crea"}, Conferma(c) PROVE Inv'
  <2>1. PICK k \in Liberi, p \in Progetti :
          op' = [op EXCEPT ![k] = [Ferma EXCEPT !.fase = c, !.comando = c,
                                                !.progetto = p, !.dialogo = TRUE]]
    BY <1>1 DEF Conferma
  <2> DEFINE x == [Ferma EXCEPT !.fase = c, !.comando = c, !.progetto = p,
                                !.dialogo = TRUE]
  <2>2. /\ x \in Attivita /\ x.fase = c /\ x.dialogo = TRUE
        /\ x.progetto \in Progetti
    BY DEF Ferma, Attivita
  <2>3. k \in Slot /\ op[k].fase = "ferma"
    BY DEF Liberi
  <2> HIDE DEF x
  <2>4. op' = [j \in Slot |-> IF j = k THEN x ELSE op[j]]
    BY <1>0, <2>1, <2>3 DEF x
  <2>5. Comandata(x) /\ op[k].fase \notin DiProgetti
    BY <2>2, <2>3 DEF Comandata, DiComando, DiProgetti
  <2>6. UNCHANGED <<iscritto, pila, progetti, contati, completati, caricando, storia>>
        /\ DialogoSu(pila)
    BY <1>1, InCimaDialogo DEF Conferma, Inv
  <2>7. Campi'
    BY <2>6 DEF Inv, Campi
  <2> QED
    BY <2>2, <2>3, <2>4, <2>5, <2>6, <2>7, UnaInv
<1>2. CASE Abbandona
  <2>1. PICK k \in Liberi, p \in Progetti :
          op' = [op EXCEPT ![k] = [Ferma EXCEPT !.fase = "abbandona",
                                                !.comando = "abbandona",
                                                !.progetto = p]]
    BY <1>2 DEF Abbandona
  <2> DEFINE x == [Ferma EXCEPT !.fase = "abbandona", !.comando = "abbandona",
                                !.progetto = p]
  <2>2. x \in Attivita /\ x.fase = "abbandona" /\ x.comando = "abbandona"
        /\ x.dialogo = FALSE /\ x.progetto \in Progetti
    BY DEF Ferma, Attivita
  <2>3. k \in Slot /\ op[k].fase = "ferma"
    BY DEF Liberi
  <2> HIDE DEF x
  <2>4. op' = [j \in Slot |-> IF j = k THEN x ELSE op[j]]
    BY <1>0, <2>1, <2>3 DEF x
  <2>5. Comandata(x) /\ op[k].fase \notin DiProgetti
    BY <2>2, <2>3 DEF Comandata, DiComando, DiProgetti
  <2>6. UNCHANGED <<iscritto, pila, progetti, contati, completati, caricando, storia>>
    BY <1>2 DEF Abbandona
  <2>7. Campi'
    BY <2>6 DEF Inv, Campi
  <2> QED
    BY <2>2, <2>3, <2>4, <2>5, <2>6, <2>7, UnaInv
<1>3. ASSUME NEW k \in Slot, Memorizza(k) PROVE Inv'
  <2> DEFINE x == [op[k] EXCEPT !.fase = "fatto"]
  <2>1. /\ op[k].fase \in {"entra", "crea", "abbandona"}
        /\ op' = [op EXCEPT ![k] = x]
        /\ UNCHANGED <<pila, progetti, contati, completati, caricando>>
    BY <1>3 DEF Memorizza
  <2>2. x \in Attivita /\ x.fase = "fatto" /\ x.comando = op[k].comando
        /\ x.dialogo = op[k].dialogo
    BY <1>0 DEF Attivita
  <2> HIDE DEF x
  <2>3. op' = [j \in Slot |-> IF j = k THEN x ELSE op[j]]
    BY <1>0, <2>1
  <2>4. op[k].progetto \in Progetti
    BY <2>1 DEF Inv, Attive, Comandata, DiComando
  <2>5. iscritto' \subseteq Progetti
    BY <1>3, <2>4 DEF Memorizza, Inv, Campi
  <2>6. /\ storia' \in Storia
        /\ storia.sopravvissuta => storia'.sopravvissuta
    <3>1. storia \in Storia
      BY DEF Inv, Campi
    <3>2. \/ storia' = storia
          \/ storia' = [storia EXCEPT !.usciti = storia.usciti \cup {op[k].progetto}]
      BY <1>3 DEF Memorizza
    <3> QED
      BY <2>4, <3>1, <3>2 DEF Storia
  <2>7. Campi'
    BY <2>1, <2>5, <2>6 DEF Inv, Campi
  <2>8. Comandata(x) /\ op[k].fase \notin DiProgetti
    BY <2>1, <2>2 DEF Comandata, DiComando, DiProgetti
  <2>9. /\ x.dialogo => DialogoSu(pila)
        /\ (x.comando \in {"entra", "crea"} /\ ~x.dialogo) => storia.sopravvissuta
    BY <2>2 DEF Inv, Attive
  <2> QED
    BY <2>1, <2>2, <2>3, <2>6, <2>7, <2>8, <2>9, UnaInv
<1> QED
  BY <1>1, <1>2, <1>3

\* The end of the dialog's handler: if the last page goes, the call had lost its
\* dialog, because the dialog is never the last page.
LEMMA RitornaInv ==
    ASSUME Inv, NEW k \in Slot, Ritorna(k)
    PROVE  Inv'
<1> DEFINE o == [op EXCEPT ![k] = Ferma]
           c == op[k].comando
           riuscita == op[k].fase = "fatto"
<1>1. PICK cp \in SUBSET (Liberi \cup {k}), cc \in SUBSET (Liberi \cup {k}) :
        /\ Cardinality(cp) \in IF ~riuscita THEN {0}
                               ELSE IF c = "crea" /\ op[k].dialogo THEN {1, 2}
                               ELSE {1}
        /\ op' = Partono(IF pila' = pila THEN o ELSE SenzaDialogo(o), cp, cc)
        /\ Annota(o, cp, cc)
  BY DEF Ritorna
<1>2. /\ c \in {"entra", "crea"}
      /\ pila' = pila \/ pila' = SenzaCima
      /\ caricando' = (caricando \/ riuscita)
      /\ UNCHANGED <<iscritto, progetti, contati, completati>>
  BY DEF Ritorna, Chiude
<1>3. op[k].fase \in DiComando
  BY <1>2, NessunoAssumption DEF Inv, Attive, Comandata
<1>4. /\ Attive(o, pila, storia)
      /\ \A j \in Slot : o[j] = IF j = k THEN Ferma ELSE op[j]
  BY AttivaFerma DEF Inv
<1>5. storia' \in Storia /\ (storia.sopravvissuta => storia'.sopravvissuta)
  BY <1>1, AnnotaStoria DEF Inv
<1> DEFINE r == IF pila' = pila THEN o ELSE SenzaDialogo(o)
<1> HIDE DEF o
<1>6. /\ Attive(r, pila', storia')
      /\ \A j \in Slot : r[j].fase = o[j].fase
  <2>1. CASE pila' = pila
    BY <1>4, <1>5, <2>1 DEF Attive
  <2>2. CASE pila' # pila
    BY <1>1, <1>4, <2>2, AttiveSenzaDialogo
  <2> QED
    BY <2>1, <2>2
<1> HIDE DEF r
<1>7. /\ Attive(op', pila', storia')
      /\ \A j \in Slot : op'[j] = IF j \in cp THEN Carico
                                  ELSE IF j \in cc THEN CaricoCompletati ELSE r[j]
  BY <1>1, <1>6, AttivePartono DEF r
<1>8. CaricandoSpiegato'
  <2>1. CASE riuscita
    <3>1. cp # {}
      BY <1>1, <2>1, FS_EmptySet
    <3>2. PICK j \in Slot : j \in cp
      BY <3>1 DEF Liberi
    <3> QED
      BY <1>7, <3>2, Nuove, CaricandoNuovo DEF DiProgetti
  <2>2. CASE ~riuscita
    <3>1. ASSUME NEW j \in Slot, op[j].fase \in DiProgetti
          PROVE  op'[j].fase \in DiProgetti
      <4>1. j \notin Liberi \cup {k}
        BY <1>3, <3>1 DEF Liberi, DiProgetti, DiComando
      <4>2. op'[j] = r[j] /\ r[j].fase = op[j].fase
        BY <1>1, <1>4, <1>6, <1>7, <4>1
      <4> QED
        BY <3>1, <4>2
    <3> QED
      BY <1>2, <2>2, <3>1, CaricandoResta DEF Inv
  <2> QED
    BY <2>1, <2>2
<1>9. Impilata(pila')
  BY <1>2, CimaTolta DEF Inv
<1>10. VuotoSpiegato'
  <2>1. SUFFICES ASSUME pila' = <<>> PROVE storia'.sopravvissuta
    BY DEF VuotoSpiegato
  <2>2. CASE pila = <<>>
    BY <1>5, <2>2 DEF Inv, VuotoSpiegato
  <2>3. CASE pila # <<>>
    <3>1. Len(pila) = 1
      <4>1. pila' = SenzaCima /\ Len(pila') = 0
        BY <1>2, <2>1, <2>3, EmptySeq
      <4>2. Len(pila) \in Nat /\ Len(pila) # 0
        BY <2>3, InCimaDialogo, CimaTolta DEF Inv
      <4>3. Len(SenzaCima) = Len(pila) - 1
        BY <4>2, CimaTolta DEF Inv
      <4> QED
        BY <4>1, <4>2, <4>3
    <3>2. ~DialogoSu(pila)
      BY <3>1 DEF DialogoSu, Inv, Impilata
    <3>3. storia.sopravvissuta
      BY <1>2, <3>2 DEF Inv, Attive
    <3> QED
      BY <1>5, <3>3
  <2> QED
    BY <2>2, <2>3
<1>11. Campi'
  <2>1. riuscita \in BOOLEAN
    OBVIOUS
  <2>2. caricando \in BOOLEAN
    BY DEF Inv, Campi
  <2> HIDE DEF riuscita
  <2>3. caricando' \in BOOLEAN
    BY <1>2, <2>1, <2>2
  <2> QED
    BY <1>2, <1>5, <2>3 DEF Inv, Campi
<1> QED
  BY <1>7, <1>8, <1>9, <1>10, <1>11 DEF Inv

\* The end of abbandona, which replaces the page on top.
LEMMA RitornaAbbandonaInv ==
    ASSUME Inv, NEW k \in Slot, RitornaAbbandona(k)
    PROVE  Inv'
<1> DEFINE o == [op EXCEPT ![k] = Ferma]
<1>1. /\ Attive(o, pila, storia)
      /\ \A j \in Slot : o[j] = IF j = k THEN Ferma ELSE op[j]
  BY AttivaFerma DEF Inv
<1>2. op[k].fase \in DiComando
  BY NessunoAssumption DEF RitornaAbbandona, Inv, Attive, Comandata
<1>3. UNCHANGED <<iscritto, progetti, contati, completati>>
  BY DEF RitornaAbbandona
<1>4. CASE pila # <<>> /\ NuovaCasa(o, k)
  <2>1. Len(pila) > 0
    BY <1>4, InCimaDialogo, CimaTolta DEF Inv
  <2> HIDE DEF o
  <2> QED
    BY <1>1, <1>3, <1>4, <2>1, NuovaCasaInv
<1>5. CASE /\ op' = o
           /\ storia' = [storia EXCEPT !.incerto = @ \/ op[k].fase = "fatto"]
           /\ UNCHANGED <<pila, caricando>>
  <2>1. storia \in Storia
    BY DEF Inv, Campi
  <2>2. PICK b \in BOOLEAN : b = (storia.incerto \/ op[k].fase = "fatto")
    OBVIOUS
  <2>3. storia' = [storia EXCEPT !.incerto = b]
    BY <1>5, <2>2
  <2>4. storia' \in Storia /\ storia'.sopravvissuta = storia.sopravvissuta
    BY <2>1, <2>3 DEF Storia
  <2>5. Campi'
    BY <1>3, <1>5, <2>4 DEF Inv, Campi
  <2>6. op' = [j \in Slot |-> IF j = k THEN Ferma ELSE op[j]]
    BY <1>1, <1>5 DEF Inv, Attive
  <2>7. Comandata(Ferma)
    BY Nuove DEF Comandata, DiComando
  <2>8. op[k].fase \notin DiProgetti
    BY <1>2 DEF DiComando, DiProgetti
  <2> QED
    BY <1>5, <2>4, <2>5, <2>6, <2>7, <2>8, Nuove, NessunoAssumption, UnaInv
<1> QED
  BY <1>4, <1>5 DEF RitornaAbbandona

\* A load receives its answer.
LEMMA InterrogaInv ==
    ASSUME Inv, NEW k \in Slot, Interroga(k)
    PROVE  Inv'
<1>1. /\ op \in [Slot -> Attivita] /\ op[k] \in Attivita
      /\ iscritto \subseteq Progetti /\ storia \in Storia
      /\ CompletatiUtente \subseteq Progetti
  BY DEF Inv, Attive, Campi, CompletatiUtente
<1>2. UNCHANGED <<iscritto, pila, progetti, contati, completati, caricando>>
  BY DEF Interroga
<1>3. PICK l \in SUBSET Progetti, f \in {"letti", "lettiCompletati"} :
        /\ op[k].fase = IF f = "letti" THEN "chiede" ELSE "chiedeCompletati"
        /\ op' = [j \in Slot |-> IF j = k THEN [op[k] EXCEPT !.fase = f, !.lista = l]
                                          ELSE op[j]]
  <2>1. CASE /\ op[k].fase = "chiede"
             /\ op' = [op EXCEPT ![k].fase = "letti", ![k].lista = iscritto]
    <3>1. op' = [j \in Slot |->
                   IF j = k THEN [op[k] EXCEPT !.fase = "letti", !.lista = iscritto]
                            ELSE op[j]]
      BY <1>1, <2>1 DEF Attivita
    <3> QED
      BY <1>1, <2>1, <3>1
  <2>2. CASE op[k].fase = "chiede" /\ op' = [op EXCEPT ![k].fase = "letti"]
    <3>1. op' = [j \in Slot |->
                   IF j = k THEN [op[k] EXCEPT !.fase = "letti", !.lista = op[k].lista]
                            ELSE op[j]]
      BY <1>1, <2>2 DEF Attivita
    <3>2. op[k].lista \in SUBSET Progetti
      BY <1>1 DEF Attivita
    <3> QED
      BY <2>2, <3>1, <3>2
  <2>3. CASE /\ op[k].fase = "chiedeCompletati"
             /\ \E l \in {{}, CompletatiUtente} :
                  op' = [op EXCEPT ![k].fase = "lettiCompletati", ![k].lista = l]
    <3>1. PICK l \in {{}, CompletatiUtente} :
            op' = [op EXCEPT ![k].fase = "lettiCompletati", ![k].lista = l]
      BY <2>3
    <3>2. op' = [j \in Slot |->
                   IF j = k THEN [op[k] EXCEPT !.fase = "lettiCompletati",
                                               !.lista = l]
                            ELSE op[j]]
      BY <1>1, <3>1 DEF Attivita
    <3>3. l \in SUBSET Progetti
      BY <1>1
    <3> QED
      BY <2>3, <3>2, <3>3
  <2> QED
    BY <2>1, <2>2, <2>3 DEF Interroga
<1> DEFINE x == [op[k] EXCEPT !.fase = f, !.lista = l]
<1>4. /\ x \in Attivita /\ x.fase = f /\ x.comando = op[k].comando
      /\ x.dialogo = op[k].dialogo
  BY <1>1 DEF Attivita
<1> HIDE DEF x
<1>5. Comandata(x)
  BY <1>3, <1>4 DEF Inv, Attive, Comandata, DiComando
<1>6. /\ x.dialogo => DialogoSu(pila)
      /\ (x.comando \in {"entra", "crea"} /\ ~x.dialogo) => storia.sopravvissuta
  BY <1>4 DEF Inv, Attive
<1>7. op[k].fase \in DiProgetti => x.fase \in DiProgetti
  BY <1>3, <1>4 DEF DiProgetti
<1>8. storia' \in Storia /\ storia'.sopravvissuta = storia.sopravvissuta
  <2>1. storia' = storia \/ storia' = [storia EXCEPT !.incerto = TRUE]
    BY DEF Interroga
  <2> QED
    BY <1>1, <2>1 DEF Storia
<1>9. Campi'
  BY <1>2, <1>8 DEF Inv, Campi
<1>10. op' = [j \in Slot |-> IF j = k THEN x ELSE op[j]]
  BY <1>3 DEF x
<1> QED
  BY <1>2, <1>4, <1>5, <1>6, <1>7, <1>8, <1>9, <1>10, UnaInv

\* The end of caricaProgettiUtente.
LEMMA ConcludiInv ==
    ASSUME Inv, NEW k \in Slot, NEW mappa \in SUBSET Progetti, Concludi(k, mappa),
           UNCHANGED <<iscritto, pila, completati>>, progetti' \subseteq Progetti
    PROVE  Inv'
<1> DEFINE o == [op EXCEPT ![k] = Ferma]
           cc == IF op[k].iniziale THEN {k} ELSE {}
<1>1. /\ contati' = mappa /\ caricando' = FALSE
      /\ op' = Partono(o, {}, cc) /\ Annota(o, {}, cc)
  BY DEF Concludi, FineCaricamento
<1>2. Attive(o, pila, storia)
  BY AttivaFerma DEF Inv
<1> HIDE DEF o, cc
<1>3. storia' \in Storia /\ (storia.sopravvissuta => storia'.sopravvissuta)
  BY <1>1, AnnotaStoria DEF Inv
<1>4. Attive(o, pila', storia')
  BY <1>2, <1>3 DEF Attive
<1>5. Attive(op', pila', storia')
  BY <1>1, <1>4, AttivePartono
<1>6. Campi'
  BY <1>1, <1>3 DEF Inv, Campi
<1> QED
  BY <1>1, <1>3, <1>5, <1>6 DEF Inv, VuotoSpiegato, CaricandoSpiegato

\* The list is assigned, and the tasks of each project are counted.
LEMMA AssegnaInv ==
    ASSUME Inv, NEW k \in Slot, AssegnaProgetti(k)
    PROVE  Inv'
<1> DEFINE l == op[k].lista
<1>1. /\ op[k].fase = "letti" /\ progetti' = l
      /\ UNCHANGED <<iscritto, pila, completati>>
  BY DEF AssegnaProgetti
<1>2. op \in [Slot -> Attivita] /\ op[k] \in Attivita /\ l \in SUBSET Progetti
  BY DEF Inv, Attive, Attivita
<1>3. CASE Concludi(k, {})
  BY <1>1, <1>2, <1>3, ConcludiInv
<1>4. CASE /\ op' = [op EXCEPT ![k].fase = "conta", ![k].lista = l, ![k].resto = l]
           /\ UNCHANGED <<contati, caricando, storia>>
  <2> DEFINE x == [op[k] EXCEPT !.fase = "conta", !.lista = l, !.resto = l]
  <2>1. op' = [j \in Slot |-> IF j = k THEN x ELSE op[j]]
    BY <1>2, <1>4 DEF Attivita
  <2>2. /\ x \in Attivita /\ x.fase = "conta" /\ x.comando = op[k].comando
        /\ x.dialogo = op[k].dialogo
    BY <1>2 DEF Attivita
  <2> HIDE DEF x
  <2>3. Comandata(x) /\ x.fase \in DiProgetti
    BY <1>1, <2>2 DEF Inv, Attive, Comandata, DiComando, DiProgetti
  <2>4. /\ x.dialogo => DialogoSu(pila)
        /\ (x.comando \in {"entra", "crea"} /\ ~x.dialogo) => storia.sopravvissuta
    BY <2>2 DEF Inv, Attive
  <2>5. Campi'
    BY <1>1, <1>2, <1>4 DEF Inv, Campi
  <2> QED
    BY <1>1, <1>4, <2>1, <2>2, <2>3, <2>4, <2>5, UnaInv
<1> QED
  BY <1>3, <1>4 DEF AssegnaProgetti, DaContare

\* The tasks of one more project have been counted.
LEMMA ContaInv ==
    ASSUME Inv, NEW k \in Slot, Conta(k)
    PROVE  Inv'
<1>1. op \in [Slot -> Attivita] /\ op[k] \in Attivita /\ op[k].lista \in SUBSET Progetti
  BY DEF Inv, Attive, Attivita
<1>2. op[k].fase = "conta" /\ UNCHANGED <<iscritto, pila, progetti, completati>>
  BY DEF Conta
<1>3. CASE Concludi(k, op[k].lista)
  BY <1>1, <1>2, <1>3, ConcludiInv DEF Inv, Campi
<1>4. ASSUME NEW p,
             op' = [op EXCEPT ![k].resto = op[k].resto \ {p}],
             UNCHANGED <<contati, caricando, storia>>
      PROVE  Inv'
  <2> DEFINE x == [op[k] EXCEPT !.resto = op[k].resto \ {p}]
  <2>1. op' = [j \in Slot |-> IF j = k THEN x ELSE op[j]]
    BY <1>1, <1>4 DEF Attivita
  <2>2. /\ x \in Attivita /\ x.fase = "conta" /\ x.comando = op[k].comando
        /\ x.dialogo = op[k].dialogo
    BY <1>1, <1>2 DEF Attivita
  <2> HIDE DEF x
  <2>3. Comandata(x) /\ x.fase \in DiProgetti
    BY <1>2, <2>2 DEF Inv, Attive, Comandata, DiComando, DiProgetti
  <2>4. /\ x.dialogo => DialogoSu(pila)
        /\ (x.comando \in {"entra", "crea"} /\ ~x.dialogo) => storia.sopravvissuta
    BY <2>2 DEF Inv, Attive
  <2>5. Campi'
    BY <1>2, <1>4 DEF Inv, Campi
  <2> QED
    BY <1>2, <1>4, <2>1, <2>2, <2>3, <2>4, <2>5, UnaInv
<1> QED
  BY <1>3, <1>4 DEF Conta

\* The completed projects are assigned.
LEMMA CompletatiInv ==
    ASSUME Inv, NEW k \in Slot, AssegnaCompletati(k)
    PROVE  Inv'
<1>1. /\ op[k].fase = "lettiCompletati" /\ completati' = op[k].lista
      /\ op' = [op EXCEPT ![k] = Ferma]
      /\ UNCHANGED <<iscritto, pila, progetti, contati, caricando, storia>>
  BY DEF AssegnaCompletati
<1>2. op \in [Slot -> Attivita] /\ op[k].lista \in SUBSET Progetti
  BY DEF Inv, Attive, Attivita
<1>3. op' = [j \in Slot |-> IF j = k THEN Ferma ELSE op[j]]
  BY <1>1, <1>2
<1>4. Campi'
  BY <1>1, <1>2 DEF Inv, Campi
<1>5. Comandata(Ferma) /\ op[k].fase \notin DiProgetti
  BY <1>1, Nuove DEF Comandata, DiComando, DiProgetti
<1> QED
  BY <1>1, <1>3, <1>4, <1>5, Nuove, NessunoAssumption, UnaInv

-----------------------------------------------------------------------------
(* Theorems.                                                               *)

\* The first home page, with its two loads.
LEMMA InvInit == Init => Inv
<1> SUFFICES ASSUME Init PROVE Inv
  OBVIOUS
<1>1. PICK i \in Slot, j \in Slot :
        op = [k \in Slot |-> IF k = i THEN [Carico EXCEPT !.iniziale = TRUE]
                             ELSE IF k = j THEN Carico ELSE Ferma]
  BY DEF Init
<1> DEFINE x == [Carico EXCEPT !.iniziale = TRUE]
<1>2. /\ x \in Attivita /\ x.fase = "chiede" /\ x.comando = Nessuno
      /\ x.dialogo = FALSE
  BY Nuove DEF Attivita
<1> HIDE DEF x
<1>3. op = [k \in Slot |-> IF k = i THEN x ELSE IF k = j THEN Carico ELSE Ferma]
  BY <1>1 DEF x
<1>4. Comandata(x) /\ Comandata(Carico) /\ Comandata(Ferma)
  BY <1>2, Nuove DEF Comandata, DiComando
<1>5. op \in [Slot -> Attivita] /\ \A k \in Slot : op[k] \in {x, Carico, Ferma}
  BY <1>2, <1>3, Nuove
<1>6. Attive(op, pila, storia)
  BY <1>2, <1>4, <1>5, Nuove, NessunoAssumption DEF Attive
<1>7. pila = <<"casa">> /\ caricando = TRUE
      /\ storia = [incerto |-> TRUE, usciti |-> {}, sopravvissuta |-> FALSE]
  BY DEF Init
<1>8. Impilata(pila) /\ pila # <<>>
  BY <1>7, MaxPilaAssumption DEF Impilata, Pagine
<1>9. Campi
  BY <1>7 DEF Init, Campi, Storia
<1>10. CaricandoSpiegato
  BY <1>2, <1>3 DEF CaricandoSpiegato, InCorso, DiProgetti
<1> QED
  BY <1>6, <1>8, <1>9, <1>10 DEF Inv, VuotoSpiegato

\* Every step keeps it.
LEMMA InvNext == Inv /\ [Next]_vars => Inv'
<1> SUFFICES ASSUME Inv, [Next]_vars PROVE Inv'
  OBVIOUS
<1>1. CASE UNCHANGED vars
  BY <1>1 DEF vars, Inv, Campi, Attive, VuotoSpiegato, CaricandoSpiegato, InCorso
<1>2. CASE Utente
  BY <1>2, PagineInv, AnnullaInv, RicaricaInv, ComandiInv DEF Utente
<1>3. ASSUME NEW k \in Slot, Avanza(k) PROVE Inv'
  BY <1>3, ComandiInv, RitornaInv, RitornaAbbandonaInv, InterrogaInv, AssegnaInv,
     ContaInv, CompletatiInv
  DEF Avanza
<1> QED
  BY <1>1, <1>2, <1>3 DEF Next, SchermoVuoto

\* However loads, joins, dialogs and pages overlap, the state is well typed, and
\* a dialog is only ever on top and known to the calls it made.
THEOREM TipiCorretti == Spec => [](TypeOK /\ Inv)
<1>1. Inv => TypeOK
  <2> SUFFICES ASSUME Inv PROVE TypeOK
    OBVIOUS
  <2>1. /\ pila \in Seq({"casa", "dialogo"} \cup Progetti)
        /\ DOMAIN pila = 1..Len(pila) /\ Len(pila) <= MaxPila
    BY LenProperties DEF Inv, Impilata, Pagine
  <2>2. \A k \in Slot : op[k].dialogo => InCima("dialogo")
    BY InCimaDialogo DEF Inv, Attive
  <2> QED
    BY <2>1, <2>2 DEF Inv, Campi, Impilata, Attive, TypeOK
<1> QED
  BY <1>1, InvInit, InvNext, PTL DEF Spec

\* The handler of the dialog pops the navigator it kept across its await; the
\* last page goes only if some call has outlived its dialog.
THEOREM VuotoSempreSpiegato == Spec => []VuotoSpiegato
<1>1. Inv => VuotoSpiegato
  BY DEF Inv
<1> QED
  BY <1>1, InvInit, InvNext, PTL DEF Spec

\* isLoading is set and reset by any number of overlapping loads; while it is set
\* one of them is under way that will reset it.
THEOREM CaricandoSempreSpiegato == Spec => []CaricandoSpiegato
<1>1. Inv => CaricandoSpiegato
  BY DEF Inv
<1> QED
  BY <1>1, InvInit, InvNext, PTL DEF Spec

-----------------------------------------------------------------------------
(* What the page shows.                                                    *)

\* Once a load of the projects was started alone, at most one is under way, and
\* unless the server has something new to tell, what that load has read and what
\* the page shows is what the server has.
Quiete ==
    ~storia.incerto =>
        /\ \A j, k \in Slot :
             op[j].fase \in DiProgetti /\ op[k].fase \in DiProgetti => j = k
        /\ (\A k \in Slot : op[k].fase # "fatto") =>
             /\ (\A k \in Slot : op[k].fase \notin DiProgetti) =>
                   progetti = iscritto /\ contati = iscritto
             /\ \A k \in Slot :
                  /\ op[k].fase = "letti" => op[k].lista = iscritto
                  /\ op[k].fase = "conta" => /\ progetti = iscritto
                                             /\ op[k].lista = iscritto

\* Whatever completed project is shown, or was read to be shown, and is not the
\* user's any more was left since the last load that met no other one.
Lasciati ==
    /\ (\A k \in Slot : op[k].fase \notin DiCompletati) =>
          completati \ iscritto \subseteq storia.usciti
    /\ \A k \in Slot : op[k].fase = "lettiCompletati" =>
          op[k].lista \ iscritto \subseteq storia.usciti

Riposo == Quiete /\ Lasciati

\* Phases of activities that neither load nor have anything to report.
Estranee == {"ferma", "entra", "crea", "abbandona"}

\* What the history becomes.
LEMMA AnnotaEsatta ==
    ASSUME Campi, NEW o, NEW cp, NEW cc, Annota(o, cp, cc)
    PROVE  /\ cp = {} => storia'.incerto = storia.incerto
           /\ cp # {} /\ ~storia'.incerto => /\ InCorso(o, DiProgetti) = {}
                                             /\ \A j, k \in cp : j = k
           /\ storia'.usciti = IF cc # {} /\ InCorso(o, DiCompletati) = {} THEN {}
                               ELSE storia.usciti
BY DEF Annota

\* Steps in which nothing is loaded.
LEMMA RiposoFermo ==
    ASSUME Riposo, UNCHANGED <<iscritto, progetti, contati, completati>>,
           storia.incerto => storia'.incerto, storia'.usciti = storia.usciti,
           \A k \in Slot :
               \/ op'[k].fase = op[k].fase /\ op'[k].lista = op[k].lista
               \/ op[k].fase \in Estranee /\ op'[k].fase \in Estranee
    PROVE  Riposo'
<1>1. Quiete'
  BY DEF Riposo, Quiete, Estranee, DiProgetti
<1>2. Lasciati'
  BY DEF Riposo, Lasciati, Estranee, DiCompletati
<1> QED
  BY <1>1, <1>2 DEF Riposo

\* Steps that start a load of the projects, in slots cp, and possibly one of the
\* completed ones, in slots cc, and leave the activities o otherwise.
LEMMA RiposoPartono ==
    ASSUME Inv, Riposo, UNCHANGED <<iscritto, progetti, contati, completati>>,
           NEW o, NEW cp \in SUBSET Slot, NEW cc \in SUBSET Slot,
           cp # {}, cp \cap cc = {},
           \A k \in cp \cup cc : o[k].fase = "ferma",
           \A k \in Slot :
               \/ o[k].fase = op[k].fase /\ o[k].lista = op[k].lista
               \/ o[k].fase = "ferma" /\ op[k].fase \in DiComando,
           NEW r, \A k \in Slot : r[k].fase = o[k].fase /\ r[k].lista = o[k].lista,
           op' = Partono(r, cp, cc), Annota(o, cp, cc)
    PROVE  Riposo'
<1>1. \A k \in Slot : op'[k] = IF k \in cp THEN Carico
                               ELSE IF k \in cc THEN CaricoCompletati ELSE r[k]
  BY DEF Partono
<1>2. /\ ~storia'.incerto => /\ InCorso(o, DiProgetti) = {}
                             /\ \A j, k \in cp : j = k
      /\ storia'.usciti = IF cc # {} /\ InCorso(o, DiCompletati) = {} THEN {}
                          ELSE storia.usciti
  BY AnnotaEsatta DEF Inv
<1>3. \A k \in Slot :
        /\ k \in cp => op'[k].fase = "chiede"
        /\ k \in cc => op'[k].fase = "chiedeCompletati"
        /\ k \notin cp \cup cc => /\ op'[k].fase = o[k].fase
                                  /\ op'[k].lista = o[k].lista
  BY <1>1, Nuove
<1>4. Quiete'
  <2> SUFFICES ASSUME ~storia'.incerto PROVE Quiete'
    BY DEF Quiete
  <2>1. \A k \in Slot : op'[k].fase \in DiProgetti => k \in cp
    BY <1>2, <1>3 DEF InCorso, DiProgetti
  <2>2. \E k \in Slot : op'[k].fase \in DiProgetti
    BY <1>3 DEF DiProgetti
  <2>3. \A k \in Slot : op'[k].fase \notin {"letti", "conta"}
    BY <1>3, <2>1 DEF DiProgetti
  <2> QED
    BY <1>2, <2>1, <2>2, <2>3 DEF Quiete
<1>5. Lasciati'
  <2>1. \A k \in Slot : op[k].fase \in DiCompletati =>
          /\ op'[k].fase = op[k].fase /\ op'[k].lista = op[k].lista
          /\ k \in InCorso(o, DiCompletati)
    BY <1>3 DEF InCorso, DiCompletati, DiComando
  <2>2. \A k \in Slot : op'[k].fase = "lettiCompletati" =>
          /\ op[k].fase = "lettiCompletati" /\ op'[k].lista = op[k].lista
          /\ k \in InCorso(o, DiCompletati)
    BY <1>3 DEF InCorso, DiCompletati
  <2>3. CASE cc = {}
    BY <1>2, <2>1, <2>2, <2>3 DEF Riposo, Lasciati
  <2>4. CASE cc # {}
    <3>1. \E k \in Slot : op'[k].fase \in DiCompletati
      BY <1>3, <2>4 DEF DiCompletati
    <3> QED
      BY <1>2, <2>2, <3>1 DEF Riposo, Lasciati
  <2> QED
    BY <2>3, <2>4
<1> QED
  BY <1>4, <1>5 DEF Riposo

\* The loss of a dialog does not change what is loaded.
LEMMA SenzaDialogoFasi ==
    ASSUME NEW o \in [Slot -> Attivita]
    PROVE  \A k \in Slot : /\ SenzaDialogo(o)[k].fase = o[k].fase
                           /\ SenzaDialogo(o)[k].lista = o[k].lista
<1>1. CASE InCima("dialogo")
  BY <1>1 DEF SenzaDialogo, Attivita
<1>2. CASE ~InCima("dialogo")
  BY <1>2 DEF SenzaDialogo
<1> QED
  BY <1>1, <1>2

\* Pages and dialogs open and close.
LEMMA PagineRiposo ==
    ASSUME Inv, Riposo,
           \/ ApriDialogo \/ Indietro \/ Annulla
           \/ \E p \in Progetti : ApriProgetto(p)
    PROVE  Riposo'
<1>1. CASE UNCHANGED <<iscritto, progetti, contati, completati, op, storia>>
  BY <1>1, RiposoFermo
<1>2. CASE Annulla
  <2>1. /\ op' = SenzaDialogo(op) /\ Annota(op, {}, {})
        /\ UNCHANGED <<iscritto, progetti, contati, completati>>
    BY <1>2 DEF Annulla
  <2>2. storia'.incerto = storia.incerto /\ storia'.usciti = storia.usciti
    BY <2>1, AnnotaEsatta DEF Inv
  <2>3. \A k \in Slot : op'[k].fase = op[k].fase /\ op'[k].lista = op[k].lista
    BY <2>1, SenzaDialogoFasi DEF Inv, Attive
  <2> QED
    BY <2>1, <2>2, <2>3, RiposoFermo
<1> QED
  BY <1>1, <1>2 DEF ApriDialogo, Indietro, ApriProgetto

\* A new home page, of which the activities o are left.
LEMMA NuovaCasaRiposo ==
    ASSUME Inv, Riposo, NEW o \in [Slot -> Attivita], NEW k \in Slot,
           o[k].fase = "ferma",
           \A j \in Slot :
               \/ o[j].fase = op[j].fase /\ o[j].lista = op[j].lista
               \/ o[j].fase = "ferma" /\ op[j].fase \in DiComando,
           NuovaCasa(o, k), UNCHANGED <<iscritto, progetti, contati, completati>>
    PROVE  Riposo'
<1> DEFINE r == SenzaDialogo(o)
           cp == {k}
<1>1. \A j \in Slot : r[j].fase = o[j].fase /\ r[j].lista = o[j].lista
  BY SenzaDialogoFasi
<1>2. op' = Partono(r, cp, {}) /\ Annota(o, cp, {})
  BY DEF NuovaCasa
<1>3. /\ cp \in SUBSET Slot /\ cp # {} /\ cp \cap {} = {}
      /\ \A j \in cp \cup {} : o[j].fase = "ferma"
  OBVIOUS
<1> HIDE DEF r, cp
<1> QED
  BY <1>1, <1>2, <1>3, RiposoPartono

\* The back arrow of a project's page, and Sync.
LEMMA RicaricaRiposo ==
    ASSUME Inv, Riposo, Freccia \/ Sincronizza
    PROVE  Riposo'
<1>0. op \in [Slot -> Attivita]
  BY DEF Inv, Attive
<1>1. CASE Freccia
  BY <1>0, <1>1, NuovaCasaRiposo DEF Freccia, Liberi
<1>2. CASE Sincronizza
  <2>1. PICK j \in Liberi, k \in Liberi :
          j # k /\ op' = Partono(op, {j}, {k}) /\ Annota(op, {j}, {k})
    BY <1>2 DEF Sincronizza
  <2>2. PICK cp, cc : cp = {j} /\ cc = {k}
    OBVIOUS
  <2>3. /\ cp \in SUBSET Slot /\ cc \in SUBSET Slot /\ cp # {} /\ cp \cap cc = {}
        /\ \A i \in cp \cup cc : op[i].fase = "ferma"
    BY <2>1, <2>2 DEF Liberi
  <2>4. op' = Partono(op, cp, cc) /\ Annota(op, cp, cc)
    BY <2>1, <2>2
  <2> QED
    BY <1>2, <2>3, <2>4, RiposoPartono DEF Sincronizza
<1> QED
  BY <1>1, <1>2

\* Joining, creating and leaving: until the call has returned and its handler has
\* reloaded, the page is behind the server.
LEMMA ComandiRiposo ==
    ASSUME Inv, Riposo,
           \/ Abbandona \/ \E c \in {"entra", "crea"} : Conferma(c)
           \/ \E k \in Slot : Memorizza(k)
    PROVE  Riposo'
<1>0. op \in [Slot -> Attivita]
  BY DEF Inv, Attive
<1>1. CASE Abbandona \/ \E c \in {"entra", "crea"} : Conferma(c)
  <2>1. UNCHANGED <<iscritto, progetti, contati, completati, storia>>
    BY <1>1 DEF Abbandona, Conferma
  <2>2. PICK k, x : k \in Liberi /\ op' = [op EXCEPT ![k] = x] /\ x.fase \in Estranee
    <3>1. ASSUME NEW c \in {"entra", "crea"}, NEW k \in Liberi, NEW p,
                 op' = [op EXCEPT ![k] = [Ferma EXCEPT !.fase = c, !.comando = c,
                                                       !.progetto = p,
                                                       !.dialogo = TRUE]]
          PROVE  \E x : op' = [op EXCEPT ![k] = x] /\ x.fase \in Estranee
      <4> DEFINE x == [Ferma EXCEPT !.fase = c, !.comando = c, !.progetto = p,
                                    !.dialogo = TRUE]
      <4>1. x.fase \in Estranee
        BY DEF Ferma, Estranee
      <4> HIDE DEF x
      <4>2. op' = [op EXCEPT ![k] = x]
        BY <3>1 DEF x
      <4> QED
        BY <4>1, <4>2
    <3>2. ASSUME NEW k \in Liberi, NEW p,
                 op' = [op EXCEPT ![k] = [Ferma EXCEPT !.fase = "abbandona",
                                                       !.comando = "abbandona",
                                                       !.progetto = p]]
          PROVE  \E x : op' = [op EXCEPT ![k] = x] /\ x.fase \in Estranee
      <4> DEFINE x == [Ferma EXCEPT !.fase = "abbandona",
                                    !.comando = "abbandona", !.progetto = p]
      <4>1. x.fase \in Estranee
        BY DEF Ferma, Estranee
      <4> HIDE DEF x
      <4>2. op' = [op EXCEPT ![k] = x]
        BY <3>2 DEF x
      <4> QED
        BY <4>1, <4>2
    <3> QED
      BY <1>1, <3>1, <3>2 DEF Abbandona, Conferma
  <2>3. \A j \in Slot : \/ op'[j] = op[j]
                        \/ op[j].fase \in Estranee /\ op'[j].fase \in Estranee
    BY <1>0, <2>2 DEF Liberi, Estranee
  <2> QED
    BY <2>1, <2>3, RiposoFermo
<1>2. ASSUME NEW k \in Slot, Memorizza(k) PROVE Riposo'
  <2>1. /\ op[k].fase \in {"entra", "crea", "abbandona"}
        /\ op' = [op EXCEPT ![k].fase = "fatto"]
        /\ UNCHANGED <<pila, progetti, contati, completati, caricando>>
    BY <1>2 DEF Memorizza
  <2>2. op'[k].fase = "fatto" /\ \A j \in Slot : j # k => op'[j] = op[j]
    BY <1>0, <2>1 DEF Attivita
  <2>3. /\ storia'.incerto = storia.incerto
        /\ iscritto \ iscritto' \subseteq storia'.usciti
        /\ storia.usciti \subseteq storia'.usciti
    BY <1>2 DEF Memorizza, Inv, Campi, Storia
  <2>4. Quiete'
    BY <2>1, <2>2, <2>3 DEF Riposo, Quiete, DiProgetti
  <2>5. Lasciati'
    BY <2>1, <2>2, <2>3 DEF Riposo, Lasciati, DiCompletati
  <2> QED
    BY <2>4, <2>5 DEF Riposo
<1> QED
  BY <1>1, <1>2

\* The end of the dialog's handler.
LEMMA RitornaRiposo ==
    ASSUME Inv, Riposo, NEW k \in Slot, Ritorna(k)
    PROVE  Riposo'
<1> DEFINE o == [op EXCEPT ![k] = Ferma]
           riuscita == op[k].fase = "fatto"
           r == IF pila' = pila THEN o ELSE SenzaDialogo(o)
<1>1. PICK cp \in SUBSET (Liberi \cup {k}), cc \in SUBSET (Liberi \cup {k}) :
        /\ cp \cap cc = {}
        /\ Cardinality(cp) \in IF ~riuscita THEN {0}
                               ELSE IF op[k].comando = "crea" /\ op[k].dialogo
                                    THEN {1, 2} ELSE {1}
        /\ Cardinality(cc) = IF riuscita THEN 1 ELSE 0
        /\ op' = Partono(r, cp, cc)
        /\ Annota(o, cp, cc)
  BY DEF Ritorna
<1>2. /\ op[k].comando \in {"entra", "crea"}
      /\ UNCHANGED <<iscritto, progetti, contati, completati>>
  BY DEF Ritorna
<1>3. op[k].fase \in DiComando
  BY <1>2, NessunoAssumption DEF Inv, Attive, Comandata
<1>4. /\ o \in [Slot -> Attivita]
      /\ \A j \in Slot : o[j] = IF j = k THEN Ferma ELSE op[j]
  BY AttivaFerma DEF Inv, Attive
<1> HIDE DEF o
<1>5. \A j \in Slot : r[j].fase = o[j].fase /\ r[j].lista = o[j].lista
  BY <1>4, SenzaDialogoFasi
<1>6. /\ cp \in SUBSET Slot /\ cc \in SUBSET Slot
      /\ \A j \in cp \cup cc : o[j].fase = "ferma"
  BY <1>4, Nuove DEF Liberi
<1>7. \A j \in Slot :
        \/ o[j].fase = op[j].fase /\ o[j].lista = op[j].lista
        \/ o[j].fase = "ferma" /\ op[j].fase \in DiComando
  BY <1>3, <1>4, Nuove
<1> HIDE DEF r
<1>8. CASE riuscita
  <2>1. cp # {}
    BY <1>1, <1>8, FS_EmptySet
  <2> QED
    BY <1>1, <1>2, <1>5, <1>6, <1>7, <2>1, RiposoPartono
<1>9. CASE ~riuscita
  <2>1. IsFiniteSet(cp) /\ IsFiniteSet(cc)
    BY <1>6, SlotAssumption, FS_Subset
  <2>2. cp = {} /\ cc = {}
    BY <1>1, <1>9, <2>1, FS_EmptySet
  <2>3. storia'.incerto = storia.incerto /\ storia'.usciti = storia.usciti
    BY <1>1, <2>2, AnnotaEsatta DEF Inv
  <2>4. \A j \in Slot : op'[j] = r[j]
    BY <1>1, <2>2 DEF Partono
  <2>5. op[k].fase \in Estranee
    BY <1>3, <1>9 DEF DiComando, Estranee
  <2>6. \A j \in Slot : \/ op'[j].fase = op[j].fase /\ op'[j].lista = op[j].lista
                        \/ op[j].fase \in Estranee /\ op'[j].fase \in Estranee
    BY <1>4, <1>5, <2>4, <2>5, Nuove DEF Estranee
  <2> QED
    BY <1>2, <2>3, <2>6, RiposoFermo
<1> QED
  BY <1>8, <1>9

\* The end of abbandona.
LEMMA RitornaAbbandonaRiposo ==
    ASSUME Inv, Riposo, NEW k \in Slot, RitornaAbbandona(k)
    PROVE  Riposo'
<1> DEFINE o == [op EXCEPT ![k] = Ferma]
<1>1. /\ o \in [Slot -> Attivita]
      /\ \A j \in Slot : o[j] = IF j = k THEN Ferma ELSE op[j]
  BY AttivaFerma DEF Inv, Attive
<1>2. op[k].fase \in DiComando
  BY NessunoAssumption DEF RitornaAbbandona, Inv, Attive, Comandata
<1>3. UNCHANGED <<iscritto, progetti, contati, completati>>
  BY DEF RitornaAbbandona
<1>4. CASE NuovaCasa(o, k)
  <2> HIDE DEF o
  <2> QED
    BY <1>1, <1>2, <1>3, <1>4, Nuove, NuovaCasaRiposo
<1>5. CASE /\ op' = o
           /\ storia' = [storia EXCEPT !.incerto = @ \/ op[k].fase = "fatto"]
  <2>1. storia'.incerto = (storia.incerto \/ op[k].fase = "fatto")
        /\ storia'.usciti = storia.usciti
    BY <1>5 DEF Inv, Campi, Storia
  <2>2. CASE op[k].fase = "fatto"
    <3>1. Quiete'
      BY <2>1, <2>2 DEF Quiete
    <3>2. Lasciati'
      BY <1>1, <1>3, <1>5, <2>1, <2>2, Nuove DEF Riposo, Lasciati, DiCompletati
    <3> QED
      BY <3>1, <3>2 DEF Riposo
  <2>3. CASE op[k].fase # "fatto"
    <3>1. op[k].fase \in Estranee /\ op'[k].fase \in Estranee
      BY <1>1, <1>2, <1>5, <2>3, Nuove DEF DiComando, Estranee
    <3>2. storia'.incerto = storia.incerto
      BY <2>1, <2>3 DEF Inv, Campi, Storia
    <3> HIDE DEF o
    <3> QED
      BY <1>1, <1>3, <1>5, <2>1, <3>1, <3>2, RiposoFermo
  <2> QED
    BY <2>2, <2>3
<1> QED
  BY <1>4, <1>5 DEF RitornaAbbandona

\* A load receives its answer.
LEMMA InterrogaRiposo ==
    ASSUME Inv, Riposo, NEW k \in Slot, Interroga(k)
    PROVE  Riposo'
<1>1. op \in [Slot -> Attivita] /\ storia \in Storia
  BY DEF Inv, Attive, Campi
<1>2. UNCHANGED <<iscritto, progetti, contati, completati>>
  BY DEF Interroga
<1>3. \A j \in Slot : j # k => op'[j] = op[j]
  BY <1>1 DEF Interroga
<1>4. storia'.usciti = storia.usciti
  BY <1>1 DEF Interroga, Storia
<1>5. CASE op[k].fase = "chiede"
  <2>1. /\ op'[k].fase = "letti"
        /\ storia'.incerto \/ (/\ storia'.incerto = storia.incerto
                               /\ op'[k].lista = iscritto)
    BY <1>1, <1>5 DEF Interroga, Attivita, Storia
  <2>2. Quiete'
    BY <1>2, <1>3, <1>5, <2>1 DEF Riposo, Quiete, DiProgetti
  <2>3. Lasciati'
    BY <1>2, <1>3, <1>4, <1>5, <2>1 DEF Riposo, Lasciati, DiCompletati
  <2> QED
    BY <2>2, <2>3 DEF Riposo
<1>6. CASE op[k].fase = "chiedeCompletati"
  <2>1. /\ op'[k].fase = "lettiCompletati" /\ op'[k].lista \ iscritto = {}
        /\ storia' = storia
    BY <1>1, <1>6 DEF Interroga, Attivita, CompletatiUtente
  <2>2. Quiete'
    BY <1>2, <1>3, <1>6, <2>1 DEF Riposo, Quiete, DiProgetti
  <2>3. Lasciati'
    BY <1>2, <1>3, <1>6, <2>1 DEF Riposo, Lasciati, DiCompletati
  <2> QED
    BY <2>2, <2>3 DEF Riposo
<1> QED
  BY <1>5, <1>6 DEF Interroga

\* The end of caricaProgettiUtente.
LEMMA ConcludiRiposo ==
    ASSUME Inv, Riposo, NEW k \in Slot, op[k].fase \in {"letti", "conta"},
           NEW mappa, Concludi(k, mappa), UNCHANGED <<iscritto, completati>>,
           (~storia.incerto /\ \A j \in Slot : op[j].fase # "fatto") =>
               progetti' = iscritto /\ mappa = iscritto
    PROVE  Riposo'
<1> DEFINE o == [op EXCEPT ![k] = Ferma]
           cc == IF op[k].iniziale THEN {k} ELSE {}
<1>1. /\ contati' = mappa
      /\ op' = Partono(o, {}, cc) /\ Annota(o, {}, cc)
  BY DEF Concludi
<1>2. \A j \in Slot : o[j] = IF j = k THEN Ferma ELSE op[j]
  BY AttivaFerma DEF Inv
<1>3. cc = {} \/ cc = {k}
  OBVIOUS
<1> HIDE DEF o, cc
<1>4. /\ storia'.incerto = storia.incerto
      /\ storia'.usciti = IF cc # {} /\ InCorso(o, DiCompletati) = {} THEN {}
                          ELSE storia.usciti
  BY <1>1, AnnotaEsatta DEF Inv
<1>5. \A j \in Slot : op'[j] = IF j \in cc THEN CaricoCompletati ELSE o[j]
  BY <1>1 DEF Partono
<1>6. /\ \A j \in Slot : j # k => op'[j] = op[j] /\ o[j] = op[j]
      /\ op'[k].fase = IF cc = {} THEN "ferma" ELSE "chiedeCompletati"
  BY <1>2, <1>3, <1>5, Nuove
<1>7. Quiete'
  <2> SUFFICES ASSUME ~storia.incerto PROVE Quiete'
    BY <1>4 DEF Quiete
  <2>1. \A j \in Slot : op'[j].fase \notin DiProgetti
    BY <1>6 DEF Riposo, Quiete, DiProgetti
  <2>2. (\A j \in Slot : op'[j].fase # "fatto") =>
            \A j \in Slot : op[j].fase # "fatto"
    BY <1>6
  <2> QED
    BY <1>1, <2>1, <2>2 DEF Quiete, DiProgetti
<1>8. Lasciati'
  <2>1. CASE cc = {}
    BY <1>4, <1>6, <2>1 DEF Riposo, Lasciati, DiCompletati
  <2>2. CASE cc # {}
    <3>1. op'[k].fase \in DiCompletati
      BY <1>6, <2>2 DEF DiCompletati
    <3>2. ASSUME NEW j \in Slot, op'[j].fase = "lettiCompletati"
          PROVE  /\ op[j].fase = "lettiCompletati" /\ op'[j].lista = op[j].lista
                 /\ storia'.usciti = storia.usciti
      <4>1. j # k
        BY <1>6, <2>2, <3>2
      <4>2. op'[j] = op[j] /\ j \in InCorso(o, DiCompletati)
        BY <1>6, <3>2, <4>1 DEF InCorso, DiCompletati
      <4> QED
        BY <1>4, <3>2, <4>2
    <3> QED
      BY <3>1, <3>2 DEF Riposo, Lasciati
  <2> QED
    BY <2>1, <2>2
<1> QED
  BY <1>7, <1>8 DEF Riposo

\* The list is assigned, and the tasks of each project are counted.
LEMMA AssegnaRiposo ==
    ASSUME Inv, Riposo, NEW k \in Slot, AssegnaProgetti(k) \/ Conta(k)
    PROVE  Riposo'
<1>1. op \in [Slot -> Attivita] /\ op[k] \in Attivita
  BY DEF Inv, Attive
<1>2. CASE AssegnaProgetti(k)
  <2>1. /\ op[k].fase = "letti" /\ progetti' = op[k].lista
        /\ UNCHANGED <<iscritto, completati>>
    BY <1>2 DEF AssegnaProgetti
  <2>2. CASE op[k].lista = {} /\ Concludi(k, {})
    BY <2>1, <2>2, ConcludiRiposo DEF Riposo, Quiete
  <2>3. CASE /\ op' = [op EXCEPT ![k].fase = "conta", ![k].lista = op[k].lista,
                                 ![k].resto = op[k].lista]
             /\ UNCHANGED <<contati, caricando, storia>>
    <3>1. /\ op'[k].fase = "conta" /\ op'[k].lista = op[k].lista
          /\ \A j \in Slot : j # k => op'[j] = op[j]
      BY <1>1, <2>3 DEF Attivita
    <3>2. Quiete'
      BY <2>1, <2>3, <3>1 DEF Riposo, Quiete, DiProgetti
    <3>3. Lasciati'
      BY <2>1, <2>3, <3>1 DEF Riposo, Lasciati, DiCompletati
    <3> QED
      BY <3>2, <3>3 DEF Riposo
  <2> QED
    BY <1>2, <2>2, <2>3 DEF AssegnaProgetti, DaContare
<1>3. CASE Conta(k)
  <2>1. op[k].fase = "conta" /\ UNCHANGED <<iscritto, progetti, completati>>
    BY <1>3 DEF Conta
  <2>2. CASE Concludi(k, op[k].lista)
    BY <2>1, <2>2, ConcludiRiposo DEF Riposo, Quiete
  <2>3. ASSUME NEW p, op' = [op EXCEPT ![k].resto = op[k].resto \ {p}],
               UNCHANGED <<contati, caricando, storia>>
        PROVE  Riposo'
    <3>1. \A j \in Slot : op'[j].fase = op[j].fase /\ op'[j].lista = op[j].lista
      BY <1>1, <2>3 DEF Attivita
    <3> QED
      BY <2>1, <2>3, <3>1, RiposoFermo
  <2> QED
    BY <1>3, <2>2, <2>3 DEF Conta
<1> QED
  BY <1>2, <1>3

\* The completed projects are assigned.
LEMMA CompletatiRiposo ==
    ASSUME Inv, Riposo, NEW k \in Slot, AssegnaCompletati(k)
    PROVE  Riposo'
<1>1. /\ op[k].fase = "lettiCompletati" /\ completati' = op[k].lista
      /\ op' = [op EXCEPT ![k] = Ferma]
      /\ UNCHANGED <<iscritto, pila, progetti, contati, caricando, storia>>
  BY DEF AssegnaCompletati
<1>2. /\ op'[k].fase = "ferma"
      /\ \A j \in Slot : j # k => op'[j] = op[j]
  BY <1>1, Nuove DEF Inv, Attive
<1>3. Quiete'
  BY <1>1, <1>2 DEF Riposo, Quiete, DiProgetti
<1>4. Lasciati'
  BY <1>1, <1>2 DEF Riposo, Lasciati, DiCompletati
<1> QED
  BY <1>3, <1>4 DEF Riposo

\* The history begins uncertain, with no completed projects.
LEMMA RiposoInit == Init => Riposo
<1> SUFFICES ASSUME Init PROVE Riposo
  OBVIOUS
<1>1. completati = {} /\ storia.incerto = TRUE
  BY DEF Init
<1>2. \A k \in Slot : op[k].fase # "lettiCompletati"
  <2>1. \A k \in Slot : op[k] \in {[Carico EXCEPT !.iniziale = TRUE], Carico, Ferma}
    BY DEF Init
  <2>2. [Carico EXCEPT !.iniziale = TRUE].fase = "chiede"
    BY Nuove DEF Attivita
  <2> QED
    BY <2>1, <2>2, Nuove
<1> QED
  BY <1>1, <1>2 DEF Riposo, Quiete, Lasciati

\* Every step keeps it.
LEMMA RiposoNext == Inv /\ Riposo /\ [Next]_vars => Riposo'
<1> SUFFICES ASSUME Inv, Riposo, [Next]_vars PROVE Riposo'
  OBVIOUS
<1>1. CASE UNCHANGED vars
  BY <1>1 DEF vars, Riposo, Quiete, Lasciati
<1>2. CASE Utente
  BY <1>2, PagineRiposo, RicaricaRiposo, ComandiRiposo DEF Utente
<1>3. ASSUME NEW k \in Slot, Avanza(k) PROVE Riposo'
  BY <1>3, ComandiRiposo, RitornaRiposo, RitornaAbbandonaRiposo, InterrogaRiposo,
     AssegnaRiposo, CompletatiRiposo
  DEF Avanza
<1> QED
  BY <1>1, <1>2, <1>3 DEF Next, SchermoVuoto

\* caricaProgettiUtente: once nothing is under way the home page shows the
\* projects the user is in, each with its count, whichever triggers loaded them,
\* unless the last loads overlapped or something threw.
THEOREM CasaSempreAggiornata == Spec => []CasaAggiornata
<1>1. Riposo => CasaAggiornata
  BY DEF Riposo, Quiete, CasaAggiornata, Liberi, DiProgetti
<1> QED
  BY <1>1, InvInit, InvNext, RiposoInit, RiposoNext, PTL DEF Spec

\* SezioneProgressi: a completed project that is shown and is not among the
\* projects is one the user has left since the completed ones were asked for.
THEOREM ProgressiSempreSpiegati == Spec => []ProgressiSpiegati
<1>1. Riposo => ProgressiSpiegati
  BY DEF Riposo, Quiete, Lasciati, ProgressiSpiegati, Liberi, DiProgetti,
         DiCompletati
<1> QED
  BY <1>1, InvInit, InvNext, RiposoInit, RiposoNext, PTL DEF Spec

=============================================================================
