---------------------------- MODULE ElenchiProofs ----------------------------
(***************************************************************************)
(* Theorems about Elenchi, for any number of projects, screens and calls   *)
(* at a time, and for a navigator of any depth.                            *)
(***************************************************************************)
EXTENDS Elenchi, SequenceTheorems, FiniteSetTheorems, WellFoundedInduction, TLAPS

Carichi == {"chiede", "letta"}

\* A navigator with the pages p over the screens sc: it begins with a home page,
\* ModificaProgetto is right above the screen it was opened from, and a screen is
\* there once, or not at all when it is not mounted.
Pila(p, sc) ==
    /\ p \in Seq(Pagine)
    /\ Len(p) \in 1..MaxPila
    /\ p[1] = Home
    /\ \A i \in 2..Len(p) : p[i] = Modifica => p[i - 1] \in Schermi
    /\ \A i, j \in 1..Len(p) : p[i] \in Schermi /\ p[i] = p[j] => i = j
    /\ \A s \in Schermi : sc[s].progetto # Nessuno <=> \E i \in 1..Len(p) : p[i] = s

\* What a call carries in each of its phases.
BenFormata(x) ==
    /\ x.fase \in Carichi => x.progetto \in Progetti /\ x.lista \in Liste
    /\ x.fase \in {"scrive", "scritta"} => x.comando \in Comandi
    /\ x.fase = "scrive" => x.ora = 0

\* The screen a call acts on, if any, is mounted.
Riferita(x, sc) == x.schermo # Nessuno => /\ x.schermo \in Schermi
                                          /\ sc[x.schermo].progetto # Nessuno

\* The calls o over the screens sc at the time t.
Attive(o, sc, t) ==
    /\ o \in [Slot -> Chiamata]
    /\ \A k \in Slot : /\ BenFormata(o[k])
                       /\ o[k].ora <= t
                       /\ Riferita(o[k], sc)

\* The call x is a load, for screen s in the state c, of the list on its tab,
\* which will have every write noted in h.
Fresca(x, s, c, h) ==
    /\ x.fase \in Carichi
    /\ x.schermo = s
    /\ x.lista = c.linguetta
    /\ x.progetto = c.progetto
    /\ x.fase = "letta" => x.ora >= h.scritta

\* What the history h of screen s in the state c tells about the calls o and the
\* lists el: the load started last is fresh, and when it has arrived and nobody
\* has overwritten its list, the list is.
Raccontata(s, c, h, o, el) ==
    /\ h.ultimo # Nessuno => /\ c.progetto # Nessuno
                             /\ ~h.superato
                             /\ Fresca(o[h.ultimo], s, c, h)
    /\ (c.progetto # Nessuno /\ h.ultimo = Nessuno /\ ~h.superato) =>
          /\ el[c.linguetta].progetto = c.progetto
          /\ el[c.linguetta].ora >= h.scritta

\* The spinner of screen s in the state c belongs to one of the calls o.
Attesa(s, c, o) ==
    c.progetto # Nessuno /\ c.caricando =>
        \E k \in Slot : o[k].schermo = s /\ o[k].fase \in Carichi

\* The state of the calls and of the lists, as the screens X see it.
Stato(X, sc, h, o, el, t) ==
    /\ sc \in [Schermi -> Schermo]
    /\ h \in [Schermi -> Storia]
    /\ el \in [Liste -> Elenco]
    /\ t \in Ore
    /\ Attive(o, sc, t)
    /\ \A s \in Schermi : h[s].scritta <= t
    /\ \A s \in X : Raccontata(s, sc[s], h[s], o, el) /\ Attesa(s, sc[s], o)

\* The properties, made inductive.
Inv == /\ Pila(pila, schermo)
       /\ Stato(Schermi, schermo, storia, op, elenco, ora)

-----------------------------------------------------------------------------
(* Values.                                                                 *)

\* Screens are numbers, and neither of the other pages nor null.
LEMMA Numeri ==
    /\ Schermi \subseteq Nat /\ Nessuno \notin Schermi /\ Nessuno \notin Slot
    /\ Nessuno \notin Progetti
    /\ Home \notin Schermi /\ Modifica \notin Schermi /\ Home # Modifica
    /\ Ore \subseteq Nat /\ 0 \in Ore
    /\ Pagine = Schermi \cup {Home, Modifica}
BY BoundsAssumption, NessunoAssumption DEF Schermi, Home, Modifica, Ore, Pagine

\* The lowest free number exists.
LEMMA ProssimoLibero ==
    ASSUME Schermi \ Montati # {}
    PROVE  Prossimo \in Schermi \ Montati
<1> DEFINE R == {ss \in Nat \X Nat : ss[1] < ss[2]}
<1>0. IsWellFoundedOn(R, Nat)
  BY NatLessThanWellFounded DEF OpToRel
<1>1. Schermi \ Montati \subseteq Nat
  BY Numeri
<1>2. PICK s \in Schermi \ Montati :
        \A z \in Schermi \ Montati : ~(<<z, s>> \in R)
  <2> HIDE DEF R
  <2> QED
    BY <1>0, <1>1, WFMin
<1>3. ASSUME NEW z \in Schermi \ Montati PROVE s <= z
  <2>1. s \in Nat /\ z \in Nat
    BY <1>1
  <2>2. ~(z < s)
    <3>1. z < s => <<z, s>> \in R
      BY <2>1
    <3> QED
      BY <1>2, <3>1
  <2> QED
    BY <2>1, <2>2
<1> QED
  BY <1>3 DEF Prossimo

\* A call that is not under way.
LEMMA FermaBenFormata ==
    /\ Ferma \in Chiamata
    /\ Ferma.fase = "ferma" /\ Ferma.schermo = Nessuno /\ Ferma.ora = 0
    /\ Ferma.comando = Nessuno
    /\ BenFormata(Ferma)
<1>1. 0 \in Ore
  BY Numeri
<1>2. Ferma \in Chiamata /\ Ferma.fase = "ferma" /\ Ferma.schermo = Nessuno
      /\ Ferma.ora = 0 /\ Ferma.comando = Nessuno
  BY <1>1 DEF Ferma, Chiamata
<1> QED
  BY <1>2 DEF BenFormata, Carichi

\* A load that starts.
LEMMA CaricoBenFormato ==
    ASSUME NEW s \in Schermi, NEW p \in Progetti, NEW l \in Liste,
           NEW resto \in SUBSET Liste
    PROVE  LET x == Carico(s, p, l, resto)
           IN /\ x \in Chiamata
              /\ BenFormata(x)
              /\ x.fase = "chiede" /\ x.schermo = s /\ x.progetto = p
              /\ x.lista = l /\ x.ora = 0 /\ x.comando = Nessuno
<1> DEFINE x == Carico(s, p, l, resto)
<1>1. 0 \in Ore
  BY Numeri
<1>3. /\ x \in Chiamata
      /\ x.fase = "chiede" /\ x.schermo = s /\ x.progetto = p
      /\ x.lista = l /\ x.ora = 0 /\ x.comando = Nessuno
  BY <1>1 DEF Carico, Ferma, Chiamata
<1> HIDE DEF x
<1>4. BenFormata(x)
  BY <1>3 DEF BenFormata, Carichi
<1> QED
  BY <1>3, <1>4 DEF x

\* What a choice of slots for a set of lists is.
LEMMA AssegnaProprieta ==
    ASSUME NEW liste, NEW dove, NEW ks \in Assegna(liste, dove)
    PROVE  /\ DOMAIN ks \subseteq dove
           /\ \A k \in DOMAIN ks : ks[k] \in liste
           /\ \A l \in liste : \E k \in DOMAIN ks : ks[k] = l
<1>1. PICK D \in SUBSET dove : ks \in [D -> liste]
  BY DEF Assegna
<1>2. DOMAIN ks = D
  BY <1>1
<1>3. \A l \in liste : \E k \in DOMAIN ks : ks[k] = l
  BY DEF Assegna
<1> QED
  BY <1>1, <1>2, <1>3

-----------------------------------------------------------------------------
(* The calls and the lists.                                                *)

\* One call changes and time goes on: a load that is answered is answered with
\* the tasks as they are now.
LEMMA StatoUna ==
    ASSUME NEW X \in SUBSET Schermi, NEW sc, NEW h, NEW o, NEW el, NEW t,
           Stato(X, sc, h, o, el, t),
           NEW k \in Slot, NEW x \in Chiamata, NEW u \in Ore, t <= u,
           BenFormata(x), x.ora <= u, Riferita(x, sc),
           o[k].fase \in Carichi =>
              /\ x.fase \in Carichi
              /\ x.schermo = o[k].schermo
              /\ x.progetto = o[k].progetto
              /\ x.lista = o[k].lista
              /\ x.fase = "letta" => x.ora = t
    PROVE  Stato(X, sc, h, [o EXCEPT ![k] = x], el, u)
<1> DEFINE p == [o EXCEPT ![k] = x]
<1>1. p \in [Slot -> Chiamata] /\ \A j \in Slot : p[j] = IF j = k THEN x ELSE o[j]
  BY DEF Stato, Attive
<1> HIDE DEF p
<1>2. t \in Nat /\ u \in Nat /\ t \in Ore
  BY Numeri DEF Stato
<1>3. Attive(p, sc, u)
  <2>1. ASSUME NEW j \in Slot PROVE o[j].ora \in Nat /\ o[j].ora <= t
    BY Numeri DEF Stato, Attive, Chiamata
  <2>2. \A j \in Slot : o[j].ora <= u
    BY <1>2, <2>1
  <2> QED
    BY <1>1, <2>2 DEF Stato, Attive
<1>4. ASSUME NEW s \in Schermi PROVE h[s].scritta \in Nat /\ h[s].scritta <= t
  BY Numeri DEF Stato, Storia
<1>5. \A s \in Schermi : h[s].scritta <= u
  BY <1>2, <1>4
<1>6. ASSUME NEW s \in X PROVE Raccontata(s, sc[s], h[s], p, el)
  <2>1. Raccontata(s, sc[s], h[s], o, el) /\ s \in Schermi
    BY DEF Stato
  <2>2. ASSUME h[s].ultimo # Nessuno PROVE Fresca(p[h[s].ultimo], s, sc[s], h[s])
    <3>1. Fresca(o[h[s].ultimo], s, sc[s], h[s]) /\ h[s].ultimo \in Slot
      BY <2>1, <2>2 DEF Raccontata, Stato, Storia
    <3>2. CASE h[s].ultimo # k
      BY <1>1, <3>1, <3>2
    <3>3. CASE h[s].ultimo = k
      BY <1>1, <1>2, <1>4, <2>1, <3>1, <3>3 DEF Fresca
    <3> QED
      BY <3>2, <3>3
  <2> QED
    BY <2>1, <2>2 DEF Raccontata
<1>7. ASSUME NEW s \in X PROVE Attesa(s, sc[s], p)
  <2>1. Attesa(s, sc[s], o)
    BY DEF Stato
  <2>2. \A j \in Slot : (o[j].schermo = s /\ o[j].fase \in Carichi) =>
                        (p[j].schermo = s /\ p[j].fase \in Carichi)
    BY <1>1
  <2> QED
    BY <2>1, <2>2 DEF Attesa
<1>8. Stato(X, sc, h, p, el, u)
  BY <1>3, <1>5, <1>6, <1>7 DEF Stato
<1> QED
  BY <1>8 DEF p

\* A call that is no load ends.
LEMMA StatoFerma ==
    ASSUME NEW X \in SUBSET Schermi, NEW sc, NEW h, NEW o, NEW el, NEW t,
           Stato(X, sc, h, o, el, t), NEW k \in Slot, o[k].fase \notin Carichi
    PROVE  Stato(X, sc, h, [o EXCEPT ![k] = Ferma], el, t)
<1>1. Riferita(Ferma, sc)
  BY FermaBenFormata DEF Riferita
<1>2. t \in Ore /\ t <= t /\ Ferma.ora <= t
  BY Numeri, FermaBenFormata DEF Stato
<1> QED
  BY <1>1, <1>2, FermaBenFormata, StatoUna

\* Screen s, about which nothing else need be known, starts loads in free slots,
\* one of them for the list on its tab.
LEMMA StatoCarica ==
    ASSUME NEW s \in Schermi,
           NEW sc, NEW h, NEW o, NEW el, NEW t,
           Stato(Schermi \ {s}, sc, h, o, el, t),
           NEW p \in Progetti, sc[s].progetto = p,
           NEW resto \in SUBSET Liste, NEW ks, DOMAIN ks \subseteq Slot,
           \A k \in DOMAIN ks : ks[k] \in Liste /\ o[k].fase \notin Carichi,
           \E k \in DOMAIN ks : ks[k] = sc[s].linguetta
    PROVE  Stato(Schermi, sc, Ricordati(h, s, sc[s].linguetta, ks),
                 Chiamate(o, s, p, ks, resto), el, t)
<1> DEFINE l == sc[s].linguetta
           c == CHOOSE k \in DOMAIN ks : ks[k] = l
           g == Ricordati(h, s, l, ks)
           q == Chiamate(o, s, p, ks, resto)
<1>1. c \in DOMAIN ks /\ ks[c] = l
  OBVIOUS
<1> HIDE DEF c
<1>2. /\ g \in [Schermi -> Storia]
      /\ \A z \in Schermi \ {s} : g[z] = h[z]
      /\ g[s].scritta = h[s].scritta /\ g[s].ultimo = c /\ ~g[s].superato
  <2> DEFINE r == [h[s] EXCEPT !.ultimo = c, !.superato = FALSE]
  <2>1. g = [h EXCEPT ![s] = r]
    BY <1>1 DEF Ricordati, c
  <2>2. /\ r \in Storia /\ r.scritta = h[s].scritta /\ r.ultimo = c
        /\ ~r.superato
    BY <1>1 DEF Stato, Storia
  <2> HIDE DEF r, g
  <2> QED
    BY <2>1, <2>2 DEF Stato
<1>3. \A k \in Slot : q[k] = IF k \in DOMAIN ks THEN Carico(s, p, ks[k], resto)
                             ELSE o[k]
  BY DEF Chiamate
<1>4. \A k \in DOMAIN ks : /\ q[k] \in Chiamata /\ BenFormata(q[k])
                           /\ q[k].fase = "chiede" /\ q[k].schermo = s
                           /\ q[k].progetto = p /\ q[k].lista = ks[k]
                           /\ q[k].ora = 0
  BY <1>3, CaricoBenFormato
<1>5. q \in [Slot -> Chiamata]
  <2>1. \A k \in Slot : q[k] \in Chiamata
    BY <1>3, <1>4 DEF Stato, Attive
  <2> QED
    BY <2>1 DEF Chiamate
<1> HIDE DEF g, q, l
<1>6. Nessuno # p /\ Nessuno \notin Slot /\ t \in Nat /\ Nessuno # s
  BY Numeri DEF Stato
<1>7. Attive(q, sc, t)
  <2>1. ASSUME NEW k \in Slot
        PROVE  BenFormata(q[k]) /\ q[k].ora <= t /\ Riferita(q[k], sc)
    <3>1. CASE k \in DOMAIN ks
      BY <1>4, <1>6, <3>1 DEF Riferita
    <3>2. CASE k \notin DOMAIN ks
      BY <1>3, <3>2 DEF Stato, Attive
    <3> QED
      BY <3>1, <3>2
  <2> QED
    BY <1>5, <2>1 DEF Attive
<1>8. \A z \in Schermi : g[z].scritta <= t
  BY <1>2 DEF Stato
<1>9. ASSUME NEW z \in Schermi \ {s}
      PROVE  Raccontata(z, sc[z], g[z], q, el) /\ Attesa(z, sc[z], q)
  <2>1. /\ Raccontata(z, sc[z], h[z], o, el)
        /\ Attesa(z, sc[z], o)
        /\ g[z] = h[z]
        /\ h[z].ultimo \in Slot \cup {Nessuno}
    BY <1>2 DEF Stato, Storia
  <2>2. \A k \in Slot : o[k].fase \in Carichi => q[k] = o[k]
    BY <1>3
  <2>3. Raccontata(z, sc[z], g[z], q, el)
    BY <2>1, <2>2 DEF Raccontata, Fresca
  <2>4. Attesa(z, sc[z], q)
    BY <2>1, <2>2 DEF Attesa
  <2> QED
    BY <2>3, <2>4
<1>10. Raccontata(s, sc[s], g[s], q, el) /\ Attesa(s, sc[s], q)
  <2>1. q[c].fase \in Carichi /\ q[c].fase # "letta" /\ q[c].schermo = s
        /\ q[c].lista = l /\ q[c].progetto = p
    BY <1>1, <1>4 DEF Carichi
  <2>2. Raccontata(s, sc[s], g[s], q, el)
    BY <1>1, <1>2, <1>6, <2>1 DEF Raccontata, Fresca, l
  <2>3. Attesa(s, sc[s], q)
    BY <1>1, <2>1 DEF Attesa
  <2> QED
    BY <2>2, <2>3
<1>11. Stato(Schermi, sc, g, q, el, t)
  BY <1>2, <1>7, <1>8, <1>9, <1>10 DEF Stato
<1> QED
  BY <1>11 DEF g, q, l

\* Screen s changes its tab or its spinner, or is opened; no call acts on it
\* unless it was mounted before.
LEMMA StatoSchermo ==
    ASSUME NEW sc, NEW h, NEW o, NEW el, NEW t, Stato(Schermi, sc, h, o, el, t),
           NEW s \in Schermi, NEW c \in Schermo, c.progetto # Nessuno,
           NEW g \in Storia, g.scritta <= t
    PROVE  Stato(Schermi \ {s}, [sc EXCEPT ![s] = c], [h EXCEPT ![s] = g], o, el, t)
<1> DEFINE d == [sc EXCEPT ![s] = c]
           i == [h EXCEPT ![s] = g]
<1>1. /\ d \in [Schermi -> Schermo] /\ i \in [Schermi -> Storia]
      /\ d[s] = c /\ i[s] = g
      /\ \A z \in Schermi \ {s} : d[z] = sc[z] /\ i[z] = h[z]
  BY DEF Stato
<1> HIDE DEF d, i
<1>2. Attive(o, d, t)
  BY <1>1 DEF Stato, Attive, Riferita
<1>3. \A z \in Schermi : i[z].scritta <= t
  BY <1>1 DEF Stato
<1>4. \A z \in Schermi \ {s} : Raccontata(z, d[z], i[z], o, el) /\ Attesa(z, d[z], o)
  BY <1>1 DEF Stato
<1>5. Stato(Schermi \ {s}, d, i, o, el, t)
  BY <1>1, <1>2, <1>3, <1>4 DEF Stato
<1> QED
  BY <1>5 DEF d, i

\* Screen s is closed.
LEMMA StatoChiuso ==
    ASSUME NEW sc, NEW h, NEW o, NEW el, NEW t, Stato(Schermi, sc, h, o, el, t),
           NEW s \in Schermi
    PROVE  Stato(Schermi, [sc EXCEPT ![s] = Chiuso], [h EXCEPT ![s] = SenzaStoria],
                 Smontato(o, s), el, t)
<1> DEFINE d == [sc EXCEPT ![s] = Chiuso]
           i == [h EXCEPT ![s] = SenzaStoria]
           p == Smontato(o, s)
<1>1. /\ Chiuso \in Schermo /\ Chiuso.progetto = Nessuno
      /\ SenzaStoria \in Storia /\ SenzaStoria.ultimo = Nessuno
      /\ SenzaStoria.scritta = 0
  BY Numeri DEF Chiuso, SenzaStoria, Schermo, Storia, Liste
<1>2. /\ d \in [Schermi -> Schermo] /\ i \in [Schermi -> Storia]
      /\ d[s] = Chiuso /\ i[s] = SenzaStoria
      /\ \A z \in Schermi \ {s} : d[z] = sc[z] /\ i[z] = h[z]
  BY <1>1 DEF Stato
<1>3. /\ p \in [Slot -> Chiamata]
      /\ \A k \in Slot : o[k].schermo # s => p[k] = o[k]
      /\ \A k \in Slot : o[k].schermo = s =>
            /\ p[k].schermo = Nessuno
            /\ p[k].fase = o[k].fase /\ p[k].ora = o[k].ora
            /\ p[k].progetto = o[k].progetto /\ p[k].lista = o[k].lista
            /\ p[k].comando = o[k].comando
  <2> DEFINE x(k) == [o[k] EXCEPT !.schermo = Nessuno, !.resto = {}]
  <2>1. ASSUME NEW k \in Slot
        PROVE  /\ x(k) \in Chiamata /\ x(k).schermo = Nessuno
               /\ x(k).fase = o[k].fase /\ x(k).ora = o[k].ora
               /\ x(k).progetto = o[k].progetto /\ x(k).lista = o[k].lista
               /\ x(k).comando = o[k].comando
    <3>1. o[k] \in Chiamata
      BY DEF Stato, Attive
    <3> QED
      BY <3>1 DEF Chiamata
  <2>2. p = [k \in Slot |-> IF o[k].schermo = s THEN x(k) ELSE o[k]]
    BY DEF Smontato
  <2> HIDE DEF x, p
  <2>3. \A k \in Slot : o[k] \in Chiamata
    BY DEF Stato, Attive
  <2> QED
    BY <2>1, <2>2, <2>3
<1> HIDE DEF d, i, p
<1>4. Attive(p, d, t)
  <2>1. ASSUME NEW k \in Slot
        PROVE  BenFormata(p[k]) /\ p[k].ora <= t /\ Riferita(p[k], d)
    <3>1. BenFormata(o[k]) /\ o[k].ora <= t /\ Riferita(o[k], sc)
      BY DEF Stato, Attive
    <3>2. CASE o[k].schermo = s
      BY <1>3, <3>1, <3>2 DEF BenFormata, Riferita
    <3>3. CASE o[k].schermo # s
      BY <1>2, <1>3, <3>1, <3>3 DEF Riferita
    <3> QED
      BY <3>2, <3>3
  <2> QED
    BY <1>3, <2>1 DEF Attive
<1>5. \A z \in Schermi : i[z].scritta <= t
  BY <1>1, <1>2, Numeri DEF Stato
<1>6. ASSUME NEW z \in Schermi
      PROVE  Raccontata(z, d[z], i[z], p, el) /\ Attesa(z, d[z], p)
  <2>1. CASE z = s
    BY <1>1, <1>2, <2>1 DEF Raccontata, Attesa
  <2>2. CASE z # s
    <3>1. /\ Raccontata(z, sc[z], h[z], o, el) /\ Attesa(z, sc[z], o)
          /\ d[z] = sc[z] /\ i[z] = h[z]
          /\ h[z].ultimo \in Slot \cup {Nessuno}
      BY <1>2, <2>2 DEF Stato, Storia
    <3>2. \A k \in Slot : o[k].schermo = z => p[k] = o[k]
      BY <1>3, <2>2
    <3>3. Raccontata(z, d[z], i[z], p, el)
      BY <3>1, <3>2 DEF Raccontata, Fresca
    <3>4. Attesa(z, d[z], p)
      BY <3>1, <3>2 DEF Attesa
    <3> QED
      BY <3>3, <3>4
  <2> QED
    BY <2>1, <2>2
<1>7. Stato(Schermi, d, i, p, el, t)
  BY <1>2, <1>4, <1>5, <1>6 DEF Stato
<1> QED
  BY <1>7 DEF d, i, p

\* A load arrives; the spinner of its screen is still to be decided.
LEMMA StatoArrivo ==
    ASSUME Inv, NEW k \in Slot, op[k].fase \in Carichi,
           NEW el, el = [elenco EXCEPT ![op[k].lista] = Assegnato(k)]
    PROVE  /\ Stato(Schermi \ {op[k].schermo}, schermo, Superati(k),
                    [op EXCEPT ![k] = Ferma], el, ora)
           /\ \A z \in Schermi :
                Raccontata(z, schermo[z], Superati(k)[z], [op EXCEPT ![k] = Ferma], el)
<1> DEFINE p == [op EXCEPT ![k] = Ferma]
           g == Superati(k)
<1>1. Stato(Schermi, schermo, storia, op, elenco, ora) /\ op[k] \in Chiamata
  BY DEF Inv, Stato, Attive
<1>2. p \in [Slot -> Chiamata] /\ \A j \in Slot : p[j] = IF j = k THEN Ferma ELSE op[j]
  BY <1>1, FermaBenFormata DEF Stato, Attive
<1>3. /\ op[k].lista \in Liste /\ op[k].progetto \in Progetti
      /\ op[k].ora \in Ore /\ ora \in Ore /\ op[k].ora <= ora
  BY <1>1 DEF Stato, Attive, BenFormata, Chiamata
<1>4. /\ Assegnato(k) \in Elenco
      /\ Assegnato(k).progetto = op[k].progetto
      /\ Assegnato(k).ora = IF op[k].fase = "chiede" THEN ora ELSE op[k].ora
  BY <1>3 DEF Assegnato, Elenco
<1>5. /\ el \in [Liste -> Elenco] /\ el[op[k].lista] = Assegnato(k)
      /\ \A l \in Liste : l # op[k].lista => el[l] = elenco[l]
  BY <1>1, <1>3, <1>4 DEF Stato
<1>6. ASSUME NEW z \in Schermi
      PROVE  /\ g[z] \in Storia
             /\ g[z].scritta = storia[z].scritta
             /\ storia[z].ultimo = k =>
                   g[z].ultimo = Nessuno /\ g[z].superato = storia[z].superato
             /\ storia[z].ultimo # k =>
                  /\ g[z].ultimo = storia[z].ultimo
                  /\ (/\ schermo[z].progetto # Nessuno
                      /\ schermo[z].linguetta = op[k].lista
                      /\ storia[z].ultimo = Nessuno) => g[z].superato
                  /\ ~(/\ schermo[z].progetto # Nessuno
                       /\ schermo[z].linguetta = op[k].lista
                       /\ storia[z].ultimo = Nessuno) => g[z] = storia[z]
  <2>1. storia[z] \in Storia
    BY <1>1 DEF Stato
  <2>2. g[z] = IF storia[z].ultimo = k THEN [storia[z] EXCEPT !.ultimo = Nessuno]
               ELSE IF /\ schermo[z].progetto # Nessuno
                       /\ schermo[z].linguetta = op[k].lista
                       /\ storia[z].ultimo = Nessuno
               THEN [storia[z] EXCEPT !.superato = TRUE]
               ELSE storia[z]
    BY DEF Superati, Montati
  <2> HIDE DEF g
  <2>3. CASE storia[z].ultimo = k
    BY <2>1, <2>2, <2>3 DEF Storia
  <2>4. CASE /\ storia[z].ultimo # k
             /\ schermo[z].progetto # Nessuno
             /\ schermo[z].linguetta = op[k].lista
             /\ storia[z].ultimo = Nessuno
    BY <2>1, <2>2, <2>4 DEF Storia
  <2> QED
    BY <2>1, <2>2, <2>3, <2>4
<1>7. g \in [Schermi -> Storia]
  BY <1>6 DEF Superati
<1> HIDE DEF p, g
<1>8. Attive(p, schermo, ora)
  BY <1>1, <1>2, FermaBenFormata, Numeri DEF Stato, Attive, Riferita
<1>9. \A z \in Schermi : g[z].scritta <= ora
  BY <1>1, <1>6 DEF Stato
<1>10. ASSUME NEW z \in Schermi PROVE Raccontata(z, schermo[z], g[z], p, el)
  <2>1. /\ Raccontata(z, schermo[z], storia[z], op, elenco)
        /\ schermo[z].linguetta \in Liste
        /\ storia[z].ultimo \in Slot \cup {Nessuno}
        /\ storia[z].scritta <= ora
    BY <1>1 DEF Stato, Storia, Schermo
  <2>2. CASE storia[z].ultimo = k
    <3>1. Fresca(op[k], z, schermo[z], storia[z])
      BY <2>1, <2>2, Numeri DEF Raccontata
    <3>2. el[schermo[z].linguetta].progetto = schermo[z].progetto
      BY <1>4, <1>5, <3>1 DEF Fresca
    <3>3. el[schermo[z].linguetta].ora >= g[z].scritta
      <4>1. CASE op[k].fase = "chiede"
        BY <1>1, <1>3, <1>4, <1>5, <1>6, <2>1, <3>1, <4>1, Numeri
        DEF Fresca, Stato, Storia
      <4>2. CASE op[k].fase = "letta"
        BY <1>4, <1>5, <1>6, <3>1, <4>2 DEF Fresca
      <4> QED
        BY <3>1, <4>1, <4>2 DEF Fresca, Carichi
    <3> QED
      BY <1>6, <2>2, <3>2, <3>3 DEF Raccontata
  <2>3. CASE storia[z].ultimo # k /\ storia[z].ultimo # Nessuno
    <3>1. g[z] = storia[z] /\ p[storia[z].ultimo] = op[storia[z].ultimo]
      BY <1>2, <1>6, <2>1, <2>3
    <3> QED
      BY <2>1, <2>3, <3>1 DEF Raccontata
  <2>4. CASE storia[z].ultimo # k /\ storia[z].ultimo = Nessuno
    <3>1. CASE schermo[z].progetto # Nessuno /\ schermo[z].linguetta = op[k].lista
      BY <1>6, <2>4, <3>1 DEF Raccontata
    <3>2. CASE ~(schermo[z].progetto # Nessuno /\ schermo[z].linguetta = op[k].lista)
      <4>1. g[z] = storia[z]
        BY <1>6, <2>4, <3>2
      <4>2. schermo[z].progetto # Nessuno =>
              el[schermo[z].linguetta] = elenco[schermo[z].linguetta]
        BY <1>5, <2>1, <3>2
      <4> QED
        BY <2>1, <2>4, <4>1, <4>2 DEF Raccontata
    <3> QED
      BY <3>1, <3>2
  <2> QED
    BY <2>2, <2>3, <2>4
<1>11. ASSUME NEW z \in Schermi \ {op[k].schermo} PROVE Attesa(z, schermo[z], p)
  <2>1. Attesa(z, schermo[z], op)
    BY <1>1 DEF Stato
  <2>2. \A j \in Slot : op[j].schermo = z => p[j] = op[j]
    BY <1>2
  <2> QED
    BY <2>1, <2>2 DEF Attesa
<1>12. Stato(Schermi \ {op[k].schermo}, schermo, g, p, el, ora)
  BY <1>1, <1>5, <1>7, <1>8, <1>9, <1>10, <1>11 DEF Stato
<1> QED
  BY <1>10, <1>12 DEF p, g

-----------------------------------------------------------------------------
(* The navigator.                                                          *)

\* The page on top.
LEMMA CimaProprieta ==
    ASSUME NEW sc, Pila(pila, sc)
    PROVE  /\ Len(pila) \in Nat \ {0} /\ Len(pila) <= MaxPila /\ MaxPila \in Nat
           /\ Cima = pila[Len(pila)] /\ Cima \in Pagine
           /\ \A i \in 1..Len(pila) : pila[i] \in Pagine
           /\ Cima \in Schermi => sc[Cima].progetto # Nessuno
<1>1. Len(pila) \in Nat \ {0} /\ Len(pila) <= MaxPila /\ MaxPila \in Nat
  BY BoundsAssumption DEF Pila
<1>2. \A i \in 1..Len(pila) : pila[i] \in Pagine
  BY ElementOfSeq DEF Pila
<1>3. Len(pila) \in 1..Len(pila)
  BY <1>1
<1> QED
  BY <1>1, <1>2, <1>3 DEF Cima, Pila

\* What is on the navigator matters, and nothing else about the screens does.
LEMMA PilaStessa ==
    ASSUME NEW p, NEW sc, Pila(p, sc), NEW d,
           \A s \in Schermi : d[s].progetto # Nessuno <=> sc[s].progetto # Nessuno
    PROVE  Pila(p, d)
BY DEF Pila

\* A page is pushed: ModificaProgetto from a screen, or a screen that was not there.
LEMMA PilaAggiunta ==
    ASSUME NEW p, NEW sc, Pila(p, sc), Len(p) < MaxPila, NEW x \in Pagine, NEW d,
           x = Modifica => p[Len(p)] \in Schermi,
           x \in Schermi => sc[x].progetto = Nessuno,
           \A s \in Schermi : d[s].progetto # Nessuno <=>
                                 (s = x \/ sc[s].progetto # Nessuno),
           NEW q, q = Append(p, x)
    PROVE  Pila(q, d)
<1> DEFINE n == Len(p)
<1>1. p \in Seq(Pagine) /\ n \in Nat /\ n >= 1 /\ MaxPila \in Nat
  BY BoundsAssumption DEF Pila
<1>2. /\ q \in Seq(Pagine) /\ Len(q) = n + 1
      /\ \A i \in 1..n : q[i] = p[i]
      /\ q[n + 1] = x
  BY <1>1, AppendProperties
<1>3. Len(q) \in 1..MaxPila /\ q[1] = Home
  BY <1>1, <1>2 DEF Pila
<1>4. ASSUME NEW i \in 2..Len(q), q[i] = Modifica PROVE q[i - 1] \in Schermi
  <2>1. CASE i = n + 1
    BY <1>1, <1>2, <1>4, <2>1
  <2>2. CASE i # n + 1
    <3>1. i \in 2..n /\ i \in 1..n /\ i - 1 \in 1..n
      BY <1>1, <1>2, <2>2
    <3> QED
      BY <1>2, <1>4, <3>1 DEF Pila
  <2> QED
    BY <2>1, <2>2
<1>5. x \in Schermi => \A i \in 1..n : p[i] # x
  BY DEF Pila
<1>6. ASSUME NEW i \in 1..Len(q), NEW j \in 1..Len(q), q[i] \in Schermi, q[i] = q[j]
      PROVE  i = j
  <2>1. (i \in 1..n \/ i = n + 1) /\ (j \in 1..n \/ j = n + 1)
    BY <1>1, <1>2
  <2>2. CASE i \in 1..n /\ j \in 1..n
    BY <1>2, <1>6, <2>2 DEF Pila
  <2>3. CASE i \in 1..n /\ j = n + 1
    BY <1>2, <1>5, <1>6, <2>3
  <2>4. CASE i = n + 1 /\ j \in 1..n
    BY <1>2, <1>5, <1>6, <2>4
  <2> QED
    BY <2>1, <2>2, <2>3, <2>4
<1>7. ASSUME NEW s \in Schermi
      PROVE  d[s].progetto # Nessuno <=> \E i \in 1..Len(q) : q[i] = s
  <2>1. (\E i \in 1..Len(q) : q[i] = s) <=> (s = x \/ \E i \in 1..n : p[i] = s)
    <3>1. \A i \in 1..Len(q) : i \in 1..n \/ i = n + 1
      BY <1>1, <1>2
    <3>2. n + 1 \in 1..Len(q) /\ \A i \in 1..n : i \in 1..Len(q)
      BY <1>1, <1>2
    <3> QED
      BY <1>2, <3>1, <3>2
  <2> QED
    BY <2>1 DEF Pila
<1> QED
  BY <1>2, <1>3, <1>4, <1>6, <1>7 DEF Pila

\* The top page is popped.
LEMMA PilaTolta ==
    ASSUME NEW p, NEW sc, Pila(p, sc), Len(p) > 1, NEW d,
           \A s \in Schermi : d[s].progetto # Nessuno <=>
                                 (s # p[Len(p)] /\ sc[s].progetto # Nessuno),
           NEW q, q = SubSeq(p, 1, Len(p) - 1)
    PROVE  Pila(q, d)
<1> DEFINE n == Len(p)
<1>1. p \in Seq(Pagine) /\ n \in Nat /\ n > 1 /\ n <= MaxPila /\ MaxPila \in Nat
  BY BoundsAssumption DEF Pila
<1>2. \A i \in 1..(n - 1) : p[i] \in Pagine
  BY <1>1, ElementOfSeq
<1>3. /\ q \in Seq(Pagine) /\ Len(q) = n - 1
      /\ \A i \in 1..(n - 1) : q[i] = p[i]
  BY <1>1, <1>2, SubSeqProperties
<1>4. Len(q) \in 1..MaxPila /\ q[1] = Home
  BY <1>1, <1>3 DEF Pila
<1>5. \A i \in 1..Len(q) : i \in 1..n /\ i # n /\ q[i] = p[i]
  BY <1>1, <1>3
<1>6. ASSUME NEW i \in 2..Len(q), q[i] = Modifica PROVE q[i - 1] \in Schermi
  <2>1. i \in 2..n /\ i \in 1..Len(q) /\ i - 1 \in 1..Len(q)
    BY <1>1, <1>3
  <2> QED
    BY <1>5, <1>6, <2>1 DEF Pila
<1>7. \A i, j \in 1..Len(q) : q[i] \in Schermi /\ q[i] = q[j] => i = j
  BY <1>5 DEF Pila
<1>8. ASSUME NEW s \in Schermi
      PROVE  d[s].progetto # Nessuno <=> \E i \in 1..Len(q) : q[i] = s
  <2>1. (\E i \in 1..n : p[i] = s) <=> sc[s].progetto # Nessuno
    BY DEF Pila
  <2>2. n \in 1..n /\ \A i \in 1..n : i # n => i \in 1..Len(q)
    BY <1>1, <1>3
  <2>3. CASE s = p[n]
    <3>1. \A i \in 1..n : p[i] = s => i = n
      BY <2>2, <2>3 DEF Pila
    <3> QED
      BY <1>5, <2>3, <3>1
  <2>4. CASE s # p[n]
    BY <1>5, <2>1, <2>2, <2>4
  <2> QED
    BY <2>3, <2>4
<1> QED
  BY <1>3, <1>4, <1>6, <1>7, <1>8 DEF Pila

\* The top page is replaced by a home page.
LEMMA PilaHome ==
    ASSUME NEW p, NEW sc, Pila(p, sc), NEW d,
           \A s \in Schermi : d[s].progetto # Nessuno <=>
                                 (s # p[Len(p)] /\ sc[s].progetto # Nessuno),
           NEW q, q = [p EXCEPT ![Len(p)] = Home]
    PROVE  Pila(q, d)
<1> DEFINE n == Len(p)
<1>1. p \in Seq(Pagine) /\ n \in Nat /\ n >= 1 /\ n <= MaxPila /\ MaxPila \in Nat
  BY BoundsAssumption DEF Pila
<1>2. /\ q \in Seq(Pagine) /\ Len(q) = n
      /\ \A i \in 1..n : q[i] = IF i = n THEN Home ELSE p[i]
  <2>1. n \in 1..n /\ Home \in Pagine
    BY <1>1, Numeri
  <2> QED
    BY <1>1, <2>1, ExceptSeq
<1>3. Len(q) \in 1..MaxPila /\ q[1] = Home
  BY <1>1, <1>2 DEF Pila
<1>4. ASSUME NEW i \in 2..Len(q), q[i] = Modifica PROVE q[i - 1] \in Schermi
  <2>1. i \in 1..n /\ i \in 2..n /\ i # n /\ i - 1 \in 1..n /\ i - 1 # n
    BY <1>1, <1>2, <1>4, Numeri
  <2> QED
    BY <1>2, <1>4, <2>1 DEF Pila
<1>5. ASSUME NEW i \in 1..Len(q), NEW j \in 1..Len(q), q[i] \in Schermi, q[i] = q[j]
      PROVE  i = j
  <2>1. i \in 1..n /\ j \in 1..n /\ q[i] = p[i] /\ q[j] = p[j]
    BY <1>2, <1>5, Numeri
  <2> QED
    BY <1>5, <2>1 DEF Pila
<1>6. ASSUME NEW s \in Schermi
      PROVE  d[s].progetto # Nessuno <=> \E i \in 1..Len(q) : q[i] = s
  <2>1. (\E i \in 1..n : p[i] = s) <=> sc[s].progetto # Nessuno
    BY DEF Pila
  <2>2. n \in 1..n
    BY <1>1
  <2>3. CASE s = p[n]
    <3>1. \A i \in 1..n : p[i] = s => i = n
      BY <2>2, <2>3 DEF Pila
    <3> QED
      BY <1>2, <2>3, <3>1, Numeri
  <2>4. CASE s # p[n]
    <3>1. \A i \in 1..n : q[i] = s <=> p[i] = s
      BY <1>2, <2>4, Numeri
    <3> QED
      BY <1>2, <2>1, <2>4, <3>1
  <2> QED
    BY <2>3, <2>4
<1>7. \A i \in 2..Len(q) : q[i] = Modifica => q[i - 1] \in Schermi
  BY <1>4
<1>8. \A i, j \in 1..Len(q) : (q[i] \in Schermi /\ q[i] = q[j]) => i = j
  BY <1>5
<1> QED
  BY <1>2, <1>3, <1>6, <1>7, <1>8 DEF Pila

\* A screen changes and stays mounted, or is mounted.
LEMMA SchermoCambiato ==
    ASSUME NEW sc, sc \in [Schermi -> Schermo], NEW s \in Schermi, NEW c \in Schermo,
           c.progetto # Nessuno
    PROVE  \A z \in Schermi : [sc EXCEPT ![s] = c][z].progetto # Nessuno <=>
                                 (z = s \/ sc[z].progetto # Nessuno)
OBVIOUS

-----------------------------------------------------------------------------
(* Steps.                                                                  *)

LEMMA InitInv == Init => Inv
<1> SUFFICES ASSUME Init PROVE Inv
  OBVIOUS
<1>1. /\ Chiuso \in Schermo /\ Chiuso.progetto = Nessuno
      /\ SenzaStoria \in Storia /\ SenzaStoria.ultimo = Nessuno
      /\ SenzaStoria.scritta = 0
  BY Numeri DEF Chiuso, SenzaStoria, Schermo, Storia, Liste
<1>2. Pila(pila, schermo)
  <2>1. pila \in Seq(Pagine) /\ Len(pila) = 1 /\ pila[1] = Home
    BY Numeri DEF Init
  <2>2. Len(pila) \in 1..MaxPila
    BY <2>1, BoundsAssumption
  <2> QED
    BY <1>1, <2>1, <2>2, Numeri DEF Init, Pila
<1>3. Attive(op, schermo, ora)
  BY FermaBenFormata, Numeri DEF Init, Attive, Riferita
<1>4. \A s \in Schermi : /\ Raccontata(s, schermo[s], storia[s], op, elenco)
                         /\ Attesa(s, schermo[s], op)
  BY <1>1 DEF Init, Raccontata, Attesa
<1>5. Stato(Schermi, schermo, storia, op, elenco, ora)
  <2>1. [progetto |-> Nessuno, ora |-> 0] \in Elenco
    BY Numeri DEF Elenco
  <2>2. \A s \in Schermi : storia[s].scritta <= ora
    BY <1>1, Numeri DEF Init
  <2> QED
    BY <1>1, <1>3, <1>4, <2>1, <2>2, Numeri DEF Init, Stato
<1> QED
  BY <1>2, <1>5 DEF Inv

\* The top page goes, with its screen if it is one.
LEMMA SmontaInv ==
    ASSUME Pila(pila, schermo), NEW o,
           Stato(Schermi, schermo, storia, o, elenco, ora),
           Smonta(o), UNCHANGED <<elenco, ora>>,
           \/ pila' = [pila EXCEPT ![Len(pila)] = Home]
           \/ Len(pila) > 1 /\ pila' = SubSeq(pila, 1, Len(pila) - 1)
    PROVE  Inv'
<1>1. /\ Stato(Schermi, schermo', storia', op', elenco', ora')
      /\ \A s \in Schermi : schermo'[s].progetto # Nessuno <=>
                               (s # Cima /\ schermo[s].progetto # Nessuno)
  <2>1. CASE Cima \in Schermi
    <3>1. Stato(Schermi, schermo', storia', op', elenco', ora')
      BY <2>1, StatoChiuso DEF Smonta
    <3>2. Chiuso.progetto = Nessuno
      BY DEF Chiuso
    <3> QED
      BY <2>1, <3>1, <3>2 DEF Smonta, Stato
  <2>2. CASE Cima \notin Schermi
    BY <2>2 DEF Smonta
  <2> QED
    BY <2>1, <2>2
<1>2. Cima = pila[Len(pila)]
  BY DEF Cima
<1>3. Pila(pila', schermo')
  <2>1. \A s \in Schermi : schermo'[s].progetto # Nessuno <=>
                              (s # pila[Len(pila)] /\ schermo[s].progetto # Nessuno)
    BY <1>1, <1>2
  <2>2. CASE pila' = [pila EXCEPT ![Len(pila)] = Home]
    BY <2>1, <2>2, PilaHome
  <2>3. CASE Len(pila) > 1 /\ pila' = SubSeq(pila, 1, Len(pila) - 1)
    BY <2>1, <2>3, PilaTolta
  <2> QED
    BY <2>2, <2>3
<1> QED
  BY <1>1, <1>3 DEF Inv

LEMMA FrecciaInv == ASSUME Inv, Freccia PROVE Inv'
BY SmontaInv DEF Freccia, Inv

LEMMA IndietroInv == ASSUME Inv, Indietro PROVE Inv'
BY SmontaInv DEF Indietro, Inv

\* A screen is opened: it is not on the navigator, and its load is fresh.
LEMMA ApriInv ==
    ASSUME Inv, NEW p \in Progetti, Apri(p)
    PROVE  Inv'
<1> DEFINE s == Prossimo
<1>1. s \in Schermi /\ schermo[s].progetto = Nessuno
  BY ProssimoLibero DEF Apri, Montati
<1>2. PICK ks \in Assegna({"mie"}, Liberi) :
        /\ op' = Chiamate(op, s, p, ks, {})
        /\ storia' = Ricordati(storia, s, "mie", ks)
  BY DEF Apri
<1>3. /\ pila' = Append(pila, s) /\ Len(pila) < MaxPila
      /\ schermo' = [schermo EXCEPT ![s] = [Chiuso EXCEPT !.progetto = p,
                                                          !.caricando = TRUE]]
      /\ UNCHANGED <<elenco, ora>>
  BY DEF Apri
<1> HIDE DEF s
<1>4. Stato(Schermi, schermo, storia, op, elenco, ora)
  BY DEF Inv
<1> DEFINE c == [Chiuso EXCEPT !.progetto = p, !.caricando = TRUE]
<1>5. c \in Schermo /\ c.progetto = p /\ c.linguetta = "mie" /\ p # Nessuno
  BY Numeri DEF Chiuso, Schermo, Liste
<1> HIDE DEF c
<1>6. schermo' = [schermo EXCEPT ![s] = c] /\ schermo'[s] = c
  BY <1>1, <1>3, <1>4 DEF c, Stato
<1>7. Stato(Schermi \ {s}, schermo', storia, op, elenco, ora)
  <2>1. storia[s] \in Storia /\ storia[s].scritta <= ora
        /\ storia = [storia EXCEPT ![s] = storia[s]]
    BY <1>1, <1>4 DEF Stato
  <2>2. Stato(Schermi \ {s}, [schermo EXCEPT ![s] = c],
              [storia EXCEPT ![s] = storia[s]], op, elenco, ora)
    BY <1>1, <1>4, <1>5, <2>1, StatoSchermo
  <2> QED
    BY <1>6, <2>1, <2>2
<1>8. /\ DOMAIN ks \subseteq Slot
      /\ \A k \in DOMAIN ks : ks[k] \in Liste /\ op[k].fase \notin Carichi
      /\ \E k \in DOMAIN ks : ks[k] = schermo'[s].linguetta
  BY <1>5, <1>6, AssegnaProprieta DEF Liberi, Liste, Carichi
<1>9. Stato(Schermi, schermo', storia', op', elenco', ora')
  <2>1. schermo'[s].progetto = p /\ schermo'[s].linguetta = "mie"
    BY <1>5, <1>6
  <2>2. Stato(Schermi, schermo', Ricordati(storia, s, schermo'[s].linguetta, ks),
              Chiamate(op, s, p, ks, {}), elenco, ora)
    BY <1>1, <1>7, <1>8, <2>1, StatoCarica
  <2> QED
    BY <1>2, <1>3, <2>1, <2>2
<1>10. Pila(pila', schermo')
  <2>1. \A z \in Schermi : schermo'[z].progetto # Nessuno <=>
                              (z = s \/ schermo[z].progetto # Nessuno)
    BY <1>1, <1>4, <1>5, <1>6, SchermoCambiato DEF Stato
  <2>2. s \in Pagine /\ s # Modifica
    BY <1>1, Numeri
  <2> QED
    BY <1>1, <1>3, <2>1, <2>2, PilaAggiunta DEF Inv
<1> QED
  BY <1>9, <1>10 DEF Inv

LEMMA ApriProgettoInv ==
    ASSUME Inv, NEW p \in Progetti, ApriProgetto(p) PROVE Inv'
BY ApriInv DEF ApriProgetto

\* Below ModificaProgetto there is the screen of a project.
LEMMA SalvaProgettoInv == ASSUME Inv, SalvaProgetto PROVE Inv'
<1> DEFINE n == Len(pila)
<1>1. n \in Nat \ {0} /\ Cima = pila[n]
  BY CimaProprieta DEF Inv
<1>2. n # 1
  BY <1>1, Numeri DEF SalvaProgetto, Inv, Pila
<1>3. n \in 2..n /\ n - 1 \in 1..n
  BY <1>1, <1>2
<1>4. pila[n - 1] \in Schermi /\ schermo[pila[n - 1]].progetto # Nessuno
  BY <1>1, <1>3 DEF SalvaProgetto, Inv, Pila
<1>5. schermo[pila[n - 1]].progetto \in Progetti
  BY <1>4 DEF Inv, Stato, Schermo
<1> QED
  BY <1>5, ApriInv DEF SalvaProgetto

LEMMA ApriModificaInv == ASSUME Inv, ApriModifica PROVE Inv'
<1>1. Modifica \in Pagine /\ Modifica \notin Schermi /\ Cima = pila[Len(pila)]
  BY Numeri DEF Cima
<1>2. Pila(pila', schermo')
  BY <1>1, PilaAggiunta DEF ApriModifica, Inv
<1> QED
  BY <1>2 DEF ApriModifica, Inv

\* The load of the tab that was tapped is fresh.
LEMMA ToccaInv ==
    ASSUME Inv, NEW l \in Liste, Tocca(l)
    PROVE  Inv'
<1> DEFINE s == Cima
           c == [schermo[s] EXCEPT !.linguetta = l, !.caricando = TRUE]
           p == schermo[s].progetto
<1>1. s \in Schermi /\ p # Nessuno
  BY CimaProprieta DEF Tocca, Inv
<1>2. PICK ks \in Assegna(Richieste(l), Liberi) :
        /\ op' = Chiamate(op, s, p, ks, {})
        /\ storia' = Ricordati(storia, s, l, ks)
  BY DEF Tocca
<1>3. /\ Stato(Schermi, schermo, storia, op, elenco, ora)
      /\ schermo' = [schermo EXCEPT ![s].linguetta = l, ![s].caricando = TRUE]
      /\ UNCHANGED <<pila, elenco, ora>>
  BY DEF Inv, Tocca
<1> HIDE DEF s
<1>4. c \in Schermo /\ c.progetto = p /\ c.linguetta = l /\ p \in Progetti
  BY <1>1, <1>3 DEF Stato, Schermo
<1>5. schermo' = [schermo EXCEPT ![s] = c] /\ schermo'[s] = c
  BY <1>1, <1>3 DEF Stato
<1> HIDE DEF c, p
<1>6. Stato(Schermi \ {s}, schermo', storia, op, elenco, ora)
  <2>1. storia[s] \in Storia /\ storia[s].scritta <= ora
        /\ storia = [storia EXCEPT ![s] = storia[s]]
    BY <1>1, <1>3 DEF Stato
  <2>2. Stato(Schermi \ {s}, [schermo EXCEPT ![s] = c],
              [storia EXCEPT ![s] = storia[s]], op, elenco, ora)
    BY <1>1, <1>3, <1>4, <2>1, StatoSchermo
  <2> QED
    BY <1>5, <2>1, <2>2
<1>7. /\ DOMAIN ks \subseteq Slot
      /\ \A k \in DOMAIN ks : ks[k] \in Liste /\ op[k].fase \notin Carichi
      /\ \E k \in DOMAIN ks : ks[k] = l
  <2>1. Richieste(l) \subseteq Liste /\ l \in Richieste(l)
    BY DEF Richieste, Liste
  <2> QED
    BY <2>1, AssegnaProprieta DEF Liberi, Carichi
<1>8. Stato(Schermi, schermo', storia', op', elenco', ora')
  <2>1. schermo'[s].progetto = p /\ schermo'[s].linguetta = l
    BY <1>4, <1>5
  <2>2. Stato(Schermi, schermo', Ricordati(storia, s, schermo'[s].linguetta, ks),
              Chiamate(op, s, p, ks, {}), elenco, ora)
    BY <1>1, <1>4, <1>6, <1>7, <2>1, StatoCarica
  <2> QED
    BY <1>2, <1>3, <2>1, <2>2
<1>9. Pila(pila', schermo')
  <2>1. \A z \in Schermi : schermo'[z].progetto # Nessuno <=>
                              (z = s \/ schermo[z].progetto # Nessuno)
    BY <1>1, <1>3, <1>4, <1>5, SchermoCambiato DEF Stato
  <2>2. \A z \in Schermi : schermo'[z].progetto # Nessuno <=>
                              schermo[z].progetto # Nessuno
    BY <1>1, <2>1 DEF p
  <2> QED
    BY <1>3, <2>2, PilaStessa DEF Inv
<1> QED
  BY <1>8, <1>9 DEF Inv

LEMMA PremiInv ==
    ASSUME Inv, NEW c \in Comandi, Premi(c)
    PROVE  Inv'
<1>1. PICK k \in Liberi :
        op' = [op EXCEPT ![k] = [Ferma EXCEPT !.fase = "scrive", !.comando = c,
                                              !.schermo = Cima]]
  BY DEF Premi
<1> DEFINE x == [Ferma EXCEPT !.fase = "scrive", !.comando = c, !.schermo = Cima]
<1>2. k \in Slot /\ op[k].fase \notin Carichi
  BY DEF Liberi, Carichi
<1>3. Cima \in Schermi /\ schermo[Cima].progetto # Nessuno
  BY CimaProprieta DEF Premi, Inv
<1>4. x \in Chiamata /\ x.fase = "scrive" /\ x.comando = c /\ x.schermo = Cima
      /\ x.ora = 0
  BY <1>3, Numeri DEF Ferma, Chiamata
<1> HIDE DEF x
<1>5. BenFormata(x) /\ Riferita(x, schermo)
  BY <1>3, <1>4 DEF BenFormata, Riferita, Carichi
<1>6. ora \in Ore /\ ora <= ora /\ x.ora <= ora
  BY <1>4, Numeri DEF Inv, Stato
<1>7. Stato(Schermi, schermo, storia, [op EXCEPT ![k] = x], elenco, ora)
  BY <1>2, <1>4, <1>5, <1>6, StatoUna DEF Inv
<1> QED
  BY <1>1, <1>7 DEF Premi, Inv, x

\* A write is stored: what has been read by now may lack it, and what is read from
\* now on has it.
LEMMA MemorizzaInv ==
    ASSUME Inv, NEW k \in Slot, Memorizza(k)
    PROVE  Inv'
<1> DEFINE x == [op[k] EXCEPT !.fase = "scritta", !.ora = ora']
<1>1. /\ Stato(Schermi, schermo, storia, op, elenco, ora)
      /\ op[k] \in Chiamata /\ BenFormata(op[k]) /\ Riferita(op[k], schermo)
      /\ op[k].fase = "scrive"
      /\ ora \in Nat /\ MaxOra \in Nat
  BY Numeri, BoundsAssumption DEF Inv, Stato, Attive, Memorizza
<1>2. ora' \in Ore /\ ora <= ora' /\ ora' <= ora'
  BY <1>1 DEF Memorizza, Stato, Ore
<1>3. x \in Chiamata /\ x.fase = "scritta" /\ x.ora = ora'
      /\ x.comando = op[k].comando /\ x.schermo = op[k].schermo
  BY <1>1, <1>2 DEF Chiamata
<1>4. op' = [op EXCEPT ![k] = x]
  BY <1>1 DEF Memorizza, Stato, Attive
<1> HIDE DEF x
<1>5. BenFormata(x) /\ Riferita(x, schermo) /\ op[k].fase \notin Carichi
  BY <1>1, <1>3 DEF BenFormata, Riferita, Carichi
<1>6. Stato(Schermi, schermo, storia, [op EXCEPT ![k] = x], elenco, ora')
  BY <1>1, <1>2, <1>3, <1>5, StatoUna
<1> QED
  BY <1>4, <1>6 DEF Memorizza, Inv

\* A query is answered: with every write that has returned.
LEMMA InterrogaInv ==
    ASSUME Inv, NEW k \in Slot, Interroga(k)
    PROVE  Inv'
<1> DEFINE x == [op[k] EXCEPT !.fase = "letta", !.ora = ora]
<1>1. /\ Stato(Schermi, schermo, storia, op, elenco, ora)
      /\ op[k] \in Chiamata /\ BenFormata(op[k]) /\ Riferita(op[k], schermo)
      /\ op[k].fase = "chiede"
      /\ ora \in Nat /\ ora \in Ore
  BY Numeri DEF Inv, Stato, Attive, Interroga
<1>2. x \in Chiamata /\ x.fase = "letta" /\ x.ora = ora
      /\ x.schermo = op[k].schermo /\ x.progetto = op[k].progetto
      /\ x.lista = op[k].lista
  BY <1>1 DEF Chiamata
<1>3. op' = [op EXCEPT ![k] = x]
  BY <1>1 DEF Interroga, Stato, Attive
<1> HIDE DEF x
<1>4. BenFormata(x) /\ Riferita(x, schermo) /\ x.fase \in Carichi /\ x.ora <= ora
      /\ ora <= ora
  BY <1>1, <1>2 DEF BenFormata, Riferita, Carichi
<1>5. Stato(Schermi, schermo, storia, [op EXCEPT ![k] = x], elenco, ora)
  BY <1>1, <1>2, <1>4, StatoUna
<1> QED
  BY <1>3, <1>5 DEF Interroga, Inv

LEMMA RitornaAlVuotoInv ==
    ASSUME Inv, NEW k \in Slot, RitornaAlVuoto(k)
    PROVE  Inv'
<1>1. op[k].fase \notin Carichi
  BY DEF RitornaAlVuoto, Carichi
<1>2. Stato(Schermi, schermo, storia, [op EXCEPT ![k] = Ferma], elenco, ora)
  BY <1>1, StatoFerma DEF Inv
<1> QED
  BY <1>2 DEF RitornaAlVuoto, Inv

LEMMA RitornaAbbandonaInv ==
    ASSUME Inv, NEW k \in Slot, RitornaAbbandona(k)
    PROVE  Inv'
<1>1. op[k].fase \notin Carichi
  BY DEF RitornaAbbandona, Carichi
<1>2. PICK o : o = [op EXCEPT ![k] = Ferma]
  OBVIOUS
<1>3. Stato(Schermi, schermo, storia, o, elenco, ora)
  BY <1>1, <1>2, StatoFerma DEF Inv
<1>4. CASE op[k].fase = "scritta"
  BY <1>2, <1>3, <1>4, SmontaInv DEF RitornaAbbandona, Inv
<1>5. CASE op[k].fase # "scritta"
  BY <1>2, <1>3, <1>5 DEF RitornaAbbandona, Inv
<1> QED
  BY <1>4, <1>5

\* What is loaded again includes the list on display, or nothing is; and then the
\* write was not stored, or the history says that its list was forgotten.
LEMMA RicaricatiProprieta ==
    ASSUME NEW c \in Comandi, c # "abbandona", NEW l \in Liste, NEW riuscita \in BOOLEAN
    PROVE  /\ Ricaricati(c, l, riuscita) \subseteq Liste
           /\ Seguenti(l) \subseteq Liste
           /\ \/ l \in Ricaricati(c, l, riuscita)
              \/ /\ Ricaricati(c, l, riuscita) = {}
                 /\ \/ c = "completa" /\ l = "completate"
                    \/ ~riuscita
<1>1. l \in {"mie", "tutte", "completate"}
      /\ c \in {"elimina", "completa", "riapre", "modifica", "aggiungi"}
  BY DEF Liste, Comandi, DiRiga
<1>2. Seguenti(l) \subseteq Liste
  BY <1>1 DEF Seguenti, Liste
<1>3. CASE c = "riapre"
  BY <1>1, <1>2, <1>3 DEF Ricaricati, Liste
<1>4. CASE c = "completa"
  BY <1>1, <1>2, <1>4 DEF Ricaricati, Liste
<1>5. CASE c \notin {"riapre", "completa"}
  BY <1>1, <1>2, <1>5 DEF Ricaricati, Liste
<1> QED
  BY <1>3, <1>4, <1>5

\* A write returns to its screen: the load that follows makes up for what was read
\* before the write was stored.
LEMMA RitornaInv ==
    ASSUME Inv, NEW k \in Slot, Ritorna(k)
    PROVE  Inv'
<1> DEFINE s == op[k].schermo
           c == op[k].comando
           l == schermo[s].linguetta
           p == schermo[s].progetto
           riuscita == op[k].fase = "scritta"
           liste == Ricaricati(c, l, riuscita)
           dimenticato == c = "completa" /\ l = "completate"
           o == [op EXCEPT ![k] = Ferma]
           d == [schermo[s] EXCEPT !.caricando = @ \/ liste # {}]
           g == [storia[s] EXCEPT
                   !.scritta = IF op[k].ora > @ THEN op[k].ora ELSE @,
                   !.superato = @ \/ dimenticato,
                   !.ultimo = IF dimenticato THEN Nessuno ELSE @]
           h == [storia EXCEPT ![s] = g]
           resto == IF c = "modifica" THEN Seguenti(l) ELSE {}
<1>1. /\ Stato(Schermi, schermo, storia, op, elenco, ora)
      /\ op[k] \in Chiamata /\ BenFormata(op[k]) /\ Riferita(op[k], schermo)
      /\ op[k].ora <= ora
      /\ op[k].fase \in {"scrive", "scritta"} /\ op[k].fase \notin Carichi
      /\ c # "abbandona" /\ s # Nessuno
      /\ UNCHANGED <<pila, elenco, ora>>
  BY DEF Inv, Stato, Attive, Ritorna, Carichi
<1>2. /\ s \in Schermi /\ p # Nessuno /\ p \in Progetti
      /\ c \in Comandi /\ l \in Liste
      /\ schermo[s] \in Schermo /\ storia[s] \in Storia
      /\ ora \in Nat /\ ora \in Ore /\ op[k].ora \in Nat /\ op[k].ora \in Ore
      /\ storia[s].scritta \in Nat /\ storia[s].scritta <= ora
  BY <1>1, Numeri DEF Stato, Riferita, BenFormata, Schermo, Storia, Chiamata
<1>3. PICK ks \in Assegna(liste, Liberi \cup {k}) :
        /\ op' = Chiamate(o, s, p, ks, resto)
        /\ storia' = Ricordati(
              [storia EXCEPT
                ![s].scritta = IF op[k].ora > @ THEN op[k].ora ELSE @,
                ![s].superato = @ \/ dimenticato,
                ![s].ultimo = IF dimenticato THEN Nessuno ELSE @], s, l, ks)
  BY DEF Ritorna
<1>4. schermo' = [schermo EXCEPT ![s].caricando = @ \/ liste # {}]
  BY DEF Ritorna
<1> HIDE DEF s
<1>5. storia' = Ricordati(h, s, l, ks)
  <2>1. h = [storia EXCEPT
                ![s].scritta = IF op[k].ora > @ THEN op[k].ora ELSE @,
                ![s].superato = @ \/ dimenticato,
                ![s].ultimo = IF dimenticato THEN Nessuno ELSE @]
    <3> HIDE DEF dimenticato
    <3> QED
      BY <1>1, <1>2 DEF Stato
  <2> HIDE DEF h
  <2> QED
    BY <1>3, <2>1
<1>6. /\ d \in Schermo /\ d.progetto = p /\ d.linguetta = l
      /\ d.caricando = (schermo[s].caricando \/ liste # {})
  BY <1>2 DEF Schermo
<1>7. schermo' = [schermo EXCEPT ![s] = d] /\ schermo'[s] = d
  BY <1>1, <1>2, <1>4 DEF Stato
<1>8. /\ g \in Storia /\ g.scritta <= ora
      /\ g.scritta = IF op[k].ora > storia[s].scritta THEN op[k].ora
                     ELSE storia[s].scritta
      /\ g.superato = (storia[s].superato \/ dimenticato)
      /\ g.ultimo = IF dimenticato THEN Nessuno ELSE storia[s].ultimo
  BY <1>1, <1>2 DEF Storia
<1>9. Stato(Schermi, schermo, storia, o, elenco, ora)
  BY <1>1, StatoFerma
<1>10. h[s] = g
  BY <1>1, <1>2 DEF Stato
<1> HIDE DEF d, g, h, o
<1>11. Stato(Schermi \ {s}, schermo', h, o, elenco, ora)
  <2>1. Stato(Schermi \ {s}, [schermo EXCEPT ![s] = d], [storia EXCEPT ![s] = g],
              o, elenco, ora)
    BY <1>2, <1>6, <1>8, <1>9, StatoSchermo
  <2> QED
    BY <1>7, <2>1 DEF h
<1>12. /\ DOMAIN ks \subseteq Slot
       /\ \A j \in DOMAIN ks : ks[j] \in liste /\ o[j].fase \notin Carichi
       /\ \A z \in liste : \E j \in DOMAIN ks : ks[j] = z
  <2>1. \A j \in Liberi \cup {k} : j \in Slot /\ o[j].fase \notin Carichi
    BY <1>1, FermaBenFormata DEF o, Liberi, Carichi, Stato, Attive
  <2> QED
    BY <2>1, AssegnaProprieta
<1>13. /\ liste \subseteq Liste /\ resto \in SUBSET Liste
       /\ \/ l \in liste
          \/ liste = {} /\ (dimenticato \/ ~riuscita)
  BY <1>1, <1>2, RicaricatiProprieta
<1>14. Stato(Schermi, schermo', storia', op', elenco, ora)
  <2>1. CASE l \in liste
    <3>1. /\ schermo'[s].progetto = p /\ schermo'[s].linguetta = l
          /\ \A j \in DOMAIN ks : ks[j] \in Liste
          /\ \E j \in DOMAIN ks : ks[j] = l
      BY <1>6, <1>7, <1>12, <1>13, <2>1
    <3> HIDE DEF l, p, resto, liste
    <3>2. Stato(Schermi, schermo', Ricordati(h, s, schermo'[s].linguetta, ks),
                Chiamate(o, s, p, ks, resto), elenco, ora)
      BY <1>2, <1>11, <1>12, <1>13, <3>1, StatoCarica
    <3> QED
      BY <1>3, <1>5, <3>1, <3>2
  <2>2. CASE liste = {} /\ (dimenticato \/ ~riuscita)
    <3>1. DOMAIN ks = {}
      BY <1>12, <2>2
    <3>2. op' = o
      <4>1. o \in [Slot -> Chiamata]
        BY <1>9 DEF Stato, Attive
      <4> QED
        BY <1>3, <3>1, <4>1 DEF Chiamate
    <3>3. storia' = h
      BY <1>5, <3>1 DEF Ricordati
    <3>4. Attesa(s, schermo[s], o) /\ Raccontata(s, schermo[s], storia[s], o, elenco)
      BY <1>2, <1>9 DEF Stato
    <3>5. Attesa(s, schermo'[s], op')
      BY <1>6, <1>7, <2>2, <3>2, <3>4 DEF Attesa
    <3>6. Raccontata(s, schermo'[s], storia'[s], op', elenco)
      <4>1. CASE dimenticato
        BY <1>8, <1>10, <3>3, <4>1 DEF Raccontata
      <4>2. CASE ~dimenticato /\ ~riuscita
        <5>1. op[k].ora = 0
          BY <1>1, <4>2 DEF BenFormata
        <5>2. /\ g.scritta = storia[s].scritta /\ g.superato = storia[s].superato
              /\ g.ultimo = storia[s].ultimo
          <6>1. storia[s].superato \in BOOLEAN /\ storia[s].scritta >= 0
            BY <1>2 DEF Storia
          <6> HIDE DEF dimenticato
          <6> QED
            BY <1>2, <1>8, <4>2, <5>1, <6>1
        <5> QED
          BY <1>6, <1>7, <1>10, <3>2, <3>3, <3>4, <5>2 DEF Raccontata, Fresca
      <4> QED
        BY <2>2, <4>1, <4>2
    <3> QED
      BY <1>11, <3>2, <3>3, <3>5, <3>6 DEF Stato
  <2> QED
    BY <1>13, <2>1, <2>2
<1>15. Pila(pila', schermo')
  <2>1. \A z \in Schermi : schermo'[z].progetto # Nessuno <=>
                              (z = s \/ schermo[z].progetto # Nessuno)
    BY <1>2, <1>6, <1>7, <1>9, SchermoCambiato DEF Stato
  <2>2. \A z \in Schermi : schermo'[z].progetto # Nessuno <=>
                              schermo[z].progetto # Nessuno
    BY <1>2, <2>1
  <2> QED
    BY <1>1, <2>2, PilaStessa DEF Inv
<1> QED
  BY <1>1, <1>14, <1>15 DEF Inv


\* A load arrives: what its screen shows now is fresh, or another load goes on.
LEMMA ArrivaInv ==
    ASSUME Inv, NEW k \in Slot, Arriva(k)
    PROVE  Inv'
<1> DEFINE s == op[k].schermo
           o == [op EXCEPT ![k] = Ferma]
           g == Superati(k)
<1>1. /\ Stato(Schermi, schermo, storia, op, elenco, ora)
      /\ op[k] \in Chiamata /\ Riferita(op[k], schermo)
      /\ op[k].fase \in Carichi
      /\ elenco' = [elenco EXCEPT ![op[k].lista] = Assegnato(k)]
      /\ UNCHANGED <<pila, ora>>
  BY DEF Inv, Stato, Attive, Arriva, Carichi
<1>2. /\ Stato(Schermi \ {s}, schermo, g, o, elenco', ora)
      /\ \A z \in Schermi : Raccontata(z, schermo[z], g[z], o, elenco')
  BY <1>1, StatoArrivo
<1>3. s # Nessuno => s \in Schermi /\ schermo[s].progetto \in Progetti
  BY <1>1 DEF Riferita, Stato, Schermo
<1>4. CASE ~(s # Nessuno /\ schermo[s].linguetta \in op[k].resto)
  <2>1. /\ op' = o /\ storia' = g
        /\ schermo' = IF s = Nessuno THEN schermo
                      ELSE [schermo EXCEPT ![s].caricando = FALSE]
    BY <1>4 DEF Arriva, Spegne
  <2> HIDE DEF o, g, s
  <2>2. CASE s = Nessuno
    <3>1. Schermi \ {s} = Schermi
      BY <2>2, Numeri
    <3> QED
      BY <1>1, <1>2, <2>1, <2>2, <3>1 DEF Inv
  <2>3. CASE s # Nessuno
    <3> DEFINE c == [schermo[s] EXCEPT !.caricando = FALSE]
    <3>1. /\ c \in Schermo /\ c.progetto = schermo[s].progetto
          /\ c.linguetta = schermo[s].linguetta /\ ~c.caricando
      BY <1>1, <1>3, <2>3 DEF Stato, Schermo
    <3>2. /\ schermo' = [schermo EXCEPT ![s] = c] /\ schermo'[s] = c
          /\ schermo' \in [Schermi -> Schermo]
          /\ \A z \in Schermi \ {s} : schermo'[z] = schermo[z]
      BY <1>1, <1>3, <2>1, <2>3, <3>1 DEF Stato
    <3> HIDE DEF c
    <3>3. \A z \in Schermi : schermo'[z].progetto = schermo[z].progetto
      BY <3>1, <3>2
    <3>4. Attive(o, schermo', ora)
      BY <1>2, <3>3 DEF Stato, Attive, Riferita
    <3>5. \A z \in Schermi : /\ Raccontata(z, schermo'[z], g[z], o, elenco')
                             /\ Attesa(z, schermo'[z], o)
      <4>1. ASSUME NEW z \in Schermi \ {s}
            PROVE  /\ Raccontata(z, schermo'[z], g[z], o, elenco')
                   /\ Attesa(z, schermo'[z], o)
        BY <1>2, <3>2 DEF Stato
      <4>2. Raccontata(s, schermo'[s], g[s], o, elenco')
        BY <1>2, <1>3, <2>3, <3>1, <3>2 DEF Raccontata, Fresca
      <4>3. Attesa(s, schermo'[s], o)
        BY <3>1, <3>2 DEF Attesa
      <4> QED
        BY <4>1, <4>2, <4>3
    <3>6. Stato(Schermi, schermo', storia', op', elenco', ora')
      BY <1>1, <1>2, <2>1, <3>2, <3>4, <3>5 DEF Stato
    <3>7. Pila(pila', schermo')
      BY <1>1, <3>3, PilaStessa DEF Inv
    <3> QED
      BY <3>6, <3>7 DEF Inv
  <2> QED
    BY <2>2, <2>3
<1>5. CASE s # Nessuno /\ schermo[s].linguetta \in op[k].resto
  <2> DEFINE l == schermo[s].linguetta
             p == schermo[s].progetto
             ks == [j \in {k} |-> l]
             resto == op[k].resto \cap Seguenti(l)
             c == [schermo[s] EXCEPT !.caricando = TRUE]
  <2>1. /\ op' = Chiamate(op, s, p, ks, resto)
        /\ storia' = Ricordati(g, s, l, ks)
        /\ schermo' = [schermo EXCEPT ![s].caricando = TRUE]
    BY <1>5 DEF Arriva
  <2>2. /\ s \in Schermi /\ p \in Progetti /\ l \in Liste /\ resto \in SUBSET Liste
        /\ p # Nessuno
    BY <1>1, <1>3, <1>5, Numeri DEF Chiamata, Stato, Schermo
  <2>3. DOMAIN ks = {k} /\ ks[k] = l
    OBVIOUS
  <2>4. o[k] = Ferma /\ \A j \in Slot : j # k => o[j] = op[j]
    BY <1>1 DEF Stato, Attive
  <2> HIDE DEF s, o, g, ks, resto, l, p
  <2>5. /\ c \in Schermo /\ c.progetto = p /\ c.linguetta = l
        /\ schermo' = [schermo EXCEPT ![s] = c] /\ schermo'[s] = c
    BY <1>1, <2>1, <2>2 DEF Stato, Schermo, l, p
  <2> HIDE DEF c
  <2>6. op' = Chiamate(o, s, p, ks, resto)
    BY <2>1, <2>3, <2>4 DEF Chiamate
  <2>7. /\ schermo' \in [Schermi -> Schermo]
        /\ \A z \in Schermi \ {s} : schermo'[z] = schermo[z]
        /\ \A z \in Schermi : schermo'[z].progetto = schermo[z].progetto
    BY <1>1, <2>2, <2>5 DEF Stato, p
  <2>8. Stato(Schermi \ {s}, schermo', g, o, elenco', ora)
    <3>1. Attive(o, schermo', ora)
      BY <1>2, <2>7 DEF Stato, Attive, Riferita
    <3> QED
      BY <1>2, <2>7, <3>1 DEF Stato
  <2>9. /\ DOMAIN ks \subseteq Slot
        /\ \A j \in DOMAIN ks : ks[j] \in Liste /\ o[j].fase \notin Carichi
        /\ \E j \in DOMAIN ks : ks[j] = schermo'[s].linguetta
    BY <2>2, <2>3, <2>4, <2>5, FermaBenFormata DEF Carichi
  <2>10. Stato(Schermi, schermo', Ricordati(g, s, schermo'[s].linguetta, ks),
               Chiamate(o, s, p, ks, resto), elenco', ora)
    BY <2>2, <2>5, <2>8, <2>9, StatoCarica
  <2>11. Stato(Schermi, schermo', storia', op', elenco', ora')
    BY <1>1, <2>1, <2>5, <2>6, <2>10
  <2>12. Pila(pila', schermo')
    BY <1>1, <2>7, PilaStessa DEF Inv
  <2> QED
    BY <2>11, <2>12 DEF Inv
<1> QED
  BY <1>4, <1>5

-----------------------------------------------------------------------------
(* Theorems.                                                               *)

\* Every step preserves the invariant.
LEMMA PassoInv == Inv /\ [Next]_vars => Inv'
<1> SUFFICES ASSUME Inv, [Next]_vars PROVE Inv'
  OBVIOUS
<1>1. CASE UNCHANGED vars
  <2>1. Pila(pila', schermo') /\ Stato(Schermi, schermo', storia', op', elenco', ora')
    BY <1>1 DEF vars, Inv
  <2> QED
    BY <2>1 DEF Inv
<1>2. CASE Utente
  BY <1>2, ApriProgettoInv, ApriModificaInv, SalvaProgettoInv, FrecciaInv,
     IndietroInv, ToccaInv, PremiInv DEF Utente
<1>3. ASSUME NEW k \in Slot, Avanza(k) PROVE Inv'
  BY <1>3, MemorizzaInv, RitornaInv, RitornaAlVuotoInv, RitornaAbbandonaInv,
     InterrogaInv, ArrivaInv DEF Avanza
<1> QED
  BY <1>1, <1>2, <1>3 DEF Next

\* The invariant holds in every state.
LEMMA Invariante == Spec => []Inv
BY InitInv, PassoInv, PTL DEF Spec

\* What the invariant says about types, in the words of TypeOK.
LEMMA InvTypeOK == Inv => TypeOK
<1> SUFFICES ASSUME Inv PROVE TypeOK
  OBVIOUS
<1>1. pila \in Seq(Pagine) /\ DOMAIN pila = 1..Len(pila)
  BY LenProperties DEF Inv, Pila
<1>2. ASSUME NEW s \in Schermi
      PROVE  Cardinality({i \in DOMAIN pila : pila[i] = s}) =
                IF s \in Montati THEN 1 ELSE 0
  <2>1. CASE s \in Montati
    <3>1. PICK i \in DOMAIN pila : pila[i] = s
      BY <1>1, <2>1 DEF Inv, Pila, Montati
    <3>2. {j \in DOMAIN pila : pila[j] = s} = {i}
      BY <1>1, <3>1 DEF Inv, Pila
    <3> QED
      BY <2>1, <3>2, FS_Singleton
  <2>2. CASE s \notin Montati
    <3>1. {j \in DOMAIN pila : pila[j] = s} = {}
      BY <1>1, <2>2 DEF Inv, Pila, Montati
    <3> QED
      BY <2>2, <3>1, FS_EmptySet
  <2> QED
    BY <2>1, <2>2
<1>3. \A k \in Slot : op[k].schermo # Nessuno => op[k].schermo \in Montati
  BY DEF Inv, Stato, Attive, Riferita, Montati
<1>4. Len(pila) \in 1..MaxPila
  BY DEF Inv, Pila
<1> QED
  BY <1>1, <1>2, <1>3, <1>4 DEF Inv, Stato, Attive, TypeOK

\* Types; a screen is on the navigator once or not at all, as it is mounted or not,
\* and a call acts on a mounted screen or on none, however screens are opened,
\* covered, replaced and closed while calls are awaited.
THEOREM TipiCorretti == Spec => [](TypeOK /\ Inv)
BY Invariante, InvTypeOK, PTL

\* isLoadingAttivita, set and reset by all the loads of a screen in any order, is
\* never left on without a load of that screen that is still to arrive.
THEOREM SpinnerSempreSpiegato == Spec => []SpinnerSpiegato
<1>1. Inv => SpinnerSpiegato
  <2> SUFFICES ASSUME Inv, NEW s \in Montati, schermo[s].caricando
               PROVE  DiSchermo(s, {"chiede", "letta"}) # {}
    BY DEF SpinnerSpiegato
  <2>1. Attesa(s, schermo[s], op) /\ schermo[s].progetto # Nessuno
    BY DEF Inv, Stato, Montati
  <2> QED
    BY <2>1 DEF Attesa, DiSchermo, Carichi
<1> QED
  BY <1>1, Invariante, PTL

\* A screen that waits for no load of the list on its tab shows its own project with
\* every write of its own that has returned, unless a load that it did not start
\* last has overwritten the list since.
THEOREM ElencoSempreAggiornato == Spec => []ElencoAggiornato
<1>1. Inv => ElencoAggiornato
  <2> SUFFICES ASSUME Inv, NEW s \in Montati, ~storia[s].superato,
                      \A k \in DiSchermo(s, {"chiede", "letta"}) :
                          op[k].lista # schermo[s].linguetta
               PROVE  LET l == schermo[s].linguetta
                      IN /\ elenco[l].progetto = schermo[s].progetto
                         /\ elenco[l].ora >= storia[s].scritta
    BY DEF ElencoAggiornato
  <2>1. /\ Raccontata(s, schermo[s], storia[s], op, elenco)
        /\ schermo[s].progetto # Nessuno
        /\ storia[s].ultimo \in Slot \cup {Nessuno}
    BY DEF Inv, Stato, Montati, Storia
  <2>2. storia[s].ultimo = Nessuno
    BY <2>1 DEF Raccontata, Fresca, DiSchermo, Carichi
  <2> QED
    BY <2>1, <2>2 DEF Raccontata
<1> QED
  BY <1>1, Invariante, PTL
=============================================================================
