---------------------------- MODULE VenteProofs ----------------------------
(***************************************************************************)
(* Proofs about the sale engine, for any number of sales, workers, keys    *)
(* and amounts.  The inductive invariant adds to the types who holds which *)
(* lock in which phase, what a SERIALIZABLE snapshot still agrees on with  *)
(* the database, and what a row written but not committed will say.        *)
(* InvCles adds who may write which key.  The register is the committed    *)
(* rows in the order of their numbers: a commit adds at most one entry.    *)
(***************************************************************************)
EXTENDS Vente, SequenceTheorems, TLAPS

-----------------------------------------------------------------------------
(* The inductive invariant *)

\* The numbers of the settled sales of `base' are 1..n, each used once.
BienNumerotee(base) ==
  /\ \E n \in Nat : Numeros(base) = 1 .. n
  /\ \A u, v \in Reglees(base) : base[u].numero = base[v].numero => u = v

\* r, the settled row of v, continues the chain of `base' and balances.
Maillon(base, v, r) ==
  /\ r.precedente = EmpreinteDuNumero(base, r.numero - 1)
  /\ r.empreinte = EmpreinteCalculee(v, r)
  /\ Equilibre(r.contenu)

InvRegistre ==
  /\ BienNumerotee(ventes)
  /\ \A v \in Reglees(ventes) : Maillon(ventes, v, ventes[v])
  /\ \A v \in Ventes : ventes[v].statut = "ABSENTE" => ~ ventes[v].enLigne

\* The row of cible[w] is not in the database yet: only w knows of it.
Nouvelle(w) == ventes[cible[w]].statut = "ABSENTE"

InvCible ==
  \A w \in Travailleurs :
    /\ phase[w] \notin {"repos", "cleLibre"} => cible[w] \in Ventes
    /\ phase[w] \in {"ouverte", "encaisse"} =>
         Nouvelle(w) /\ vue[w].statut = "EN_ATTENTE"
    /\ phase[w] \in {"payee", "encaisseStripe"} => ~ Nouvelle(w)
    /\ phase[w] = "ecrite" => vue[w].statut \in {"REGLEE", "ANNULEE"}

InvVerrous ==
  \A w \in Travailleurs :
    /\ phase[w] \in {"encaisse", "encaisseStripe"} => verrouLieu = w
    /\ phase[w] = "ecrite" /\ vue[w].statut = "REGLEE" => verrouLieu = w
    /\ phase[w] = "ecrite" /\ ~ Nouvelle(w) => verrouVente[cible[w]] = w
    /\ phase[w] \in {"ouverte", "encaisse", "ecrite"} /\ Nouvelle(w) =>
         \A u \in Travailleurs \ {w} : cible[u] # cible[w]

InvSerie ==
  \A w \in Travailleurs :
    serialisable[w] =>
      /\ BienNumerotee(instantane[w])
      /\ \A v \in Ventes : instantane[w][v].statut = "REGLEE"
                             => ventes[v] = instantane[w][v]
      /\ phase[w] \in {"ouverte", "encaisse", "ecrite"}

InvEcrite ==
  \A w \in Travailleurs :
    phase[w] = "ecrite" =>
      \/ ventes[cible[w]].statut \in {"REGLEE", "ANNULEE"}
         /\ vue[w] = ventes[cible[w]]
      \/ /\ ventes[cible[w]].statut \in {"ABSENTE", "EN_ATTENTE"}
         /\ vue[w].statut = "REGLEE" =>
              /\ vue[w].numero = PlusGrandNumero(ventes) + 1
              /\ Maillon(ventes, cible[w], vue[w])

Inv == TypeOK /\ InvRegistre /\ InvCible /\ InvVerrous /\ InvSerie /\ InvEcrite

-----------------------------------------------------------------------------
(* Lemmas on numbers and fingerprints *)

\* The greatest number of a well numbered table is the n of its 1..n.
LEMMA DernierNumero ==
  ASSUME NEW base, NEW n \in Nat, Numeros(base) = 1 .. n
  PROVE  PlusGrandNumero(base) = n
<1>1. CASE n = 0
  BY <1>1 DEF PlusGrandNumero
<1>2. CASE n # 0
  <2>1. n \in Numeros(base) /\ \A m \in Numeros(base) : m =< n
    BY <1>2
  <2>2. \A k \in Numeros(base) :
          (\A m \in Numeros(base) : m =< k) => k = n
    BY <2>1
  <2>3. Numeros(base) # {}
    BY <2>1
  <2> QED
    BY <2>1, <2>2, <2>3 DEF PlusGrandNumero
<1> QED
  BY <1>1, <1>2

\* The sale that carries number n is the one whose fingerprint is found for n.
LEMMA EmpreinteDe ==
  ASSUME NEW base, BienNumerotee(base), NEW u \in Reglees(base),
         base[u].numero # 0
  PROVE  EmpreinteDuNumero(base, base[u].numero) = base[u].empreinte
<1> DEFINE P(v) == base[v].numero = base[u].numero
           c == CHOOSE v \in Reglees(base) : P(v)
<1>1. \E v \in Reglees(base) : P(v)
  OBVIOUS
<1>2. c \in Reglees(base) /\ P(c)
  BY <1>1
<1>3. c = u
  BY <1>2 DEF BienNumerotee
<1> QED
  BY <1>3 DEF EmpreinteDuNumero

\* Any number in use is carried by some sale, and its fingerprint is well typed.
LEMMA EmpreinteTypee ==
  ASSUME NEW base \in [Ventes -> Lignes], BienNumerotee(base),
         NEW n \in 0 .. PlusGrandNumero(base)
  PROVE  EmpreinteDuNumero(base, n) \in Seq(Messages)
<1>1. CASE n = 0
  BY <1>1 DEF EmpreinteDuNumero
<1>2. CASE n # 0
  <2>1. PICK m \in Nat : Numeros(base) = 1 .. m
    BY DEF BienNumerotee
  <2>2. n \in Numeros(base)
    BY <1>2, <2>1, DernierNumero
  <2>3. PICK u \in Reglees(base) : base[u].numero = n
    BY <2>2 DEF Numeros
  <2>4. EmpreinteDuNumero(base, n) = base[u].empreinte
    BY <1>2, <2>3, EmpreinteDe
  <2>5. u \in Ventes
    BY DEF Reglees
  <2> QED
    BY <2>4, <2>5 DEF Lignes
<1> QED
  BY <1>1, <1>2

\* A snapshot whose settled rows are still the same in the database finds the
\* same fingerprints there.
LEMMA EmpreinteDeLInstantane ==
  ASSUME NEW ancien, NEW base, BienNumerotee(ancien), BienNumerotee(base),
         \A v \in Ventes : ancien[v].statut = "REGLEE" => base[v] = ancien[v],
         NEW n \in 0 .. PlusGrandNumero(ancien)
  PROVE  EmpreinteDuNumero(ancien, n) = EmpreinteDuNumero(base, n)
<1>1. CASE n = 0
  BY <1>1 DEF EmpreinteDuNumero
<1>2. CASE n # 0
  <2>1. PICK m \in Nat : Numeros(ancien) = 1 .. m
    BY DEF BienNumerotee
  <2>2. n \in Numeros(ancien)
    BY <1>2, <2>1, DernierNumero
  <2>3. PICK u \in Reglees(ancien) : ancien[u].numero = n
    BY <2>2 DEF Numeros
  <2>4. u \in Reglees(base) /\ base[u] = ancien[u]
    BY DEF Reglees
  <2> QED
    BY <1>2, <2>3, <2>4, EmpreinteDe
<1> QED
  BY <1>1, <1>2

\* From the rows `base' to the rows `suite', sale v is settled with the next
\* number, as row r.
UneReglee(base, v, r, suite) ==
  /\ base \in [Ventes -> Lignes] /\ BienNumerotee(base)
  /\ v \in Ventes /\ base[v].statut # "REGLEE"
  /\ r \in Lignes /\ r.statut = "REGLEE"
  /\ r.numero = PlusGrandNumero(base) + 1
  /\ suite = [base EXCEPT ![v] = r]

\* Settling one more sale with the next number keeps the table well numbered,
\* and every fingerprint where it was.
LEMMA UneDePlus ==
  ASSUME NEW base, NEW v, NEW r, NEW suite, UneReglee(base, v, r, suite)
  PROVE  /\ BienNumerotee(suite)
         /\ PlusGrandNumero(suite) = PlusGrandNumero(base) + 1
         /\ Reglees(suite) = Reglees(base) \cup {v}
         /\ \A n \in 0 .. PlusGrandNumero(base) :
              EmpreinteDuNumero(suite, n) = EmpreinteDuNumero(base, n)
<1> USE DEF UneReglee
<1>1. PICK m \in Nat : Numeros(base) = 1 .. m
  BY DEF BienNumerotee
<1>2. PlusGrandNumero(base) = m
  BY <1>1, DernierNumero
<1>3. Reglees(suite) = Reglees(base) \cup {v} /\ v \notin Reglees(base)
  BY DEF Reglees
<1>4. \A u \in Reglees(base) : suite[u] = base[u] /\ base[u].numero \in 1 .. m
  BY <1>1, <1>3 DEF Numeros, Reglees
<1>5. suite[v] = r
  OBVIOUS
<1>6. Numeros(suite) = 1 .. (m + 1)
  <2>1. ASSUME NEW u \in Reglees(suite) PROVE suite[u].numero \in 1 .. (m + 1)
    <3>1. CASE u = v
      BY <3>1, <1>2, <1>5
    <3>2. CASE u # v
      <4>1. suite[u].numero \in 1 .. m
        BY <3>2, <1>3, <1>4
      <4> QED
        BY <4>1
    <3> QED
      BY <3>1, <3>2
  <2>2. ASSUME NEW k \in 1 .. (m + 1) PROVE k \in Numeros(suite)
    <3>1. CASE k = m + 1
      BY <3>1, <1>2, <1>3, <1>5 DEF Numeros
    <3>2. CASE k # m + 1
      <4>1. k \in Numeros(base)
        BY <3>2, <1>1
      <4> QED
        BY <4>1, <1>3, <1>4 DEF Numeros
    <3> QED
      BY <3>1, <3>2
  <2> QED
    BY <2>1, <2>2 DEF Numeros
<1>7. BienNumerotee(suite)
  <2>1. \A u \in Reglees(base) : suite[u].numero # suite[v].numero
    BY <1>2, <1>4, <1>5
  <2>2. \A t, u \in Reglees(suite) : suite[t].numero = suite[u].numero => t = u
    BY <2>1, <1>3, <1>4 DEF BienNumerotee
  <2>3. m + 1 \in Nat
    OBVIOUS
  <2> QED
    BY <2>2, <2>3, <1>6 DEF BienNumerotee
<1>8. PlusGrandNumero(suite) = m + 1
  BY <1>6, DernierNumero
<1>9. \A u \in Ventes : base[u].statut = "REGLEE" => suite[u] = base[u]
  BY <1>3 DEF Reglees
<1>10. \A n \in 0 .. PlusGrandNumero(base) :
         EmpreinteDuNumero(suite, n) = EmpreinteDuNumero(base, n)
  BY <1>7, <1>9, EmpreinteDeLInstantane, ZenonT(60)
<1> QED
  BY <1>2, <1>3, <1>7, <1>8, <1>10

-----------------------------------------------------------------------------
(* The invariant is inductive: one lemma per kind of step *)

\* The lines of a sale that is opened or resumed have their types.
LEMMA LignesTypees ==
  /\ SansContenu \in Contenu
  /\ Absente \in Lignes
  /\ \A nature \in Natures, enLigne \in BOOLEAN, k \in Cles \cup {Aucun} :
       Ouverte(nature, enLigne, k) \in Lignes
  /\ RienLu \in [Ventes -> Lignes]
<1>1. SansContenu \in Contenu
  BY DEF SansContenu, Contenu
<1>2. <<>> \in Seq(Messages)
  OBVIOUS
<1>3. Absente \in Lignes
  BY <1>1, <1>2 DEF Absente, Lignes, Statuts, Natures
<1>4. ASSUME NEW nature \in Natures, NEW enLigne \in BOOLEAN,
             NEW k \in Cles \cup {Aucun}
      PROVE  Ouverte(nature, enLigne, k) \in Lignes
  BY <1>1, <1>2 DEF Ouverte, Absente, Lignes, Statuts
<1> QED
  BY <1>1, <1>3, <1>4 DEF RienLu

\* The invariant holds at the start.
LEMMA InitInv == Init => Inv
<1> SUFFICES ASSUME Init PROVE Inv
  OBVIOUS
<1>1. TypeOK
  BY LignesTypees DEF Init, TypeOK, Phases
<1>2. Reglees(ventes) = {} /\ Numeros(ventes) = 1 .. 0
  BY DEF Init, RienLu, Absente, Reglees, Numeros
<1>3. BienNumerotee(ventes)
  BY <1>2 DEF BienNumerotee
<1>4. InvRegistre
  BY <1>2, <1>3 DEF InvRegistre, Init, RienLu, Absente
<1>5. InvCible /\ InvVerrous /\ InvSerie /\ InvEcrite
  BY DEF Init, InvCible, InvVerrous, InvSerie, InvEcrite
<1> QED
  BY <1>1, <1>4, <1>5 DEF Inv

\* While nothing is committed, the register part of the invariant stays.
LEMMA RegistreInchange ==
  ASSUME InvRegistre, ventes' = ventes
  PROVE  InvRegistre'
  BY DEF InvRegistre

\* Ending a transaction resets what belongs to it, and nothing of the others.
LEMMA TerminerType ==
  ASSUME TypeOK, NEW w \in Travailleurs, Terminer(w),
         ventes' \in [Ventes -> Lignes]
  PROVE  TypeOK'
  BY LignesTypees DEF TypeOK, Terminer, Phases

\* Rolling a transaction back, whatever the reason.
LEMMA TerminerInv ==
  ASSUME Inv, NEW w \in Travailleurs, Terminer(w), ventes' = ventes
  PROVE  Inv'
<1> USE DEF Inv
<1>1. TypeOK'
  BY TerminerType DEF TypeOK
<1>2. InvRegistre'
  BY RegistreInchange
<1>3. InvCible'
  BY DEF InvCible, Nouvelle, TypeOK, Terminer
<1>4. InvVerrous'
  <2> SUFFICES ASSUME NEW x \in Travailleurs PROVE InvVerrous!(x)'
    BY DEF InvVerrous
  <2>1. CASE x = w
    BY <2>1 DEF TypeOK, Terminer
  <2>2. CASE x # w
    BY <2>2, AucunHypothese, SMTT(30)
    DEF InvVerrous, InvCible, Nouvelle, TypeOK, Terminer
  <2> QED
    BY <2>1, <2>2
<1>5. InvSerie'
  BY DEF InvSerie, TypeOK, Terminer
<1>6. InvEcrite'
  BY DEF InvEcrite, TypeOK, Terminer
<1> QED
  BY <1>1, <1>2, <1>3, <1>4, <1>5, <1>6

\* Looking the key up: w holds nothing of the register yet.
LEMMA CleInv ==
  ASSUME Inv, NEW w \in Travailleurs, NEW k \in Cles,
         Cliquer(w, k) \/ RecevoirUnVirement(w, k)
  PROVE  Inv'
<1> USE DEF Inv
<1>1. /\ phase[w] = "repos"
      /\ phase' = [phase EXCEPT ![w] = "cleLibre"]
      /\ cle' = [cle EXCEPT ![w] = k]
      /\ verrouCle' \in {verrouCle, [verrouCle EXCEPT ![k] = w]}
      /\ UNCHANGED <<ventes, cible, vue, serialisable, instantane, montant,
                     verrouLieu, verrouVente>>
  BY DEF Cliquer, RecevoirUnVirement, verrous
<1>2. TypeOK'
  BY <1>1 DEF TypeOK, Phases
<1>3. InvRegistre'
  BY <1>1, RegistreInchange
<1>4. InvCible'
  BY <1>1 DEF InvCible, Nouvelle, TypeOK
<1>5. InvSerie'
  BY <1>1 DEF InvSerie, TypeOK
<1>6. InvEcrite'
  BY <1>1 DEF InvEcrite, TypeOK
<1>7. InvVerrous'
  BY <1>1 DEF InvVerrous, Nouvelle, TypeOK
<1> QED
  BY <1>2, <1>3, <1>4, <1>5, <1>6, <1>7

\* A sale is opened: nobody else works on it, and nobody can before the commit.
LEMMA OuvrirInv ==
  ASSUME Inv, NEW w \in Travailleurs, NEW v \in Ventes,
         NEW nature \in Natures, NEW enLigne \in BOOLEAN, NEW serie \in BOOLEAN,
         \/ OuvrirVente(w, v, nature, enLigne, serie)
         \/ OuvrirVenteAvecCle(w, v)
  PROVE  Inv'
<1> USE DEF Inv
<1>1. /\ ventes' = ventes /\ UNCHANGED verrous
      /\ phase' = [phase EXCEPT ![w] = "ouverte"]
      /\ cible' = [cible EXCEPT ![w] = v]
      /\ Inedite(v)
      /\ phase[w] \in {"repos", "cleLibre"}
      /\ \E n \in Natures, e \in BOOLEAN, k \in Cles \cup {Aucun} :
           vue' = [vue EXCEPT ![w] = Ouverte(n, e, k)]
  BY DEF OuvrirVente, OuvrirVenteAvecCle, TypeOK, Natures
<1>2. PICK n \in Natures, e \in BOOLEAN, k \in Cles \cup {Aucun} :
        vue' = [vue EXCEPT ![w] = Ouverte(n, e, k)]
  BY <1>1
<1>3. Ouverte(n, e, k) \in Lignes /\ Ouverte(n, e, k).statut = "EN_ATTENTE"
  BY LignesTypees DEF Ouverte, Absente
<1>4. TypeOK'
  <2>1. /\ serialisable' \in [Travailleurs -> BOOLEAN]
        /\ instantane' \in [Travailleurs -> [Ventes -> Lignes]]
    <3>1. CASE OuvrirVente(w, v, nature, enLigne, serie)
      BY <3>1, LignesTypees DEF TypeOK, OuvrirVente
    <3>2. CASE OuvrirVenteAvecCle(w, v)
      BY <3>2 DEF TypeOK, OuvrirVenteAvecCle
    <3> QED
      BY <3>1, <3>2
  <2>2. UNCHANGED <<cle, montant, verrous>>
    BY DEF OuvrirVente, OuvrirVenteAvecCle
  <2>3. vue' \in [Travailleurs -> Lignes]
    BY <1>2, <1>3 DEF TypeOK
  <2> QED
    BY <1>1, <2>1, <2>2, <2>3 DEF TypeOK, Phases, verrous
<1>5. InvRegistre'
  BY <1>1, RegistreInchange
<1>6. InvCible'
  BY <1>1, <1>2, <1>3 DEF InvCible, Nouvelle, TypeOK, Inedite
<1>7. InvVerrous'
  <2> SUFFICES ASSUME NEW x \in Travailleurs PROVE InvVerrous!(x)'
    BY DEF InvVerrous
  <2>1. CASE x = w
    BY <2>1, <1>1 DEF TypeOK, Inedite
  <2>2. CASE x # w
    BY <2>2, <1>1, <1>2 DEF InvVerrous, Nouvelle, TypeOK, Inedite, verrous
  <2> QED
    BY <2>1, <2>2
<1>8. InvSerie'
  <2>1. ASSUME NEW x \in Travailleurs, x # w PROVE InvSerie!(x)'
    BY <2>1, <1>1 DEF InvSerie, TypeOK, OuvrirVente, OuvrirVenteAvecCle
  <2>2. InvSerie!(w)'
    <3>1. CASE OuvrirVente(w, v, nature, enLigne, serie)
      BY <3>1, <1>1 DEF InvRegistre, TypeOK, OuvrirVente
    <3>2. CASE OuvrirVenteAvecCle(w, v)
      BY <3>2, <1>1 DEF InvSerie, TypeOK, OuvrirVenteAvecCle
    <3> QED
      BY <3>1, <3>2
  <2> QED
    BY <2>1, <2>2 DEF InvSerie
<1>9. InvEcrite'
  BY <1>1, <1>2 DEF InvEcrite, TypeOK
<1> QED
  BY <1>4, <1>5, <1>6, <1>7, <1>8, <1>9

\* Items and payments only fill the row that w alone sees.
LEMMA RemplirInv ==
  ASSUME Inv, NEW w \in Travailleurs, NEW c \in Contenu, AvecContenu(w, c)
  PROVE  Inv'
<1> USE DEF Inv
<1>1. /\ phase[w] = "ouverte"
      /\ vue' = [vue EXCEPT ![w] = [vue[w] EXCEPT !.contenu = c]]
      /\ UNCHANGED <<ventes, phase, cible, serialisable, instantane, cle,
                     montant, verrous>>
  BY DEF AvecContenu, TypeOK
<1>2. [vue[w] EXCEPT !.contenu = c] \in Lignes
  <2>1. vue[w] \in Lignes
    BY DEF TypeOK
  <2> QED
    BY <2>1 DEF Lignes
<1>3. TypeOK'
  BY <1>1, <1>2 DEF TypeOK, verrous
<1>4. InvRegistre'
  BY <1>1, RegistreInchange
<1>5. InvCible'
  BY <1>1 DEF InvCible, Nouvelle, TypeOK, Lignes
<1>6. InvVerrous'
  BY <1>1 DEF InvVerrous, Nouvelle, TypeOK, verrous
<1>7. InvSerie' /\ InvEcrite'
  BY <1>1 DEF InvSerie, InvEcrite, TypeOK
<1> QED
  BY <1>3, <1>4, <1>5, <1>6, <1>7

\* What the till asks for has its type.
LEMMA ContenusTypes ==
  ASSUME NEW c \in Contenu, NEW m \in Int, NEW offert \in BOOLEAN
  PROVE  /\ AvecArticle(c, m, offert) \in Contenu
         /\ AvecReglement(c, m, offert) \in Contenu
<1>1. AvecArticle(c, m, offert) \in Contenu
  BY DEF AvecArticle, Contenu
<1>2. AvecReglement(c, m, offert) \in Contenu
  <2>1. c.regle + m \in Int
    BY DEF Contenu
  <2>2. c.regleHorsOffert + (IF offert THEN 0 ELSE m) \in Int
    BY DEF Contenu
  <2> QED
    BY <2>1, <2>2 DEF AvecReglement, Contenu
<1> QED
  BY <1>1, <1>2

\* So has what a payment on line asks for.
LEMMA ContenuStripeType ==
  ASSUME NEW c \in Contenu, NEW m \in Int
  PROVE  AvecPaiementStripe(c, m) \in Contenu
<1>1. m - c.catalogue \in Int
  BY DEF Contenu
<1>2. AvecArticle(c, m - c.catalogue, FALSE) \in Contenu
  BY <1>1, ContenusTypes
<1>3. \A d \in Contenu : AvecReglement(d, m, FALSE) \in Contenu
  BY ContenusTypes
<1> QED
  BY <1>2, <1>3 DEF AvecPaiementStripe

\* The venue lock passes to w, which no other phase that needs it contradicts.
LEMMA VerrouillerInv ==
  ASSUME Inv, NEW w \in Travailleurs, VerrouillerLeLieu(w)
  PROVE  Inv'
<1> USE DEF Inv
<1>1. /\ verrouLieu = Aucun /\ verrouLieu' = w
      /\ UNCHANGED <<ventes, cible, vue, serialisable, instantane, cle,
                     montant, verrouVente, verrouCle>>
      /\ \/ phase[w] = "ouverte" /\ phase' = [phase EXCEPT ![w] = "encaisse"]
         \/ /\ phase[w] = "payee"
            /\ phase' = [phase EXCEPT ![w] = "encaisseStripe"]
  BY DEF VerrouillerLeLieu
<1>2. Aucun \notin Travailleurs
  BY AucunHypothese
<1>3. TypeOK'
  BY <1>1 DEF TypeOK, Phases
<1>4. InvRegistre'
  BY <1>1, RegistreInchange
<1>5. InvCible' /\ InvSerie' /\ InvEcrite'
  BY <1>1, SMTT(30) DEF InvCible, InvSerie, InvEcrite, Nouvelle, TypeOK
<1>6. InvVerrous'
  BY <1>1, <1>2 DEF InvVerrous, InvCible, Nouvelle, TypeOK
<1> QED
  BY <1>3, <1>4, <1>5, <1>6

\* A payment is found paid: only a sale already in the database can be online.
LEMMA ConstaterInv ==
  ASSUME Inv, NEW w \in Travailleurs, NEW v \in Ventes, NEW m \in Montants,
         ConstaterPaye(w, v, m)
  PROVE  Inv'
<1> USE DEF Inv
<1>1. /\ phase[w] = "repos" /\ phase' = [phase EXCEPT ![w] = "payee"]
      /\ cible' = [cible EXCEPT ![w] = v]
      /\ montant' = [montant EXCEPT ![w] = m]
      /\ UNCHANGED <<ventes, vue, serialisable, instantane, cle, verrouLieu,
                     verrouVente, verrouCle>>
  BY DEF ConstaterPaye, verrous
<1>2. ventes[v].statut # "ABSENTE"
  BY DEF ConstaterPaye, InvRegistre
<1>3. TypeOK'
  BY <1>1 DEF TypeOK, Phases
<1>4. InvRegistre'
  BY <1>1, RegistreInchange
<1>5. InvCible'
  BY <1>1, <1>2 DEF InvCible, Nouvelle, TypeOK
<1>6. InvVerrous'
  BY <1>1, <1>2 DEF InvVerrous, InvCible, Nouvelle, TypeOK
<1>7. InvSerie' /\ InvEcrite'
  BY <1>1 DEF InvSerie, InvEcrite, TypeOK
<1> QED
  BY <1>3, <1>4, <1>5, <1>6, <1>7

\* The row encaisser_vente writes, read from `base', is the next one of `base'.
LEMMA EncaisseeCorrecte ==
  ASSUME NEW base \in [Ventes -> Lignes], BienNumerotee(base),
         NEW v \in Ventes, NEW r \in Lignes, PeutEtreEncaissee(r)
  PROVE  LET e == Encaissee(v, r, base)
         IN  /\ e \in Lignes
             /\ e.statut = "REGLEE"
             /\ e.numero = PlusGrandNumero(base) + 1
             /\ Maillon(base, v, e)
<1> DEFINE dernier == PlusGrandNumero(base)
           p       == EmpreinteDuNumero(base, dernier)
           reglee  == [r EXCEPT !.statut = "REGLEE", !.numero = dernier + 1,
                                !.totaux = r.contenu, !.precedente = p]
           e       == Encaissee(v, r, base)
<1>1. dernier \in Nat
  <2>1. PICK n \in Nat : Numeros(base) = 1 .. n
    BY DEF BienNumerotee
  <2> QED
    BY <2>1, DernierNumero
<1>2. p \in Seq(Messages)
  BY <1>1, EmpreinteTypee
<1>3. reglee \in Lignes
  <2>1. r.contenu \in Contenu
    BY DEF Lignes
  <2>2. dernier + 1 \in Nat /\ "REGLEE" \in Statuts
    BY <1>1 DEF Statuts
  <2> HIDE DEF dernier, p
  <2>3. \A s \in Statuts, n \in Nat, t \in Contenu, q \in Seq(Messages) :
          [r EXCEPT !.statut = s, !.numero = n, !.totaux = t,
                    !.precedente = q] \in Lignes
    BY DEF Lignes
  <2> QED
    BY <2>1, <2>2, <2>3, <1>2
<1>4. /\ reglee.statut = "REGLEE" /\ reglee.numero = dernier + 1
      /\ reglee.contenu = r.contenu /\ reglee.totaux = r.contenu
      /\ reglee.precedente = p
  BY DEF Lignes
<1>5. Message(v, reglee) \in Messages
  BY <1>1, <1>3, <1>4 DEF Message, Messages, Lignes, Statuts
<1>6. EmpreinteCalculee(v, reglee) \in Seq(Messages)
  BY <1>2, <1>4, <1>5 DEF EmpreinteCalculee
<1>7. e = [reglee EXCEPT !.empreinte = EmpreinteCalculee(v, reglee)]
  BY DEF Encaissee
<1> HIDE DEF reglee, e, p, dernier
<1>8. e \in Lignes
  BY <1>3, <1>6, <1>7 DEF Lignes
<1>9. /\ e.statut = "REGLEE" /\ e.numero = dernier + 1
      /\ e.contenu = r.contenu /\ e.totaux = r.contenu /\ e.precedente = p
      /\ e.empreinte = EmpreinteCalculee(v, reglee)
  BY <1>3, <1>4, <1>7 DEF Lignes
<1>10. EmpreinteCalculee(v, e) = EmpreinteCalculee(v, reglee)
  BY <1>4, <1>9 DEF EmpreinteCalculee, Message
<1>11. Equilibre(e.contenu)
  BY <1>9 DEF PeutEtreEncaissee
<1>12. e.numero - 1 = dernier
  BY <1>1, <1>9
<1>13. Maillon(base, v, e)
  BY <1>9, <1>10, <1>11, <1>12 DEF Maillon, p
<1> QED
  BY <1>8, <1>9, <1>13 DEF e, dernier

\* The unique constraint makes up for the snapshot: a number that is not taken
\* is the next one of the database too.
LEMMA InstantaneAJour ==
  ASSUME NEW ancien, NEW base, BienNumerotee(ancien), BienNumerotee(base),
         \A v \in Ventes : ancien[v].statut = "REGLEE" => base[v] = ancien[v],
         PlusGrandNumero(ancien) + 1 \notin Numeros(base)
  PROVE  PlusGrandNumero(ancien) = PlusGrandNumero(base)
<1>1. PICK m \in Nat : Numeros(ancien) = 1 .. m
  BY DEF BienNumerotee
<1>2. PICK n \in Nat : Numeros(base) = 1 .. n
  BY DEF BienNumerotee
<1>3. PlusGrandNumero(ancien) = m /\ PlusGrandNumero(base) = n
  BY <1>1, <1>2, DernierNumero
<1>4. Numeros(ancien) \subseteq Numeros(base)
  BY DEF Numeros, Reglees
<1>5. m =< n
  <2>1. CASE m = 0
    BY <2>1
  <2>2. CASE m # 0
    <3>1. m \in Numeros(base)
      BY <2>2, <1>1, <1>4
    <3> QED
      BY <3>1, <1>2
  <2> QED
    BY <2>1, <2>2
<1>6. ~ (m + 1 \in 1 .. n)
  BY <1>2, <1>3
<1> QED
  BY <1>3, <1>5, <1>6

\* The greatest number given is a number.
LEMMA PlusGrandNumeroType ==
  ASSUME NEW base, BienNumerotee(base)
  PROVE  PlusGrandNumero(base) \in Nat
<1>1. PICK n \in Nat : Numeros(base) = 1 .. n
  BY DEF BienNumerotee
<1> QED
  BY <1>1, DernierNumero

\* Settling under the venue lock: the row written is the next of the register.
LEMMA EncaisserInv ==
  ASSUME Inv, NEW w \in Travailleurs, Encaisser(w)
  PROVE  Inv'
<1> USE DEF Inv
<1> DEFINE base == Lues(w)
           e == Encaissee(cible[w], vue[w], base)
<1>1. /\ phase[w] = "encaisse" /\ phase' = [phase EXCEPT ![w] = "ecrite"]
      /\ vue' = [vue EXCEPT ![w] = e]
      /\ PeutEtreEncaissee(vue[w])
      /\ PlusGrandNumero(base) + 1 \notin Numeros(ventes)
      /\ UNCHANGED <<ventes, cible, serialisable, instantane, cle, montant,
                     verrouLieu, verrouVente, verrouCle>>
  BY DEF Encaisser, Ecrire, verrous
<1>2. cible[w] \in Ventes /\ Nouvelle(w) /\ vue[w] \in Lignes /\ verrouLieu = w
  BY <1>1 DEF InvCible, InvVerrous, TypeOK
<1>3. /\ base \in [Ventes -> Lignes] /\ BienNumerotee(base)
      /\ \A v \in Ventes : base[v].statut = "REGLEE" => ventes[v] = base[v]
  BY DEF Lues, TypeOK, InvSerie, InvRegistre
<1>4. BienNumerotee(ventes)
  BY DEF InvRegistre
<1> HIDE DEF base
<1>5. /\ e \in Lignes /\ e.statut = "REGLEE"
      /\ e.numero = PlusGrandNumero(base) + 1 /\ Maillon(base, cible[w], e)
  BY <1>1, <1>2, <1>3, EncaisseeCorrecte
<1> HIDE DEF e
<1>6. PlusGrandNumero(base) = PlusGrandNumero(ventes)
  BY <1>1, <1>3, <1>4, InstantaneAJour
<1>7. Maillon(ventes, cible[w], e)
  <2>1. PlusGrandNumero(base) \in Nat
    BY <1>3, PlusGrandNumeroType
  <2>2. e.numero - 1 = PlusGrandNumero(base)
    BY <2>1, <1>5
  <2>3. EmpreinteDuNumero(base, e.numero - 1)
          = EmpreinteDuNumero(ventes, e.numero - 1)
    BY <2>1, <2>2, <1>3, <1>4, EmpreinteDeLInstantane
  <2> QED
    BY <2>3, <1>5 DEF Maillon
<1>8. TypeOK'
  BY <1>1, <1>5 DEF TypeOK, Phases
<1>9. InvRegistre'
  BY <1>1, RegistreInchange
<1>10. InvCible'
  BY <1>1, <1>2, <1>5 DEF InvCible, Nouvelle, TypeOK
<1>11. InvVerrous'
  BY <1>1, <1>2 DEF InvVerrous, Nouvelle, TypeOK
<1>12. InvSerie'
  BY <1>1 DEF InvSerie, TypeOK
<1>13. InvEcrite'
  <2> SUFFICES ASSUME NEW x \in Travailleurs PROVE InvEcrite!(x)'
    BY DEF InvEcrite
  <2>1. CASE x = w
    BY <2>1, <1>1, <1>2, <1>5, <1>6, <1>7 DEF TypeOK, Nouvelle
  <2>2. CASE x # w
    BY <2>2, <1>1 DEF InvEcrite, TypeOK
  <2> QED
    BY <2>1, <2>2
<1> QED
  BY <1>8, <1>9, <1>10, <1>11, <1>12, <1>13

\* Settling what Stripe has collected, under the venue lock and the row lock.
LEMMA EncaisserStripeInv ==
  ASSUME Inv, NEW w \in Travailleurs, EncaisserStripe(w)
  PROVE  Inv'
<1> USE DEF Inv
<1> DEFINE v == cible[w]
           payee == Payee(ventes[v], montant[w])
           e == Encaissee(v, payee, ventes)
<1>1. /\ phase[w] = "encaisseStripe"
      /\ phase' = [phase EXCEPT ![w] = "ecrite"]
      /\ verrouVente[v] = Aucun
      /\ verrouVente' = [verrouVente EXCEPT ![v] = w]
      /\ UNCHANGED <<ventes, cible, serialisable, instantane, cle, montant,
                     verrouLieu, verrouCle>>
      /\ \/ /\ ventes[v].statut = "REGLEE"
            /\ vue' = [vue EXCEPT ![w] = ventes[v]]
         \/ /\ PeutEtreEncaissee(payee)
            /\ vue' = [vue EXCEPT ![w] = e]
  BY DEF EncaisserStripe, Ecrire
<1>2. v \in Ventes /\ ~ Nouvelle(w) /\ verrouLieu = w /\ ventes[v] \in Lignes
  BY <1>1 DEF InvCible, InvVerrous, TypeOK
<1>3. BienNumerotee(ventes) /\ ventes \in [Ventes -> Lignes]
  BY DEF InvRegistre, TypeOK
<1>4. payee \in Lignes /\ payee.statut = ventes[v].statut
  <2>1. montant[w] \in Int
    <3>1. montant[w] \in Montants \/ montant[w] = 0
      BY DEF TypeOK
    <3>2. \A m \in Montants : m \in Int
      BY MontantsHypothese
    <3> QED
      BY <3>1, <3>2
  <2>2. AvecPaiementStripe(ventes[v].contenu, montant[w]) \in Contenu
    BY <2>1, <1>2, ContenuStripeType DEF Lignes
  <2> QED
    BY <2>2, <1>2 DEF Payee, Lignes
<1> HIDE DEF payee
<1>5. PeutEtreEncaissee(payee) =>
        /\ ventes[v].statut = "EN_ATTENTE"
        /\ e \in Lignes /\ e.statut = "REGLEE"
        /\ e.numero = PlusGrandNumero(ventes) + 1 /\ Maillon(ventes, v, e)
  <2> SUFFICES ASSUME PeutEtreEncaissee(payee)
               PROVE  /\ ventes[v].statut = "EN_ATTENTE"
                      /\ e \in Lignes /\ e.statut = "REGLEE"
                      /\ e.numero = PlusGrandNumero(ventes) + 1
                      /\ Maillon(ventes, v, e)
    OBVIOUS
  <2>1. ventes[v].statut = "EN_ATTENTE"
    BY <1>4 DEF PeutEtreEncaissee
  <2> QED
    BY <2>1, <1>2, <1>3, <1>4, EncaisseeCorrecte
<1> HIDE DEF e
<1>6. /\ vue'[w] \in Lignes /\ vue'[w].statut = "REGLEE"
      /\ vue' = [vue EXCEPT ![w] = vue'[w]]
      /\ \/ ventes[v].statut = "REGLEE" /\ vue'[w] = ventes[v]
         \/ /\ ventes[v].statut = "EN_ATTENTE"
            /\ vue'[w].numero = PlusGrandNumero(ventes) + 1
            /\ Maillon(ventes, v, vue'[w])
  BY <1>1, <1>2, <1>5 DEF TypeOK
<1>7. TypeOK'
  <2>1. vue' \in [Travailleurs -> Lignes]
    BY <1>6 DEF TypeOK
  <2> QED
    BY <2>1, <1>1, <1>2 DEF TypeOK, Phases
<1>8. InvRegistre'
  BY <1>1, RegistreInchange
<1>9. InvCible'
  BY <1>1, <1>2, <1>6 DEF InvCible, Nouvelle, TypeOK
<1>10. InvVerrous'
  <2> SUFFICES ASSUME NEW x \in Travailleurs PROVE InvVerrous!(x)'
    BY DEF InvVerrous
  <2>1. CASE x = w
    BY <2>1, <1>1, <1>2 DEF TypeOK, Nouvelle
  <2>2. CASE x # w
    BY <2>2, <1>1, <1>2, <1>6, AucunHypothese
       DEF InvVerrous, InvCible, Nouvelle, TypeOK
  <2> QED
    BY <2>1, <2>2
<1>11. InvSerie'
  BY <1>1 DEF InvSerie, TypeOK
<1>12. InvEcrite'
  <2> SUFFICES ASSUME NEW x \in Travailleurs PROVE InvEcrite!(x)'
    BY DEF InvEcrite
  <2>1. CASE x = w
    BY <2>1, <1>1, <1>6 DEF TypeOK
  <2>2. CASE x # w
    BY <2>2, <1>1, <1>6 DEF InvEcrite, TypeOK
  <2> QED
    BY <2>1, <2>2
<1> QED
  BY <1>7, <1>8, <1>9, <1>10, <1>11, <1>12

\* Cancelling: the row lock keeps every other writer of the sale away.
LEMMA AnnulerInv ==
  ASSUME Inv, NEW w \in Travailleurs, NEW v \in Ventes, AnnulerVente(w, v)
  PROVE  Inv'
<1> USE DEF Inv
<1> DEFINE r == [ventes[v] EXCEPT !.statut = "ANNULEE"]
<1>1. /\ phase[w] = "repos" /\ phase' = [phase EXCEPT ![w] = "ecrite"]
      /\ ventes[v].statut \in {"EN_ATTENTE", "ANNULEE"}
      /\ verrouVente[v] = Aucun
      /\ verrouVente' = [verrouVente EXCEPT ![v] = w]
      /\ cible' = [cible EXCEPT ![w] = v]
      /\ vue' = [vue EXCEPT ![w] = r]
      /\ UNCHANGED <<ventes, serialisable, instantane, cle, montant,
                     verrouLieu, verrouCle>>
  BY DEF AnnulerVente
<1>2. /\ r \in Lignes /\ r.statut = "ANNULEE"
      /\ ventes[v].statut = "ANNULEE" => r = ventes[v]
  <2>1. ventes[v] \in Lignes
    BY DEF TypeOK
  <2> QED
    BY <2>1 DEF Lignes, Statuts
<1> HIDE DEF r
<1>3. TypeOK'
  BY <1>1, <1>2 DEF TypeOK, Phases
<1>4. InvRegistre'
  BY <1>1, RegistreInchange
<1>5. InvCible'
  BY <1>1, <1>2 DEF InvCible, Nouvelle, TypeOK
<1>6. InvVerrous'
  <2> SUFFICES ASSUME NEW x \in Travailleurs PROVE InvVerrous!(x)'
    BY DEF InvVerrous
  <2>1. CASE x = w
    BY <2>1, <1>1, <1>2 DEF TypeOK, Nouvelle
  <2>2. CASE x # w
    BY <2>2, <1>1, AucunHypothese DEF InvVerrous, InvCible, Nouvelle, TypeOK
  <2> QED
    BY <2>1, <2>2
<1>7. InvSerie'
  BY <1>1 DEF InvSerie, TypeOK
<1>8. InvEcrite'
  <2> SUFFICES ASSUME NEW x \in Travailleurs PROVE InvEcrite!(x)'
    BY DEF InvEcrite
  <2>1. CASE x = w
    BY <2>1, <1>1, <1>2 DEF TypeOK
  <2>2. CASE x # w
    BY <2>2, <1>1 DEF InvEcrite, TypeOK
  <2> QED
    BY <2>1, <2>2
<1> QED
  BY <1>3, <1>4, <1>5, <1>6, <1>7, <1>8

\* An empty order is cancelled and leaves the invariant true.
LEMMA AnnulerCommandeVideInv ==
  ASSUME Inv, NEW w \in Travailleurs, AnnulerCommandeVide(w)
  PROVE  Inv'
<1> USE DEF Inv
<1> DEFINE r == [vue[w] EXCEPT !.statut = "ANNULEE"]
<1>1. /\ phase[w] = "ouverte" /\ phase' = [phase EXCEPT ![w] = "ecrite"]
      /\ vue' = [vue EXCEPT ![w] = r]
      /\ UNCHANGED <<ventes, cible, serialisable, instantane, cle, montant,
                     verrouLieu, verrouVente, verrouCle>>
  BY DEF AnnulerCommandeVide, Ecrire, verrous
<1>2. r \in Lignes /\ r.statut = "ANNULEE"
  <2>1. vue[w] \in Lignes
    BY DEF TypeOK
  <2> QED
    BY <2>1 DEF Lignes, Statuts
<1> HIDE DEF r
<1>3. TypeOK'
  BY <1>1, <1>2 DEF TypeOK, Phases
<1>4. InvRegistre'
  BY <1>1, RegistreInchange
<1>5. InvCible'
  BY <1>1, <1>2 DEF InvCible, Nouvelle, TypeOK
<1>6. InvVerrous'
  BY <1>1, <1>2 DEF InvVerrous, InvCible, Nouvelle, TypeOK
<1>7. InvSerie'
  BY <1>1 DEF InvSerie, TypeOK
<1>8. InvEcrite'
  BY <1>1, <1>2 DEF InvEcrite, InvCible, Nouvelle, TypeOK
<1> QED
  BY <1>3, <1>4, <1>5, <1>6, <1>7, <1>8

\* What is read of the register depends on the settled rows only.
LEMMA MemesReglees ==
  ASSUME NEW base, BienNumerotee(base), NEW suite,
         Reglees(suite) = Reglees(base),
         \A u \in Reglees(base) : suite[u] = base[u]
  PROVE  /\ BienNumerotee(suite)
         /\ PlusGrandNumero(suite) = PlusGrandNumero(base)
         /\ \A n \in 0 .. PlusGrandNumero(base) :
              EmpreinteDuNumero(suite, n) = EmpreinteDuNumero(base, n)
<1>1. Numeros(suite) = Numeros(base)
  BY DEF Numeros
<1>2. BienNumerotee(suite)
  BY <1>1 DEF BienNumerotee
<1>3. PlusGrandNumero(suite) = PlusGrandNumero(base)
  BY <1>1 DEF PlusGrandNumero
<1>4. \A u \in Ventes : base[u].statut = "REGLEE" => suite[u] = base[u]
  BY DEF Reglees
<1> QED
  BY <1>2, <1>3, <1>4, EmpreinteDeLInstantane

\* Committing.  Either the register stays as it was, or w, holder of the venue
\* lock, adds its next sale: no other row written and not committed is settled.
LEMMA ValiderInv ==
  ASSUME Inv, NEW w \in Travailleurs, Valider(w)
  PROVE  /\ Inv'
         /\ \A v \in Ventes : ventes[v].statut \in {"REGLEE", "ANNULEE"}
                                => ventes'[v] = ventes[v]
<1> USE DEF Inv
<1> DEFINE v == cible[w]
<1>1. /\ \/ phase[w] = "ecrite" /\ vue[w].statut \in {"REGLEE", "ANNULEE"}
         \/ phase[w] = "ouverte" /\ Nouvelle(w) /\ vue[w].statut = "EN_ATTENTE"
      /\ v \in Ventes /\ vue[w] \in Lignes
      /\ ventes' = [ventes EXCEPT ![v] = vue[w]]
      /\ Terminer(w)
  BY DEF Valider, InvCible, TypeOK
<1>2. BienNumerotee(ventes) /\ ventes \in [Ventes -> Lignes]
  BY DEF InvRegistre, TypeOK
<1>3. \A x \in Travailleurs \ {w} :
        /\ phase'[x] = phase[x] /\ cible'[x] = cible[x] /\ vue'[x] = vue[x]
        /\ serialisable'[x] = serialisable[x]
        /\ instantane'[x] = instantane[x]
  <2> SUFFICES ASSUME NEW x \in Travailleurs \ {w}
               PROVE  /\ phase'[x] = phase[x] /\ cible'[x] = cible[x]
                      /\ vue'[x] = vue[x]
                      /\ serialisable'[x] = serialisable[x]
                      /\ instantane'[x] = instantane[x]
    OBVIOUS
  <2>1. Terminer(w)
    BY <1>1
  <2> QED
    BY <2>1 DEF Terminer, TypeOK
<1>4. phase'[w] = "repos" /\ ~ serialisable'[w]
  BY DEF Terminer, TypeOK, Valider
\* No other worker has a row of this sale to commit, or would create it.
<1>5. \A x \in Travailleurs \ {w} :
        phase[x] \in {"ouverte", "encaisse", "ecrite"} => cible[x] # v
  <2> SUFFICES ASSUME NEW x \in Travailleurs \ {w}, cible[x] = v,
                      phase[x] \in {"ouverte", "encaisse", "ecrite"}
               PROVE  FALSE
    OBVIOUS
  <2>1. CASE Nouvelle(w)
    BY <2>1, <1>1 DEF InvVerrous
  <2>2. CASE ~ Nouvelle(w)
    <3>1. phase[w] = "ecrite" /\ verrouVente[v] = w
      BY <2>2, <1>1 DEF InvVerrous
    <3>2. ~ Nouvelle(x) /\ phase[x] = "ecrite"
      BY <2>2 DEF Nouvelle, InvCible
    <3> QED
      BY <3>1, <3>2 DEF InvVerrous
  <2> QED
    BY <2>1, <2>2
<1>6. \A u \in Ventes : ventes[u].statut \in {"REGLEE", "ANNULEE"}
                          => ventes'[u] = ventes[u]
  BY <1>1, <1>2 DEF InvEcrite, Nouvelle
<1>7. \A x \in Travailleurs \ {w} :
        phase[x] \in {"ouverte", "encaisse", "ecrite"}
          => ventes'[cible[x]] = ventes[cible[x]]
  BY <1>1, <1>2, <1>5 DEF InvCible
<1>8. TypeOK'
  <2>1. ventes' \in [Ventes -> Lignes]
    BY <1>1, <1>2
  <2> QED
    BY <2>1, <1>1, TerminerType
<1>9. \/ /\ Reglees(ventes') = Reglees(ventes)
         /\ \A u \in Reglees(ventes) : ventes'[u] = ventes[u]
      \/ /\ phase[w] = "ecrite" /\ vue[w].statut = "REGLEE"
         /\ ventes[v].statut \in {"ABSENTE", "EN_ATTENTE"}
  BY <1>1, <1>2, <1>6 DEF InvEcrite, Nouvelle, Reglees
<1>10. /\ BienNumerotee(ventes')
       /\ \A n \in 0 .. PlusGrandNumero(ventes) :
            EmpreinteDuNumero(ventes', n) = EmpreinteDuNumero(ventes, n)
       /\ \A u \in Reglees(ventes') :
            \/ u \in Reglees(ventes) /\ ventes'[u] = ventes[u]
            \/ Maillon(ventes, u, ventes'[u])
               /\ ventes'[u].numero = PlusGrandNumero(ventes) + 1
       /\ \/ PlusGrandNumero(ventes') = PlusGrandNumero(ventes)
          \/ phase[w] = "ecrite" /\ vue[w].statut = "REGLEE"
  <2>1. CASE /\ Reglees(ventes') = Reglees(ventes)
             /\ \A u \in Reglees(ventes) : ventes'[u] = ventes[u]
    BY <2>1, <1>2, MemesReglees
  <2>2. CASE /\ phase[w] = "ecrite" /\ vue[w].statut = "REGLEE"
             /\ ventes[v].statut \in {"ABSENTE", "EN_ATTENTE"}
    <3>1. /\ vue[w].numero = PlusGrandNumero(ventes) + 1
          /\ Maillon(ventes, v, vue[w])
      BY <2>2 DEF InvEcrite
    <3>2. /\ BienNumerotee(ventes')
          /\ Reglees(ventes') = Reglees(ventes) \cup {v}
          /\ \A n \in 0 .. PlusGrandNumero(ventes) :
               EmpreinteDuNumero(ventes', n) = EmpreinteDuNumero(ventes, n)
      <4>1. vue[w] \in Lignes /\ v \in Ventes /\ ventes[v].statut # "REGLEE"
        BY <1>1, <2>2
      <4>2. ventes' = [ventes EXCEPT ![v] = vue[w]]
        BY <1>1
      <4>3. ventes \in [Ventes -> Lignes] /\ BienNumerotee(ventes)
        BY <1>2
      <4>4. /\ vue[w].statut = "REGLEE"
            /\ vue[w].numero = PlusGrandNumero(ventes) + 1
        BY <3>1, <2>2
      <4> HIDE DEF v
      <4>5. UneReglee(ventes, v, vue[w], ventes')
        BY <4>1, <4>2, <4>3, <4>4 DEF UneReglee
      <4> QED
        BY ONLY <4>5, UneDePlus
    <3>3. ventes'[v] = vue[w]
      BY <1>1, <1>2
    <3>4. \A u \in Reglees(ventes) : ventes'[u] = ventes[u]
      BY <1>6 DEF Reglees
    <3> QED
      BY <3>1, <3>2, <3>3, <3>4, <2>2
  <2> QED
    BY <2>1, <2>2, <1>9
<1>11. InvRegistre'
  <2>1. ASSUME NEW u \in Reglees(ventes')
        PROVE  Maillon(ventes', u, ventes'[u])
    <3>1. Maillon(ventes, u, ventes'[u])
      BY <1>10 DEF InvRegistre
    <3>2. ventes'[u].numero - 1 \in 0 .. PlusGrandNumero(ventes)
      <4>1. PICK n \in Nat : Numeros(ventes) = 1 .. n
        BY <1>2 DEF BienNumerotee
      <4>2. PlusGrandNumero(ventes) = n
        BY <4>1, DernierNumero
      <4>3. CASE u \in Reglees(ventes) /\ ventes'[u] = ventes[u]
        <5>1. ventes[u].numero \in 1 .. n
          BY <4>1, <4>3 DEF Numeros
        <5> QED
          BY <5>1, <4>2, <4>3
      <4>4. CASE ventes'[u].numero = PlusGrandNumero(ventes) + 1
        BY <4>2, <4>4
      <4> QED
        BY <4>3, <4>4, <1>10
    <3> QED
      BY <3>1, <3>2, <1>10 DEF Maillon
  <2>2. ASSUME NEW u \in Ventes, ventes'[u].statut = "ABSENTE"
        PROVE  ~ ventes'[u].enLigne
    <3>1. ventes'[u] = ventes[u]
      BY <2>2, <1>1, <1>2
    <3> QED
      BY <3>1, <2>2 DEF InvRegistre
  <2> QED
    BY <2>1, <2>2, <1>10 DEF InvRegistre
<1>12. InvCible'
  <2> SUFFICES ASSUME NEW x \in Travailleurs PROVE InvCible!(x)'
    BY DEF InvCible
  <2>1. CASE x = w
    BY <2>1, <1>4
  <2>2. CASE x # w
    <3>1. /\ phase'[x] = phase[x] /\ cible'[x] = cible[x] /\ vue'[x] = vue[x]
      BY <2>2, <1>3
    <3>2. \A u \in Ventes : ventes[u].statut # "ABSENTE"
                              => ventes'[u].statut # "ABSENTE"
      BY <1>1, <1>2
    <3> QED
      BY <2>2, <3>1, <3>2, <1>7 DEF InvCible, Nouvelle
  <2> QED
    BY <2>1, <2>2
<1>13. InvVerrous'
  <2> SUFFICES ASSUME NEW x \in Travailleurs PROVE InvVerrous!(x)'
    BY DEF InvVerrous
  <2>1. CASE x = w
    BY <2>1, <1>4
  <2>2. CASE x # w
    <3>1. /\ phase'[x] = phase[x] /\ cible'[x] = cible[x] /\ vue'[x] = vue[x]
      BY <2>2, <1>3
    <3>4. /\ verrouLieu = x => verrouLieu' = x
          /\ \A u \in Ventes : verrouVente[u] = x => verrouVente'[u] = x
          /\ cible'[w] = Aucun
      <4>1. Terminer(w)
        BY <1>1
      <4> QED
        BY <4>1, <2>2 DEF Terminer, TypeOK
    <3>2. \A u \in Travailleurs \ {w} : cible'[u] = cible[u]
      BY <1>3
    <3>3. phase[x] \in {"ouverte", "encaisse", "ecrite"} =>
            /\ cible[x] \in Ventes
            /\ (Nouvelle(x)' <=> Nouvelle(x))
      BY <2>2, <3>1, <1>7 DEF InvCible, Nouvelle
    <3> QED
      BY <2>2, <3>1, <3>2, <3>3, <3>4, AucunHypothese DEF InvVerrous
  <2> QED
    BY <2>1, <2>2
<1>14. InvSerie'
  <2> SUFFICES ASSUME NEW x \in Travailleurs, serialisable'[x]
               PROVE  InvSerie!(x)'
    BY DEF InvSerie
  <2>1. x # w
    BY <1>4
  <2> QED
    BY <2>1, <1>3, <1>6 DEF InvSerie
<1>15. InvEcrite'
  <2> SUFFICES ASSUME NEW x \in Travailleurs, phase'[x] = "ecrite"
               PROVE  InvEcrite!(x)'
    BY DEF InvEcrite
  <2>1. x # w
    BY <1>4
  <2>2. /\ phase[x] = "ecrite" /\ cible'[x] = cible[x] /\ vue'[x] = vue[x]
        /\ ventes'[cible[x]] = ventes[cible[x]]
    BY <2>1, <1>3, <1>7
  <2>3. vue[x].statut = "REGLEE" =>
          PlusGrandNumero(ventes') = PlusGrandNumero(ventes)
    BY <2>1, <2>2, <1>10 DEF InvVerrous
  <2>4. ASSUME vue[x].numero = PlusGrandNumero(ventes) + 1,
               Maillon(ventes, cible[x], vue[x])
        PROVE  Maillon(ventes', cible[x], vue[x])
    <3>1. PlusGrandNumero(ventes) \in Nat
      BY <1>2, PlusGrandNumeroType
    <3>2. vue[x].numero - 1 = PlusGrandNumero(ventes)
      BY <3>1, <2>4
    <3> QED
      BY <3>1, <3>2, <2>4, <1>10 DEF Maillon
  <2> QED
    BY <2>2, <2>3, <2>4 DEF InvEcrite
<1> QED
  BY <1>6, <1>8, <1>11, <1>12, <1>13, <1>14, <1>15

\* No step breaks the invariant, nor changes a settled or a cancelled sale.
LEMMA EtapeInv ==
  ASSUME Inv, [Next]_vars
  PROVE  /\ Inv'
         /\ \A v \in Ventes : ventes[v].statut \in {"REGLEE", "ANNULEE"}
                                => ventes'[v] = ventes[v]
<1>1. CASE UNCHANGED vars
  <2>1. Inv'
    BY <1>1 DEF vars, Inv, TypeOK, InvRegistre, InvCible, InvVerrous, InvSerie,
                InvEcrite, Nouvelle
  <2> QED
    BY <2>1, <1>1 DEF vars
<1>2. CASE Next
  <2>1. PICK w \in Travailleurs :
          \/ Ouvrir(w) \/ Remplir(w) \/ Constater(w) \/ Avancer(w)
          \/ AnnulerCommandeVide(w) \/ Abandonner(w)
    BY <1>2 DEF Next
  <2>2. CASE Ouvrir(w)
    <3>1. CASE \E k \in ClesDeCaisse : Cliquer(w, k)
      <4>1. Inv' /\ ventes' = ventes
        BY <3>1, CleInv DEF Cles, Cliquer
      <4> QED
        BY <4>1
    <3>2. CASE \E k \in ClesDeVirement : RecevoirUnVirement(w, k)
      <4>1. Inv' /\ ventes' = ventes
        BY <3>2, CleInv DEF Cles, RecevoirUnVirement
      <4> QED
        BY <4>1
    <3>3. CASE \E v \in Ventes, nature \in NaturesOuvertes,
                  enLigne, serie \in BOOLEAN :
                 OuvrirVente(w, v, nature, enLigne, serie)
      <4>1. Inv' /\ ventes' = ventes
        BY <3>3, OuvrirInv, NaturesHypothese DEF OuvrirVente
      <4> QED
        BY <4>1
    <3>4. CASE \E v \in Ventes : OuvrirVenteAvecCle(w, v)
      <4>1. PICK v \in Ventes : OuvrirVenteAvecCle(w, v)
        BY <3>4
      <4>2. "VENTE" \in Natures /\ FALSE \in BOOLEAN
        BY DEF Natures
      <4>3. Inv' /\ ventes' = ventes
        BY <4>1, <4>2, OuvrirInv DEF OuvrirVenteAvecCle
      <4> QED
        BY <4>3
    <3> QED
      BY <2>2, <3>1, <3>2, <3>3, <3>4 DEF Ouvrir
  <2>3. CASE Remplir(w)
    <3>1. PICK m \in Montants, offert \in BOOLEAN :
            AjouterArticle(w, m, offert) \/ AjouterReglement(w, m, offert)
      BY <2>3 DEF Remplir
    <3>2. vue[w].contenu \in Contenu /\ m \in Int
      BY MontantsHypothese DEF Inv, TypeOK, Lignes
    <3>3. \E c \in Contenu : AvecContenu(w, c)
      BY <3>1, <3>2, ContenusTypes DEF AjouterArticle, AjouterReglement
    <3>4. Inv' /\ ventes' = ventes
      BY <3>3, RemplirInv DEF AvecContenu
    <3> QED
      BY <3>4
  <2>4. CASE Constater(w)
    <3>1. Inv' /\ ventes' = ventes
      BY <2>4, AnnulerInv, ConstaterInv
      DEF Constater, AnnulerVente, ConstaterPaye
    <3> QED
      BY <3>1
  <2>5. CASE Avancer(w)
    <3>1. CASE VerrouillerLeLieu(w) \/ Encaisser(w) \/ EncaisserStripe(w)
      <4>1. ventes' = ventes
        BY <3>1 DEF VerrouillerLeLieu, Encaisser, EncaisserStripe, Ecrire
      <4> QED
        BY <3>1, <4>1, VerrouillerInv, EncaisserInv, EncaisserStripeInv
    <3>2. CASE NumeroDejaPris(w) \/ Refuser(w) \/ CleDejaPrise(w)
      <4>1. Terminer(w) /\ ventes' = ventes
        BY <3>2 DEF NumeroDejaPris, Refuser, CleDejaPrise
      <4> QED
        BY <4>1, TerminerInv
    <3>3. CASE Valider(w)
      BY <3>3, ValiderInv
    <3> QED
      BY <2>5, <3>1, <3>2, <3>3 DEF Avancer
  <2>6. CASE AnnulerCommandeVide(w)
    <3>1. ventes' = ventes
      BY <2>6 DEF AnnulerCommandeVide, Ecrire
    <3> QED
      BY <2>6, <3>1, AnnulerCommandeVideInv
  <2>7. CASE Abandonner(w)
    <3>1. Terminer(w) /\ ventes' = ventes
      BY <2>7 DEF Abandonner
    <3> QED
      BY <3>1, TerminerInv
  <2> QED
    BY <2>1, <2>2, <2>3, <2>4, <2>5, <2>6, <2>7
<1> QED
  BY <1>1, <1>2

-----------------------------------------------------------------------------
(* Idempotency keys *)

\* The keys of the rows committed: k is one exactly when CleEnBase(k).
ClesEcrites == {ventes[v].cle : v \in Ventes}

\* A key that a worker is about to write is in no row, its own click or transfer
\* brought it, and no other worker has written it.
CleSeule(w) ==
  /\ phase[w] \in {"ouverte", "encaisse", "ecrite"} /\ Nouvelle(w)
  /\ vue[w].cle \notin ClesEcrites /\ vue[w].cle = cle[w] /\ ~ vue[w].enLigne
  /\ \A u \in Travailleurs \ {w} : vue[u].cle # vue[w].cle

InvCles ==
  /\ UneVenteParCle
  /\ \A v \in Ventes : ventes[v].enLigne => ventes[v].cle = Aucun
  /\ \A w \in Travailleurs : vue[w].cle # Aucun => CleSeule(w)
  /\ \A w \in Travailleurs :
       phase[w] \in {"payee", "encaisseStripe"} => ventes[cible[w]].enLigne
  /\ \A w \in Travailleurs :
       phase[w] = "ecrite" /\ ~ Nouvelle(w) => vue[w].enLigne
  /\ \A w \in Travailleurs :
       cle[w] \in ClesDeCaisse =>
         verrouCle[cle[w]] = w /\ cle[w] \notin ClesEcrites

\* What one worker does when no row is committed and no other worker moves.
SeulMouvement(w, p, c, r) ==
  /\ ventes' = ventes
  /\ phase' = [phase EXCEPT ![w] = p]
  /\ cible' = [cible EXCEPT ![w] = c]
  /\ vue' = [vue EXCEPT ![w] = r]

\* Initially there is no key.
LEMMA ClesAuDebut == Init => InvCles
<1> SUFFICES ASSUME Init PROVE InvCles
  OBVIOUS
<1>1. Aucun \notin ClesDeCaisse
  BY AucunHypothese
<1> QED
  BY <1>1 DEF Init, InvCles, UneVenteParCle, RienLu, Absente, CleSeule

\* A worker that moves with a row without a key.
LEMMA MouvementSansCle ==
  ASSUME Inv, InvCles, NEW w \in Travailleurs, NEW p, NEW c, NEW r,
         SeulMouvement(w, p, c, r), r.cle = Aucun,
         p \in {"payee", "encaisseStripe"} => ventes[c].enLigne,
         p = "ecrite" /\ ventes[c].statut # "ABSENTE" => r.enLigne,
         cle' = cle /\ verrouCle' = verrouCle
  PROVE  InvCles'
<1> USE DEF Inv, SeulMouvement, TypeOK
<1>1. UneVenteParCle' /\ ClesEcrites' = ClesEcrites
  BY DEF InvCles, UneVenteParCle, ClesEcrites
<1>2. vue'[w] = r /\ cible'[w] = c /\ phase'[w] = p
  OBVIOUS
<1>3. \A u \in Travailleurs \ {w} :
        vue'[u] = vue[u] /\ cible'[u] = cible[u] /\ phase'[u] = phase[u]
  OBVIOUS
<1>4. ASSUME NEW u \in Travailleurs, vue'[u].cle # Aucun PROVE CleSeule(u)'
  <2>1. u # w /\ CleSeule(u)
    BY <1>2, <1>3, <1>4 DEF InvCles
  <2> QED
    BY <2>1, <1>1, <1>2, <1>3, <1>4 DEF CleSeule, Nouvelle
<1>5. \A v \in Ventes : ventes'[v].enLigne => ventes'[v].cle = Aucun
  BY DEF InvCles
<1>6. \A u \in Travailleurs :
        phase'[u] \in {"payee", "encaisseStripe"} => ventes'[cible'[u]].enLigne
  BY <1>2, <1>3 DEF InvCles
<1>7. \A u \in Travailleurs :
        phase'[u] = "ecrite" /\ ~ Nouvelle(u)' => vue'[u].enLigne
  BY <1>2, <1>3 DEF InvCles, Nouvelle
<1>8. \A u \in Travailleurs :
        cle'[u] \in ClesDeCaisse =>
          verrouCle'[cle'[u]] = u /\ cle'[u] \notin ClesEcrites'
  BY <1>1 DEF InvCles
<1> QED
  BY <1>1, <1>4, <1>5, <1>6, <1>7, <1>8 DEF InvCles

\* A worker that goes on with the sale it opens, without changing its key.
LEMMA MouvementMemeCle ==
  ASSUME Inv, InvCles, NEW w \in Travailleurs, NEW p, NEW r,
         SeulMouvement(w, p, cible[w], r),
         r.cle = vue[w].cle, r.enLigne = vue[w].enLigne,
         phase[w] \in {"ouverte", "encaisse"}, p \in {"ouverte", "encaisse", "ecrite"},
         cle' = cle /\ verrouCle' = verrouCle
  PROVE  InvCles'
<1> USE DEF Inv, SeulMouvement, TypeOK
<1>0. Nouvelle(w)
  BY DEF InvCible
<1>1. CASE vue[w].cle = Aucun
  BY <1>0, <1>1, MouvementSansCle DEF Nouvelle
<1>2. CASE vue[w].cle # Aucun
  <2>1. UneVenteParCle' /\ ClesEcrites' = ClesEcrites
    BY DEF InvCles, UneVenteParCle, ClesEcrites
  <2>2. \A u \in Travailleurs :
          vue'[u].cle = vue[u].cle /\ vue'[u].enLigne = vue[u].enLigne
    OBVIOUS
  <2>3. /\ cible' = cible /\ phase'[w] = p
        /\ \A u \in Travailleurs \ {w} : phase'[u] = phase[u] /\ vue'[u] = vue[u]
    OBVIOUS
  <2>4. \A u \in Travailleurs : Nouvelle(u)' <=> Nouvelle(u)
    BY <2>3 DEF Nouvelle
  <2>5. ASSUME NEW u \in Travailleurs, vue'[u].cle # Aucun PROVE CleSeule(u)'
    <3>1. CleSeule(u)
      BY <2>2, <2>5 DEF InvCles
    <3>2. phase'[u] \in {"ouverte", "encaisse", "ecrite"}
      BY <2>3, <3>1 DEF CleSeule
    <3> QED
      BY <3>1, <3>2, <2>1, <2>2, <2>4 DEF CleSeule
  <2>6. \A v \in Ventes : ventes'[v].enLigne => ventes'[v].cle = Aucun
    BY DEF InvCles
  <2>7. \A u \in Travailleurs :
          phase'[u] \in {"payee", "encaisseStripe"} => ventes'[cible'[u]].enLigne
    BY <2>3 DEF InvCles
  <2>8. \A u \in Travailleurs :
          phase'[u] = "ecrite" /\ ~ Nouvelle(u)' => vue'[u].enLigne
    BY <1>0, <2>3, <2>4 DEF InvCles
  <2>9. \A u \in Travailleurs :
          cle'[u] \in ClesDeCaisse =>
            verrouCle'[cle'[u]] = u /\ cle'[u] \notin ClesEcrites'
    BY <2>1 DEF InvCles
  <2> QED
    BY <2>1, <2>5, <2>6, <2>7, <2>8, <2>9 DEF InvCles
<1> QED
  BY <1>1, <1>2

\* A worker rolls back: its row and its key go.
LEMMA TerminerCles ==
  ASSUME Inv, InvCles, NEW w \in Travailleurs, Terminer(w), ventes' = ventes
  PROVE  InvCles'
<1> USE DEF Inv, Terminer, TypeOK
<1>0. Absente.cle = Aucun /\ Aucun \notin ClesDeCaisse
  BY AucunHypothese DEF Absente
<1>1. UneVenteParCle' /\ ClesEcrites' = ClesEcrites
  BY DEF InvCles, UneVenteParCle, ClesEcrites
<1>2. vue'[w].cle = Aucun /\ phase'[w] = "repos" /\ cle'[w] = Aucun
  BY <1>0
<1>3. \A u \in Travailleurs \ {w} :
        /\ vue'[u] = vue[u] /\ cible'[u] = cible[u] /\ phase'[u] = phase[u]
        /\ cle'[u] = cle[u]
  OBVIOUS
<1>4. ASSUME NEW u \in Travailleurs, vue'[u].cle # Aucun PROVE CleSeule(u)'
  <2>1. u # w /\ CleSeule(u)
    BY <1>2, <1>3, <1>4 DEF InvCles
  <2> QED
    BY <2>1, <1>1, <1>2, <1>3, <1>4 DEF CleSeule, Nouvelle
<1>5. \A v \in Ventes : ventes'[v].enLigne => ventes'[v].cle = Aucun
  BY DEF InvCles
<1>6. \A u \in Travailleurs :
        phase'[u] \in {"payee", "encaisseStripe"} => ventes'[cible'[u]].enLigne
  BY <1>2, <1>3 DEF InvCles
<1>7. \A u \in Travailleurs :
        phase'[u] = "ecrite" /\ ~ Nouvelle(u)' => vue'[u].enLigne
  BY <1>2, <1>3 DEF InvCles, Nouvelle
<1>8. ASSUME NEW u \in Travailleurs, cle'[u] \in ClesDeCaisse
      PROVE  verrouCle'[cle'[u]] = u /\ cle'[u] \notin ClesEcrites'
  <2>1. u # w /\ cle[u] \in ClesDeCaisse /\ cle'[u] = cle[u]
    BY <1>0, <1>2, <1>3, <1>8
  <2>2. verrouCle[cle[u]] = u /\ cle[u] \notin ClesEcrites
    BY <2>1 DEF InvCles
  <2>3. cle[u] \in Cles
    BY <2>1 DEF Cles
  <2> QED
    BY <2>1, <2>2, <2>3, <1>1
<1> QED
  BY <1>1, <1>4, <1>5, <1>6, <1>7, <1>8 DEF InvCles

\* A click or a transfer comes with its key.
LEMMA CleRecueCles ==
  ASSUME Inv, InvCles, NEW w \in Travailleurs, NEW k \in Cles,
         \/ k \in ClesDeCaisse /\ Cliquer(w, k)
         \/ k \in ClesDeVirement /\ RecevoirUnVirement(w, k)
  PROVE  InvCles'
<1> USE DEF Inv, TypeOK
<1>0. k # Aucun
  BY AucunHypothese DEF Cles
<1>1. /\ phase[w] = "repos" /\ phase' = [phase EXCEPT ![w] = "cleLibre"]
      /\ cle' = [cle EXCEPT ![w] = k] /\ k \notin ClesEcrites
      /\ ventes' = ventes /\ cible' = cible /\ vue' = vue
  BY DEF Cliquer, RecevoirUnVirement, CleEnBase, ClesEcrites
<1>2. \/ k \in ClesDeCaisse /\ verrouCle[k] = Aucun /\ verrouCle' = [verrouCle EXCEPT ![k] = w]
      \/ k \notin ClesDeCaisse /\ verrouCle' = verrouCle
  BY ClesHypothese DEF Cliquer, RecevoirUnVirement, verrous
<1>3. UneVenteParCle' /\ ClesEcrites' = ClesEcrites
  BY <1>1 DEF InvCles, UneVenteParCle, ClesEcrites
<1>4. vue[w].cle = Aucun
  BY <1>1 DEF InvCles, CleSeule
<1>5. ASSUME NEW u \in Travailleurs, vue'[u].cle # Aucun PROVE CleSeule(u)'
  <2>1. u # w /\ CleSeule(u)
    BY <1>1, <1>4, <1>5 DEF InvCles
  <2> QED
    BY <2>1, <1>1, <1>3 DEF CleSeule, Nouvelle
<1>6. \A v \in Ventes : ventes'[v].enLigne => ventes'[v].cle = Aucun
  BY <1>1 DEF InvCles
<1>7. \A u \in Travailleurs :
        phase'[u] \in {"payee", "encaisseStripe"} => ventes'[cible'[u]].enLigne
  BY <1>1 DEF InvCles
<1>8. \A u \in Travailleurs :
        phase'[u] = "ecrite" /\ ~ Nouvelle(u)' => vue'[u].enLigne
  BY <1>1 DEF InvCles, Nouvelle
<1>9. ASSUME NEW u \in Travailleurs, cle'[u] \in ClesDeCaisse
      PROVE  verrouCle'[cle'[u]] = u /\ cle'[u] \notin ClesEcrites'
  <2>1. CASE u = w
    BY <2>1, <1>1, <1>2, <1>3, <1>9
  <2>2. CASE u # w
    <3>1. cle'[u] = cle[u] /\ verrouCle[cle[u]] = u /\ cle[u] \notin ClesEcrites
      BY <2>2, <1>1, <1>9 DEF InvCles
    <3>2. cle[u] # k \/ k \notin ClesDeCaisse
      BY <3>1, <1>2, AucunHypothese
    <3>3. cle[u] \in ClesDeCaisse /\ cle[u] \in Cles
      BY <3>1, <1>9 DEF Cles
    <3>4. verrouCle'[cle[u]] = verrouCle[cle[u]]
      BY <3>2, <3>3, <1>2
    <3> QED
      BY <3>1, <3>4, <1>3
  <2> QED
    BY <2>1, <2>2
<1> QED
  BY <1>3, <1>5, <1>6, <1>7, <1>8, <1>9 DEF InvCles

\* A sale is opened with the key received: nobody else has written it.
LEMMA OuvrirAvecCleCles ==
  ASSUME Inv, InvCles, NEW w \in Travailleurs, NEW v \in Ventes, OuvrirVenteAvecCle(w, v)
  PROVE  InvCles'
<1> USE DEF Inv, TypeOK
<1> DEFINE r == Ouverte("VENTE", FALSE, cle[w])
<1>1. /\ phase[w] = "cleLibre" /\ ventes[v].statut = "ABSENTE"
      /\ cle[w] \notin ClesEcrites /\ \A u \in Travailleurs : vue[u].cle # cle[w]
      /\ \A u \in Travailleurs : cible[u] # v
      /\ ventes' = ventes /\ cle' = cle /\ verrouCle' = verrouCle
  BY DEF OuvrirVenteAvecCle, Inedite, verrous, CleEnBase, ClesEcrites
<1>2. /\ phase' = [phase EXCEPT ![w] = "ouverte"] /\ cible' = [cible EXCEPT ![w] = v]
      /\ vue' = [vue EXCEPT ![w] = r]
  BY DEF OuvrirVenteAvecCle
<1>3. r.cle = cle[w] /\ r.enLigne = FALSE
  BY DEF Ouverte, Absente
<1>4. UneVenteParCle' /\ ClesEcrites' = ClesEcrites
  BY <1>1 DEF InvCles, UneVenteParCle, ClesEcrites
<1>5. vue'[w] = r /\ cible'[w] = v /\ phase'[w] = "ouverte"
  BY <1>2
<1>6. \A u \in Travailleurs \ {w} :
        vue'[u] = vue[u] /\ cible'[u] = cible[u] /\ phase'[u] = phase[u]
  BY <1>2
<1>7. ASSUME NEW u \in Travailleurs, vue'[u].cle # Aucun PROVE CleSeule(u)'
  <2>1. CASE u = w
    BY <2>1, <1>1, <1>3, <1>4, <1>5, <1>6 DEF CleSeule, Nouvelle
  <2>2. CASE u # w
    <3>1. CleSeule(u)
      BY <2>2, <1>6, <1>7 DEF InvCles
    <3>2. ASSUME NEW x \in Travailleurs \ {u} PROVE vue'[x].cle # vue'[u].cle
      <4>1. CASE x = w
        BY <4>1, <2>2, <1>1, <1>3, <1>5, <1>6
      <4>2. CASE x # w
        BY <4>2, <2>2, <3>1, <1>6 DEF CleSeule
      <4> QED
        BY <4>1, <4>2
    <3>3. Nouvelle(u)'
      BY <2>2, <3>1, <1>1, <1>6 DEF CleSeule, Nouvelle
    <3> QED
      BY <3>1, <3>2, <3>3, <2>2, <1>1, <1>4, <1>6 DEF CleSeule
  <2> QED
    BY <2>1, <2>2
<1>8. \A x \in Ventes : ventes'[x].enLigne => ventes'[x].cle = Aucun
  BY <1>1 DEF InvCles
<1>9. \A u \in Travailleurs :
        phase'[u] \in {"payee", "encaisseStripe"} => ventes'[cible'[u]].enLigne
  BY <1>1, <1>5, <1>6 DEF InvCles
<1>10. \A u \in Travailleurs :
        phase'[u] = "ecrite" /\ ~ Nouvelle(u)' => vue'[u].enLigne
  BY <1>1, <1>5, <1>6 DEF InvCles, Nouvelle
<1>11. \A u \in Travailleurs :
        cle'[u] \in ClesDeCaisse =>
          verrouCle'[cle'[u]] = u /\ cle'[u] \notin ClesEcrites'
  BY <1>1, <1>4 DEF InvCles
<1> QED
  BY <1>4, <1>7, <1>8, <1>9, <1>10, <1>11 DEF InvCles

\* A commit: the key written, if any, is that of the worker alone.
LEMMA ValiderCles ==
  ASSUME Inv, InvCles, NEW w \in Travailleurs, Valider(w)
  PROVE  InvCles'
<1> USE DEF Inv, TypeOK
<1> DEFINE v == cible[w]
           r == vue[w]
<1>0. Absente.cle = Aucun /\ Aucun \notin ClesDeCaisse
  BY AucunHypothese DEF Absente
<1>1. /\ phase[w] \in {"ecrite", "ouverte"} /\ v \in Ventes
      /\ phase[w] = "ouverte" => r.enLigne /\ Nouvelle(w)
      /\ ventes' = [ventes EXCEPT ![v] = r]
      /\ Terminer(w)
  BY DEF Valider, InvCible
<1>2. vue'[w].cle = Aucun /\ phase'[w] = "repos" /\ cle'[w] = Aucun
  BY <1>0, <1>1 DEF Terminer
<1>3. \A u \in Travailleurs \ {w} :
        /\ vue'[u] = vue[u] /\ cible'[u] = cible[u] /\ phase'[u] = phase[u]
        /\ cle'[u] = cle[u]
  BY <1>1 DEF Terminer
<1>4. /\ ventes'[v] = r /\ \A x \in Ventes \ {v} : ventes'[x] = ventes[x]
      /\ r.enLigne => r.cle = Aucun
      /\ r.cle # Aucun => CleSeule(w)
  BY <1>1 DEF InvCles, CleSeule
<1>5. UneVenteParCle'
  <2>1. \A x \in Ventes \ {v} : r.cle # Aucun => ventes[x].cle # r.cle
    BY <1>4 DEF CleSeule, ClesEcrites
  <2> QED
    BY <2>1, <1>1, <1>4 DEF InvCles, UneVenteParCle
<1>6. \A x \in Ventes : ventes'[x].enLigne => ventes'[x].cle = Aucun
  BY <1>1, <1>4 DEF InvCles
<1>7. \A k : k \in ClesEcrites' => k = r.cle \/ k \in ClesEcrites
  BY <1>4 DEF ClesEcrites
<1>8. ASSUME NEW u \in Travailleurs, u # w, cible[u] = v,
             phase[u] \notin {"repos", "cleLibre"}
      PROVE  ~ Nouvelle(w) /\ ~ Nouvelle(u)
  <2>1. phase[u] \in {"ouverte", "encaisse", "payee", "encaisseStripe", "ecrite"}
    BY <1>8 DEF Phases
  <2>2. ~ Nouvelle(w)
    BY <1>1, <1>8 DEF InvVerrous
  <2> QED
    BY <2>2, <1>8 DEF Nouvelle
<1>9. ASSUME NEW u \in Travailleurs, vue'[u].cle # Aucun PROVE CleSeule(u)'
  <2>1. u # w /\ CleSeule(u) /\ vue'[u] = vue[u]
    BY <1>2, <1>3, <1>9 DEF InvCles
  <2>2. cible[u] # v
    BY <2>1, <1>8 DEF CleSeule
  <2>3. Nouvelle(u)'
    BY <2>1, <2>2, <1>3, <1>4, <1>1 DEF CleSeule, Nouvelle, InvCible
  <2>4. vue[u].cle # r.cle
    BY <2>1, <1>3, <1>9 DEF CleSeule
  <2>5. vue'[u].cle \notin ClesEcrites'
    BY <2>1, <2>4, <1>7 DEF CleSeule
  <2>6. ASSUME NEW x \in Travailleurs \ {u} PROVE vue'[x].cle # vue'[u].cle
    BY <2>1, <1>2, <1>3, <1>9 DEF CleSeule
  <2> QED
    BY <2>1, <2>3, <2>5, <2>6, <1>3 DEF CleSeule
<1>10. r.enLigne \/ Nouvelle(w)
  BY <1>1 DEF InvCles
<1>11. ASSUME NEW u \in Travailleurs, phase'[u] \in {"payee", "encaisseStripe"}
       PROVE  ventes'[cible'[u]].enLigne
  <2>1. u # w /\ phase[u] \in {"payee", "encaisseStripe"} /\ cible'[u] = cible[u]
    BY <1>2, <1>3, <1>11
  <2>2. ventes[cible[u]].enLigne /\ cible[u] \in Ventes
    BY <2>1 DEF InvCles, InvCible
  <2>3. CASE cible[u] = v
    BY <2>1, <2>3, <1>4, <1>8, <1>10
  <2>4. CASE cible[u] # v
    BY <2>1, <2>2, <2>4, <1>4
  <2> QED
    BY <2>3, <2>4
<1>12. ASSUME NEW u \in Travailleurs, phase'[u] = "ecrite", ~ Nouvelle(u)'
       PROVE  vue'[u].enLigne
  <2>1. u # w /\ phase[u] = "ecrite" /\ cible'[u] = cible[u] /\ vue'[u] = vue[u]
    BY <1>2, <1>3, <1>12
  <2>2. cible[u] \in Ventes
    BY <2>1 DEF InvCible
  <2>3. ~ Nouvelle(u)
    <3>1. CASE cible[u] = v
      BY <2>1, <3>1, <1>8
    <3>2. CASE cible[u] # v
      BY <2>1, <2>2, <3>2, <1>4, <1>12 DEF Nouvelle
    <3> QED
      BY <3>1, <3>2
  <2> QED
    BY <2>1, <2>3 DEF InvCles
<1>13. ASSUME NEW u \in Travailleurs, cle'[u] \in ClesDeCaisse
       PROVE  verrouCle'[cle'[u]] = u /\ cle'[u] \notin ClesEcrites'
  <2>1. u # w /\ cle[u] \in ClesDeCaisse /\ cle'[u] = cle[u]
    BY <1>0, <1>2, <1>3, <1>13
  <2>2. verrouCle[cle[u]] = u /\ cle[u] \notin ClesEcrites /\ cle[u] \in Cles
    BY <2>1 DEF InvCles, Cles
  <2>3. cle[u] # r.cle
    <3> SUFFICES ASSUME cle[u] = r.cle PROVE FALSE
      OBVIOUS
    <3>1. CleSeule(w) /\ cle[w] = cle[u]
      BY <2>1, <1>0, <1>4 DEF CleSeule
    <3>2. verrouCle[cle[u]] = w
      BY <2>1, <3>1 DEF InvCles
    <3> QED
      BY <2>1, <2>2, <3>2
  <2>4. verrouCle'[cle[u]] = u
    BY <2>1, <2>2, <1>1 DEF Terminer
  <2> QED
    BY <2>1, <2>2, <2>3, <2>4, <1>7
<1> QED
  BY <1>5, <1>6, <1>9, <1>11, <1>12, <1>13 DEF InvCles

\* The steps that take up a sale without a key, or go on with one being opened.
LEMMA SansCommitCles ==
  ASSUME Inv, InvCles, NEW w \in Travailleurs,
         \/ \E v \in Ventes, nature \in NaturesOuvertes, enLigne, serie \in BOOLEAN :
              OuvrirVente(w, v, nature, enLigne, serie)
         \/ Remplir(w) \/ Constater(w) \/ VerrouillerLeLieu(w) \/ Encaisser(w)
         \/ EncaisserStripe(w) \/ AnnulerCommandeVide(w)
  PROVE  InvCles'
<1> USE DEF Inv, TypeOK
<1>1. CASE \E v \in Ventes, nature \in NaturesOuvertes, enLigne, serie \in BOOLEAN :
             OuvrirVente(w, v, nature, enLigne, serie)
  <2>1. PICK v \in Ventes, nature \in NaturesOuvertes, enLigne \in BOOLEAN, serie \in BOOLEAN :
          OuvrirVente(w, v, nature, enLigne, serie)
    BY <1>1
  <2>2. Ouverte(nature, enLigne, Aucun).cle = Aucun
    BY DEF Ouverte, Absente
  <2>3. SeulMouvement(w, "ouverte", v, Ouverte(nature, enLigne, Aucun))
    BY <2>1 DEF OuvrirVente, SeulMouvement
  <2> QED
    BY <2>1, <2>2, <2>3, MouvementSansCle DEF OuvrirVente, verrous
<1>2. CASE Remplir(w)
  <2>1. PICK c : AvecContenu(w, c)
    BY <1>2 DEF Remplir, AjouterArticle, AjouterReglement
  <2>2. PICK r : r = [vue[w] EXCEPT !.contenu = c]
    OBVIOUS
  <2>3. vue[w] \in Lignes /\ r.cle = vue[w].cle /\ r.enLigne = vue[w].enLigne
    BY <2>2 DEF Lignes
  <2>4. SeulMouvement(w, "ouverte", cible[w], r) /\ phase[w] = "ouverte"
    BY <2>1, <2>2 DEF AvecContenu, SeulMouvement
  <2> QED
    BY <2>1, <2>3, <2>4, MouvementMemeCle DEF AvecContenu, verrous
<1>3. CASE Constater(w)
  <2>1. CASE \E v \in Ventes, m \in Montants : ConstaterPaye(w, v, m)
    <3>1. PICK v \in Ventes, m \in Montants : ConstaterPaye(w, v, m)
      BY <2>1
    <3>2. phase[w] = "repos" /\ ventes[v].enLigne /\ vue[w].cle = Aucun
      BY <3>1 DEF ConstaterPaye, InvCles, CleSeule
    <3>3. SeulMouvement(w, "payee", v, vue[w])
      BY <3>1 DEF ConstaterPaye, SeulMouvement
    <3> QED
      BY <3>1, <3>2, <3>3, MouvementSansCle DEF ConstaterPaye, verrous
  <2>2. CASE \E v \in Ventes : AnnulerVente(w, v)
    <3>1. PICK v \in Ventes : AnnulerVente(w, v)
      BY <2>2
    <3>2. PICK r : r = [ventes[v] EXCEPT !.statut = "ANNULEE"]
      OBVIOUS
    <3>3. ventes[v] \in Lignes /\ ventes[v].enLigne /\ ventes[v].cle = Aucun
      BY <3>1 DEF AnnulerVente, InvCles
    <3>4. r.cle = Aucun /\ r.enLigne
      BY <3>2, <3>3 DEF Lignes
    <3>5. SeulMouvement(w, "ecrite", v, r)
      BY <3>1, <3>2 DEF AnnulerVente, SeulMouvement
    <3> QED
      BY <3>1, <3>4, <3>5, MouvementSansCle DEF AnnulerVente
  <2> QED
    BY <1>3, <2>1, <2>2 DEF Constater
<1>4. CASE VerrouillerLeLieu(w)
  <2>1. CASE phase[w] = "ouverte"
    <3>1. SeulMouvement(w, "encaisse", cible[w], vue[w])
      BY <1>4, <2>1 DEF VerrouillerLeLieu, SeulMouvement
    <3> QED
      BY <1>4, <2>1, <3>1, MouvementMemeCle DEF VerrouillerLeLieu
  <2>2. CASE phase[w] = "payee"
    <3>1. SeulMouvement(w, "encaisseStripe", cible[w], vue[w])
      BY <1>4, <2>2 DEF VerrouillerLeLieu, SeulMouvement
    <3>2. vue[w].cle = Aucun /\ ventes[cible[w]].enLigne
      BY <2>2 DEF InvCles, CleSeule
    <3> QED
      BY <1>4, <3>1, <3>2, MouvementSansCle DEF VerrouillerLeLieu
  <2> QED
    BY <1>4, <2>1, <2>2 DEF VerrouillerLeLieu
<1>5. CASE Encaisser(w)
  <2>1. PICK r : r = Encaissee(cible[w], vue[w], Lues(w))
    OBVIOUS
  <2>2. vue[w] \in Lignes /\ r.cle = vue[w].cle /\ r.enLigne = vue[w].enLigne
    BY <2>1 DEF Encaissee, Lignes
  <2>3. SeulMouvement(w, "ecrite", cible[w], r) /\ phase[w] = "encaisse"
    BY <1>5, <2>1 DEF Encaisser, Ecrire, SeulMouvement
  <2> QED
    BY <1>5, <2>2, <2>3, MouvementMemeCle DEF Encaisser, Ecrire, verrous
<1>6. CASE EncaisserStripe(w)
  <2> DEFINE v == cible[w]
             p == Payee(ventes[v], montant[w])
  <2>1. phase[w] = "encaisseStripe" /\ v \in Ventes /\ ventes[v].enLigne /\ ventes[v].cle = Aucun
    BY <1>6 DEF EncaisserStripe, InvCles, InvCible
  <2>2. PICK r : /\ r \in {ventes[v], Encaissee(v, p, ventes)}
                 /\ SeulMouvement(w, "ecrite", v, r)
    BY <1>6 DEF EncaisserStripe, Ecrire, SeulMouvement
  <2>3. ventes[v] \in Lignes
    BY <2>1
  <2>4. p.cle = Aucun /\ p.enLigne /\ Encaissee(v, p, ventes).cle = p.cle
        /\ Encaissee(v, p, ventes).enLigne = p.enLigne
    BY <2>1, <2>3 DEF Payee, Encaissee, Lignes
  <2>5. r.cle = Aucun /\ r.enLigne
    BY <2>1, <2>2, <2>4
  <2> QED
    BY <1>6, <2>2, <2>5, MouvementSansCle DEF EncaisserStripe, Ecrire
<1>7. CASE AnnulerCommandeVide(w)
  <2>1. PICK r : r = [vue[w] EXCEPT !.statut = "ANNULEE"]
    OBVIOUS
  <2>2. vue[w] \in Lignes /\ r.cle = vue[w].cle /\ r.enLigne = vue[w].enLigne
    BY <2>1 DEF Lignes
  <2>3. SeulMouvement(w, "ecrite", cible[w], r) /\ phase[w] = "ouverte"
    BY <1>7, <2>1 DEF AnnulerCommandeVide, Ecrire, SeulMouvement
  <2> QED
    BY <1>7, <2>2, <2>3, MouvementMemeCle DEF AnnulerCommandeVide, Ecrire, verrous
<1> QED
  BY <1>1, <1>2, <1>3, <1>4, <1>5, <1>6, <1>7

\* No step breaks the invariant on keys.
LEMMA EtapeCles == Inv /\ InvCles /\ [Next]_vars => InvCles'
<1> SUFFICES ASSUME Inv, InvCles, [Next]_vars PROVE InvCles'
  OBVIOUS
<1>1. CASE UNCHANGED vars
  BY <1>1 DEF vars, verrous, InvCles, UneVenteParCle, CleSeule, ClesEcrites, Nouvelle
<1>2. ASSUME NEW w \in Travailleurs,
             \/ Ouvrir(w) \/ Remplir(w) \/ Constater(w) \/ Avancer(w)
             \/ AnnulerCommandeVide(w) \/ Abandonner(w)
      PROVE  InvCles'
  <2>1. CASE Ouvrir(w)
    <3>1. CASE \/ \E k \in ClesDeCaisse : Cliquer(w, k)
               \/ \E k \in ClesDeVirement : RecevoirUnVirement(w, k)
      BY <3>1, CleRecueCles DEF Cles
    <3>2. CASE \E v \in Ventes : OuvrirVenteAvecCle(w, v)
      BY <3>2, OuvrirAvecCleCles
    <3> QED
      BY <2>1, <3>1, <3>2, SansCommitCles DEF Ouvrir
  <2>2. CASE NumeroDejaPris(w) \/ Refuser(w) \/ CleDejaPrise(w) \/ Abandonner(w)
    <3>1. Terminer(w) /\ ventes' = ventes
      BY <2>2 DEF NumeroDejaPris, Refuser, CleDejaPrise, Abandonner
    <3> QED
      BY <3>1, TerminerCles
  <2>3. CASE Avancer(w)
    BY <2>2, <2>3, SansCommitCles, ValiderCles DEF Avancer
  <2> QED
    BY <1>2, <2>1, <2>2, <2>3, SansCommitCles
<1> QED
  BY <1>1, <1>2 DEF Next

-----------------------------------------------------------------------------
(* The register *)

Entree(v, r) == [vente |-> v, contenu |-> r.contenu]

\* Registre, over any rows.
RegistreDe(base) ==
  [n \in 1 .. PlusGrandNumero(base) |->
     LET v == CHOOSE v \in Reglees(base) : base[v].numero = n
     IN  Entree(v, base[v])]

\* The n-th entry of a well numbered table is the sale that carries number n.
LEMMA EntreeDuNumero ==
  ASSUME NEW base, BienNumerotee(base), NEW u \in Reglees(base)
  PROVE  /\ base[u].numero \in 1 .. PlusGrandNumero(base)
         /\ RegistreDe(base)[base[u].numero] = Entree(u, base[u])
<1> DEFINE n == base[u].numero
           P(v) == base[v].numero = n
           c == CHOOSE v \in Reglees(base) : P(v)
<1>1. PICK m \in Nat : Numeros(base) = 1 .. m
  BY DEF BienNumerotee
<1>2. n \in 1 .. PlusGrandNumero(base)
  BY <1>1, DernierNumero DEF Numeros
<1>3. c \in Reglees(base) /\ P(c)
  <2>1. \E v \in Reglees(base) : P(v)
    OBVIOUS
  <2> QED
    BY <2>1
<1>4. c = u
  BY <1>3 DEF BienNumerotee
<1>5. RegistreDe(base)[n] = Entree(c, base[c])
  BY <1>2 DEF RegistreDe
<1> QED
  BY <1>2, <1>4, <1>5

\* Every number up to the greatest is carried by a sale.
LEMMA NumeroPorte ==
  ASSUME NEW base, BienNumerotee(base), NEW n \in 1 .. PlusGrandNumero(base)
  PROVE  \E u \in Reglees(base) : base[u].numero = n
<1>1. PICK m \in Nat : Numeros(base) = 1 .. m
  BY DEF BienNumerotee
<1>2. n \in Numeros(base)
  BY <1>1, DernierNumero
<1> QED
  BY <1>2 DEF Numeros

\* A function on 1..k is a list.
LEMMA EnSuite ==
  ASSUME NEW f, NEW k \in Nat, f = [n \in 1 .. k |-> f[n]]
  PROVE  f \in Seq({f[n] : n \in 1 .. k}) /\ Len(f) = k /\ DOMAIN f = 1 .. k
<1>1. PICK S : S = {f[n] : n \in 1 .. k}
  OBVIOUS
<1>2. f \in [1 .. k -> S]
  BY <1>1
<1>3. f \in Seq(S) /\ DOMAIN f = 1 .. k
  BY <1>2
<1>4. Len(f) = k
  BY <1>3, LenProperties
<1> QED
  BY <1>1, <1>3, <1>4

\* What Append makes of a list.
LEMMA AuBout ==
  ASSUME NEW S, NEW s \in Seq(S), NEW e
  PROVE  Append(s, e)
           = [n \in 1 .. (Len(s) + 1) |-> IF n = Len(s) + 1 THEN e ELSE s[n]]
<1>1. PICK t : t = Append(s, e)
  OBVIOUS
<1>2. /\ Len(t) = Len(s) + 1 /\ Len(s) \in Nat /\ t \in Seq(S \cup {e})
      /\ \A n \in 1 .. Len(s) : t[n] = s[n]
      /\ t[Len(s) + 1] = e
  BY <1>1
<1>3. t \in [1 .. (Len(s) + 1) -> S \cup {e}]
  BY <1>2, LenProperties
<1>4. \A n \in 1 .. (Len(s) + 1) : t[n] = IF n = Len(s) + 1 THEN e ELSE s[n]
  BY <1>2
<1> QED
  BY <1>1, <1>3, <1>4

\* The register is a list of entries: what its domain and its sales are.
LEMMA FormeDuRegistre ==
  ASSUME NEW base, BienNumerotee(base)
  PROVE  /\ PlusGrandNumero(base) \in Nat
         /\ DOMAIN RegistreDe(base) = 1 .. PlusGrandNumero(base)
         /\ {RegistreDe(base)[n].vente : n \in DOMAIN RegistreDe(base)} = Reglees(base)
<1>1. PlusGrandNumero(base) \in Nat /\ DOMAIN RegistreDe(base) = 1 .. PlusGrandNumero(base)
  BY PlusGrandNumeroType DEF RegistreDe
<1>2. ASSUME NEW n \in DOMAIN RegistreDe(base) PROVE RegistreDe(base)[n].vente \in Reglees(base)
  <2>1. PICK u \in Reglees(base) : base[u].numero = n
    BY <1>1, NumeroPorte
  <2>2. RegistreDe(base)[n] = Entree(u, base[u])
    BY <2>1, EntreeDuNumero
  <2>3. RegistreDe(base)[n].vente = u
    BY <2>2 DEF Entree
  <2> QED
    BY <2>3
<1>3. ASSUME NEW u \in Reglees(base)
      PROVE  \E n \in DOMAIN RegistreDe(base) : RegistreDe(base)[n].vente = u
  <2>1. PICK n : n = base[u].numero
    OBVIOUS
  <2>2. n \in DOMAIN RegistreDe(base) /\ RegistreDe(base)[n] = Entree(u, base[u])
    BY <2>1, <1>1, EntreeDuNumero
  <2>3. RegistreDe(base)[n].vente = u
    BY <2>2 DEF Entree
  <2> QED
    BY <2>2, <2>3
<1> QED
  BY <1>1, <1>2, <1>3

\* The register depends on the settled rows only.
LEMMA MemeRegistre ==
  ASSUME NEW base, NEW suite, Reglees(suite) = Reglees(base),
         \A u \in Reglees(base) : suite[u] = base[u],
         BienNumerotee(base), BienNumerotee(suite)
  PROVE  RegistreDe(suite) = RegistreDe(base)
<1>1. Numeros(suite) = Numeros(base)
  BY DEF Numeros
<1>2. PlusGrandNumero(suite) = PlusGrandNumero(base)
  BY <1>1 DEF PlusGrandNumero
<1>3. ASSUME NEW n \in 1 .. PlusGrandNumero(base)
      PROVE  RegistreDe(suite)[n] = RegistreDe(base)[n]
  <2>1. PICK u \in Reglees(base) : base[u].numero = n
    BY NumeroPorte
  <2>2. RegistreDe(base)[n] = Entree(u, base[u])
    BY <2>1, EntreeDuNumero
  <2>3. RegistreDe(suite)[n] = Entree(u, suite[u])
    BY <2>1, EntreeDuNumero
  <2> QED
    BY <2>2, <2>3
<1>4. /\ RegistreDe(suite) = [n \in 1 .. PlusGrandNumero(base) |-> RegistreDe(suite)[n]]
      /\ RegistreDe(base) = [n \in 1 .. PlusGrandNumero(base) |-> RegistreDe(base)[n]]
  BY <1>2 DEF RegistreDe
<1> HIDE DEF RegistreDe
<1> QED
  BY <1>3, <1>4, Zenon

\* Settling one more sale with the next number adds its entry at the end.
LEMMA RegistreProlonge ==
  ASSUME NEW base, NEW v, NEW r, NEW suite, UneReglee(base, v, r, suite)
  PROVE  RegistreDe(suite) = Append(RegistreDe(base), Entree(v, r))
<1> DEFINE m == PlusGrandNumero(base)
           ajoute == Append(RegistreDe(base), Entree(v, r))
<1>1. /\ BienNumerotee(base) /\ BienNumerotee(suite) /\ m \in Nat
      /\ PlusGrandNumero(suite) = m + 1 /\ Reglees(suite) = Reglees(base) \cup {v}
  BY UneDePlus, PlusGrandNumeroType DEF UneReglee
<1>2. /\ v \notin Reglees(base) /\ suite[v] = r /\ r.numero = m + 1
      /\ \A u \in Reglees(base) : suite[u] = base[u]
  BY DEF UneReglee, Reglees
<1>3. DOMAIN RegistreDe(base) = 1 .. m /\ DOMAIN RegistreDe(suite) = 1 .. (m + 1)
  BY <1>1 DEF RegistreDe
<1>4. RegistreDe(base) = [n \in 1 .. m |-> RegistreDe(base)[n]]
  BY DEF RegistreDe
<1>5. ajoute = [n \in 1 .. (m + 1) |-> IF n = m + 1 THEN Entree(v, r) ELSE RegistreDe(base)[n]]
  <2> HIDE DEF RegistreDe
  <2>1. PICK f, S : f = RegistreDe(base) /\ f \in Seq(S) /\ Len(f) = m
    BY <1>1, <1>4, EnSuite
  <2> QED
    BY <2>1, AuBout
<1>6. ASSUME NEW n \in 1 .. (m + 1)
      PROVE  RegistreDe(suite)[n] = IF n = m + 1 THEN Entree(v, r) ELSE RegistreDe(base)[n]
  <2>1. CASE n = m + 1
    BY <2>1, <1>1, <1>2, EntreeDuNumero
  <2>2. CASE n # m + 1
    <3>1. n \in 1 .. m
      BY <2>2, <1>1
    <3>2. PICK u \in Reglees(base) : base[u].numero = n
      BY <3>1, <1>1, NumeroPorte
    <3>3. RegistreDe(base)[n] = Entree(u, base[u])
      BY <3>2, <1>1, EntreeDuNumero
    <3>4. RegistreDe(suite)[n] = Entree(u, base[u])
      BY <3>2, <1>1, <1>2, EntreeDuNumero
    <3> QED
      BY <2>2, <3>3, <3>4
  <2> QED
    BY <2>1, <2>2
<1>7. RegistreDe(suite) = [n \in 1 .. (m + 1) |-> RegistreDe(suite)[n]]
  BY <1>1 DEF RegistreDe
<1> QED
  BY <1>5, <1>6, <1>7

\* A step of the engine leaves every settled row, and settles at most one sale,
\* with the next number.
LEMMA UneAuPlus ==
  ASSUME Inv, [Next]_vars
  PROVE  \/ /\ Reglees(ventes') = Reglees(ventes)
            /\ \A u \in Reglees(ventes) : ventes'[u] = ventes[u]
         \/ \E v \in Ventes, r \in Lignes :
              UneReglee(ventes, v, r, ventes') /\ Equilibre(r.contenu)
<1> USE DEF Inv, TypeOK
<1>1. CASE ventes' = ventes
  BY <1>1
<1>2. CASE \E w \in Travailleurs : Valider(w)
  <2>1. PICK w \in Travailleurs : Valider(w)
    BY <1>2
  <2> DEFINE v == cible[w]
             r == vue[w]
  <2>2. /\ v \in Ventes /\ r \in Lignes /\ ventes' = [ventes EXCEPT ![v] = r]
        /\ phase[w] \in {"ecrite", "ouverte"}
    BY <2>1 DEF Valider, InvCible
  <2>3. \A u \in Reglees(ventes) : ventes'[u] = ventes[u] /\ u \in Reglees(ventes')
    BY EtapeInv DEF Reglees
  <2>4. CASE r.statut # "REGLEE" \/ v \in Reglees(ventes)
    BY <2>2, <2>3, <2>4 DEF Reglees
  <2>5. CASE r.statut = "REGLEE" /\ v \notin Reglees(ventes)
    <3>1. phase[w] = "ecrite"
      BY <2>2, <2>5 DEF InvCible
    <3>2. r.numero = PlusGrandNumero(ventes) + 1 /\ Equilibre(r.contenu)
      BY <3>1, <2>2, <2>5 DEF InvEcrite, Maillon, Reglees
    <3>3. UneReglee(ventes, v, r, ventes')
      BY <2>2, <2>5, <3>2 DEF UneReglee, InvRegistre, Reglees
    <3> QED
      BY <2>2, <3>2, <3>3
  <2> QED
    BY <2>4, <2>5
<1>3. ventes' = ventes \/ \E w \in Travailleurs : Valider(w)
  <2>1. CASE UNCHANGED vars
    BY <2>1 DEF vars
  <2>2. ASSUME NEW w \in Travailleurs,
               \/ Ouvrir(w) \/ Remplir(w) \/ Constater(w) \/ Avancer(w)
               \/ AnnulerCommandeVide(w) \/ Abandonner(w)
        PROVE  ventes' = ventes \/ Valider(w)
    <3>1. Ouvrir(w) => ventes' = ventes
      BY DEF Ouvrir, Cliquer, RecevoirUnVirement, OuvrirVente, OuvrirVenteAvecCle
    <3>2. Remplir(w) => ventes' = ventes
      BY DEF Remplir, AjouterArticle, AjouterReglement, AvecContenu
    <3>3. Constater(w) => ventes' = ventes
      BY DEF Constater, AnnulerVente, ConstaterPaye
    <3>4. Avancer(w) => ventes' = ventes \/ Valider(w)
      BY DEF Avancer, VerrouillerLeLieu, Encaisser, NumeroDejaPris, EncaisserStripe,
             Refuser, CleDejaPrise, Ecrire
    <3>5. AnnulerCommandeVide(w) \/ Abandonner(w) => ventes' = ventes
      BY DEF AnnulerCommandeVide, Abandonner, Ecrire
    <3> QED
      BY <2>2, <3>1, <3>2, <3>3, <3>4, <3>5
  <2> QED
    BY <2>1, <2>2 DEF Next
<1> QED
  BY <1>1, <1>2, <1>3

\* A step of the engine is a step of the register, or leaves it as it is.
LEMMA EtapeDuRegistre ==
  ASSUME Inv, Inv', [Next]_vars
  PROVE  [Comptes!Next]_Registre
<1>0. Registre = RegistreDe(ventes) /\ Registre' = RegistreDe(ventes')
  BY DEF Registre, RegistreDe, Entree
<1>1. BienNumerotee(ventes) /\ BienNumerotee(ventes')
  BY DEF Inv, InvRegistre
<1>2. CASE /\ Reglees(ventes') = Reglees(ventes)
           /\ \A u \in Reglees(ventes) : ventes'[u] = ventes[u]
  <2>1. Registre' = Registre
    BY <1>0, <1>1, <1>2, MemeRegistre
  <2> QED
    BY <2>1
<1>3. ASSUME NEW v \in Ventes, NEW r \in Lignes, UneReglee(ventes, v, r, ventes'),
             Equilibre(r.contenu)
      PROVE  [Comptes!Next]_Registre
  <2> DEFINE e == Entree(v, r)
  <2>1. Registre' = Append(Registre, e)
    BY <1>0, <1>3, RegistreProlonge
  <2>2. PICK k \in Nat : k = PlusGrandNumero(ventes) /\ DOMAIN Registre = 1 .. k
    BY <1>0, <1>1, FormeDuRegistre
  <2>3. Registre' # <<>> /\ Registre'[Len(Registre')] = e
    <3>1. RegistreDe(ventes) = [n \in 1 .. k |-> RegistreDe(ventes)[n]]
      BY <2>2 DEF RegistreDe
    <3>2. PICK f, S : f = Registre /\ f \in Seq(S)
      BY <1>0, <3>1, EnSuite
    <3>3. Registre' = Append(f, e)
      BY <2>1, <3>2
    <3>4. Append(f, e) # <<>> /\ Append(f, e)[Len(Append(f, e))] = e
      BY <3>2
    <3> QED
      BY <3>3, <3>4
  <2>4. Comptes!Inscrites = Reglees(ventes)
    BY <1>0, <1>1, FormeDuRegistre DEF Comptes!Inscrites
  <2>5. e.vente = v /\ e.contenu = r.contenu /\ v \notin Reglees(ventes)
    BY <1>3 DEF Entree, UneReglee, Reglees
  <2>6. Comptes!Inscrire(e)
    BY <1>3, <2>4, <2>5 DEF Comptes!Inscrire, Comptes!Equilibre, Equilibre, Lignes
  <2> QED
    BY <2>1, <2>3, <2>6 DEF Comptes!Next
<1> QED
  BY <1>2, <1>3, UneAuPlus

-----------------------------------------------------------------------------
(* Theorems *)

\* The inductive invariant holds in every state of the engine.
THEOREM Invariance == Spec => []Inv
<1>1. Init => Inv
  BY InitInv
<1>2. Inv /\ [Next]_vars => Inv'
  BY EtapeInv
<1> QED
  BY <1>1, <1>2, PTL DEF Spec

\* Every variable of the engine keeps its type.
THEOREM TypeCorrect == Spec => []TypeOK
<1>1. Inv => TypeOK
  BY DEF Inv
<1> QED
  BY <1>1, Invariance, PTL

\* encaisser_vente: the numbers of the settled sales are 1..n, each used once,
\* even though a SERIALIZABLE caller reads an old greatest number.
THEOREM NumerotationSansTrou == Spec => []NumerosSansTrou
<1>1. Inv => NumerosSansTrou
  <2> SUFFICES ASSUME Inv PROVE NumerosSansTrou
    OBVIOUS
  <2>1. BienNumerotee(ventes)
    BY DEF Inv, InvRegistre
  <2>2. PICK n \in Nat : Numeros(ventes) = 1 .. n
    BY <2>1 DEF BienNumerotee
  <2>3. PlusGrandNumero(ventes) = n
    BY <2>2, DernierNumero
  <2> QED
    BY <2>1, <2>2, <2>3 DEF NumerosSansTrou, BienNumerotee
<1> QED
  BY <1>1, Invariance, PTL

\* verifier_chaine_ventes never reports an anomaly on what the engine wrote.
THEOREM AuditSansAnomalie == Spec => []ChaineSaine
<1>1. Inv => ChaineSaine
  <2> SUFFICES ASSUME Inv, NEW v \in Reglees(ventes)
               PROVE  ~ (TrouDeNumero(v) \/ MaillonCasse(v)
                         \/ EmpreinteFausse(v) \/ EgaliteRompue(v))
    BY DEF ChaineSaine
  <2>1. BienNumerotee(ventes) /\ Maillon(ventes, v, ventes[v])
    BY DEF Inv, InvRegistre
  <2>2. PICK n \in Nat : Numeros(ventes) = 1 .. n
    BY <2>1 DEF BienNumerotee
  <2>3. \A u \in Reglees(ventes) : ventes[u].numero \in 1 .. n
    BY <2>2 DEF Numeros
  <2> DEFINE k == ventes[v].numero - 1
  <2>4. CASE k = 0
    <3>1. DAvant(v) = {}
      BY <2>3, <2>4 DEF DAvant
    <3>2. ventes[v].precedente = <<>>
      BY <2>1, <2>4 DEF Maillon, EmpreinteDuNumero
    <3> QED
      BY <3>1, <3>2, <2>1 DEF TrouDeNumero, MaillonCasse, EmpreinteFausse,
                              EgaliteRompue, Maillon
  <2>5. CASE k # 0
    <3>1. k \in Numeros(ventes)
      BY <2>2, <2>3, <2>5
    <3>2. PICK t \in Reglees(ventes) : ventes[t].numero = k
      BY <3>1 DEF Numeros
    <3>3. \A u \in DAvant(v) : u = t
      <4> SUFFICES ASSUME NEW u \in DAvant(v) PROVE u = t
        OBVIOUS
      <4>1. u \in Reglees(ventes) /\ ventes[u].numero < ventes[v].numero
        BY DEF DAvant
      <4>2. k < ventes[v].numero
        BY <2>3
      <4>3. k =< ventes[u].numero
        BY <3>2, <4>2 DEF DAvant
      <4>4. ventes[u].numero = ventes[t].numero
        BY <2>3, <3>2, <4>1, <4>3
      <4> QED
        BY <4>1, <4>4, <2>1 DEF BienNumerotee
    <3>4. t \in DAvant(v)
      BY <2>3, <3>2 DEF DAvant
    <3>5. ventes[v].precedente = ventes[t].empreinte
      BY <2>1, <2>5, <3>2, EmpreinteDe DEF Maillon
    <3>6. ventes[v].numero = ventes[t].numero + 1
      BY <2>3, <3>2
    <3> QED
      BY <3>3, <3>4, <3>5, <3>6, <2>1
         DEF TrouDeNumero, MaillonCasse, EmpreinteFausse, EgaliteRompue, Maillon
  <2> QED
    BY <2>4, <2>5
<1> QED
  BY <1>1, Invariance, PTL

\* A settled sale is never modified again, a cancelled one never comes back.
THEOREM Definitives == Spec => VentesDefinitives
<1>1. Inv /\ [Next]_vars =>
        [\A v \in Ventes : ventes[v].statut \in {"REGLEE", "ANNULEE"}
                             => ventes'[v] = ventes[v]]_ventes
  BY EtapeInv
<1> QED
  BY <1>1, Invariance, PTL DEF Spec, VentesDefinitives

\* ouvrir_vente and _executer_avec_cle_idempotence: a key is carried by one sale
\* at most, and no request is inside the payment function with a key in use.
THEOREM ClesInvariantes == Spec => []InvCles
<1>1. Init => InvCles
  BY ClesAuDebut
<1>2. Inv /\ InvCles /\ [Next]_vars => InvCles'
  BY EtapeCles
<1> QED
  BY <1>1, <1>2, Invariance, PTL DEF Spec

\* Two sales never carry the same idempotency key, whatever the webhooks and the
\* clicks that come at the same time.
THEOREM CleUnique == Spec => []UneVenteParCle
<1>1. InvCles => UneVenteParCle
  BY DEF InvCles
<1> QED
  BY <1>1, ClesInvariantes, PTL

\* A double tap on the form of the register never settles twice.
THEOREM DoubleClicSansEffet == Spec => []ClicJamaisRejoue
<1>1. InvCles => ClicJamaisRejoue
  BY DEF InvCles, ClicJamaisRejoue, CleEnBase, ClesEcrites
<1> QED
  BY <1>1, ClesInvariantes, PTL

\* The engine implements the register: the rows of the database, seen through
\* Registre, are only ever extended by one balanced sale at their end.
THEOREM Implementation == Spec => RegistreEnAjoutSeul
<1>1. Init => Comptes!Init
  <2> SUFFICES ASSUME Init PROVE Registre = <<>>
    BY DEF Comptes!Init
  <2>1. Numeros(ventes) = {}
    BY DEF Init, RienLu, Absente, Reglees, Numeros
  <2>2. PlusGrandNumero(ventes) = 0
    BY <2>1 DEF PlusGrandNumero
  <2> QED
    BY <2>2 DEF Registre
<1>2. Inv /\ Inv' /\ [Next]_vars => [Comptes!Next]_Registre
  BY EtapeDuRegistre
<1> QED
  BY <1>1, <1>2, Invariance, PTL DEF Spec, RegistreEnAjoutSeul, Comptes!Spec
=============================================================================
