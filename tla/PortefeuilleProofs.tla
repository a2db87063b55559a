-------------------------- MODULE PortefeuilleProofs --------------------------
(* Theorems of Portefeuille, for any number of cards, persons, assets and       *)
(* requests: the types, the holder of a card, the merge of a card's wallet, and *)
(* the ledger that the tokens implement.                                        *)
(*                                                                              *)
(* The argument: every row a request writes on the wallet of a card carries a   *)
(* foreign key to that card, and a link holds the card to its commit; so the    *)
(* balances of that wallet do not move during a link, and what it locks, moves  *)
(* and leaves is exactly what it read first.                                    *)
EXTENDS Portefeuille, Sommes, FiniteSetTheorems, SequenceTheorems, TLAPS

-----------------------------------------------------------------------------
(* The types of what a request holds.                                           *)

Actions == {"SALE", "REFILL", "REFUND", "FUSION", "BANK_TRANSFER"}
Mouvements == [action : Actions, de : Portefeuilles, vers : Portefeuilles,
               monnaie : Monnaies, montant : Nat]
Lignes == [action : Actions, de : Portefeuilles, vers : Portefeuilles,
           monnaie : Monnaies, montant : Nat, requete : Requetes, rang : Nat]
Ecrits == UNION {[D -> Nat] : D \in SUBSET Jetons}
Etapes == {"neuve", "fedow", "perte", "jetons", "debit", "credit", "ecrire",
           "valider", "finie"}
Operations == {"aucune", "vente", "recharge", "scan", "vidage", "virement", "liaison",
               "perte"}
Etats == [etape : Etapes, op : Operations, carte : Cartes \cup {Aucun},
          qui : Personnes \cup {Aucun}, bourse : Portefeuilles \cup {Aucun},
          plan : Seq(Mouvements), rang : Nat \ {0}, aVerrouiller : SUBSET Monnaies,
          tient : SUBSET (Cartes \cup Jetons), ecrit : Ecrits,
          lignes : SUBSET Lignes, vider : BOOLEAN]

\* The rank of a movement being played is one of the plan.
RangBon(e) ==
  e.etape \in {"debit", "credit", "ecrire"} => e.rang \in 1..Len(e.plan)

\* What a request moves on the wallet of a card is done for that card.
DeSaCarte(e, w) == w \in Ephemeres => w[1] = e.carte
PourSaCarte(e) ==
  /\ \A i \in 1..Len(e.plan) : DeSaCarte(e, e.plan[i].de) /\ DeSaCarte(e, e.plan[i].vers)
  /\ \A ligne \in DOMAIN e.ecrit : DeSaCarte(e, ligne[1])
  /\ e.etape \in {"fedow", "perte"} \/ e.op \in {"vidage", "liaison"} => e.carte \in Cartes
  /\ e.etape = "fedow" => e.bourse \in Ephemeres /\ e.bourse[1] = e.carte

\* A link in progress: what it moved or still has to move is all there is.
EnLiaison(e) ==
  /\ e.carte \in e.tient /\ e.qui \in Personnes
  /\ carte[e.carte].user = Aucun /\ carte[e.carte].ephemere = e.bourse
  /\ e.bourse = Aucun => e.aVerrouiller = {}
  /\ e.etape \in {"jetons", "debit", "credit", "valider"}
  /\ e.etape = "jetons" => e.rang = 1
  /\ e.etape # "jetons" => e.aVerrouiller = {}
  /\ e.etape = "valider" => e.rang > Len(e.plan)
  /\ e.etape = "credit" => <<e.bourse, e.plan[e.rang].monnaie>> \in DOMAIN e.ecrit
  /\ \A i \in 1..Len(e.plan) :
       /\ e.plan[i].action = "FUSION" /\ e.plan[i].de = e.bourse /\ e.plan[i].vers = e.qui
       /\ e.plan[i].montant = jeton[<<e.bourse, e.plan[i].monnaie>>]
  /\ \A ligne \in DOMAIN e.ecrit : ligne[1] = e.bourse => e.ecrit[ligne] = 0

Couverte(e) ==
  e.bourse # Aucun =>
    \A m \in Monnaies :
      \/ jeton[<<e.bourse, m>>] = 0
      \/ <<e.bourse, m>> \in DOMAIN e.ecrit
      \/ m \in e.aVerrouiller
      \/ \E i \in 1..Len(e.plan) : i >= e.rang /\ e.plan[i].monnaie = m

EtatBon(e) ==
  /\ RangBon(e) /\ PourSaCarte(e)
  /\ e.etape = "jetons" => e.op = "liaison"
  /\ e.op = "liaison" => EnLiaison(e) /\ Couverte(e)

Exclusifs(e, autre) == e.tient \cap autre.tient = {}

CartesBonnes ==
  /\ carte \in [Cartes -> [user : Personnes \cup {Aucun},
                           ephemere : Ephemeres \cup {Aucun}, vie : Nat \ {0}]]
  /\ \A c \in Cartes : carte[c].ephemere # Aucun => carte[c].ephemere[1] = c

IInv ==
  /\ CartesBonnes
  /\ jeton \in [Jetons -> Nat]
  /\ etat \in [Requetes -> Etats]
  /\ \A q \in Requetes : EtatBon(etat[q])
  /\ \A q, autre \in Requetes : q # autre => Exclusifs(etat[q], etat[autre])

-----------------------------------------------------------------------------
(* Lemmas on the data.                                                          *)

\* A request at rest, or over, holds nothing and is in order.
LEMMA ReposBon ==
  /\ Repos \in Etats /\ EtatBon(Repos) /\ Finie \in Etats /\ EtatBon(Finie)
  /\ Repos.tient = {} /\ Finie.tient = {}
<1>1. <<>> \in Seq(Mouvements) /\ Len(<<>>) = 0
  BY EmptySeq
<1>2. <<>> \in Ecrits /\ DOMAIN <<>> = {}
  <2>1. DOMAIN <<>> = {}
    OBVIOUS
  <2>2. <<>> \in [{} -> Nat]
    BY <2>1
  <2>3. {} \in SUBSET Jetons
    OBVIOUS
  <2>. QED BY <2>1, <2>2, <2>3 DEF Ecrits
<1>3. Repos \in Etats
  <2>1. 1 \in Nat \ {0}
    OBVIOUS
  <2>3. "neuve" \in Etapes /\ "aucune" \in Operations /\ FALSE \in BOOLEAN
    BY DEF Etapes, Operations
  <2>2. /\ {} \in SUBSET Monnaies /\ {} \in SUBSET (Cartes \cup Jetons)
        /\ {} \in SUBSET Lignes
    OBVIOUS
  <2>. QED BY <1>1, <1>2, <2>1, <2>2, <2>3, Zenon DEF Repos, Etats
<1>4. Finie \in Etats
  BY <1>3 DEF Finie, Etats, Etapes
<1>5. EtatBon(Repos) /\ Repos.tient = {}
  BY <1>1, <1>2 DEF Repos, EtatBon, RangBon, PourSaCarte
<1>6. EtatBon(Finie) /\ Finie.tient = {}
  BY <1>1, <1>2 DEF Finie, Repos, EtatBon, RangBon, PourSaCarte
<1>. QED BY <1>3, <1>4, <1>5, <1>6

\* A step that changes only one request keeps the invariant when the request stays
\* in order and takes only rows nobody holds.
LEMMA UneSeuleRequete ==
  ASSUME IInv, NEW q \in Requetes, NEW e \in Etats, EtatBon(e),
         \A autre \in Requetes \ {q} : Exclusifs(e, etat[autre]),
         etat' = [etat EXCEPT ![q] = e], UNCHANGED <<carte, jeton>>
  PROVE  IInv'
<1>1. etat' \in [Requetes -> Etats] /\ etat'[q] = e
      /\ \A autre \in Requetes \ {q} : etat'[autre] = etat[autre]
  BY DEF IInv
<1>2. CartesBonnes' /\ jeton' \in [Jetons -> Nat]
  BY DEF IInv, CartesBonnes
<1>3. ASSUME NEW r \in Requetes PROVE EtatBon(etat[r])'
  <2>1. EtatBon(etat'[r])
    BY <1>1 DEF IInv
  <2>. QED BY <2>1 DEF EtatBon, RangBon, PourSaCarte, DeSaCarte, EnLiaison, Couverte
<1>4. ASSUME NEW r \in Requetes, NEW autre \in Requetes, r # autre
      PROVE  Exclusifs(etat[r], etat[autre])'
  BY <1>1, <1>4 DEF IInv, Exclusifs
<1>. QED BY <1>1, <1>2, <1>3, <1>4 DEF IInv

-----------------------------------------------------------------------------
(* The plans.                                                                   *)

\* A movement is well formed.
LEMMA MouvementType ==
  ASSUME NEW a \in Actions, NEW de \in Portefeuilles, NEW vers \in Portefeuilles,
         NEW m \in Monnaies, NEW montant \in Nat
  PROVE  Mouvement(a, de, vers, m, montant) \in Mouvements
BY DEF Mouvement, Mouvements

\* The first step of a plan is a movement of it, or the commit.
LEMMA EtapeBonne ==
  ASSUME NEW plan \in Seq(Mouvements), NEW rang \in Nat \ {0}
  PROVE  /\ EtapeDuRang(plan, rang) \in {"debit", "credit", "ecrire", "valider"}
         /\ EtapeDuRang(plan, rang) # "valider" => rang \in 1..Len(plan)
         /\ EtapeDuRang(plan, rang) = "valider" => rang > Len(plan)
         /\ EtapeDuRang(plan, rang) = "debit" => plan[rang].action \notin SansDebit
BY LenProperties DEF EtapeDuRang

\* A plan that enumerates a finite set of movements.
LEMMA PlanEnumere ==
  ASSUME NEW S, IsFiniteSet(S), NEW ordre \in SetToSeqs(S), NEW mv \in [S -> Mouvements]
  PROVE  /\ [a \in DOMAIN ordre |-> mv[ordre[a]]] \in Seq(Mouvements)
         /\ Len([a \in DOMAIN ordre |-> mv[ordre[a]]]) = Cardinality(S)
         /\ DOMAIN ordre = 1..Cardinality(S)
         /\ \A a \in DOMAIN ordre : ordre[a] \in S
<1>1. Cardinality(S) \in Nat
  BY FS_CardinalityType
<1>2. ordre \in [1..Cardinality(S) -> S]
  BY DEF SetToSeqs
<1>. QED BY <1>1, <1>2

-----------------------------------------------------------------------------
(* One lemma for each action.                                                   *)

\* What a transaction has written, with one more row.
LEMMA EcrireBon ==
  ASSUME NEW f \in Ecrits, NEW ligne \in Jetons, NEW v \in Nat
  PROVE  /\ Ecrire(f, ligne, v) \in Ecrits
         /\ DOMAIN Ecrire(f, ligne, v) = DOMAIN f \cup {ligne}
         /\ Ecrire(f, ligne, v)[ligne] = v
         /\ \A l \in DOMAIN f : l # ligne => Ecrire(f, ligne, v)[l] = f[l]
<1>1. PICK D \in SUBSET Jetons : f \in [D -> Nat]
  BY DEF Ecrits
<1>2. D \cup {ligne} \in SUBSET Jetons /\ DOMAIN f = D
  BY <1>1
<1>3. Ecrire(f, ligne, v) \in [D \cup {ligne} -> Nat]
  BY <1>1, <1>2 DEF Ecrire
<1>4. Ecrire(f, ligne, v) \in Ecrits
  BY <1>2, <1>3 DEF Ecrits
<1>. QED BY <1>1, <1>2, <1>3, <1>4 DEF Ecrire

\* Debiter keeps the invariant: the balance is checked under the lock.
LEMMA DebiterBon ==
  ASSUME IInv, NEW q \in Requetes, Debiter(q)
  PROVE  IInv'
<1> DEFINE d == etat[q]
           m == Courant(q)
           ligne == <<m.de, m.monnaie>>
           v == Valeur(q, ligne) - m.montant
           e == Debite(d, ligne, v)
<1>1. d \in Etats /\ EtatBon(d) /\ d.etape = "debit"
  BY DEF IInv, Debiter
<1>2. d.rang \in 1..Len(d.plan) /\ m = d.plan[d.rang] /\ m \in Mouvements
  BY <1>1 DEF EtatBon, RangBon, Courant, Etats
<1>3. ligne \in Jetons
  BY <1>2 DEF Mouvements, Jetons
<1>4. CASE Valeur(q, ligne) < m.montant
  <2>1. etat' = [etat EXCEPT ![q] = Finie] /\ UNCHANGED <<carte, jeton>>
    BY <1>4 DEF Debiter
  <2>. QED BY <2>1, ReposBon, UneSeuleRequete DEF Exclusifs
<1>5. CASE ~(Valeur(q, ligne) < m.montant)
  <2>1. etat' = [etat EXCEPT ![q] = e] /\ UNCHANGED <<carte, jeton>>
    BY <1>5 DEF Debiter
  <2>2. Valeur(q, ligne) \in Nat
    BY <1>1, <1>3 DEF Valeur, IInv, Etats, Ecrits
  <2>3. v \in Nat
    BY <1>2, <1>5, <2>2 DEF Mouvements
  <2>4. /\ Ecrire(d.ecrit, ligne, v) \in Ecrits
        /\ DOMAIN Ecrire(d.ecrit, ligne, v) = DOMAIN d.ecrit \cup {ligne}
        /\ Ecrire(d.ecrit, ligne, v)[ligne] = v
        /\ \A l \in DOMAIN d.ecrit : l # ligne => Ecrire(d.ecrit, ligne, v)[l] = d.ecrit[l]
    <3>1. d.ecrit \in Ecrits
      BY <1>1 DEF Etats
    <3>. HIDE DEF d, v, ligne
    <3>. QED BY <1>3, <2>3, <3>1, EcrireBon
  <2>5. /\ e \in Etats
        /\ e.etape = "credit" /\ e.op = d.op /\ e.carte = d.carte /\ e.qui = d.qui
        /\ e.bourse = d.bourse /\ e.plan = d.plan /\ e.rang = d.rang
        /\ e.aVerrouiller = d.aVerrouiller /\ e.tient = d.tient \cup {ligne}
        /\ e.ecrit = Ecrire(d.ecrit, ligne, v)
    <3>. HIDE DEF d, v, ligne
    <3>. QED BY <1>1, <1>3, <2>4 DEF Debite, Ecrit, Etats, Etapes
  <2>. HIDE DEF e
  <2>6. RangBon(e)
    BY <1>2, <2>5 DEF RangBon
  <2>7. PourSaCarte(e)
    <3>1. PourSaCarte(d) /\ ligne[1] = m.de
      BY <1>1 DEF EtatBon
    <3>2. DeSaCarte(e, m.de)
      BY <1>2, <2>5, <3>1 DEF PourSaCarte, DeSaCarte
    <3>3. \A l \in DOMAIN e.ecrit : DeSaCarte(e, l[1])
      BY <2>4, <2>5, <3>1, <3>2 DEF PourSaCarte, DeSaCarte
    <3>. HIDE DEF ligne, m
    <3>. QED BY <1>1, <2>5, <3>1, <3>3 DEF PourSaCarte, DeSaCarte
  <2>8. ASSUME d.op = "liaison" PROVE EnLiaison(e)
    <3>1. EnLiaison(d)
      BY <1>1, <2>8 DEF EtatBon
    <3>2. m.de = d.bourse /\ m.montant = jeton[ligne]
      BY <1>2, <3>1 DEF EnLiaison
    <3>3. v = 0
      BY <1>2, <1>3, <1>5, <3>1, <3>2 DEF EnLiaison, Valeur, IInv, Mouvements
    <3>4. \A l \in DOMAIN e.ecrit : l[1] = e.bourse => e.ecrit[l] = 0
      BY <2>4, <2>5, <3>1, <3>3 DEF EnLiaison
    <3>5. <<e.bourse, e.plan[e.rang].monnaie>> \in DOMAIN e.ecrit
      BY <1>2, <2>4, <2>5, <3>2
    <3>. HIDE DEF ligne, m, v
    <3>. QED BY <1>1, <2>5, <3>1, <3>4, <3>5 DEF EnLiaison
  <2>9. ASSUME d.op = "liaison" PROVE Couverte(e)
    BY <1>1, <2>4, <2>5, <2>9 DEF EtatBon, Couverte
  <2>10. EtatBon(e)
    BY <2>5, <2>6, <2>7, <2>8, <2>9 DEF EtatBon
  <2>11. \A autre \in Requetes \ {q} : Exclusifs(e, etat[autre])
    BY <2>5 DEF Exclusifs, IInv, Debiter, Verrouillee
  <2>. QED BY <2>1, <2>5, <2>10, <2>11, UneSeuleRequete
<1>. QED BY <1>4, <1>5

\* The next movement of a plan.
LEMMA SuivantType ==
  ASSUME NEW d \in Etats, d.rang \in 1..Len(d.plan), NEW ligne \in Lignes
  PROVE  LET e == Suivant(d, ligne) IN
         /\ e \in Etats /\ RangBon(e)
         /\ e.etape = EtapeDuRang(d.plan, d.rang + 1)
         /\ e.etape \in {"debit", "credit", "ecrire", "valider"}
         /\ e.etape = "valider" => e.rang > Len(e.plan)
         /\ e.op = d.op /\ e.carte = d.carte /\ e.qui = d.qui
         /\ e.bourse = d.bourse /\ e.plan = d.plan /\ e.rang = d.rang + 1
         /\ e.aVerrouiller = d.aVerrouiller /\ e.tient = d.tient /\ e.ecrit = d.ecrit
<1> DEFINE e == Suivant(d, ligne)
           suite == EtapeDuRang(d.plan, d.rang + 1)
<1>1. d.plan \in Seq(Mouvements) /\ d.rang \in Nat \ {0} /\ d.rang + 1 \in Nat \ {0}
  BY DEF Etats
<1>2. /\ suite \in {"debit", "credit", "ecrire", "valider"}
      /\ suite # "valider" => d.rang + 1 \in 1..Len(d.plan)
      /\ suite = "valider" => d.rang + 1 > Len(d.plan)
  BY <1>1, EtapeBonne
<1>3. suite \in Etapes
  BY <1>2 DEF Etapes
<1>. HIDE DEF suite
<1>4. /\ e \in Etats
      /\ e.etape = suite
      /\ e.op = d.op /\ e.carte = d.carte /\ e.qui = d.qui
      /\ e.bourse = d.bourse /\ e.plan = d.plan /\ e.rang = d.rang + 1
      /\ e.aVerrouiller = d.aVerrouiller /\ e.tient = d.tient /\ e.ecrit = d.ecrit
  BY <1>1, <1>3 DEF Suivant, Etats, suite
<1>. HIDE DEF e
<1>5. RangBon(e)
  BY <1>2, <1>4 DEF RangBon
<1>. QED BY <1>2, <1>4, <1>5 DEF e, suite

\* The row of a transaction is well formed.
LEMMA LigneType ==
  ASSUME NEW q \in Requetes, etat[q] \in Etats, Courant(q) \in Mouvements
  PROVE  LigneEcrite(q) \in Lignes
BY DEF LigneEcrite, Lignes, Mouvements, Etats

\* Crediter keeps the invariant: the receiver of a merge is a person, never the
\* wallet that is being emptied.
LEMMA CrediterBon ==
  ASSUME IInv, NEW q \in Requetes, Crediter(q)
  PROVE  IInv'
<1> DEFINE d == etat[q]
           m == Courant(q)
           ligne == <<m.vers, m.monnaie>>
           v == Valeur(q, ligne) + m.montant
           e1 == Ecrit(d, ligne, v)
           e == Suivant(e1, LigneEcrite(q))
<1>1. d \in Etats /\ EtatBon(d) /\ d.etape = "credit"
  BY DEF IInv, Crediter
<1>2. d.rang \in 1..Len(d.plan) /\ m = d.plan[d.rang] /\ m \in Mouvements
  BY <1>1 DEF EtatBon, RangBon, Courant, Etats
<1>3. ligne \in Jetons
  BY <1>2 DEF Mouvements, Jetons
<1>4. etat' = [etat EXCEPT ![q] = e] /\ UNCHANGED <<carte, jeton>>
  BY DEF Crediter
<1>5. Valeur(q, ligne) \in Nat
  BY <1>1, <1>3 DEF Valeur, IInv, Etats, Ecrits
<1>6. v \in Nat
  BY <1>2, <1>5 DEF Mouvements
<1>7. /\ Ecrire(d.ecrit, ligne, v) \in Ecrits
      /\ DOMAIN Ecrire(d.ecrit, ligne, v) = DOMAIN d.ecrit \cup {ligne}
      /\ \A l \in DOMAIN d.ecrit : l # ligne => Ecrire(d.ecrit, ligne, v)[l] = d.ecrit[l]
  <2>1. d.ecrit \in Ecrits
    BY <1>1 DEF Etats
  <2>. HIDE DEF d, v, ligne
  <2>. QED BY <1>3, <1>6, <2>1, EcrireBon
<1>8. /\ e1 \in Etats
      /\ e1.etape = d.etape /\ e1.op = d.op /\ e1.carte = d.carte /\ e1.qui = d.qui
      /\ e1.bourse = d.bourse /\ e1.plan = d.plan /\ e1.rang = d.rang
      /\ e1.aVerrouiller = d.aVerrouiller /\ e1.tient = d.tient \cup {ligne}
      /\ e1.ecrit = Ecrire(d.ecrit, ligne, v)
  <2>. HIDE DEF d, v, ligne
  <2>. QED BY <1>1, <1>3, <1>7 DEF Ecrit, Etats
<1>9. LigneEcrite(q) \in Lignes
  BY <1>1, <1>2, LigneType
<1>10. /\ e \in Etats /\ RangBon(e)
       /\ e.etape = EtapeDuRang(d.plan, d.rang + 1)
       /\ e.etape \in {"debit", "credit", "ecrire", "valider"}
       /\ e.etape = "valider" => e.rang > Len(e.plan)
       /\ e.op = d.op /\ e.carte = d.carte /\ e.qui = d.qui
       /\ e.bourse = d.bourse /\ e.plan = d.plan /\ e.rang = d.rang + 1
       /\ e.aVerrouiller = d.aVerrouiller /\ e.tient = d.tient \cup {ligne}
       /\ e.ecrit = Ecrire(d.ecrit, ligne, v)
  <2>. HIDE DEF e1, d, v, ligne
  <2>. QED BY <1>2, <1>8, <1>9, SuivantType
<1>. HIDE DEF e, e1
<1>11. PourSaCarte(e)
  <2>1. PourSaCarte(d) /\ ligne[1] = m.vers
    BY <1>1 DEF EtatBon
  <2>2. DeSaCarte(e, m.vers)
    BY <1>2, <1>10, <2>1 DEF PourSaCarte, DeSaCarte
  <2>3. \A l \in DOMAIN e.ecrit : DeSaCarte(e, l[1])
    BY <1>7, <1>10, <2>1, <2>2 DEF PourSaCarte, DeSaCarte
  <2>. HIDE DEF ligne, m
  <2>. QED BY <1>1, <1>10, <2>1, <2>3 DEF PourSaCarte, DeSaCarte
<1>12. ASSUME d.op = "liaison" PROVE EnLiaison(e) /\ Couverte(e)
  <2>1. EnLiaison(d) /\ Couverte(d)
    BY <1>1, <1>12 DEF EtatBon
  <2>2. m.vers = d.qui /\ d.qui \in Personnes
    BY <1>2, <2>1 DEF EnLiaison
  <2>3. d.bourse \in Ephemeres \cup {Aucun}
    <3>1. d.carte \in Cartes
      BY <1>1, <1>12 DEF EtatBon, PourSaCarte
    <3>. QED BY <2>1, <3>1 DEF EnLiaison, IInv, CartesBonnes
  <2>4. ligne[1] # d.bourse
    BY <2>2, <2>3, PortefeuillesDistincts DEF Portefeuilles
  <2>5. \A l \in DOMAIN e.ecrit : l[1] = e.bourse => e.ecrit[l] = 0
    BY <1>7, <1>10, <2>1, <2>4 DEF EnLiaison
  <2>6. e.etape \in {"debit", "valider"}
    <3>1. d.plan \in Seq(Mouvements) /\ d.rang + 1 \in Nat \ {0}
      BY <1>1 DEF Etats
    <3>2. e.etape = "valider" \/ d.rang + 1 \in 1..Len(d.plan)
      BY <3>1, <1>10, EtapeBonne
    <3>3. ASSUME d.rang + 1 \in 1..Len(d.plan) PROVE e.etape \in {"debit", "valider"}
      <4>1. d.plan[d.rang + 1].action = "FUSION"
        BY <2>1, <3>3 DEF EnLiaison
      <4>. QED BY <4>1, <1>10 DEF EtapeDuRang, SansDebit
    <3>. QED BY <3>2, <3>3
  <2>. HIDE DEF ligne, m, v
  <2>7. EnLiaison(e)
    BY <1>1, <1>10, <2>1, <2>5, <2>6 DEF EnLiaison
  <2>8. Couverte(e)
    <3>1. ASSUME e.bourse # Aucun, NEW x \in Monnaies
          PROVE  \/ jeton[<<e.bourse, x>>] = 0
                 \/ <<e.bourse, x>> \in DOMAIN e.ecrit
                 \/ x \in e.aVerrouiller
                 \/ \E i \in 1..Len(e.plan) : i >= e.rang /\ e.plan[i].monnaie = x
      <4>1. \/ jeton[<<d.bourse, x>>] = 0
            \/ <<d.bourse, x>> \in DOMAIN d.ecrit
            \/ x \in d.aVerrouiller
            \/ \E i \in 1..Len(d.plan) : i >= d.rang /\ d.plan[i].monnaie = x
        BY <1>10, <2>1, <3>1 DEF Couverte
      <4>2. <<d.bourse, d.plan[d.rang].monnaie>> \in DOMAIN d.ecrit
        BY <1>1, <2>1 DEF EnLiaison
      <4>3. DOMAIN d.ecrit \subseteq DOMAIN e.ecrit
        BY <1>7, <1>10
      <4>4. ASSUME NEW i \in 1..Len(d.plan), i >= d.rang, d.plan[i].monnaie = x
            PROVE  <<d.bourse, x>> \in DOMAIN d.ecrit \/ i >= e.rang
        <5>1. i = d.rang \/ i >= d.rang + 1
          BY <1>2, <4>4
        <5>. QED BY <4>2, <4>4, <5>1, <1>10
      <4>. QED BY <1>10, <4>1, <4>3, <4>4
    <3>. QED BY <3>1 DEF Couverte
  <2>. QED BY <2>7, <2>8
<1>13. EtatBon(e)
  BY <1>10, <1>11, <1>12 DEF EtatBon
<1>14. \A autre \in Requetes \ {q} : Exclusifs(e, etat[autre])
  BY <1>10 DEF Exclusifs, IInv, Crediter, Verrouillee
<1>. QED BY <1>4, <1>10, <1>13, <1>14, UneSeuleRequete

\* The row of a bank transfer keeps the invariant.
LEMMA EcrireSansMouvementBon ==
  ASSUME IInv, NEW q \in Requetes, EcrireSansMouvement(q)
  PROVE  IInv'
<1> DEFINE d == etat[q]
           e == Suivant(d, LigneEcrite(q))
<1>1. d \in Etats /\ EtatBon(d) /\ d.etape = "ecrire"
  BY DEF IInv, EcrireSansMouvement
<1>2. d.rang \in 1..Len(d.plan) /\ Courant(q) \in Mouvements
  BY <1>1 DEF EtatBon, RangBon, Courant, Etats
<1>3. etat' = [etat EXCEPT ![q] = e] /\ UNCHANGED <<carte, jeton>>
  BY DEF EcrireSansMouvement
<1>4. LigneEcrite(q) \in Lignes
  BY <1>1, <1>2, LigneType
<1>5. /\ e \in Etats /\ RangBon(e)
      /\ e.etape \in {"debit", "credit", "ecrire", "valider"}
      /\ e.op = d.op /\ e.carte = d.carte /\ e.plan = d.plan
      /\ e.tient = d.tient /\ e.ecrit = d.ecrit
  <2>. HIDE DEF d
  <2>. QED BY <1>1, <1>2, <1>4, SuivantType
<1>. HIDE DEF e
<1>6. d.op # "liaison"
  BY <1>1 DEF EtatBon, EnLiaison
<1>7. EtatBon(e)
  BY <1>1, <1>5, <1>6 DEF EtatBon, PourSaCarte, DeSaCarte
<1>8. \A autre \in Requetes \ {q} : Exclusifs(e, etat[autre])
  BY <1>5 DEF Exclusifs, IInv
<1>. QED BY <1>3, <1>5, <1>7, <1>8, UneSeuleRequete

-----------------------------------------------------------------------------
(* The requests that open with a plan.                                          *)

\* A request as it begins.
LEMMA DemandeType ==
  ASSUME NEW op \in Operations, NEW c \in Cartes \cup {Aucun},
         NEW w \in Portefeuilles \cup {Aucun}, NEW plan \in Seq(Mouvements),
         NEW r, r = Demande(op, c, w, plan)
  PROVE  /\ r \in Etats /\ r.etape = "neuve" /\ r.op = op /\ r.carte = c /\ r.qui = Aucun
         /\ r.bourse = w /\ r.plan = plan /\ r.rang = 1 /\ r.aVerrouiller = {}
         /\ r.tient = {} /\ DOMAIN r.ecrit = {}
<1>1. Repos \in Etats
  BY ReposBon
<1>2. Demande(op, c, w, plan) \in Etats
  BY <1>1 DEF Demande, Etats
<1>. QED BY <1>2 DEF Demande, Repos

\* The wallet behind a card is a person's, or one of the card.
LEMMA BourseBonne ==
  ASSUME CartesBonnes, NEW c \in Cartes
  PROVE  /\ Bourse(c) \in Portefeuilles \cup {Aucun}
         /\ Bourse(c) \in Ephemeres => Bourse(c)[1] = c
BY PortefeuillesDistincts DEF CartesBonnes, Bourse, Portefeuilles

\* A request that opens is in order when its plan is for its card.
LEMMA OuvertBon ==
  ASSUME NEW r \in Etats, r.rang = 1, r.op # "liaison",
         r.tient = {}, DOMAIN r.ecrit = {}, r.op = "vidage" => r.carte \in Cartes,
         \A i \in 1..Len(r.plan) : DeSaCarte(r, r.plan[i].de) /\ DeSaCarte(r, r.plan[i].vers)
  PROVE  LET e == [r EXCEPT !.etape = EtapeDuRang(r.plan, 1)]
         IN e \in Etats /\ EtatBon(e) /\ e.tient = {} /\ e.op = r.op
<1> DEFINE suite == EtapeDuRang(r.plan, 1)
           e == [r EXCEPT !.etape = suite]
<1>1. r.plan \in Seq(Mouvements) /\ 1 \in Nat \ {0}
  BY DEF Etats
<1>2. /\ suite \in {"debit", "credit", "ecrire", "valider"}
      /\ suite # "valider" => 1 \in 1..Len(r.plan)
  BY <1>1, EtapeBonne
<1>3. suite \in Etapes
  BY <1>2 DEF Etapes
<1>. HIDE DEF suite
<1>4. /\ e \in Etats /\ e.etape = suite /\ e.op = r.op /\ e.carte = r.carte
      /\ e.plan = r.plan /\ e.rang = r.rang /\ e.tient = {} /\ DOMAIN e.ecrit = {}
  BY <1>3 DEF Etats
<1>. HIDE DEF e
<1>5. EtatBon(e)
  BY <1>2, <1>4 DEF EtatBon, RangBon, PourSaCarte, DeSaCarte
<1>. QED BY <1>4, <1>5 DEF e, suite

\* A request that opens with a plan is good.
LEMMA OuvrirBon ==
  ASSUME IInv, NEW q \in Requetes, NEW r \in Etats, r.rang = 1, r.op # "liaison",
         r.tient = {}, DOMAIN r.ecrit = {}, r.op = "vidage" => r.carte \in Cartes,
         \A i \in 1..Len(r.plan) : DeSaCarte(r, r.plan[i].de) /\ DeSaCarte(r, r.plan[i].vers),
         etat' = [etat EXCEPT ![q] = [r EXCEPT !.etape = EtapeDuRang(r.plan, 1)]],
         UNCHANGED <<carte, jeton>>
  PROVE  IInv'
<1> DEFINE e == [r EXCEPT !.etape = EtapeDuRang(r.plan, 1)]
<1>1. e \in Etats /\ EtatBon(e) /\ e.tient = {}
  BY OuvertBon
<1>2. etat' = [etat EXCEPT ![q] = e]
  OBVIOUS
<1>. HIDE DEF e
<1>. QED BY <1>1, <1>2, UneSeuleRequete DEF Exclusifs

\* A top-up, of a wallet of its card or of a person.
LEMMA RechargeType ==
  ASSUME NEW c \in Cartes, NEW w \in Portefeuilles, w \in Ephemeres => w[1] = c,
         NEW m \in Monnaies, NEW montant \in Recharges
  PROVE  LET r == RechargeDe(c, w, m, montant) IN
         /\ r \in Etats /\ r.rang = 1 /\ r.op = "recharge" /\ r.tient = {}
         /\ DOMAIN r.ecrit = {} /\ r.carte = c
         /\ \A i \in 1..Len(r.plan) : /\ DeSaCarte(r, r.plan[i].de)
                                      /\ DeSaCarte(r, r.plan[i].vers)
<1> DEFINE mv == Mouvement("REFILL", Lieu, w, m, montant)
           r == RechargeDe(c, w, m, montant)
<1>1. mv \in Mouvements
  BY MontantsEntiers, MouvementType DEF Actions, Portefeuilles
<1>2. <<mv>> \in Seq(Mouvements) /\ Len(<<mv>>) = 1 /\ <<mv>>[1] = mv
  BY <1>1
<1>3. /\ r \in Etats /\ r.rang = 1 /\ r.op = "recharge" /\ r.tient = {}
      /\ DOMAIN r.ecrit = {} /\ r.carte = c /\ r.plan = <<mv>>
  <2> DEFINE p == <<mv>>
  <2>1. "recharge" \in Operations
    BY DEF Operations
  <2>2. r = Demande("recharge", c, w, p) /\ p \in Seq(Mouvements)
    BY <1>2 DEF RechargeDe
  <2>. HIDE DEF p, r
  <2>3. /\ r \in Etats /\ r.rang = 1 /\ r.op = "recharge" /\ r.tient = {}
        /\ DOMAIN r.ecrit = {} /\ r.carte = c /\ r.plan = p
    BY <2>1, <2>2, DemandeType
  <2>. QED BY <2>3 DEF p
<1>4. mv.de = Lieu /\ mv.vers = w
  BY DEF Mouvement
<1>5. DeSaCarte(r, Lieu) /\ DeSaCarte(r, w)
  BY <1>3, PortefeuillesDistincts DEF DeSaCarte
<1>. HIDE DEF r, mv
<1>6. \A i \in 1..Len(r.plan) : DeSaCarte(r, r.plan[i].de) /\ DeSaCarte(r, r.plan[i].vers)
  BY <1>2, <1>3, <1>4, <1>5
<1>. QED BY <1>3, <1>6 DEF r

\* A top-up opens.
LEMMA RechargerBon ==
  ASSUME IInv, NEW q \in Requetes, NEW c \in Cartes, NEW m \in Monnaies,
         NEW montant \in Recharges, Recharger(q, c, m, montant)
  PROVE  IInv'
<1> DEFINE r == RechargeDe(c, Bourse(c), m, montant)
<1>1. Bourse(c) \in Portefeuilles /\ (Bourse(c) \in Ephemeres => Bourse(c)[1] = c)
  BY BourseBonne DEF IInv, Recharger
<1>2. /\ etat' = [etat EXCEPT ![q] = [r EXCEPT !.etape = EtapeDuRang(r.plan, 1)]]
      /\ UNCHANGED <<carte, jeton>>
  BY DEF Recharger, Ouvrir
<1>3. /\ r \in Etats /\ r.rang = 1 /\ r.op = "recharge" /\ r.tient = {}
      /\ DOMAIN r.ecrit = {}
      /\ \A i \in 1..Len(r.plan) : DeSaCarte(r, r.plan[i].de) /\ DeSaCarte(r, r.plan[i].vers)
  BY <1>1, RechargeType
<1>. HIDE DEF r
<1>. QED BY <1>2, <1>3, OuvrirBon

\* A bank transfer opens.
LEMMA VirerBon ==
  ASSUME IInv, NEW q \in Requetes, NEW montant \in Recharges, Virer(q, montant)
  PROVE  IInv'
<1> DEFINE mv == Mouvement("BANK_TRANSFER", Lieu, Lieu, Federee, montant)
           r == Demande("virement", Aucun, Aucun, <<mv>>)
<1>1. mv \in Mouvements
  BY MontantsEntiers, MonnaiesConnues, MouvementType DEF Actions, Portefeuilles
<1>2. <<mv>> \in Seq(Mouvements) /\ Len(<<mv>>) = 1 /\ <<mv>>[1] = mv
  BY <1>1
<1>3. /\ r \in Etats /\ r.rang = 1 /\ r.op = "virement" /\ r.tient = {}
      /\ DOMAIN r.ecrit = {} /\ r.plan = <<mv>>
  <2> DEFINE p == <<mv>>
             sansCarte == Aucun
             sansBourse == Aucun
  <2>1. "virement" \in Operations
    BY DEF Operations
  <2>2. r = Demande("virement", sansCarte, sansBourse, p) /\ p \in Seq(Mouvements)
    BY <1>2
  <2>4. sansCarte \in Cartes \cup {Aucun} /\ sansBourse \in Portefeuilles \cup {Aucun}
    OBVIOUS
  <2>. HIDE DEF p, r, sansCarte, sansBourse
  <2>3. /\ r \in Etats /\ r.rang = 1 /\ r.op = "virement" /\ r.tient = {}
        /\ DOMAIN r.ecrit = {} /\ r.plan = p
    BY <2>1, <2>2, <2>4, DemandeType
  <2>. QED BY <2>3 DEF p
<1>4. mv.de = Lieu /\ mv.vers = Lieu
  BY DEF Mouvement
<1>5. /\ etat' = [etat EXCEPT ![q] = [r EXCEPT !.etape = EtapeDuRang(r.plan, 1)]]
      /\ UNCHANGED <<carte, jeton>>
  BY DEF Virer, Ouvrir
<1>6. DeSaCarte(r, Lieu)
  BY PortefeuillesDistincts DEF DeSaCarte
<1>. HIDE DEF r, mv
<1>7. \A i \in 1..Len(r.plan) : DeSaCarte(r, r.plan[i].de) /\ DeSaCarte(r, r.plan[i].vers)
  BY <1>2, <1>3, <1>4, <1>6
<1>. QED BY <1>3, <1>5, <1>7, OuvrirBon

\* A sale opens.
LEMMA VendreBon ==
  ASSUME IInv, NEW q \in Requetes, NEW c \in Cartes, NEW prix \in Prix, Vendre(q, c, prix)
  PROVE  IInv'
<1> DEFINE w == Bourse(c)
<1>1. w \in Portefeuilles /\ (w \in Ephemeres => w[1] = c)
  BY BourseBonne DEF IInv, Vendre
<1>2. PICK debit \in DebitsDeCascade(w, prix) :
      \E ordre \in SetToSeqs({i \in 1..Len(Cascade) : debit[i] > 0}) :
        Ouvrir(q, Demande("vente", c, w,
          [a \in DOMAIN ordre |->
             Mouvement("SALE", w, Lieu, Cascade[ordre[a]], debit[ordre[a]])]))
  BY DEF Vendre
<1> DEFINE S == {i \in 1..Len(Cascade) : debit[i] > 0}
<1>3. PICK ordre \in SetToSeqs(S) :
        Ouvrir(q, Demande("vente", c, w,
          [a \in DOMAIN ordre |->
             Mouvement("SALE", w, Lieu, Cascade[ordre[a]], debit[ordre[a]])]))
  BY <1>2
<1> DEFINE mv == [i \in S |-> Mouvement("SALE", w, Lieu, Cascade[i], debit[i])]
           plan == [a \in DOMAIN ordre |-> mv[ordre[a]]]
           r == Demande("vente", c, w, plan)
<1>4. debit \in [1..Len(Cascade) -> 0..prix] /\ prix \in Nat
  BY <1>2, MontantsEntiers DEF DebitsDeCascade
<1>5. IsFiniteSet(S)
  <2>1. Len(Cascade) \in Nat
    BY MonnaiesConnues, LenProperties
  <2>2. IsFiniteSet(1..Len(Cascade))
    BY <2>1, FS_Interval
  <2>. QED BY <2>2, FS_Subset
<1>6. mv \in [S -> Mouvements]
  <2>1. ASSUME NEW i \in S PROVE Mouvement("SALE", w, Lieu, Cascade[i], debit[i]) \in Mouvements
    <3>1. Cascade[i] \in Monnaies /\ debit[i] \in Nat
      BY <1>4, MonnaiesConnues
    <3>2. "SALE" \in Actions /\ Lieu \in Portefeuilles
      BY DEF Actions, Portefeuilles
    <3>. QED BY <1>1, <3>1, <3>2, MouvementType
  <2>. QED BY <2>1
<1>7. /\ plan \in Seq(Mouvements) /\ Len(plan) = Cardinality(S)
      /\ DOMAIN ordre = 1..Cardinality(S) /\ \A a \in DOMAIN ordre : ordre[a] \in S
  <2>. HIDE DEF S, mv
  <2>. QED BY <1>3, <1>5, <1>6, PlanEnumere
<1>8. \A i \in 1..Len(plan) : plan[i].de = w /\ plan[i].vers = Lieu
  BY <1>7 DEF Mouvement
<1>9. plan = [a \in DOMAIN ordre |->
                Mouvement("SALE", w, Lieu, Cascade[ordre[a]], debit[ordre[a]])]
  BY <1>7
<1>10. /\ etat' = [etat EXCEPT ![q] = [r EXCEPT !.etape = EtapeDuRang(r.plan, 1)]]
       /\ UNCHANGED <<carte, jeton>>
  BY <1>3, <1>9 DEF Ouvrir, Vendre
<1>. HIDE DEF plan, mv, S
<1>11. /\ r \in Etats /\ r.rang = 1 /\ r.op = "vente" /\ r.tient = {}
       /\ DOMAIN r.ecrit = {} /\ r.carte = c /\ r.plan = plan
  <2>1. "vente" \in Operations
    BY DEF Operations
  <2>. HIDE DEF w
  <2>. QED BY <1>1, <1>7, <2>1, DemandeType
<1>12. DeSaCarte(r, w) /\ DeSaCarte(r, Lieu)
  BY <1>1, <1>11, PortefeuillesDistincts DEF DeSaCarte
<1>. HIDE DEF r, w
<1>13. \A i \in 1..Len(r.plan) : DeSaCarte(r, r.plan[i].de) /\ DeSaCarte(r, r.plan[i].vers)
  BY <1>8, <1>11, <1>12
<1>. QED BY <1>10, <1>11, <1>13, OuvrirBon

\* A refund in cash opens, with the tokens it read before its transaction.
LEMMA ViderBon ==
  ASSUME IInv, NEW q \in Requetes, NEW c \in Cartes, NEW vider \in BOOLEAN,
         Vider(q, c, vider)
  PROVE  IInv'
<1> DEFINE w == Bourse(c)
           S == IF w = Aucun THEN {} ELSE {m \in Monnaies : jeton[<<w, m>>] > 0}
<1>1. w \in Portefeuilles \cup {Aucun} /\ (w \in Ephemeres => w[1] = c)
  BY BourseBonne DEF IInv
<1>2. PICK ordre \in SetToSeqs(S) :
        Ouvrir(q, [Demande("vidage", c, w,
          [i \in DOMAIN ordre |->
             Mouvement("REFUND", w, Lieu, ordre[i], jeton[<<w, ordre[i]>>])])
          EXCEPT !.vider = vider])
  BY DEF Vider
<1> DEFINE mv == [m \in S |-> Mouvement("REFUND", w, Lieu, m, jeton[<<w, m>>])]
           plan == [i \in DOMAIN ordre |-> mv[ordre[i]]]
           r0 == Demande("vidage", c, w, plan)
           r == [r0 EXCEPT !.vider = vider]
<1>3. S \subseteq Monnaies /\ IsFiniteSet(S) /\ (S # {} => w # Aucun)
  <2>1. S \subseteq Monnaies /\ (S # {} => w # Aucun)
    OBVIOUS
  <2>. QED BY <2>1, MonnaiesConnues, FS_Subset
<1>4. mv \in [S -> Mouvements]
  <2>1. ASSUME NEW m \in S PROVE Mouvement("REFUND", w, Lieu, m, jeton[<<w, m>>]) \in Mouvements
    <3>1. m \in Monnaies /\ w \in Portefeuilles
      BY <1>1, <1>3
    <3>2. jeton[<<w, m>>] \in Nat
      BY <3>1 DEF IInv, Jetons
    <3>3. "REFUND" \in Actions /\ Lieu \in Portefeuilles
      BY DEF Actions, Portefeuilles
    <3>. QED BY <3>1, <3>2, <3>3, MouvementType
  <2>. QED BY <2>1
<1>5. /\ plan \in Seq(Mouvements) /\ Len(plan) = Cardinality(S)
      /\ DOMAIN ordre = 1..Cardinality(S) /\ \A i \in DOMAIN ordre : ordre[i] \in S
  <2>. HIDE DEF S, mv
  <2>. QED BY <1>2, <1>3, <1>4, PlanEnumere
<1>6. \A i \in 1..Len(plan) : plan[i].de = w /\ plan[i].vers = Lieu
  BY <1>5 DEF Mouvement
<1>7. plan = [i \in DOMAIN ordre |->
                Mouvement("REFUND", w, Lieu, ordre[i], jeton[<<w, ordre[i]>>])]
  BY <1>5
<1>8. /\ etat' = [etat EXCEPT ![q] = [r EXCEPT !.etape = EtapeDuRang(r.plan, 1)]]
      /\ UNCHANGED <<carte, jeton>>
  BY <1>2, <1>7 DEF Ouvrir, Vider
<1>. HIDE DEF plan, mv, S
<1>9. /\ r0 \in Etats /\ r0.rang = 1 /\ r0.op = "vidage" /\ r0.tient = {}
      /\ DOMAIN r0.ecrit = {} /\ r0.carte = c /\ r0.plan = plan
  <2>1. "vidage" \in Operations
    BY DEF Operations
  <2>2. r0 = Demande("vidage", c, w, plan) /\ c \in Cartes \cup {Aucun}
    OBVIOUS
  <2>. HIDE DEF w, r0
  <2>. QED BY <1>1, <1>5, <2>1, <2>2, DemandeType
<1>. HIDE DEF r0
<1>10. /\ r \in Etats /\ r.rang = 1 /\ r.op = "vidage" /\ r.tient = {}
       /\ DOMAIN r.ecrit = {} /\ r.carte = c /\ r.plan = plan
  BY <1>9 DEF Etats
<1>11. DeSaCarte(r, w) /\ DeSaCarte(r, Lieu)
  BY <1>1, <1>10, PortefeuillesDistincts DEF DeSaCarte
<1>. HIDE DEF r, w
<1>12. \A i \in 1..Len(r.plan) : DeSaCarte(r, r.plan[i].de) /\ DeSaCarte(r, r.plan[i].vers)
  BY <1>6, <1>10, <1>11
<1>. QED BY <1>8, <1>10, <1>12, OuvrirBon

-----------------------------------------------------------------------------
(* The requests on a card.                                                      *)

\* A scan opens the wallet of an unknown card.
LEMMA ScannerBon ==
  ASSUME IInv, NEW q \in Requetes, NEW c \in Cartes, Scanner(q, c)
  PROVE  IInv'
<1> DEFINE w == <<c, carte[c].vie>>
           r == Demande("scan", c, w, <<>>)
           e == [r EXCEPT !.etape = "fedow"]
<1>1. w \in Ephemeres /\ w[1] = c /\ w \in Portefeuilles
  BY MonnaiesConnues DEF Scanner, IInv, CartesBonnes, Ephemeres, Portefeuilles
<1>2. etat' = [etat EXCEPT ![q] = e] /\ UNCHANGED <<carte, jeton>>
  BY DEF Scanner
<1>3. <<>> \in Seq(Mouvements) /\ Len(<<>>) = 0
  BY EmptySeq
<1>4. /\ r \in Etats /\ r.op = "scan" /\ r.carte = c /\ r.bourse = w /\ r.tient = {}
      /\ DOMAIN r.ecrit = {} /\ r.plan = <<>>
  <2>1. "scan" \in Operations
    BY DEF Operations
  <2> DEFINE p == <<>>
  <2>2. r = Demande("scan", c, w, p) /\ c \in Cartes \cup {Aucun} /\ p \in Seq(Mouvements)
    BY <1>3
  <2>. HIDE DEF w, r, p
  <2>3. /\ r \in Etats /\ r.op = "scan" /\ r.carte = c /\ r.bourse = w /\ r.tient = {}
        /\ DOMAIN r.ecrit = {} /\ r.plan = p
    BY <1>1, <2>1, <2>2, DemandeType
  <2>. QED BY <2>3 DEF p
<1>. HIDE DEF r, w
<1>5. /\ e \in Etats /\ e.etape = "fedow" /\ e.op = "scan" /\ e.carte = c /\ e.bourse = w
      /\ e.tient = {} /\ DOMAIN e.ecrit = {} /\ e.plan = <<>>
  BY <1>4 DEF Etats, Etapes
<1>. HIDE DEF e
<1>6. EtatBon(e)
  BY <1>1, <1>3, <1>5 DEF EtatBon, RangBon, PourSaCarte
<1>. QED BY <1>2, <1>5, <1>6, UneSeuleRequete DEF Exclusifs

\* A card declared lost takes its lock.
LEMMA DeclarerPerdueBon ==
  ASSUME IInv, NEW q \in Requetes, NEW c \in Cartes, DeclarerPerdue(q, c)
  PROVE  IInv'
<1> DEFINE r == Demande("perte", c, Aucun, <<>>)
           e == [r EXCEPT !.etape = "perte"]
<1>1. etat' = [etat EXCEPT ![q] = e] /\ UNCHANGED <<carte, jeton>>
  BY DEF DeclarerPerdue
<1>2. <<>> \in Seq(Mouvements) /\ Len(<<>>) = 0
  BY EmptySeq
<1>3. /\ r \in Etats /\ r.op = "perte" /\ r.carte = c /\ r.tient = {}
      /\ DOMAIN r.ecrit = {} /\ r.plan = <<>>
  <2>1. "perte" \in Operations
    BY DEF Operations
  <2> DEFINE p == <<>>
             rien == Aucun
  <2>2. /\ r = Demande("perte", c, rien, p) /\ c \in Cartes \cup {Aucun}
        /\ rien \in Portefeuilles \cup {Aucun} /\ p \in Seq(Mouvements)
    BY <1>2
  <2>. HIDE DEF r, p, rien
  <2>3. /\ r \in Etats /\ r.op = "perte" /\ r.carte = c /\ r.tient = {}
        /\ DOMAIN r.ecrit = {} /\ r.plan = p
    BY <2>1, <2>2, DemandeType
  <2>. QED BY <2>3 DEF p
<1>. HIDE DEF r
<1>4. /\ e \in Etats /\ e.etape = "perte" /\ e.op = "perte" /\ e.carte = c
      /\ e.tient = {} /\ DOMAIN e.ecrit = {} /\ e.plan = <<>>
  BY <1>3 DEF Etats, Etapes
<1>. HIDE DEF e
<1>5. EtatBon(e)
  BY <1>2, <1>4 DEF EtatBon, RangBon, PourSaCarte
<1>. QED BY <1>1, <1>4, <1>5, UneSeuleRequete DEF Exclusifs

\* The link reads the card under its lock: what it will have to move is what the
\* wallet holds now.
LEMMA VerrouillerLaCarteBon ==
  ASSUME IInv, NEW q \in Requetes, NEW c \in Cartes, NEW u \in Personnes,
         VerrouillerLaCarte(q, c, u)
  PROVE  IInv'
<1> DEFINE w == carte[c].ephemere
           pleins == IF w = Aucun THEN {} ELSE {m \in Monnaies : jeton[<<w, m>>] > 0}
           r == Demande("liaison", c, w, <<>>)
           d == Liaison(c, u)
           e == [d EXCEPT !.tient = {c}]
<1>1. CASE carte[c].user # Aucun \/ UserADejaUneAutreCarte(c, u)
  <2>1. etat' = [etat EXCEPT ![q] = Finie] /\ UNCHANGED <<carte, jeton>>
    BY <1>1 DEF VerrouillerLaCarte
  <2>. QED BY <2>1, ReposBon, UneSeuleRequete DEF Exclusifs
<1>2. CASE ~(carte[c].user # Aucun \/ UserADejaUneAutreCarte(c, u))
  <2>1. etat' = [etat EXCEPT ![q] = e] /\ UNCHANGED <<carte, jeton>>
    BY <1>2 DEF VerrouillerLaCarte
  <2>2. <<>> \in Seq(Mouvements) /\ Len(<<>>) = 0
    BY EmptySeq
  <2>3. /\ w \in Portefeuilles \cup {Aucun} /\ carte[c].user = Aucun
        /\ pleins \in SUBSET Monnaies
    BY <1>2 DEF IInv, CartesBonnes, Portefeuilles
  <2>4. /\ r \in Etats /\ r.op = "liaison" /\ r.carte = c /\ r.bourse = w /\ r.rang = 1
        /\ r.tient = {} /\ DOMAIN r.ecrit = {} /\ r.plan = <<>>
    <3>1. "liaison" \in Operations
      BY DEF Operations
    <3> DEFINE p == <<>>
    <3>2. /\ r = Demande("liaison", c, w, p) /\ c \in Cartes \cup {Aucun}
          /\ p \in Seq(Mouvements)
      BY <2>2
    <3>. HIDE DEF w, r, p
    <3>3. /\ r \in Etats /\ r.op = "liaison" /\ r.carte = c /\ r.bourse = w /\ r.rang = 1
          /\ r.tient = {} /\ DOMAIN r.ecrit = {} /\ r.plan = p
      BY <2>3, <3>1, <3>2, DemandeType
    <3>. QED BY <3>3 DEF p
  <2>5. d = [r EXCEPT !.etape = "jetons", !.qui = u, !.aVerrouiller = pleins]
    BY DEF Liaison
  <2>. HIDE DEF r, d, pleins
  <2>6. /\ d \in Etats /\ d.etape = "jetons" /\ d.op = "liaison" /\ d.carte = c /\ d.qui = u
        /\ d.bourse = w /\ d.plan = <<>> /\ d.rang = 1 /\ d.aVerrouiller = pleins
        /\ DOMAIN d.ecrit = {}
    BY <2>3, <2>4, <2>5 DEF Etats, Etapes
  <2>7. /\ e \in Etats /\ e.etape = "jetons" /\ e.op = "liaison" /\ e.carte = c /\ e.qui = u
        /\ e.bourse = w /\ e.plan = <<>> /\ e.rang = 1 /\ e.aVerrouiller = pleins
        /\ DOMAIN e.ecrit = {} /\ e.tient = {c}
    BY <2>6 DEF Etats
  <2>. HIDE DEF e, w
  <2>8. EnLiaison(e)
    BY <2>2, <2>3, <2>7 DEF EnLiaison, pleins, w
  <2>9. Couverte(e)
    <3>1. ASSUME w # Aucun, NEW m \in Monnaies PROVE jeton[<<w, m>>] = 0 \/ m \in pleins
      <4>1. jeton[<<w, m>>] \in Nat
        BY <2>3, <3>1 DEF IInv, Jetons
      <4>. QED BY <3>1, <4>1 DEF pleins
    <3>. QED BY <2>7, <3>1 DEF Couverte
  <2>10. EtatBon(e)
    BY <2>2, <2>7, <2>8, <2>9 DEF EtatBon, RangBon, PourSaCarte
  <2>11. \A autre \in Requetes \ {q} : Exclusifs(e, etat[autre])
    BY <2>7 DEF Exclusifs, VerrouillerLaCarte, Verrouillee
  <2>. QED BY <2>1, <2>7, <2>10, <2>11, UneSeuleRequete
<1>. QED BY <1>1, <1>2

\* Each token locked joins the plan with what it holds, or is empty.
LEMMA VerrouillerUnJetonBon ==
  ASSUME IInv, NEW q \in Requetes, VerrouillerUnJeton(q)
  PROVE  IInv'
<1> DEFINE d == etat[q]
<1>1. d \in Etats /\ EtatBon(d) /\ d.etape = "jetons" /\ EnLiaison(d) /\ Couverte(d)
  BY DEF IInv, VerrouillerUnJeton, EtatBon
<1>2. PICK m \in d.aVerrouiller :
        /\ ~Verrouillee(q, <<d.bourse, m>>)
        /\ etat' = [etat EXCEPT ![q] = AFusionner(d, m, jeton[<<d.bourse, m>>])]
  BY DEF VerrouillerUnJeton
<1> DEFINE w == d.bourse
           ligne == <<w, m>>
           x == jeton[ligne]
           mv == Mouvement("FUSION", w, d.qui, m, x)
           e == AFusionner(d, m, x)
<1>3. /\ m \in Monnaies /\ w # Aucun /\ w \in Portefeuilles /\ w \in Ephemeres /\ w[1] = d.carte
      /\ d.carte \in Cartes /\ d.qui \in Personnes /\ d.plan \in Seq(Mouvements)
  <2>1. m \in Monnaies /\ d.carte \in Cartes /\ d.qui \in Personnes /\ w # Aucun
        /\ d.plan \in Seq(Mouvements)
    BY <1>1, <1>2 DEF Etats, EtatBon, PourSaCarte, EnLiaison
  <2>2. w = carte[d.carte].ephemere
    BY <1>1 DEF EnLiaison
  <2>. QED BY <2>1, <2>2 DEF IInv, CartesBonnes, Portefeuilles
<1>4. ligne \in Jetons /\ x \in Nat
  BY <1>3 DEF IInv, Jetons
<1>5. mv \in Mouvements
  <2>1. "FUSION" \in Actions /\ d.qui \in Portefeuilles
    BY <1>3 DEF Actions, Portefeuilles
  <2>. QED BY <1>3, <1>4, <2>1, MouvementType
<1> DEFINE suivants == IF x > 0 THEN Append(d.plan, mv) ELSE d.plan
<1>6. /\ suivants \in Seq(Mouvements) /\ Len(suivants) >= Len(d.plan)
      /\ \A i \in 1..Len(d.plan) : i \in 1..Len(suivants) /\ suivants[i] = d.plan[i]
      /\ \A i \in 1..Len(suivants) : i \in 1..Len(d.plan) \/ suivants[i] = mv
      /\ x > 0 => Len(suivants) \in 1..Len(suivants) /\ suivants[Len(suivants)] = mv
  <2>. HIDE DEF mv, d, x
  <2>1. Len(d.plan) \in Nat
    BY <1>3, LenProperties
  <2>. QED BY <1>3, <1>5, <2>1, AppendProperties
<1>. HIDE DEF suivants
<1>7. /\ e \in Etats /\ e.etape = "jetons" /\ e.op = d.op /\ e.carte = d.carte
      /\ e.qui = d.qui /\ e.bourse = w /\ e.plan = suivants /\ e.rang = d.rang
      /\ e.aVerrouiller = d.aVerrouiller \ {m} /\ e.tient = d.tient \cup {ligne}
      /\ e.ecrit = d.ecrit
  <2>1. e = [d EXCEPT !.aVerrouiller = @ \ {m}, !.tient = @ \cup {ligne}, !.plan = suivants]
    BY DEF AFusionner, suivants
  <2>. HIDE DEF e, d, ligne
  <2>. QED BY <1>1, <1>4, <1>6, <2>1 DEF Etats, w
<1>. HIDE DEF e
<1>8. mv.action = "FUSION" /\ mv.de = w /\ mv.vers = d.qui /\ mv.monnaie = m /\ mv.montant = x
  BY DEF Mouvement
<1>. HIDE DEF mv
<1>9. PourSaCarte(e)
  <2>1. DeSaCarte(e, w) /\ DeSaCarte(e, d.qui)
    BY <1>3, <1>7, PortefeuillesDistincts DEF DeSaCarte
  <2>2. PourSaCarte(d)
    BY <1>1 DEF EtatBon
  <2>3. ASSUME NEW i \in 1..Len(e.plan)
        PROVE  DeSaCarte(e, e.plan[i].de) /\ DeSaCarte(e, e.plan[i].vers)
    BY <1>6, <1>7, <1>8, <2>1, <2>2 DEF PourSaCarte, DeSaCarte
  <2>4. \A l \in DOMAIN e.ecrit : DeSaCarte(e, l[1])
    BY <1>7, <2>2 DEF PourSaCarte, DeSaCarte
  <2>5. e.carte \in Cartes /\ e.etape = "jetons"
    BY <1>3, <1>7
  <2>. QED BY <2>3, <2>4, <2>5, Zenon DEF PourSaCarte
<1>10. EnLiaison(e)
  <2>1. ASSUME NEW i \in 1..Len(e.plan)
        PROVE  /\ e.plan[i].action = "FUSION" /\ e.plan[i].de = e.bourse /\ e.plan[i].vers = e.qui
               /\ e.plan[i].montant = jeton[<<e.bourse, e.plan[i].monnaie>>]
    BY <1>1, <1>6, <1>7, <1>8 DEF EnLiaison
  <2>2. \A l \in DOMAIN e.ecrit : l[1] = e.bourse => e.ecrit[l] = 0
    BY <1>1, <1>7 DEF EnLiaison
  <2>. HIDE DEF ligne, x
  <2>. QED BY <1>1, <1>3, <1>7, <2>1, <2>2 DEF EnLiaison
<1>11. Couverte(e)
  <2>1. d.rang = 1 /\ Len(suivants) \in Nat
    BY <1>1, <1>6, LenProperties DEF EnLiaison
  <2>2. ASSUME NEW y \in Monnaies
        PROVE  \/ jeton[<<w, y>>] = 0
               \/ <<w, y>> \in DOMAIN e.ecrit
               \/ y \in e.aVerrouiller
               \/ \E i \in 1..Len(e.plan) : i >= e.rang /\ e.plan[i].monnaie = y
    <3>1. CASE y = m
      <4>1. CASE x > 0
        <5>1. Len(suivants) >= 1 /\ suivants[Len(suivants)].monnaie = m
          BY <1>6, <1>8, <4>1
        <5>. QED BY <1>6, <1>7, <2>1, <3>1, <4>1, <5>1
      <4>2. CASE ~(x > 0)
        BY <1>4, <3>1, <4>2
      <4>. QED BY <4>1, <4>2
    <3>2. CASE y # m
      <4>1. \/ jeton[<<w, y>>] = 0
            \/ <<w, y>> \in DOMAIN d.ecrit
            \/ y \in d.aVerrouiller
            \/ \E i \in 1..Len(d.plan) : i >= d.rang /\ d.plan[i].monnaie = y
        BY <1>1, <1>3 DEF Couverte
      <4>. QED BY <1>6, <1>7, <3>2, <4>1
    <3>. QED BY <3>1, <3>2
  <2>. QED BY <1>7, <2>2 DEF Couverte
<1>12. EtatBon(e)
  BY <1>1, <1>7, <1>9, <1>10, <1>11 DEF EtatBon, RangBon
<1>13. \A autre \in Requetes \ {q} : Exclusifs(e, etat[autre])
  BY <1>2, <1>7 DEF Exclusifs, IInv, Verrouillee
<1>14. etat' = [etat EXCEPT ![q] = e] /\ UNCHANGED <<carte, jeton>>
  BY <1>2 DEF VerrouillerUnJeton, e
<1>. QED BY <1>7, <1>12, <1>13, <1>14, UneSeuleRequete

\* The plan of a link moves every token of the wallet, under the locks of those tokens.
LEMMA FusionnerBon ==
  ASSUME IInv, NEW q \in Requetes, Fusionner(q)
  PROVE  IInv'
<1> DEFINE d == etat[q]
           suite == EtapeDuRang(d.plan, 1)
           e == [d EXCEPT !.etape = suite]
<1>1. /\ d \in Etats /\ EtatBon(d) /\ d.etape = "jetons" /\ d.op = "liaison"
      /\ EnLiaison(d) /\ Couverte(d) /\ d.aVerrouiller = {}
  BY DEF IInv, Fusionner, EtatBon
<1>2. d.plan \in Seq(Mouvements) /\ d.rang = 1 /\ 1 \in Nat \ {0}
  BY <1>1 DEF Etats, EnLiaison
<1>3. /\ suite \in {"debit", "credit", "ecrire", "valider"}
      /\ suite # "valider" => 1 \in 1..Len(d.plan)
      /\ suite = "valider" => 1 > Len(d.plan)
  BY <1>2, EtapeBonne
<1>4. suite \in {"debit", "valider"}
  <2>1. ASSUME 1 \in 1..Len(d.plan) PROVE suite = "debit" \/ suite = "valider"
    <3>1. d.plan[1].action = "FUSION"
      BY <1>1, <2>1 DEF EnLiaison
    <3>. QED BY <3>1 DEF EtapeDuRang, SansDebit
  <2>. QED BY <1>3, <2>1
<1>5. suite \in Etapes
  BY <1>4 DEF Etapes
<1>6. etat' = [etat EXCEPT ![q] = e] /\ UNCHANGED <<carte, jeton>>
  BY DEF Fusionner, IInv
<1>. HIDE DEF suite
<1>7. /\ e \in Etats /\ e.etape = suite /\ e.op = d.op /\ e.carte = d.carte
      /\ e.qui = d.qui /\ e.bourse = d.bourse /\ e.plan = d.plan /\ e.rang = d.rang
      /\ e.aVerrouiller = d.aVerrouiller /\ e.tient = d.tient /\ e.ecrit = d.ecrit
  BY <1>1, <1>5 DEF Etats
<1>. HIDE DEF e
<1>8. RangBon(e)
  BY <1>2, <1>3, <1>7 DEF RangBon
<1>9. PourSaCarte(e)
  <2>1. PourSaCarte(d) /\ d.carte \in Cartes
    BY <1>1 DEF EtatBon, PourSaCarte
  <2>. HIDE DEF d
  <2>2. /\ \A i \in 1..Len(e.plan) : DeSaCarte(e, e.plan[i].de) /\ DeSaCarte(e, e.plan[i].vers)
        /\ \A l \in DOMAIN e.ecrit : DeSaCarte(e, l[1])
    BY <1>7, <2>1 DEF PourSaCarte, DeSaCarte
  <2>3. e.carte \in Cartes /\ e.etape # "fedow"
    BY <1>3, <1>7, <2>1
  <2>. QED BY <2>2, <2>3, Zenon DEF PourSaCarte
<1>10. EnLiaison(e)
  BY <1>1, <1>2, <1>3, <1>4, <1>7 DEF EnLiaison
<1>11. Couverte(e)
  BY <1>1, <1>7 DEF Couverte
<1>12. EtatBon(e)
  BY <1>1, <1>3, <1>4, <1>7, <1>8, <1>9, <1>10, <1>11 DEF EtatBon
<1>13. \A autre \in Requetes \ {q} : Exclusifs(e, etat[autre])
  BY <1>7 DEF Exclusifs, IInv
<1>. QED BY <1>6, <1>7, <1>12, <1>13, UneSeuleRequete

\* A request that dies gives up what it wrote and the locks it holds.
LEMMA AvorterBon ==
  ASSUME IInv, NEW q \in Requetes, Avorter(q)
  PROVE  IInv'
BY ReposBon, UneSeuleRequete DEF Avorter, Exclusifs

-----------------------------------------------------------------------------
(* The steps that write a card or the tokens.                                   *)

\* The rows of cards.
LignesDeCarte == [user : Personnes \cup {Aucun}, ephemere : Ephemeres \cup {Aucun},
                  vie : Nat \ {0}]

\* Writing a card nobody holds keeps the invariant: a link holds its card.
LEMMA CarteChangee ==
  ASSUME IInv, NEW q \in Requetes, NEW c \in Cartes, ~Verrouillee(q, c),
         NEW e \in Etats, EtatBon(e), e.op # "liaison", e.tient = {},
         NEW ligne \in LignesDeCarte, ligne.ephemere # Aucun => ligne.ephemere[1] = c,
         carte' = [carte EXCEPT ![c] = ligne], jeton' = jeton,
         etat' = [etat EXCEPT ![q] = e]
  PROVE  IInv'
<1>1. etat' \in [Requetes -> Etats] /\ etat'[q] = e
      /\ \A autre \in Requetes \ {q} : etat'[autre] = etat[autre]
  BY DEF IInv
<1>2. CartesBonnes' /\ jeton' \in [Jetons -> Nat]
  BY DEF IInv, CartesBonnes, LignesDeCarte
<1>3. EtatBon(etat[q])'
  BY <1>1 DEF EtatBon, RangBon, PourSaCarte, DeSaCarte
<1>4. ASSUME NEW r \in Requetes \ {q} PROVE EtatBon(etat[r])'
  <2>1. EtatBon(etat[r]) /\ etat'[r] = etat[r]
    BY <1>1 DEF IInv
  <2>2. ASSUME etat[r].op = "liaison" PROVE carte'[etat[r].carte] = carte[etat[r].carte]
    <3>1. etat[r].carte \in etat[r].tient /\ etat[r].carte \in Cartes
      BY <2>1, <2>2 DEF EtatBon, EnLiaison, PourSaCarte
    <3>2. etat[r].carte # c
      BY <3>1 DEF Verrouillee
    <3>. QED BY <3>1, <3>2 DEF IInv, CartesBonnes
  <2>. QED BY <2>1, <2>2 DEF EtatBon, RangBon, PourSaCarte, DeSaCarte, EnLiaison, Couverte
<1>5. ASSUME NEW r \in Requetes, NEW autre \in Requetes, r # autre
      PROVE  Exclusifs(etat[r], etat[autre])'
  BY <1>1, <1>5 DEF IInv, Exclusifs
<1>. QED BY <1>1, <1>2, <1>3, <1>4, <1>5 DEF IInv

\* A link writes the owner on the card it has locked.
LEMMA RattacherBon ==
  ASSUME IInv, NEW q \in Requetes, Rattacher(q)
  PROVE  IInv'
<1> DEFINE d == etat[q]
           c == d.carte
           w == d.bourse
           ligne == [carte[c] EXCEPT !.ephemere = w]
<1>1. d \in Etats /\ c \in Cartes /\ w \in Ephemeres /\ w[1] = c
  BY DEF IInv, Rattacher, EtatBon, PourSaCarte
<1>2. /\ carte' = [carte EXCEPT ![c] = ligne] /\ jeton' = jeton
      /\ ligne \in LignesDeCarte /\ ligne.ephemere = w
  <2>1. carte[c] \in LignesDeCarte
    BY <1>1 DEF IInv, CartesBonnes, LignesDeCarte
  <2>2. carte' = [carte EXCEPT ![c] = ligne] /\ jeton' = jeton
    BY DEF Rattacher
  <2>. HIDE DEF c, w
  <2>. QED BY <1>1, <2>1, <2>2 DEF LignesDeCarte
<1>3. ~Verrouillee(q, c)
  BY DEF Rattacher
<1>4. CASE etat' = [etat EXCEPT ![q] = Finie]
  <2>1. Finie.op # "liaison"
    BY DEF Finie, Repos
  <2>. HIDE DEF c, w, ligne, d
  <2>. QED BY <1>1, <1>2, <1>3, <1>4, <2>1, ReposBon, CarteChangee
<1>5. CASE etat' # [etat EXCEPT ![q] = Finie]
  <2>1. PICK m \in Monnaies, montant \in Recharges :
          etat' = [etat EXCEPT ![q] =
            [RechargeDe(c, w, m, montant) EXCEPT
               !.etape = EtapeDuRang(RechargeDe(c, w, m, montant).plan, 1)]]
    BY <1>5 DEF Rattacher
  <2> DEFINE r == RechargeDe(c, w, m, montant)
             e == [r EXCEPT !.etape = EtapeDuRang(r.plan, 1)]
  <2>2. w \in Portefeuilles
    BY <1>1 DEF Portefeuilles
  <2>3. /\ r \in Etats /\ r.rang = 1 /\ r.op = "recharge" /\ r.tient = {}
        /\ DOMAIN r.ecrit = {}
        /\ \A i \in 1..Len(r.plan) : DeSaCarte(r, r.plan[i].de) /\ DeSaCarte(r, r.plan[i].vers)
    <3>. HIDE DEF c, w
    <3>. QED BY <1>1, <2>2, RechargeType
  <2>4. etat' = [etat EXCEPT ![q] = e]
    BY <2>1
  <2>. HIDE DEF r
  <2>5. e \in Etats /\ EtatBon(e) /\ e.tient = {} /\ e.op = "recharge"
    BY <2>3, OuvertBon
  <2>. HIDE DEF e, c, w, ligne, d
  <2>. QED BY <1>1, <1>2, <1>3, <2>4, <2>5, CarteChangee
<1>. QED BY <1>4, <1>5

\* The row of a card set back to blank.
LEMMA ViergeType ==
  ASSUME CartesBonnes, NEW c \in Cartes
  PROVE  /\ Vierge(c) \in LignesDeCarte
         /\ Vierge(c).user = Aucun /\ Vierge(c).ephemere = Aucun
<1>1. carte[c].vie + 1 \in Nat \ {0}
  BY DEF CartesBonnes
<1>. QED BY <1>1 DEF Vierge, LignesDeCarte

\* A lost card is cleared under its lock.
LEMMA DetacherBon ==
  ASSUME IInv, NEW q \in Requetes, Detacher(q)
  PROVE  IInv'
<1> DEFINE c == etat[q].carte
           ligne == Vierge(c)
<1>1. c \in Cartes /\ ~Verrouillee(q, c)
  BY DEF IInv, Detacher, EtatBon, PourSaCarte
<1>2. ligne \in LignesDeCarte /\ ligne.ephemere = Aucun
  BY <1>1, ViergeType DEF IInv
<1>3. /\ carte' = [carte EXCEPT ![c] = ligne] /\ jeton' = jeton
      /\ etat' = [etat EXCEPT ![q] = Finie]
  BY DEF Detacher
<1>4. Finie.op # "liaison"
  BY DEF Finie, Repos
<1>. HIDE DEF c, ligne
<1>. QED BY <1>1, <1>2, <1>3, <1>4, ReposBon, CarteChangee

-----------------------------------------------------------------------------
(* The commit.                                                                  *)

\* What a request writes on the cards: its own card only, whose holder is set by
\* a link when it had none, and is otherwise kept or removed.
LEMMA CarteEcriteBonne ==
  ASSUME IInv, NEW q \in Requetes, etat[q].etape = "valider"
  PROVE  /\ CarteEcrite(q) \in [Cartes -> LignesDeCarte]
         /\ \A c \in Cartes : CarteEcrite(q)[c].ephemere # Aucun
                              => CarteEcrite(q)[c].ephemere[1] = c
         /\ \A c \in Cartes \ {etat[q].carte} : CarteEcrite(q)[c] = carte[c]
         /\ \A c \in Cartes : \/ CarteEcrite(q)[c].user \in {carte[c].user, Aucun}
                              \/ /\ etat[q].op = "liaison" /\ c = etat[q].carte
                                 /\ carte[c].user = Aucun
<1> DEFINE d == etat[q]
           x == d.carte
<1>1. d \in Etats /\ EtatBon(d)
  BY DEF IInv
<1>2. /\ carte \in [Cartes -> LignesDeCarte]
      /\ \A c \in Cartes : carte[c].ephemere # Aucun => carte[c].ephemere[1] = c
  BY DEF IInv, CartesBonnes, LignesDeCarte
<1>3. CASE d.op = "liaison"
  <2> DEFINE ligne == [carte[x] EXCEPT !.user = d.qui, !.ephemere = Aucun]
  <2>1. x \in Cartes /\ d.qui \in Personnes /\ carte[x].user = Aucun
    BY <1>1, <1>3 DEF EtatBon, PourSaCarte, EnLiaison
  <2>2. CarteEcrite(q) = [carte EXCEPT ![x] = ligne]
    BY <1>2, <1>3, <2>1 DEF CarteEcrite
  <2>3. ligne \in LignesDeCarte /\ ligne.ephemere = Aucun
    BY <1>2, <2>1 DEF LignesDeCarte
  <2>. HIDE DEF ligne
  <2>. QED BY <1>2, <1>3, <2>1, <2>2, <2>3
<1>4. CASE d.op = "vidage" /\ d.vider
  <2> DEFINE ligne == Vierge(x)
  <2>1. x \in Cartes
    BY <1>1, <1>4 DEF EtatBon, PourSaCarte
  <2>2. CarteEcrite(q) = [carte EXCEPT ![x] = ligne]
    BY <1>4 DEF CarteEcrite
  <2>3. ligne \in LignesDeCarte /\ ligne.ephemere = Aucun /\ ligne.user = Aucun
    BY <2>1, ViergeType DEF IInv
  <2>. HIDE DEF ligne
  <2>. QED BY <1>2, <2>1, <2>2, <2>3
<1>5. CASE d.op # "liaison" /\ ~(d.op = "vidage" /\ d.vider)
  <2>1. CarteEcrite(q) = carte
    BY <1>5 DEF CarteEcrite
  <2>. QED BY <1>2, <2>1
<1>. QED BY <1>3, <1>4, <1>5

\* A commit leaves the card and the wallet of every other link as they were.
LEMMA ValiderLaisseLesLiaisons ==
  ASSUME IInv, NEW q \in Requetes, Valider(q), NEW r \in Requetes \ {q},
         etat[r].op = "liaison"
  PROVE  /\ carte'[etat[r].carte] = carte[etat[r].carte]
         /\ etat[r].bourse # Aucun =>
              \A m \in Monnaies : jeton'[<<etat[r].bourse, m>>] = jeton[<<etat[r].bourse, m>>]
<1> DEFINE d == etat[q]
           l == etat[r]
<1>1. /\ d \in Etats /\ EtatBon(d) /\ l \in Etats /\ EtatBon(l)
      /\ l.carte \in l.tient /\ l.carte \in Cartes /\ carte[l.carte].ephemere = l.bourse
  BY DEF IInv, EtatBon, EnLiaison, PourSaCarte
<1>2. l.carte # d.carte
  BY <1>1 DEF Valider, Verrouillee
<1>3. carte'[l.carte] = carte[l.carte]
  BY <1>1, <1>2, CarteEcriteBonne DEF Valider
<1>4. ASSUME l.bourse # Aucun, NEW m \in Monnaies
      PROVE  jeton'[<<l.bourse, m>>] = jeton[<<l.bourse, m>>]
  <2> DEFINE ligne == <<l.bourse, m>>
  <2>1. l.bourse \in Ephemeres /\ l.bourse[1] = l.carte
    BY <1>1, <1>4 DEF IInv, CartesBonnes
  <2>2. ligne \in Jetons
    BY <2>1 DEF Jetons, Portefeuilles
  <2>3. \A autre \in DOMAIN d.ecrit : DeSaCarte(d, autre[1])
    BY <1>1 DEF EtatBon, PourSaCarte
  <2>4. ligne \notin DOMAIN d.ecrit
    <3>1. ligne[1] = l.bourse
      OBVIOUS
    <3>. HIDE DEF ligne, d, l
    <3>. QED BY <1>2, <2>1, <2>3, <3>1 DEF DeSaCarte
  <2>. QED BY <2>2, <2>4 DEF Valider, Valeur
<1>. QED BY <1>3, <1>4

\* A commit: the plan written becomes the balances.
LEMMA ValiderBon ==
  ASSUME IInv, NEW q \in Requetes, Valider(q)
  PROVE  IInv'
<1>1. etat' = [etat EXCEPT ![q] = Finie]
  BY DEF Valider
<1>2. etat' \in [Requetes -> Etats] /\ etat'[q] = Finie
      /\ \A autre \in Requetes \ {q} : etat'[autre] = etat[autre]
  BY <1>1, ReposBon DEF IInv
<1>3. CartesBonnes'
  <2>1. etat[q].etape = "valider" /\ carte' = CarteEcrite(q)
    BY DEF Valider
  <2>. QED BY <2>1, CarteEcriteBonne DEF CartesBonnes, LignesDeCarte
<1>4. jeton' \in [Jetons -> Nat]
  <2>1. etat[q].ecrit \in Ecrits
    BY DEF IInv, Etats
  <2>2. ASSUME NEW ligne \in Jetons PROVE Valeur(q, ligne) \in Nat
    BY <2>1 DEF Valeur, Ecrits, IInv
  <2>. QED BY <2>2 DEF Valider
<1>5. EtatBon(etat[q])'
  <2>1. EtatBon(Finie) /\ Finie.op # "liaison"
    BY ReposBon DEF Finie, Repos
  <2>. QED BY <1>2, <2>1 DEF EtatBon, RangBon, PourSaCarte, DeSaCarte
<1>6. ASSUME NEW r \in Requetes \ {q} PROVE EtatBon(etat[r])'
  <2> DEFINE l == etat[r]
  <2>1. EtatBon(l) /\ etat'[r] = l /\ l \in Etats
    BY <1>2 DEF IInv
  <2>2. ASSUME l.op = "liaison" PROVE (EnLiaison(l) /\ Couverte(l))'
    <3>1. EnLiaison(l) /\ Couverte(l)
      BY <2>1, <2>2 DEF EtatBon
    <3>2. /\ carte'[l.carte] = carte[l.carte]
          /\ l.bourse # Aucun => \A m \in Monnaies : jeton'[<<l.bourse, m>>] = jeton[<<l.bourse, m>>]
      BY <2>2, ValiderLaisseLesLiaisons
    <3>3. l.plan \in Seq(Mouvements)
      BY <2>1 DEF Etats
    <3>4. ASSUME NEW i \in 1..Len(l.plan)
          PROVE  l.plan[i].montant = jeton'[<<l.bourse, l.plan[i].monnaie>>]
      <4>1. l.plan[i] \in Mouvements /\ l.plan[i].de = l.bourse
            /\ l.plan[i].montant = jeton[<<l.bourse, l.plan[i].monnaie>>]
        BY <3>1, <3>3 DEF EnLiaison
      <4>2. l.plan[i].monnaie \in Monnaies /\ l.bourse # Aucun
        BY <4>1, PortefeuillesDistincts DEF Mouvements
      <4>. QED BY <3>2, <4>1, <4>2
    <3>5. EnLiaison(etat[r])'
      <4>. HIDE DEF l
      <4>. QED BY <2>1, <3>1, <3>2, <3>4 DEF EnLiaison, l
    <3>6. Couverte(etat[r])'
      BY <2>1, <3>1, <3>2 DEF Couverte
    <3>. QED BY <2>1, <3>5, <3>6
  <2>3. (l.op = "liaison" => EnLiaison(etat[r]) /\ Couverte(etat[r]))'
    BY <2>1, <2>2
  <2>. QED BY <2>1, <2>3 DEF EtatBon, RangBon, PourSaCarte, DeSaCarte
<1>7. ASSUME NEW r \in Requetes, NEW autre \in Requetes, r # autre
      PROVE  Exclusifs(etat[r], etat[autre])'
  BY <1>2, <1>7, ReposBon DEF IInv, Exclusifs
<1>. QED BY <1>2, <1>3, <1>4, <1>5, <1>6, <1>7 DEF IInv

-----------------------------------------------------------------------------
(* The theorems.                                                                *)

\* The invariant holds at the start.
LEMMA InitBon == Init => IInv
<1> SUFFICES ASSUME Init PROVE IInv
  OBVIOUS
<1>1. CartesBonnes
  <2>1. 1 \in Nat \ {0} /\ 1 \in 1..MaxVies
    BY MonnaiesConnues
  <2>2. \A c \in Cartes : <<c, 1>> \in Ephemeres /\ <<c, 1>>[1] = c
    BY <2>1 DEF Ephemeres
  <2>. QED BY <2>1, <2>2 DEF Init, CartesBonnes
<1>2. jeton \in [Jetons -> Nat]
  BY MontantsEntiers DEF Init
<1>3. etat \in [Requetes -> Etats] /\ \A q \in Requetes : etat[q] = Repos
  BY ReposBon DEF Init
<1>4. \A q, autre \in Requetes : Exclusifs(etat[q], etat[autre])
  BY <1>3, ReposBon DEF Exclusifs
<1>5. \A q \in Requetes : EtatBon(etat[q])
  <2>1. EtatBon(Repos)
    BY ReposBon
  <2>. QED BY <1>3, <2>1, Zenon
<1>. QED BY <1>1, <1>2, <1>3, <1>4, <1>5, Zenon DEF IInv

\* Every step preserves it: one case per action.
LEMMA NextBon == IInv /\ [Next]_vars => IInv'
<1> SUFFICES ASSUME IInv, [Next]_vars PROVE IInv'
  OBVIOUS
<1>1. CASE UNCHANGED vars
  <2>1. carte' = carte /\ jeton' = jeton /\ etat' = etat
    BY <1>1 DEF vars
  <2>2. ASSUME NEW q \in Requetes PROVE EtatBon(etat[q])'
    <3>1. EtatBon(etat[q])
      BY DEF IInv
    <3>. QED BY <2>1, <3>1 DEF EtatBon, RangBon, PourSaCarte, DeSaCarte, EnLiaison, Couverte
  <2>3. CartesBonnes' /\ (jeton \in [Jetons -> Nat])' /\ (etat \in [Requetes -> Etats])'
    BY <2>1 DEF IInv, CartesBonnes
  <2>4. ASSUME NEW q \in Requetes, NEW autre \in Requetes, q # autre
        PROVE  Exclusifs(etat[q], etat[autre])'
    BY <2>1, <2>4 DEF IInv, Exclusifs
  <2>. QED BY <2>2, <2>3, <2>4 DEF IInv
<1>2. ASSUME NEW q \in Requetes, Recevoir(q) PROVE IInv'
  BY <1>2, VendreBon, RechargerBon, ScannerBon, DeclarerPerdueBon, ViderBon,
     VerrouillerLaCarteBon, VirerBon DEF Recevoir
<1>3. ASSUME NEW q \in Requetes, Continuer(q) PROVE IInv'
  BY <1>3, DebiterBon, CrediterBon, EcrireSansMouvementBon, VerrouillerUnJetonBon,
     FusionnerBon, RattacherBon, DetacherBon, ValiderBon, AvorterBon DEF Continuer
<1>. QED BY <1>1, <1>2, <1>3 DEF Next

\* The inductive invariant holds in every state.
LEMMA Invariant == Spec => []IInv
BY InitBon, NextBon, PTL DEF Spec

\* The state keeps its declared shape, no token goes below zero, and no row is
\* held by two transactions, for any number of requests (services.py 458-525).
THEOREM TypeCorrect == Spec => []TypeOK
<1>1. IInv => TypeOK
  BY DEF IInv, CartesBonnes, TypeOK, Exclusifs
<1>. QED BY <1>1, Invariant, PTL

\* The steps other than the commit keep or remove the holder of a card.
LEMMA HorsDuCommit ==
  ASSUME IInv, NEW q \in Requetes, Recevoir(q) \/ Continuer(q), ~Valider(q), NEW c \in Cartes
  PROVE  carte'[c].user \in {carte[c].user, Aucun}
<1>1. carte \in [Cartes -> LignesDeCarte]
  BY DEF IInv, CartesBonnes, LignesDeCarte
<1>2. CASE Rattacher(q)
  BY <1>1, <1>2 DEF Rattacher, LignesDeCarte
<1>3. CASE Detacher(q)
  <2>1. carte' = [carte EXCEPT ![etat[q].carte] = Vierge(etat[q].carte)]
    BY <1>3 DEF Detacher
  <2>. QED BY <1>1, <2>1 DEF Vierge
<1>4. CASE Recevoir(q)
  <2>1. carte' = carte
    BY <1>4 DEF Recevoir, Vendre, Recharger, Scanner, DeclarerPerdue, Vider,
                VerrouillerLaCarte, Virer
  <2>. QED BY <2>1
<1>5. CASE Continuer(q) /\ ~Rattacher(q) /\ ~Detacher(q)
  <2>1. carte' = carte
    BY <1>5 DEF Continuer, Debiter, Crediter, EcrireSansMouvement, VerrouillerUnJeton,
                Fusionner, Avorter
  <2>. QED BY <2>1
<1>. QED BY <1>2, <1>3, <1>4, <1>5

\* A holder is set only on a card that has none, whatever links, losses, refunds
\* and attachments run at once: lier_a_user tests the holder under the lock of
\* the card, and only it sets one (services.py 1392-1432).
THEOREM TitulaireGarde == Spec => TitulaireJamaisRemplace
<1> DEFINE Suite == \A c \in Cartes : carte[c].user # Aucun =>
                    carte'[c].user \in {carte[c].user, Aucun}
<1>1. IInv /\ [Next]_vars => [Suite]_vars
  <2> SUFFICES ASSUME IInv, NEW q \in Requetes, Recevoir(q) \/ Continuer(q),
                      NEW c \in Cartes, carte[c].user # Aucun
               PROVE  carte'[c].user \in {carte[c].user, Aucun}
    BY DEF Next
  <2>1. CASE Valider(q)
    BY <2>1, CarteEcriteBonne DEF Valider
  <2>2. CASE ~Valider(q)
    BY <2>2, HorsDuCommit
  <2>. QED BY <2>1, <2>2
<1>. QED BY <1>1, Invariant, PTL DEF Spec, TitulaireJamaisRemplace

\* The wallet a link detaches from its card is empty when the link commits,
\* whatever top-ups, sales and refunds of the card run meanwhile
\* (fusionner_wallet_ephemere 426-452, lier_a_user 1432).
THEOREM FusionComplete == Spec => FusionEntiere
<1> DEFINE Suite == \A c \in Cartes :
                    (carte[c].user = Aucun /\ carte[c].ephemere # Aucun /\ carte'[c].user # Aucun)
                    => \A m \in Monnaies : jeton'[<<carte[c].ephemere, m>>] = 0
<1>1. IInv /\ [Next]_vars => [Suite]_vars
  <2> SUFFICES ASSUME IInv, NEW q \in Requetes, Recevoir(q) \/ Continuer(q),
                      NEW c \in Cartes, carte[c].user = Aucun, carte[c].ephemere # Aucun,
                      carte'[c].user # Aucun, NEW m \in Monnaies
               PROVE  jeton'[<<carte[c].ephemere, m>>] = 0
    BY DEF Next
  <2> DEFINE d == etat[q]
             ligne == <<carte[c].ephemere, m>>
  <2>1. Valider(q)
    BY HorsDuCommit
  <2>2. d.op = "liaison" /\ c = d.carte /\ d.etape = "valider"
    BY <2>1, CarteEcriteBonne DEF Valider
  <2>3. d \in Etats /\ EnLiaison(d) /\ Couverte(d)
    BY <2>2 DEF IInv, EtatBon
  <2>4. /\ d.bourse = carte[c].ephemere /\ d.aVerrouiller = {} /\ d.rang > Len(d.plan)
        /\ \A l \in DOMAIN d.ecrit : l[1] = d.bourse => d.ecrit[l] = 0
    BY <2>2, <2>3 DEF EnLiaison
  <2>5. ~ \E i \in 1..Len(d.plan) : i >= d.rang /\ d.plan[i].monnaie = m
    <3>1. d.rang \in Nat /\ Len(d.plan) \in Nat
      BY <2>3, LenProperties DEF Etats
    <3>. QED BY <2>4, <3>1
  <2>6. jeton[ligne] = 0 \/ ligne \in DOMAIN d.ecrit
    BY <2>3, <2>4, <2>5 DEF Couverte
  <2>7. ligne \in Jetons
    BY DEF IInv, CartesBonnes, Jetons, Portefeuilles
  <2>8. ligne \in DOMAIN d.ecrit => d.ecrit[ligne] = 0
    BY <2>4
  <2>. QED BY <2>1, <2>6, <2>7, <2>8 DEF Valider, Valeur
<1>. QED BY <1>1, Invariant, PTL DEF Spec, FusionEntiere

-----------------------------------------------------------------------------
(* The ledger: GrandLivre is implemented.                                       *)
(*                                                                              *)
(* The argument: a transaction locks each token it writes and keeps the lock to *)
(* its commit, so the committed value below its writes never moves.  Its own    *)
(* value of the token is then, at each of its steps, the committed one plus and *)
(* minus its rows, and what the movement being played has already taken.        *)

\* The movement being played has already debited a token, that it has not credited yet.
Pris(e, ligne) ==
  /\ e.etape = "credit" /\ e.plan[e.rang].action \notin SansDebit
  /\ ligne = <<e.plan[e.rang].de, e.plan[e.rang].monnaie>>

Retenu(e, ligne) == IF Pris(e, ligne) THEN e.plan[e.rang].montant ELSE 0

\* A row moves a token.
Touche(t, ligne) ==
  \/ <<t.de, t.monnaie>> = ligne /\ t.action \notin SansDebit
  \/ <<t.vers, t.monnaie>> = ligne /\ t.action \notin SansCredit

\* What a row adds to a token, and what it takes from it.
Recu(t, w, m) ==
  IF t.vers = w /\ t.monnaie = m /\ t.action \notin SansCredit THEN t.montant ELSE 0
Donne(t, w, m) ==
  IF t.de = w /\ t.monnaie = m /\ t.action \notin SansDebit THEN t.montant ELSE 0

\* The step of a movement is one that its action has.
EtapeJuste(e) ==
  /\ e.etape = "debit" => e.plan[e.rang].action \notin SansDebit
  /\ e.etape = "credit" => e.plan[e.rang].action \notin SansCredit
  /\ e.etape = "ecrire" => e.plan[e.rang].action \in SansDebit \cap SansCredit

\* What a transaction wrote on a token of committed value v is what its rows, and
\* the movement being played, make of v.
Suivie(e, ligne, v) ==
  IF ligne \in DOMAIN e.ecrit
  THEN e.ecrit[ligne] + Livre!Debits(e.lignes, ligne[1], ligne[2]) + Retenu(e, ligne)
         = v + Livre!Credits(e.lignes, ligne[1], ligne[2])
  ELSE ~Pris(e, ligne) /\ \A t \in e.lignes : ~Touche(t, ligne)

\* The account a transaction keeps: its rows, its writes and its locks agree.
Tenue(q, e, soldes) ==
  /\ EtapeJuste(e)
  /\ IsFiniteSet(e.lignes)
  /\ \A t \in e.lignes : t.requete = q /\ t.rang < e.rang
  /\ e.etape \in {"neuve", "fedow", "perte", "jetons", "finie"} =>
       e.lignes = {} /\ DOMAIN e.ecrit = {}
  /\ DOMAIN e.ecrit \subseteq e.tient
  /\ \A ligne \in Jetons : Suivie(e, ligne, soldes[ligne])

\* The rows committed are of requests that are over.
Passees == \A t \in registre : t.requete \in Requetes /\ etat[t.requete].etape = "finie"

Comptes ==
  /\ Passees
  /\ \A q \in Requetes : Tenue(q, etat[q], jeton)

\* The steps that a plan opens with, or goes on with, suit the action of the movement.
LEMMA EtapeDuRangJuste ==
  ASSUME NEW plan, NEW rang
  PROVE  /\ EtapeDuRang(plan, rang) = "debit" => plan[rang].action \notin SansDebit
         /\ EtapeDuRang(plan, rang) = "credit" =>
              plan[rang].action \notin SansCredit /\ plan[rang].action \in SansDebit
         /\ EtapeDuRang(plan, rang) = "ecrire" => plan[rang].action \in SansDebit \cap SansCredit
BY DEF EtapeDuRang

\* The sum of the ledger is the one whose lemmas are in Sommes.
LEMMA SommeDuLivre ==
  ASSUME NEW f
  PROVE  Livre!SumFunction(f) = SumFunctionOnSet(f, DOMAIN f)
BY Zenon DEF Livre!SumFunction, Livre!SumFunctionOnSet, SumFunctionOnSet,
             Livre!FoldFunctionOnSet, FoldFunctionOnSet,
             Livre!MapThenFoldSet, MapThenFoldSet

\* A total is a natural.
LEMMA TotalNaturel ==
  ASSUME NEW L, IsFiniteSet(L), \A t \in L : t.montant \in Nat
  PROVE  Livre!Total(L) \in Nat
<1> DEFINE f == [t \in L |-> t.montant]
<1>1. DOMAIN f = L /\ \A t \in L : f[t] \in Nat
  OBVIOUS
<1>2. Livre!Total(L) = SumFunctionOnSet(f, L)
  BY <1>1, SommeDuLivre DEF Livre!Total
<1>. HIDE DEF f
<1>. QED BY <1>1, <1>2, SommeNaturelle

\* One row more adds its amount.
LEMMA TotalAjout ==
  ASSUME NEW L, IsFiniteSet(L), NEW t, t \notin L, \A u \in L \cup {t} : u.montant \in Nat
  PROVE  Livre!Total(L \cup {t}) = Livre!Total(L) + t.montant
<1> DEFINE M == L \cup {t}
           f == [u \in M |-> u.montant]
           g == [u \in L |-> u.montant]
<1>1. DOMAIN f = M /\ DOMAIN g = L /\ f[t] = t.montant
      /\ (\A u \in M : f[u] \in Int) /\ \A u \in L : g[u] = f[u]
  OBVIOUS
<1>2. Livre!Total(M) = SumFunctionOnSet(f, M) /\ Livre!Total(L) = SumFunctionOnSet(g, L)
  BY <1>1, SommeDuLivre DEF Livre!Total
<1>. HIDE DEF f, g
<1>3. SumFunctionOnSet(g, L) = SumFunctionOnSet(f, L)
  BY <1>1, SommeEgale
<1>4. SumFunctionOnSet(f, M) = SumFunctionOnSet(f, L) + f[t]
  BY <1>1, SommeAjout
<1>. QED BY <1>1, <1>2, <1>3, <1>4

\* What some rows credit and debit are naturals.
LEMMA CreditsNaturels ==
  ASSUME NEW L, IsFiniteSet(L), \A t \in L : t.montant \in Nat, NEW w, NEW m
  PROVE  Livre!Credits(L, w, m) \in Nat /\ Livre!Debits(L, w, m) \in Nat
<1> DEFINE C == {t \in L : t.vers = w /\ t.monnaie = m /\ t.action \notin SansCredit}
           D == {t \in L : t.de = w /\ t.monnaie = m /\ t.action \notin SansDebit}
<1>1. /\ IsFiniteSet(C) /\ \A t \in C : t.montant \in Nat
      /\ IsFiniteSet(D) /\ \A t \in D : t.montant \in Nat
  BY FS_Subset
<1>2. Livre!Credits(L, w, m) = Livre!Total(C) /\ Livre!Debits(L, w, m) = Livre!Total(D)
  BY DEF Livre!Credits, Livre!Debits
<1>. HIDE DEF C, D
<1>. QED BY <1>1, <1>2, TotalNaturel

\* No row credits nor debits a token that none touches.
LEMMA SansMouvement ==
  ASSUME NEW L, NEW ligne, \A t \in L : ~Touche(t, ligne), ligne = <<ligne[1], ligne[2]>>
  PROVE  Livre!Credits(L, ligne[1], ligne[2]) = 0 /\ Livre!Debits(L, ligne[1], ligne[2]) = 0
<1> DEFINE w == ligne[1]
           m == ligne[2]
           C == {t \in L : t.vers = w /\ t.monnaie = m /\ t.action \notin SansCredit}
           D == {t \in L : t.de = w /\ t.monnaie = m /\ t.action \notin SansDebit}
<1>1. C = {} /\ D = {}
  BY DEF Touche
<1>2. Livre!Credits(L, w, m) = Livre!Total(C) /\ Livre!Debits(L, w, m) = Livre!Total(D)
  BY DEF Livre!Credits, Livre!Debits
<1>3. Livre!Total({}) = 0
  <2> DEFINE f == [t \in {} |-> t.montant]
  <2>1. Livre!Total({}) = SumFunctionOnSet(f, {})
    BY SommeDuLivre DEF Livre!Total
  <2>. HIDE DEF f
  <2>. QED BY <2>1, SommeVide
<1>. QED BY <1>1, <1>2, <1>3

\* What one row more credits and debits.
LEMMA LigneDePlus ==
  ASSUME NEW L, IsFiniteSet(L), NEW t, t \notin L, \A u \in L \cup {t} : u.montant \in Nat,
         NEW w, NEW m
  PROVE  /\ Livre!Credits(L \cup {t}, w, m) = Livre!Credits(L, w, m) + Recu(t, w, m)
         /\ Livre!Debits(L \cup {t}, w, m) = Livre!Debits(L, w, m) + Donne(t, w, m)
<1> DEFINE M == L \cup {t}
           C(X) == {u \in X : u.vers = w /\ u.monnaie = m /\ u.action \notin SansCredit}
           D(X) == {u \in X : u.de = w /\ u.monnaie = m /\ u.action \notin SansDebit}
<1>1. /\ IsFiniteSet(C(L)) /\ IsFiniteSet(D(L)) /\ t \notin C(L) /\ t \notin D(L)
      /\ \A u \in C(L) \cup {t} : u.montant \in Nat
      /\ \A u \in D(L) \cup {t} : u.montant \in Nat
  BY FS_Subset
<1>2. /\ C(M) = IF t.vers = w /\ t.monnaie = m /\ t.action \notin SansCredit
                THEN C(L) \cup {t} ELSE C(L)
      /\ D(M) = IF t.de = w /\ t.monnaie = m /\ t.action \notin SansDebit
                THEN D(L) \cup {t} ELSE D(L)
  OBVIOUS
<1>3. /\ Livre!Credits(M, w, m) = Livre!Total(C(M))
      /\ Livre!Credits(L, w, m) = Livre!Total(C(L))
      /\ Livre!Debits(M, w, m) = Livre!Total(D(M))
      /\ Livre!Debits(L, w, m) = Livre!Total(D(L))
  BY DEF Livre!Credits, Livre!Debits
<1>. HIDE DEF C, D
<1>4. /\ Livre!Total(C(L) \cup {t}) = Livre!Total(C(L)) + t.montant
      /\ Livre!Total(D(L) \cup {t}) = Livre!Total(D(L)) + t.montant
      /\ Livre!Total(C(L)) \in Nat /\ Livre!Total(D(L)) \in Nat
  BY <1>1, TotalAjout, TotalNaturel
<1>. QED BY <1>2, <1>3, <1>4 DEF Recu, Donne

-----------------------------------------------------------------------------
(* Each step keeps the accounts.                                                *)

\* A request that has written nothing keeps its account.
LEMMA RienEcrit ==
  ASSUME NEW q, NEW e, e.lignes = {}, DOMAIN e.ecrit = {}, EtapeJuste(e),
         e.etape = "credit" => e.plan[e.rang].action \in SansDebit, NEW soldes
  PROVE  Tenue(q, e, soldes)
<1>1. \A ligne \in Jetons : Suivie(e, ligne, soldes[ligne])
  BY DEF Suivie, Pris
<1>. QED BY <1>1, FS_EmptySet DEF Tenue

\* A request that is over has no account.
LEMMA FinieTenue ==
  ASSUME NEW q, NEW soldes
  PROVE  Tenue(q, Finie, soldes) /\ Finie.etape = "finie"
<1>1. Finie.lignes = {} /\ Finie.etape = "finie" /\ DOMAIN Finie.ecrit = {}
  BY DEF Finie, Repos
<1>2. EtapeJuste(Finie)
  BY <1>1 DEF EtapeJuste
<1>. QED BY <1>1, <1>2, RienEcrit

\* A step of one request that commits nothing.
LEMMA UnSeulCompte ==
  ASSUME IInv, Comptes, NEW q \in Requetes, NEW e, Tenue(q, e, jeton),
         etat[q].etape = "finie" => e.etape = "finie",
         etat' = [etat EXCEPT ![q] = e], jeton' = jeton, registre' = registre
  PROVE  Comptes'
<1>1. etat'[q] = e /\ \A r \in Requetes \ {q} : etat'[r] = etat[r]
  BY DEF IInv
<1>2. ASSUME NEW r \in Requetes PROVE Tenue(r, etat'[r], jeton')
  BY <1>1 DEF Comptes
<1>3. Passees'
  BY <1>1 DEF Comptes, Passees
<1>. QED BY <1>2, <1>3 DEF Comptes

\* A request opens.
LEMMA OuvrirTenu ==
  ASSUME IInv, Comptes, NEW q \in Requetes, NEW op, NEW c, NEW w, NEW plan, NEW v, NEW r,
         r \in {Demande(op, c, w, plan), [Demande(op, c, w, plan) EXCEPT !.vider = v]},
         Ouvrir(q, r), jeton' = jeton, registre' = registre
  PROVE  Comptes'
<1> DEFINE suite == EtapeDuRang(r.plan, 1)
           e == [r EXCEPT !.etape = suite]
<1>1. etat[q].etape = "neuve" /\ etat' = [etat EXCEPT ![q] = e]
  BY DEF Ouvrir
<1>2. /\ suite = "debit" => r.plan[1].action \notin SansDebit
      /\ suite = "credit" => r.plan[1].action \notin SansCredit /\ r.plan[1].action \in SansDebit
      /\ suite = "ecrire" => r.plan[1].action \in SansDebit \cap SansCredit
  BY EtapeDuRangJuste
<1>. HIDE DEF suite
<1>3. /\ e.etape = suite /\ e.plan = r.plan /\ e.rang = 1 /\ e.lignes = {}
      /\ DOMAIN e.ecrit = {}
  <2>1. CASE r = Demande(op, c, w, plan)
    BY <2>1 DEF Demande, Repos
  <2>2. CASE r = [Demande(op, c, w, plan) EXCEPT !.vider = v]
    BY <2>2 DEF Demande, Repos
  <2>. QED BY <2>1, <2>2
<1>. HIDE DEF e
<1>4. EtapeJuste(e)
  BY <1>2, <1>3 DEF EtapeJuste
<1>5. Tenue(q, e, jeton)
  BY <1>2, <1>3, <1>4, RienEcrit
<1>. QED BY <1>1, <1>5, UnSeulCompte

\* The requests that open.
LEMMA RecevoirTenu ==
  ASSUME IInv, Comptes, NEW q \in Requetes, Recevoir(q)
  PROVE  Comptes'
<1>1. ASSUME NEW c \in Cartes, NEW prix \in Prix, Vendre(q, c, prix) PROVE Comptes'
  <2>1. jeton' = jeton /\ registre' = registre
    BY <1>1 DEF Vendre
  <2>2. PICK plan : Ouvrir(q, Demande("vente", c, Bourse(c), plan))
    BY <1>1 DEF Vendre
  <2>3. PICK r : r = Demande("vente", c, Bourse(c), plan) /\ Ouvrir(q, r)
    BY <2>2
  <2>. QED BY <2>1, <2>3, OuvrirTenu
<1>2. ASSUME NEW c \in Cartes, NEW m \in Monnaies, NEW montant \in Recharges,
             Recharger(q, c, m, montant)
      PROVE  Comptes'
  <2>1. PICK r, plan : r = Demande("recharge", c, Bourse(c), plan) /\ Ouvrir(q, r)
    BY <1>2 DEF Recharger, RechargeDe
  <2>. QED BY <1>2, <2>1, OuvrirTenu DEF Recharger
<1>3. ASSUME NEW montant \in Recharges, Virer(q, montant) PROVE Comptes'
  <2>1. PICK r, plan : r = Demande("virement", Aucun, Aucun, plan) /\ Ouvrir(q, r)
    BY <1>3 DEF Virer
  <2>. QED BY <1>3, <2>1, OuvrirTenu DEF Virer
<1>4. ASSUME NEW c \in Cartes, NEW vider \in BOOLEAN, Vider(q, c, vider) PROVE Comptes'
  <2>1. jeton' = jeton /\ registre' = registre
    BY <1>4 DEF Vider
  <2>2. PICK plan :
          Ouvrir(q, [Demande("vidage", c, Bourse(c), plan) EXCEPT !.vider = vider])
    BY <1>4, Zenon DEF Vider
  <2>3. PICK r : r = [Demande("vidage", c, Bourse(c), plan) EXCEPT !.vider = vider]
                 /\ Ouvrir(q, r)
    BY <2>2
  <2>. QED BY <2>1, <2>3, OuvrirTenu
<1>5. ASSUME NEW c \in Cartes, Scanner(q, c) \/ DeclarerPerdue(q, c) PROVE Comptes'
  <2>1. PICK e : /\ etat' = [etat EXCEPT ![q] = e]
                 /\ e.lignes = {} /\ DOMAIN e.ecrit = {} /\ e.etape \in {"fedow", "perte"}
    <3>1. CASE Scanner(q, c)
      <4> DEFINE w == <<c, carte[c].vie>>
                 e == [Demande("scan", c, w, <<>>) EXCEPT !.etape = "fedow"]
      <4>1. etat' = [etat EXCEPT ![q] = e]
        BY <3>1 DEF Scanner
      <4>. HIDE DEF w
      <4>2. e.lignes = {} /\ DOMAIN e.ecrit = {} /\ e.etape = "fedow"
        BY DEF Demande, Repos
      <4>. HIDE DEF e
      <4>. QED BY <4>1, <4>2
    <3>2. CASE DeclarerPerdue(q, c)
      <4> DEFINE e == [Demande("perte", c, Aucun, <<>>) EXCEPT !.etape = "perte"]
      <4>1. etat' = [etat EXCEPT ![q] = e]
        BY <3>2 DEF DeclarerPerdue
      <4>2. e.lignes = {} /\ DOMAIN e.ecrit = {} /\ e.etape = "perte"
        BY DEF Demande, Repos
      <4>. HIDE DEF e
      <4>. QED BY <4>1, <4>2
    <3>. QED BY <1>5, <3>1, <3>2
  <2>2. EtapeJuste(e)
    BY <2>1 DEF EtapeJuste
  <2>3. Tenue(q, e, jeton)
    BY <2>1, <2>2, RienEcrit
  <2>4. etat[q].etape = "neuve" /\ jeton' = jeton /\ registre' = registre
    BY <1>5 DEF Scanner, DeclarerPerdue
  <2>. QED BY <2>1, <2>3, <2>4, UnSeulCompte
<1>6. ASSUME NEW c \in Cartes, NEW u \in Personnes, VerrouillerLaCarte(q, c, u) PROVE Comptes'
  <2>1. etat[q].etape = "neuve" /\ jeton' = jeton /\ registre' = registre
    BY <1>6 DEF VerrouillerLaCarte
  <2>2. CASE etat' = [etat EXCEPT ![q] = Finie]
    BY <2>1, <2>2, FinieTenue, UnSeulCompte
  <2>3. CASE etat' = [etat EXCEPT ![q] = [Liaison(c, u) EXCEPT !.tient = {c}]]
    <3> DEFINE w == carte[c].ephemere
               pleins == IF w = Aucun THEN {} ELSE {m \in Monnaies : jeton[<<w, m>>] > 0}
               e == [Liaison(c, u) EXCEPT !.tient = {c}]
    <3>1. Liaison(c, u) = [Demande("liaison", c, w, <<>>) EXCEPT !.etape = "jetons", !.qui = u,
                                                          !.aVerrouiller = pleins]
      BY DEF Liaison
    <3>. HIDE DEF w, pleins
    <3>2. e.lignes = {} /\ DOMAIN e.ecrit = {} /\ e.etape = "jetons"
      BY <3>1 DEF Demande, Repos
    <3>3. etat' = [etat EXCEPT ![q] = e]
      BY <2>3
    <3>. HIDE DEF e
    <3>4. EtapeJuste(e)
      BY <3>2 DEF EtapeJuste
    <3>5. Tenue(q, e, jeton)
      BY <3>2, <3>4, RienEcrit
    <3>. QED BY <2>1, <3>3, <3>5, UnSeulCompte
  <2>. QED BY <1>6, <2>2, <2>3 DEF VerrouillerLaCarte
<1>. QED BY <1>1, <1>2, <1>3, <1>4, <1>5, <1>6 DEF Recevoir

\* The steps of a link before its movements have written nothing.
LEMMA PreparerTenu ==
  ASSUME IInv, Comptes, NEW q \in Requetes, VerrouillerUnJeton(q) \/ Fusionner(q)
  PROVE  Comptes'
<1> DEFINE d == etat[q]
<1>1. /\ d \in Etats /\ d.etape = "jetons" /\ jeton' = jeton /\ registre' = registre
      /\ d.lignes = {} /\ DOMAIN d.ecrit = {}
  BY DEF IInv, Comptes, Tenue, VerrouillerUnJeton, Fusionner
<1>2. CASE VerrouillerUnJeton(q)
  <2>1. PICK m, x : etat' = [etat EXCEPT ![q] = AFusionner(d, m, x)]
    BY <1>2 DEF VerrouillerUnJeton
  <2> DEFINE e == AFusionner(d, m, x)
  <2>2. e.lignes = {} /\ DOMAIN e.ecrit = {} /\ e.etape = "jetons"
    <3>. HIDE DEF d
    <3>. QED BY <1>1 DEF AFusionner, Etats
  <2>. HIDE DEF e
  <2>3. EtapeJuste(e)
    BY <2>2 DEF EtapeJuste
  <2>4. Tenue(q, e, jeton)
    BY <2>2, <2>3, RienEcrit
  <2>. QED BY <1>1, <2>1, <2>4, UnSeulCompte DEF e
<1>3. CASE Fusionner(q)
  <2> DEFINE suite == EtapeDuRang(d.plan, 1)
             e == [d EXCEPT !.etape = suite]
  <2>1. etat' = [etat EXCEPT ![q] = e]
    BY <1>3 DEF Fusionner, IInv
  <2>2. d.rang = 1
    BY <1>1 DEF IInv, EtatBon, EnLiaison
  <2>3. /\ suite = "debit" => d.plan[1].action \notin SansDebit
        /\ suite = "credit" => d.plan[1].action \notin SansCredit /\ d.plan[1].action \in SansDebit
        /\ suite = "ecrire" => d.plan[1].action \in SansDebit \cap SansCredit
    BY EtapeDuRangJuste
  <2>. HIDE DEF suite
  <2>4. e.lignes = {} /\ DOMAIN e.ecrit = {} /\ e.etape = suite /\ e.plan = d.plan /\ e.rang = 1
    <3>. HIDE DEF d
    <3>. QED BY <1>1, <2>2 DEF Etats
  <2>. HIDE DEF e
  <2>5. EtapeJuste(e)
    BY <2>3, <2>4 DEF EtapeJuste
  <2>6. Tenue(q, e, jeton)
    BY <2>3, <2>4, <2>5, RienEcrit
  <2>. QED BY <1>1, <2>1, <2>6, UnSeulCompte
<1>. QED BY <1>2, <1>3

\* The debit of a movement: the token gives what the movement is still to credit.
LEMMA DebiterTenu ==
  ASSUME IInv, Comptes, NEW q \in Requetes, Debiter(q)
  PROVE  Comptes'
<1> DEFINE d == etat[q]
           m == Courant(q)
           ligne == <<m.de, m.monnaie>>
           v == Valeur(q, ligne) - m.montant
           e == Debite(d, ligne, v)
<1>1. /\ d \in Etats /\ EtatBon(d) /\ d.etape = "debit" /\ Tenue(q, d, jeton)
      /\ jeton' = jeton /\ registre' = registre
  BY DEF IInv, Comptes, Debiter
<1>2. d.rang \in 1..Len(d.plan) /\ m = d.plan[d.rang] /\ m \in Mouvements
  BY <1>1 DEF EtatBon, RangBon, Courant, Etats
<1>3. m.action \notin SansDebit
  BY <1>1, <1>2 DEF Tenue, EtapeJuste
<1>4. CASE etat' = [etat EXCEPT ![q] = Finie]
  BY <1>1, <1>4, FinieTenue, UnSeulCompte
<1>5. CASE etat' = [etat EXCEPT ![q] = e] /\ ~(Valeur(q, ligne) < m.montant)
  <2>1. ligne \in Jetons /\ ligne[1] = m.de /\ ligne[2] = m.monnaie
    BY <1>2 DEF Mouvements, Jetons
  <2>2. Valeur(q, ligne) \in Nat /\ m.montant \in Nat /\ v \in Nat
    <3>1. Valeur(q, ligne) \in Nat
      BY <1>1, <2>1 DEF Valeur, IInv, Etats, Ecrits
    <3>. QED BY <1>2, <1>5, <3>1 DEF Mouvements
  <2>3. /\ d.ecrit \in Ecrits /\ d.lignes \in SUBSET Lignes
    BY <1>1 DEF Etats
  <2>4. /\ DOMAIN Ecrire(d.ecrit, ligne, v) = DOMAIN d.ecrit \cup {ligne}
        /\ Ecrire(d.ecrit, ligne, v)[ligne] = v
        /\ \A l \in DOMAIN d.ecrit : l # ligne => Ecrire(d.ecrit, ligne, v)[l] = d.ecrit[l]
    <3>. HIDE DEF d, v, ligne
    <3>. QED BY <2>1, <2>2, <2>3, EcrireBon
  <2>5. /\ e.etape = "credit" /\ e.plan = d.plan /\ e.rang = d.rang /\ e.lignes = d.lignes
        /\ e.tient = d.tient \cup {ligne} /\ e.ecrit = Ecrire(d.ecrit, ligne, v)
    <3>. HIDE DEF d, v, ligne
    <3>. QED BY <1>1 DEF Debite, Ecrit, Etats
  <2>. HIDE DEF e
  <2>6. EtapeJuste(e)
    BY <1>2, <1>3, <2>5 DEF EtapeJuste, SansDebit, SansCredit
  <2>7. IsFiniteSet(d.lignes) /\ \A t \in d.lignes : t.montant \in Nat
    BY <1>1, <2>3 DEF Tenue, Lignes
  <2>8. ASSUME NEW l \in Jetons PROVE Suivie(e, l, jeton[l])
    <3>1. Suivie(d, l, jeton[l]) /\ jeton[l] \in Nat /\ l = <<l[1], l[2]>> /\ ~Pris(d, l)
      BY <1>1 DEF Tenue, IInv, Jetons, Pris
    <3>2. Pris(e, l) <=> l = ligne
      BY <1>2, <1>3, <2>5 DEF Pris
    <3>3. Retenu(d, l) = 0 /\ Retenu(e, l) = IF l = ligne THEN m.montant ELSE 0
      BY <1>2, <2>5, <3>1, <3>2 DEF Retenu
    <3>4. /\ Livre!Credits(d.lignes, l[1], l[2]) \in Nat
          /\ Livre!Debits(d.lignes, l[1], l[2]) \in Nat
      BY <2>7, CreditsNaturels
    <3>5. CASE l # ligne
      <4>. HIDE DEF d, m, v, ligne
      <4>. QED BY <2>4, <2>5, <3>1, <3>2, <3>3, <3>5 DEF Suivie
    <3>6. CASE l = ligne /\ ligne \in DOMAIN d.ecrit
      <4>1. Valeur(q, ligne) = d.ecrit[ligne]
        BY <3>6 DEF Valeur
      <4>2. d.ecrit[l] + Livre!Debits(d.lignes, l[1], l[2])
              = jeton[l] + Livre!Credits(d.lignes, l[1], l[2])
        BY <2>2, <3>1, <3>3, <3>4, <3>6, <4>1 DEF Suivie
      <4>3. e.ecrit[l] = d.ecrit[l] - m.montant /\ l \in DOMAIN e.ecrit
        BY <2>4, <2>5, <3>6, <4>1
      <4>4. d.ecrit[l] \in Nat
        BY <2>2, <3>6, <4>1
      <4>. HIDE DEF d, m, v, ligne
      <4>. QED BY <2>2, <2>5, <3>1, <3>3, <3>4, <3>6, <4>2, <4>3, <4>4 DEF Suivie
    <3>7. CASE l = ligne /\ ligne \notin DOMAIN d.ecrit
      <4>1. Valeur(q, ligne) = jeton[l]
        BY <3>7 DEF Valeur
      <4>2. /\ Livre!Debits(d.lignes, l[1], l[2]) = 0
            /\ Livre!Credits(d.lignes, l[1], l[2]) = 0
        BY <3>1, <3>7, SansMouvement DEF Suivie
      <4>3. e.ecrit[l] = jeton[l] - m.montant /\ l \in DOMAIN e.ecrit
        BY <2>4, <2>5, <3>7, <4>1
      <4>. HIDE DEF d, m, v, ligne
      <4>. QED BY <2>2, <2>5, <3>1, <3>3, <3>7, <4>2, <4>3 DEF Suivie
    <3>. QED BY <3>5, <3>6, <3>7
  <2>9. Tenue(q, e, jeton)
    <3>1. \A t \in e.lignes : t.requete = q /\ t.rang < e.rang
      BY <1>1, <2>5 DEF Tenue
    <3>2. IsFiniteSet(e.lignes) /\ DOMAIN e.ecrit \subseteq e.tient
      BY <1>1, <2>4, <2>5, <2>7 DEF Tenue
    <3>. HIDE DEF d, m, v, ligne
    <3>. QED BY <2>5, <2>6, <2>8, <3>1, <3>2 DEF Tenue
  <2>. HIDE DEF d
  <2>10. etat' = [etat EXCEPT ![q] = e] /\ etat[q].etape # "finie"
    BY <1>1, <1>5 DEF d
  <2>. QED BY <1>1, <2>9, <2>10, UnSeulCompte
<1>. QED BY <1>4, <1>5 DEF Debiter

\* The row of a movement joins the others.
LEMMA RangeeDePlus ==
  ASSUME IInv, Comptes, NEW q \in Requetes, etat[q].etape \in {"credit", "ecrire"}
  PROVE  LET d == etat[q]
             t == LigneEcrite(q)
         IN /\ IsFiniteSet(d.lignes) /\ t \notin d.lignes /\ IsFiniteSet(d.lignes \cup {t})
            /\ t.requete = q /\ t.rang = d.rang /\ t.action = Courant(q).action
            /\ t.de = Courant(q).de /\ t.vers = Courant(q).vers
            /\ t.monnaie = Courant(q).monnaie /\ t.montant = Courant(q).montant
            /\ \A u \in d.lignes \cup {t} : u.montant \in Nat
            /\ \A u \in d.lignes \cup {t} : u.requete = q /\ u.rang < d.rang + 1
<1> DEFINE d == etat[q]
           t == LigneEcrite(q)
<1>1. d \in Etats /\ EtatBon(d) /\ Tenue(q, d, jeton)
  BY DEF IInv, Comptes
<1>2. d.rang \in 1..Len(d.plan) /\ Courant(q) \in Mouvements /\ d.lignes \in SUBSET Lignes
      /\ d.rang \in Nat
  BY <1>1 DEF EtatBon, RangBon, Courant, Etats
<1>3. /\ t.requete = q /\ t.rang = d.rang /\ t.action = Courant(q).action
      /\ t.de = Courant(q).de /\ t.vers = Courant(q).vers
      /\ t.monnaie = Courant(q).monnaie /\ t.montant = Courant(q).montant
  BY DEF LigneEcrite
<1>4. \A u \in d.lignes : u.requete = q /\ u.rang < d.rang /\ u.rang \in Nat /\ u.montant \in Nat
  BY <1>1, <1>2 DEF Tenue, Lignes
<1>5. t.montant \in Nat
  BY <1>2, <1>3 DEF Mouvements
<1>. HIDE DEF t, d
<1>6. t \notin d.lignes
  BY <1>2, <1>3, <1>4
<1>7. IsFiniteSet(d.lignes) /\ IsFiniteSet(d.lignes \cup {t})
  BY <1>1, FS_AddElement DEF Tenue
<1>8. /\ \A u \in d.lignes \cup {t} : u.montant \in Nat
      /\ \A u \in d.lignes \cup {t} : u.requete = q /\ u.rang < d.rang + 1
  BY <1>2, <1>3, <1>4, <1>5
<1>. QED BY <1>3, <1>6, <1>7, <1>8 DEF d, t

\* The credit of a movement: its row tells what the two tokens gave and got.
LEMMA CrediterTenu ==
  ASSUME IInv, Comptes, NEW q \in Requetes, Crediter(q)
  PROVE  Comptes'
<1> DEFINE d == etat[q]
           m == Courant(q)
           ligne == <<m.vers, m.monnaie>>
           v == Valeur(q, ligne) + m.montant
           t == LigneEcrite(q)
           e1 == Ecrit(d, ligne, v)
           suite == EtapeDuRang(d.plan, d.rang + 1)
           e == Suivant(e1, t)
           L == d.lignes \cup {t}
<1>1. /\ d \in Etats /\ EtatBon(d) /\ d.etape = "credit" /\ Tenue(q, d, jeton)
      /\ jeton' = jeton /\ registre' = registre /\ etat' = [etat EXCEPT ![q] = e]
  BY DEF IInv, Comptes, Crediter
<1>2. d.rang \in 1..Len(d.plan) /\ m = d.plan[d.rang] /\ m \in Mouvements
  BY <1>1 DEF EtatBon, RangBon, Courant, Etats
<1>3. m.action \notin SansCredit
  BY <1>1, <1>2 DEF Tenue, EtapeJuste
<1>4. ligne \in Jetons
  BY <1>2 DEF Mouvements, Jetons
<1>5. Valeur(q, ligne) \in Nat /\ m.montant \in Nat /\ v \in Nat
  <2>1. Valeur(q, ligne) \in Nat
    BY <1>1, <1>4 DEF Valeur, IInv, Etats, Ecrits
  <2>. QED BY <1>2, <2>1 DEF Mouvements
<1>6. /\ DOMAIN Ecrire(d.ecrit, ligne, v) = DOMAIN d.ecrit \cup {ligne}
      /\ Ecrire(d.ecrit, ligne, v)[ligne] = v
      /\ \A l \in DOMAIN d.ecrit : l # ligne => Ecrire(d.ecrit, ligne, v)[l] = d.ecrit[l]
  <2>1. d.ecrit \in Ecrits
    BY <1>1 DEF Etats
  <2>. HIDE DEF d, v, ligne
  <2>. QED BY <1>4, <1>5, <2>1, EcrireBon
<1>7. /\ IsFiniteSet(d.lignes) /\ t \notin d.lignes /\ IsFiniteSet(L)
      /\ t.requete = q /\ t.rang = d.rang /\ t.action = m.action
      /\ t.de = m.de /\ t.vers = m.vers /\ t.monnaie = m.monnaie /\ t.montant = m.montant
      /\ \A u \in L : u.montant \in Nat
      /\ \A u \in L : u.requete = q /\ u.rang < d.rang + 1
  BY <1>1, RangeeDePlus
<1>8. /\ e.etape = suite /\ e.plan = d.plan /\ e.rang = d.rang + 1 /\ e.lignes = L
      /\ e.tient = d.tient \cup {ligne} /\ e.ecrit = Ecrire(d.ecrit, ligne, v)
  <2>. HIDE DEF d, v, ligne, t
  <2>. QED BY <1>1 DEF Suivant, Ecrit, Etats, suite
<1>9. /\ suite = "debit" => d.plan[d.rang + 1].action \notin SansDebit
      /\ suite = "credit" => /\ d.plan[d.rang + 1].action \notin SansCredit
                             /\ d.plan[d.rang + 1].action \in SansDebit
      /\ suite = "ecrire" => d.plan[d.rang + 1].action \in SansDebit \cap SansCredit
      /\ suite \in {"debit", "credit", "ecrire", "valider"}
  BY EtapeDuRangJuste DEF EtapeDuRang
<1>. HIDE DEF e, e1, t, suite
<1>10. EtapeJuste(e)
  BY <1>8, <1>9 DEF EtapeJuste
<1>11. ASSUME NEW l \in Jetons PROVE Suivie(e, l, jeton[l])
  <2>1. Suivie(d, l, jeton[l]) /\ jeton[l] \in Nat /\ l = <<l[1], l[2]>>
    BY <1>1 DEF Tenue, IInv, Jetons
  <2>2. ~Pris(e, l) /\ Retenu(e, l) = 0
    BY <1>8, <1>9 DEF Pris, Retenu
  <2>3. /\ Pris(d, l) <=> (l = <<m.de, m.monnaie>> /\ m.action \notin SansDebit)
        /\ Retenu(d, l) = IF l = <<m.de, m.monnaie>> /\ m.action \notin SansDebit
                          THEN m.montant ELSE 0
    BY <1>1, <1>2 DEF Pris, Retenu
  <2>4. /\ Livre!Credits(L, l[1], l[2]) = Livre!Credits(d.lignes, l[1], l[2])
              + (IF l = ligne THEN m.montant ELSE 0)
        /\ Livre!Debits(L, l[1], l[2]) = Livre!Debits(d.lignes, l[1], l[2]) + Retenu(d, l)
    <3>1. /\ IsFiniteSet(d.lignes) /\ t \notin d.lignes
          /\ \A u \in d.lignes \cup {t} : u.montant \in Nat
      BY <1>7
    <3>2. /\ Livre!Credits(L, l[1], l[2]) = Livre!Credits(d.lignes, l[1], l[2])
                                            + Recu(t, l[1], l[2])
          /\ Livre!Debits(L, l[1], l[2]) = Livre!Debits(d.lignes, l[1], l[2])
                                           + Donne(t, l[1], l[2])
      <4>. HIDE DEF d
      <4>. QED BY <3>1, LigneDePlus
    <3>3. /\ Recu(t, l[1], l[2]) = IF l = ligne THEN m.montant ELSE 0
          /\ Donne(t, l[1], l[2]) = Retenu(d, l)
      BY <1>3, <1>7, <2>1, <2>3 DEF Recu, Donne
    <3>. QED BY <3>2, <3>3
  <2>5. /\ Livre!Credits(d.lignes, l[1], l[2]) \in Nat
        /\ Livre!Debits(d.lignes, l[1], l[2]) \in Nat
    BY <1>7, CreditsNaturels
  <2>6. Retenu(d, l) \in Nat
    BY <1>5, <2>3
  <2>7. CASE l \in DOMAIN d.ecrit
    <3>1. d.ecrit[l] + Livre!Debits(d.lignes, l[1], l[2]) + Retenu(d, l)
            = jeton[l] + Livre!Credits(d.lignes, l[1], l[2])
      BY <2>1, <2>7 DEF Suivie
    <3>2. e.ecrit[l] = d.ecrit[l] + (IF l = ligne THEN m.montant ELSE 0)
      <4>1. CASE l = ligne
        BY <1>5, <1>6, <1>8, <2>7, <4>1 DEF Valeur
      <4>2. CASE l # ligne
        <5>1. d.ecrit[l] \in Nat
          BY <1>1, <2>7 DEF Etats, Ecrits
        <5>. QED BY <1>6, <1>8, <2>7, <4>2, <5>1
      <4>. QED BY <4>1, <4>2
    <3>3. l \in DOMAIN e.ecrit /\ d.ecrit[l] \in Nat
      BY <1>1, <1>6, <1>8, <2>7 DEF Etats, Ecrits
    <3>. HIDE DEF d, m, v, ligne, L
    <3>. QED BY <1>5, <1>8, <2>1, <2>2, <2>4, <2>5, <2>6, <3>1, <3>2, <3>3 DEF Suivie
  <2>8. CASE l \notin DOMAIN d.ecrit
    <3>1. ~Pris(d, l) /\ \A u \in d.lignes : ~Touche(u, l)
      BY <2>1, <2>8 DEF Suivie
    <3>2. CASE l = ligne
      <4>1. /\ Livre!Debits(d.lignes, l[1], l[2]) = 0
            /\ Livre!Credits(d.lignes, l[1], l[2]) = 0
        BY <2>1, <3>1, SansMouvement
      <4>2. Retenu(d, l) = 0
        BY <3>1 DEF Retenu
      <4>3. e.ecrit[l] = jeton[l] + m.montant /\ l \in DOMAIN e.ecrit
        BY <1>6, <1>8, <2>8, <3>2 DEF Valeur
      <4>. HIDE DEF d, m, v, ligne, L
      <4>. QED BY <1>5, <1>8, <2>1, <2>2, <2>4, <3>2, <4>1, <4>2, <4>3 DEF Suivie
    <3>3. CASE l # ligne
      <4>1. ~Touche(t, l)
        BY <1>7, <2>3, <3>1, <3>3 DEF Touche
      <4>2. l \notin DOMAIN e.ecrit
        BY <1>6, <1>8, <2>8, <3>3
      <4>. HIDE DEF d, m, v, ligne
      <4>. QED BY <1>8, <2>2, <3>1, <4>1, <4>2 DEF Suivie
    <3>. QED BY <3>2, <3>3
  <2>. QED BY <2>7, <2>8
<1>12. Tenue(q, e, jeton)
  <2>1. \A u \in e.lignes : u.requete = q /\ u.rang < e.rang
    BY <1>7, <1>8
  <2>2. IsFiniteSet(e.lignes) /\ DOMAIN e.ecrit \subseteq e.tient
    BY <1>1, <1>6, <1>7, <1>8 DEF Tenue
  <2>. HIDE DEF d, m, v, ligne, L
  <2>. QED BY <1>8, <1>9, <1>10, <1>11, <2>1, <2>2 DEF Tenue
<1>13. etat[q].etape # "finie"
  BY <1>1
<1>. QED BY <1>1, <1>12, <1>13, UnSeulCompte

\* The row of a bank transfer moves no token.
LEMMA EcrireSansMouvementTenu ==
  ASSUME IInv, Comptes, NEW q \in Requetes, EcrireSansMouvement(q)
  PROVE  Comptes'
<1> DEFINE d == etat[q]
           t == LigneEcrite(q)
           suite == EtapeDuRang(d.plan, d.rang + 1)
           e == Suivant(d, t)
           L == d.lignes \cup {t}
<1>1. /\ d \in Etats /\ d.etape = "ecrire" /\ Tenue(q, d, jeton)
      /\ jeton' = jeton /\ registre' = registre /\ etat' = [etat EXCEPT ![q] = e]
  BY DEF IInv, Comptes, EcrireSansMouvement
<1>2. Courant(q).action \in SansDebit \cap SansCredit
  BY <1>1 DEF Tenue, EtapeJuste, Courant
<1>3. /\ IsFiniteSet(d.lignes) /\ t \notin d.lignes /\ IsFiniteSet(L)
      /\ t.action = Courant(q).action
      /\ \A u \in L : u.montant \in Nat
      /\ \A u \in L : u.requete = q /\ u.rang < d.rang + 1
  BY <1>1, RangeeDePlus
<1>4. /\ e.etape = suite /\ e.plan = d.plan /\ e.rang = d.rang + 1 /\ e.lignes = L
      /\ e.tient = d.tient /\ e.ecrit = d.ecrit
  <2>. HIDE DEF d, t
  <2>. QED BY <1>1 DEF Suivant, Etats, suite
<1>5. /\ suite = "debit" => d.plan[d.rang + 1].action \notin SansDebit
      /\ suite = "credit" => /\ d.plan[d.rang + 1].action \notin SansCredit
                             /\ d.plan[d.rang + 1].action \in SansDebit
      /\ suite = "ecrire" => d.plan[d.rang + 1].action \in SansDebit \cap SansCredit
      /\ suite \in {"debit", "credit", "ecrire", "valider"}
  BY EtapeDuRangJuste DEF EtapeDuRang
<1>. HIDE DEF e, t, suite
<1>6. EtapeJuste(e)
  BY <1>4, <1>5 DEF EtapeJuste
<1>7. ASSUME NEW l \in Jetons PROVE Suivie(e, l, jeton[l])
  <2>1. Suivie(d, l, jeton[l]) /\ ~Pris(d, l) /\ Retenu(d, l) = 0
    BY <1>1 DEF Tenue, Pris, Retenu
  <2>2. ~Pris(e, l) /\ Retenu(e, l) = 0 /\ ~Touche(t, l)
    BY <1>2, <1>3, <1>4, <1>5 DEF Pris, Retenu, Touche
  <2>3. /\ Livre!Credits(L, l[1], l[2]) = Livre!Credits(d.lignes, l[1], l[2]) + 0
        /\ Livre!Debits(L, l[1], l[2]) = Livre!Debits(d.lignes, l[1], l[2]) + 0
    <3>1. /\ IsFiniteSet(d.lignes) /\ t \notin d.lignes
          /\ \A u \in d.lignes \cup {t} : u.montant \in Nat
      BY <1>3
    <3>2. /\ Livre!Credits(L, l[1], l[2]) = Livre!Credits(d.lignes, l[1], l[2])
                                            + Recu(t, l[1], l[2])
          /\ Livre!Debits(L, l[1], l[2]) = Livre!Debits(d.lignes, l[1], l[2])
                                           + Donne(t, l[1], l[2])
      <4>. HIDE DEF d
      <4>. QED BY <3>1, LigneDePlus
    <3>3. Recu(t, l[1], l[2]) = 0 /\ Donne(t, l[1], l[2]) = 0
      BY <1>2, <1>3 DEF Recu, Donne
    <3>. QED BY <3>2, <3>3
  <2>4. /\ Livre!Credits(d.lignes, l[1], l[2]) \in Nat
        /\ Livre!Debits(d.lignes, l[1], l[2]) \in Nat
    BY <1>3, CreditsNaturels
  <2>. HIDE DEF d
  <2>. QED BY <1>4, <2>1, <2>2, <2>3, <2>4 DEF Suivie
<1>8. Tenue(q, e, jeton)
  <2>1. \A u \in e.lignes : u.requete = q /\ u.rang < e.rang
    BY <1>3, <1>4
  <2>2. IsFiniteSet(e.lignes) /\ DOMAIN e.ecrit \subseteq e.tient
    BY <1>1, <1>3, <1>4 DEF Tenue
  <2>. HIDE DEF d, L
  <2>. QED BY <1>4, <1>5, <1>6, <1>7, <2>1, <2>2 DEF Tenue
<1>9. etat[q].etape # "finie"
  BY <1>1
<1>. QED BY <1>1, <1>8, <1>9, UnSeulCompte

\* The answer of the old Fedow opens the top-up, or ends the request; a lost card and a
\* broken deadlock end it.
LEMMA AutresTenus ==
  ASSUME IInv, Comptes, NEW q \in Requetes, Rattacher(q) \/ Detacher(q) \/ Avorter(q)
  PROVE  Comptes'
<1>1. jeton' = jeton /\ registre' = registre
  BY DEF Rattacher, Detacher, Avorter
<1>2. CASE etat' = [etat EXCEPT ![q] = Finie]
  BY <1>1, <1>2, FinieTenue, UnSeulCompte
<1>3. CASE etat' # [etat EXCEPT ![q] = Finie]
  <2>1. Rattacher(q) /\ etat[q].etape = "fedow"
    BY <1>3 DEF Detacher, Avorter, Rattacher
  <2>2. PICK m \in Monnaies, montant \in Recharges :
          etat' = [etat EXCEPT ![q] =
            [RechargeDe(etat[q].carte, etat[q].bourse, m, montant) EXCEPT
               !.etape = EtapeDuRang(RechargeDe(etat[q].carte, etat[q].bourse, m, montant).plan, 1)]]
    BY <1>3, <2>1 DEF Rattacher
  <2> DEFINE r == RechargeDe(etat[q].carte, etat[q].bourse, m, montant)
             suite == EtapeDuRang(r.plan, 1)
             e == [r EXCEPT !.etape = suite]
  <2>3. /\ suite = "debit" => r.plan[1].action \notin SansDebit
        /\ suite = "credit" => r.plan[1].action \notin SansCredit /\ r.plan[1].action \in SansDebit
        /\ suite = "ecrire" => r.plan[1].action \in SansDebit \cap SansCredit
    BY EtapeDuRangJuste
  <2>4. etat' = [etat EXCEPT ![q] = e]
    BY <2>2
  <2>. HIDE DEF suite
  <2>5. /\ e.etape = suite /\ e.plan = r.plan /\ e.rang = 1 /\ e.lignes = {}
        /\ DOMAIN e.ecrit = {}
    BY DEF RechargeDe, Demande, Repos
  <2>. HIDE DEF e, r
  <2>6. EtapeJuste(e)
    BY <2>3, <2>5 DEF EtapeJuste
  <2>7. Tenue(q, e, jeton)
    BY <2>3, <2>5, <2>6, RienEcrit
  <2>. QED BY <1>1, <2>1, <2>4, <2>7, UnSeulCompte
<1>. QED BY <1>2, <1>3

\* The commit moves no token another transaction has written.
LEMMA ValiderTenu ==
  ASSUME IInv, Comptes, NEW q \in Requetes, Valider(q)
  PROVE  Comptes'
<1>1. /\ etat' = [etat EXCEPT ![q] = Finie] /\ registre' = registre \cup etat[q].lignes
      /\ jeton' = [ligne \in Jetons |-> Valeur(q, ligne)]
  BY DEF Valider
<1>2. etat'[q] = Finie /\ \A r \in Requetes \ {q} : etat'[r] = etat[r]
  BY <1>1 DEF IInv
<1>3. Passees'
  <2>1. Finie.etape = "finie" /\ \A t \in etat[q].lignes : t.requete = q
    BY FinieTenue DEF Comptes, Tenue
  <2>2. ASSUME NEW t \in registre' PROVE t.requete \in Requetes /\ etat'[t.requete].etape = "finie"
    <3>1. CASE t \in etat[q].lignes
      BY <1>2, <2>1, <3>1
    <3>2. CASE t \in registre
      <4>1. t.requete \in Requetes /\ etat[t.requete].etape = "finie"
        BY <3>2 DEF Comptes, Passees
      <4>. QED BY <1>2, <2>1, <4>1
    <3>. QED BY <1>1, <2>2, <3>1, <3>2
  <2>. QED BY <2>2 DEF Passees
<1>4. ASSUME NEW r \in Requetes \ {q} PROVE Tenue(r, etat[r], jeton')
  <2>1. Tenue(r, etat[r], jeton) /\ Tenue(q, etat[q], jeton)
        /\ Exclusifs(etat[q], etat[r])
    BY DEF Comptes, IInv
  <2>2. ASSUME NEW l \in Jetons PROVE Suivie(etat[r], l, jeton'[l])
    <3>1. Suivie(etat[r], l, jeton[l])
      BY <2>1 DEF Tenue
    <3>2. CASE l \in DOMAIN etat[r].ecrit
      <4>1. l \notin DOMAIN etat[q].ecrit
        BY <2>1, <3>2 DEF Tenue, Exclusifs
      <4>2. jeton'[l] = jeton[l]
        BY <1>1, <4>1 DEF Valeur
      <4>. QED BY <3>1, <4>2
    <3>3. CASE l \notin DOMAIN etat[r].ecrit
      BY <3>1, <3>3 DEF Suivie
    <3>. QED BY <3>2, <3>3
  <2>. QED BY <2>1, <2>2 DEF Tenue
<1>5. ASSUME NEW r \in Requetes PROVE Tenue(r, etat'[r], jeton')
  <2>1. PICK soldes : soldes = jeton'
    OBVIOUS
  <2>2. Tenue(q, Finie, soldes)
    BY FinieTenue
  <2>. QED BY <1>2, <1>4, <2>1, <2>2
<1>. QED BY <1>3, <1>5 DEF Comptes

\* The accounts are kept in every state.
LEMMA ComptesTenus == Spec => []Comptes
<1>1. Init => Comptes
  <2> SUFFICES ASSUME Init PROVE Comptes
    OBVIOUS
  <2>1. registre = {} /\ \A q \in Requetes : etat[q] = Repos
    BY DEF Init
  <2>2. Repos.lignes = {} /\ DOMAIN Repos.ecrit = {} /\ Repos.etape = "neuve"
    BY DEF Repos
  <2>3. EtapeJuste(Repos)
    BY <2>2 DEF EtapeJuste
  <2>4. \A q \in Requetes : Tenue(q, Repos, jeton)
    BY <2>2, <2>3, RienEcrit
  <2>. QED BY <2>1, <2>4 DEF Comptes, Passees
<1>2. IInv /\ Comptes /\ [Next]_vars => Comptes'
  <2> SUFFICES ASSUME IInv, Comptes, [Next]_vars PROVE Comptes'
    OBVIOUS
  <2>1. CASE UNCHANGED vars
    <3>1. jeton' = jeton /\ registre' = registre /\ etat' = etat
      BY <2>1 DEF vars
    <3>2. \A q \in Requetes : Tenue(q, etat'[q], jeton')
      BY <3>1 DEF Comptes
    <3>3. Passees'
      BY <3>1 DEF Comptes, Passees
    <3>. QED BY <3>2, <3>3 DEF Comptes
  <2>2. ASSUME NEW q \in Requetes, Recevoir(q) PROVE Comptes'
    BY <2>2, RecevoirTenu
  <2>3. ASSUME NEW q \in Requetes, Continuer(q) PROVE Comptes'
    BY <2>3, DebiterTenu, CrediterTenu, EcrireSansMouvementTenu, PreparerTenu,
       AutresTenus, ValiderTenu DEF Continuer
  <2>. QED BY <2>1, <2>2, <2>3 DEF Next
<1>. QED BY <1>1, <1>2, Invariant, PTL DEF Spec

\* When the last movement is written, the rows of a request are all the difference
\* between its value of a token and the committed one.
LEMMA ValeurFinale ==
  ASSUME IInv, Comptes, NEW q \in Requetes, etat[q].etape = "valider", NEW l \in Jetons
  PROVE  LET L == etat[q].lignes IN
         /\ Valeur(q, l) \in Nat /\ jeton[l] \in Nat
         /\ Livre!Credits(L, l[1], l[2]) \in Nat /\ Livre!Debits(L, l[1], l[2]) \in Nat
         /\ Valeur(q, l) + Livre!Debits(L, l[1], l[2])
              = jeton[l] + Livre!Credits(L, l[1], l[2])
<1> DEFINE d == etat[q]
           L == d.lignes
<1>1. d \in Etats /\ Tenue(q, d, jeton) /\ jeton \in [Jetons -> Nat]
  BY DEF IInv, Comptes
<1>2. Valeur(q, l) \in Nat /\ jeton[l] \in Nat
  BY <1>1 DEF Valeur, Etats, Ecrits
<1>3. IsFiniteSet(L) /\ \A t \in L : t.montant \in Nat
  BY <1>1 DEF Tenue, Etats, Lignes
<1>4. Livre!Credits(L, l[1], l[2]) \in Nat /\ Livre!Debits(L, l[1], l[2]) \in Nat
  BY <1>3, CreditsNaturels
<1>5. Suivie(d, l, jeton[l]) /\ ~Pris(d, l) /\ Retenu(d, l) = 0 /\ l = <<l[1], l[2]>>
  BY <1>1 DEF Tenue, Pris, Retenu, Jetons
<1>6. CASE l \in DOMAIN d.ecrit
  <2>1. Valeur(q, l) = d.ecrit[l]
    BY <1>6 DEF Valeur
  <2>2. Valeur(q, l) + Livre!Debits(L, l[1], l[2]) = jeton[l] + Livre!Credits(L, l[1], l[2])
    <3>. HIDE DEF d
    <3>. QED BY <1>2, <1>4, <1>5, <1>6, <2>1 DEF Suivie
  <2>. QED BY <1>2, <1>4, <2>2
<1>7. CASE l \notin DOMAIN d.ecrit
  <2>1. Valeur(q, l) = jeton[l]
    BY <1>7 DEF Valeur
  <2>2. Livre!Credits(L, l[1], l[2]) = 0 /\ Livre!Debits(L, l[1], l[2]) = 0
    BY <1>5, <1>7, SansMouvement DEF Suivie
  <2>. QED BY <1>2, <1>4, <2>1, <2>2
<1>. QED BY <1>6, <1>7

\* Only a commit moves the tokens or the register.
LEMMA SeulLeCommit ==
  ASSUME [Next]_vars, ~(registre' = registre /\ jeton' = jeton)
  PROVE  \E q \in Requetes : Valider(q)
<1>1. PICK q \in Requetes : Recevoir(q) \/ Continuer(q)
  BY DEF Next, vars
<1>2. Valider(q)
  BY <1>1 DEF Recevoir, Vendre, Recharger, Scanner, DeclarerPerdue, Vider,
    VerrouillerLaCarte, Virer, Continuer, Debiter, Crediter, EcrireSansMouvement,
    VerrouillerUnJeton, Fusionner, Rattacher, Detacher, Avorter
<1>. QED BY <1>2

\* A commit with rows is an operation of the ledger.
LEMMA ValiderPasse ==
  ASSUME IInv, Comptes, NEW q \in Requetes, Valider(q)
  PROVE  Livre!Passer \/ (registre' = registre /\ jeton' = jeton)
<1> DEFINE d == etat[q]
           L == d.lignes
<1>1. /\ registre' = registre \cup L /\ d.etape = "valider"
      /\ jeton' = [ligne \in Jetons |-> Valeur(q, ligne)]
      /\ d \in Etats /\ Tenue(q, d, jeton) /\ jeton \in [Jetons -> Nat]
  BY DEF Valider, IInv, Comptes
<1>2. /\ \A t \in L : t.requete = q /\ t.montant \in Nat
      /\ IsFiniteSet(L)
  BY <1>1 DEF Tenue, Etats, Lignes
<1>3. \A t \in registre : t.requete # q
  BY <1>1 DEF Comptes, Passees
<1>4. registre' \ registre = L
  BY <1>1, <1>2, <1>3
<1>5. \A l \in Jetons :
        /\ Valeur(q, l) \in Nat /\ jeton[l] \in Nat
        /\ Livre!Credits(L, l[1], l[2]) \in Nat /\ Livre!Debits(L, l[1], l[2]) \in Nat
        /\ Valeur(q, l) + Livre!Debits(L, l[1], l[2])
             = jeton[l] + Livre!Credits(L, l[1], l[2])
  BY <1>1, ValeurFinale
<1>6. CASE L = {}
  <2>1. ASSUME NEW l \in Jetons PROVE jeton'[l] = jeton[l]
    <3>1. /\ Livre!Credits(L, l[1], l[2]) = 0 /\ Livre!Debits(L, l[1], l[2]) = 0
      <4>1. l = <<l[1], l[2]>> /\ \A t \in L : ~Touche(t, l)
        BY <1>6 DEF Jetons
      <4>. QED BY <4>1, SansMouvement
    <3>2. jeton'[l] = Valeur(q, l)
      BY <1>1
    <3>. QED BY <1>5, <3>1, <3>2
  <2>2. jeton' \in [Jetons -> Nat]
    BY <1>1, <1>5
  <2>. QED BY <1>1, <1>6, <2>1, <2>2
<1>7. CASE L # {}
  <2>1. registre \subseteq registre' /\ registre' # registre
    BY <1>1, <1>4, <1>7
  <2>2. ASSUME NEW t \in L, NEW u \in registre' PROVE (t.requete = u.requete) <=> (u \in L)
    BY <1>1, <1>2, <1>3, <2>2
  <2>3. ASSUME NEW w \in Portefeuilles, NEW m \in Monnaies
        PROVE  /\ jeton[<<w, m>>] + Livre!Credits(L, w, m) >= Livre!Debits(L, w, m)
               /\ jeton'[<<w, m>>] =
                    (jeton[<<w, m>>] + Livre!Credits(L, w, m)) - Livre!Debits(L, w, m)
    <3> DEFINE l == <<w, m>>
    <3>1. l \in Jetons /\ l[1] = w /\ l[2] = m
      BY DEF Jetons
    <3>. HIDE DEF l
    <3>2. jeton'[l] = Valeur(q, l)
      BY <1>1, <3>1
    <3>. QED BY <1>5, <3>1, <3>2 DEF l
  <2>. HIDE DEF L
  <2>4. Livre!Passer
    BY <1>4, <2>1, <2>2, <2>3 DEF Livre!Passer
  <2>. QED BY <2>4
<1>. QED BY <1>6, <1>7

\* The tokens behave as the ledger: the wallets, the locks and the interleaved
\* transactions of fedow_core/services.py implement GrandLivre, where an operation
\* writes its rows and moves the balances by exactly these rows in one step, and no
\* balance goes below zero, for any number of requests, cards and assets.
THEOREM LivreRespecte == Spec => LivreTenu
<1>1. Init => Livre!Init
  BY DEF Init, Livre!Init
<1>2. IInv /\ Comptes /\ [Next]_vars => [Livre!Passer]_<<jeton, registre>>
  <2> SUFFICES ASSUME IInv, Comptes, [Next]_vars,
                      ~(registre' = registre /\ jeton' = jeton)
               PROVE  Livre!Passer
    OBVIOUS
  <2>1. PICK q \in Requetes : Valider(q)
    BY SeulLeCommit
  <2>. QED BY <2>1, ValiderPasse
<1>. QED BY <1>1, <1>2, Invariant, ComptesTenus, PTL DEF Spec, LivreTenu, Livre!Spec, Livre!vars

-----------------------------------------------------------------------------
(* A balance is explained by the rows.                                          *)

\* Every balance is the initial one, plus what the committed rows credit, less what they
\* debit: the register alone explains the tokens (models.py: Token, Transaction).
SoldesExpliques ==
  \A w \in Portefeuilles, m \in Monnaies :
    jeton[<<w, m>>] + Livre!Debits(registre, w, m)
      = SoldeInitial[<<w, m>>] + Livre!Credits(registre, w, m)

Explication ==
  /\ registre \subseteq Lignes /\ IsFiniteSet(registre)
  /\ SoldesExpliques

\* Two sets of rows without a common row credit and debit as much as their union.
LEMMA DeuxLots ==
  ASSUME NEW K, NEW L, IsFiniteSet(K), IsFiniteSet(L), K \cap L = {},
         \A t \in K \cup L : t.montant \in Nat, NEW w, NEW m
  PROVE  /\ Livre!Credits(K \cup L, w, m) = Livre!Credits(K, w, m) + Livre!Credits(L, w, m)
         /\ Livre!Debits(K \cup L, w, m) = Livre!Debits(K, w, m) + Livre!Debits(L, w, m)
<1>1. ASSUME NEW A, NEW B, IsFiniteSet(A), IsFiniteSet(B), A \cap B = {},
             \A t \in A \cup B : t.montant \in Nat
      PROVE  Livre!Total(A \cup B) = Livre!Total(A) + Livre!Total(B)
  <2> DEFINE C == A \cup B
             f == [t \in C |-> t.montant]
             g == [t \in A |-> t.montant]
             h == [t \in B |-> t.montant]
  <2>1. /\ DOMAIN f = C /\ DOMAIN g = A /\ DOMAIN h = B
        /\ \A t \in C : f[t] \in Int
        /\ (\A t \in A : g[t] = f[t]) /\ \A t \in B : h[t] = f[t]
    BY <1>1
  <2>2. /\ Livre!Total(C) = SumFunctionOnSet(f, C)
        /\ Livre!Total(A) = SumFunctionOnSet(g, A)
        /\ Livre!Total(B) = SumFunctionOnSet(h, B)
    BY <2>1, SommeDuLivre DEF Livre!Total
  <2>. HIDE DEF f, g, h
  <2>3. SumFunctionOnSet(g, A) = SumFunctionOnSet(f, A)
        /\ SumFunctionOnSet(h, B) = SumFunctionOnSet(f, B)
    BY <1>1, <2>1, SommeEgale
  <2>4. SumFunctionOnSet(f, C) = SumFunctionOnSet(f, A) + SumFunctionOnSet(f, B)
    BY <1>1, <2>1, SommeReunion
  <2>. QED BY <2>2, <2>3, <2>4
<1> DEFINE C(X) == {u \in X : u.vers = w /\ u.monnaie = m /\ u.action \notin SansCredit}
           D(X) == {u \in X : u.de = w /\ u.monnaie = m /\ u.action \notin SansDebit}
<1>2. /\ IsFiniteSet(C(K)) /\ IsFiniteSet(C(L)) /\ C(K) \cap C(L) = {}
      /\ IsFiniteSet(D(K)) /\ IsFiniteSet(D(L)) /\ D(K) \cap D(L) = {}
      /\ \A t \in C(K) \cup C(L) : t.montant \in Nat
      /\ \A t \in D(K) \cup D(L) : t.montant \in Nat
  BY FS_Subset
<1>3. C(K \cup L) = C(K) \cup C(L) /\ D(K \cup L) = D(K) \cup D(L)
  OBVIOUS
<1>4. \A X : Livre!Credits(X, w, m) = Livre!Total(C(X)) /\ Livre!Debits(X, w, m) = Livre!Total(D(X))
  BY DEF Livre!Credits, Livre!Debits
<1>. HIDE DEF C, D
<1>5. /\ Livre!Total(C(K) \cup C(L)) = Livre!Total(C(K)) + Livre!Total(C(L))
      /\ Livre!Total(D(K) \cup D(L)) = Livre!Total(D(K)) + Livre!Total(D(L))
  BY <1>1, <1>2
<1>. QED BY <1>3, <1>4, <1>5

\* The commit adds to the register the rows that explain what it writes.
LEMMA ValiderExplique ==
  ASSUME IInv, Comptes, Explication, NEW q \in Requetes, Valider(q)
  PROVE  Explication'
<1> DEFINE L == etat[q].lignes
<1>1. /\ registre' = registre \cup L /\ L \subseteq Lignes /\ IsFiniteSet(L)
      /\ registre \subseteq Lignes /\ IsFiniteSet(registre) /\ registre \cap L = {}
      /\ jeton \in [Jetons -> Nat]
  <2>1. /\ registre' = registre \cup L /\ etat[q].etape = "valider"
        /\ etat[q] \in Etats /\ Tenue(q, etat[q], jeton)
    BY DEF Valider, IInv, Comptes
  <2>2. \A t \in L : t.requete = q
    BY <2>1 DEF Tenue
  <2>3. \A t \in registre : t.requete # q
    BY <2>1 DEF Comptes, Passees
  <2>. QED BY <2>1, <2>2, <2>3 DEF Tenue, Etats, Explication, IInv
<1>2. (registre \subseteq Lignes /\ IsFiniteSet(registre))'
  BY <1>1, FS_Union
<1>3. ASSUME NEW w \in Portefeuilles, NEW m \in Monnaies
      PROVE  jeton'[<<w, m>>] + Livre!Debits(registre', w, m)
               = SoldeInitial[<<w, m>>] + Livre!Credits(registre', w, m)
  <2> DEFINE l == <<w, m>>
  <2>1. l \in Jetons
    BY DEF Jetons
  <2>2. /\ \A t \in registre : t.montant \in Nat
        /\ \A t \in L : t.montant \in Nat
        /\ \A t \in registre \cup L : t.montant \in Nat
    BY <1>1 DEF Lignes
  <2>3. /\ Livre!Credits(registre, w, m) \in Nat /\ Livre!Debits(registre, w, m) \in Nat
        /\ Livre!Credits(L, w, m) \in Nat /\ Livre!Debits(L, w, m) \in Nat
    BY <1>1, <2>2, CreditsNaturels
  <2>4. /\ Livre!Credits(registre \cup L, w, m)
             = Livre!Credits(registre, w, m) + Livre!Credits(L, w, m)
        /\ Livre!Debits(registre \cup L, w, m)
             = Livre!Debits(registre, w, m) + Livre!Debits(L, w, m)
    <3>1. IsFiniteSet(registre) /\ IsFiniteSet(L) /\ registre \cap L = {}
      BY <1>1
    <3>. HIDE DEF L
    <3>. QED BY <2>2, <3>1, DeuxLots
  <2>5. /\ jeton'[l] = Valeur(q, l) /\ Valeur(q, l) \in Nat /\ jeton[l] \in Nat
        /\ Valeur(q, l) + Livre!Debits(L, w, m) = jeton[l] + Livre!Credits(L, w, m)
    <3>1. l[1] = w /\ l[2] = m
      OBVIOUS
    <3>. HIDE DEF l
    <3>. QED BY <1>1, <2>1, <3>1, ValeurFinale DEF Valider
  <2>6. jeton[l] + Livre!Debits(registre, w, m) = SoldeInitial[l] + Livre!Credits(registre, w, m)
    BY DEF Explication, SoldesExpliques
  <2>7. SoldeInitial[l] \in Nat
    BY <2>1, MontantsEntiers
  <2>. HIDE DEF L, l
  <2>8. jeton'[l] + Livre!Debits(registre', w, m) = SoldeInitial[l] + Livre!Credits(registre', w, m)
    BY <1>1, <2>3, <2>4, <2>5, <2>6, <2>7 DEF L
  <2>. QED BY <2>8 DEF l
<1>. QED BY <1>2, <1>3 DEF Explication, SoldesExpliques

\* Every balance is explained by the committed rows, for any number of requests, cards,
\* wallets and assets.
THEOREM SoldesJustes == Spec => []SoldesExpliques
<1>1. Init => Explication
  <2> SUFFICES ASSUME Init PROVE Explication
    OBVIOUS
  <2>1. registre = {} /\ jeton = SoldeInitial
    BY DEF Init
  <2>2. ASSUME NEW w \in Portefeuilles, NEW m \in Monnaies
        PROVE  /\ Livre!Credits({}, w, m) = 0 /\ Livre!Debits({}, w, m) = 0
               /\ SoldeInitial[<<w, m>>] \in Nat
    <3> DEFINE l == <<w, m>>
    <3>1. l = <<l[1], l[2]>> /\ l[1] = w /\ l[2] = m /\ l \in Jetons
      BY DEF Jetons
    <3>. HIDE DEF l
    <3>2. Livre!Credits({}, l[1], l[2]) = 0 /\ Livre!Debits({}, l[1], l[2]) = 0
      BY <3>1, SansMouvement
    <3>. QED BY <3>1, <3>2, MontantsEntiers DEF l
  <2>. QED BY <2>1, <2>2, FS_EmptySet DEF Explication, SoldesExpliques
<1>2. IInv /\ Comptes /\ Explication /\ [Next]_vars => Explication'
  <2> SUFFICES ASSUME IInv, Comptes, Explication, [Next]_vars PROVE Explication'
    OBVIOUS
  <2>1. CASE registre' = registre /\ jeton' = jeton
    BY <2>1 DEF Explication, SoldesExpliques
  <2>2. CASE ~(registre' = registre /\ jeton' = jeton)
    <3>1. PICK q \in Requetes : Valider(q)
      BY <2>2, SeulLeCommit
    <3>. QED BY <3>1, ValiderExplique
  <2>. QED BY <2>1, <2>2
<1>3. Explication => SoldesExpliques
  BY DEF Explication
<1>. QED BY <1>1, <1>2, <1>3, Invariant, ComptesTenus, PTL DEF Spec

===============================================================================
