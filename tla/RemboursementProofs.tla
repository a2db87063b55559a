------------------------- MODULE RemboursementProofs -------------------------
(***************************************************************************)
(* Proofs about Remboursement, for any sale, any number of processes,      *)
(* requests and failures: the quantities given back, the keys and amounts  *)
(* of the refunds, the tickets cancelled, and the deadlocks.               *)
(*                                                                         *)
(* The amounts rest on one equality, Balance: the rows written are worth   *)
(* what the units given back are, up to the money collected.               *)
(***************************************************************************)
EXTENDS Remboursement, Sommes, SequenceTheorems, TLAPS

-----------------------------------------------------------------------------
(* The inductive invariant *)

\* A record of `travail', field by field.
Fiche(e, d, a, v, h, m, k) ==
  [etape |-> e, demande |-> d, aRendre |-> a, aVerrouiller |-> v, tient |-> h,
   rembourse |-> m, cle |-> k]
Forme(w) == w = Fiche(w.etape, w.demande, w.aRendre, w.aVerrouiller, w.tient,
                      w.rembourse, w.cle)

\* Where a process is tells what kind of request it runs and what it holds.
EtapeSaine(w) ==
  /\ Forme(w)
  /\ w.etape \in Etapes
  /\ w.aRendre \in [Lignes -> Nat]
  /\ w.aVerrouiller \subseteq Lignes
  /\ w.etape = "libre" => w = AuRepos
  /\ w.etape # "libre" => w.demande.genre \in Annulations \cup Avoirs
  /\ w.etape \in {"reservation", "paiement", "stripe"} => w.demande.genre \in Annulations
  /\ w.etape = "reservation" => w.aRendre = Rien
  /\ w.etape # "lignes" => w.aVerrouiller = {}
  /\ w.etape \notin {"lieu", "ecrire"} => w.rembourse = 0 /\ w.cle = Aucun
  /\ w.etape \in {"lignes", "stripe", "lieu"} /\ w.demande.genre \in Annulations
       => <<"paiement", 0>> \in w.tient
  /\ w.cle # Aucun => <<"paiement", 0>> \in w.tient
  /\ <<"lieu", 0>> \in w.tient => w.etape = "ecrire"

InvEtapes ==
  /\ travail = [t \in Travailleurs |-> travail[t]]
  /\ \A t \in Travailleurs : EtapeSaine(travail[t])

\* A row is locked by one transaction at most.
InvVerrous ==
  \A t, u \in Travailleurs : t # u => travail[t].tient \cap travail[u].tient = {}

\* Once its lines are chosen, what a process is about to give back of a line it has
\* locked is still there to be given back.
Assuree(w) ==
  w.etape # "paiement" =>
    \A l \in Lignes :
      \/ w.aRendre[l] = 0
      \/ l \in w.aVerrouiller
      \/ <<"ligne", l>> \in w.tient /\ w.aRendre[l] <= Restant(l)

InvQuantites ==
  /\ rendu \in [Lignes -> Nat]
  /\ JamaisPlusQueVendu
  /\ \A t \in Travailleurs : Assuree(travail[t])

\* The rows of the refunds, in a sequence of anything.
Suite(s) == s \in Seq({s[i] : i \in DOMAIN s})

\* A key that a process holds is the last one Stripe knows, and no row has it yet.
CleEnMain(w) ==
  w.cle # Aucun =>
    /\ w.cle \in DOMAIN remboursements
    /\ w.rembourse = remboursements[w.cle]
    /\ \A k \in DOMAIN remboursements : k <= w.cle
    /\ ~ Ecrit(w.cle)

InvCles ==
  /\ Suite(reglements)
  /\ \A k \in DOMAIN remboursements : k \in Nat /\ k <= Len(reglements)
  /\ \A i \in DOMAIN reglements :
       reglements[i].cle = Aucun \/ reglements[i].cle \in 0 .. i - 1
  /\ ReglementsConformes
  /\ ArgentRetrouve
  /\ \A t \in Travailleurs : CleEnMain(travail[t])

\* A request is one of those the program takes, on rows of the sale; a credit note is
\* only asked of a sale collected at its price.
Connue(w) ==
  /\ w.etape # "libre" => w.demande \in Demandes
  /\ w.tient \subseteq Ressources
  /\ w.etape # "libre" /\ w.demande.genre \in Avoirs => encaisse = TotalVendu

\* What Stripe gives back for items of net m: the net, up to what it still holds.
APayer(m) ==
  IF m <= encaisse - SommeDesReglements THEN m ELSE encaisse - SommeDesReglements

\* A refund about to be written is, under the lock of the payment, worth what its
\* items are, up to what Stripe still holds; without this lock there is nothing to write.
Soldee(w) ==
  /\ w.etape # "libre" /\ w.demande.genre \in Avoirs => w.rembourse = 0
  /\ w.etape \in {"lieu", "ecrire"} /\ w.demande.genre \in Annulations =>
       \/ <<"paiement", 0>> \in w.tient /\ w.rembourse = APayer(Net(w.aRendre))
       \/ w.rembourse = 0 /\ \A l \in Lignes : w.aRendre[l] = 0

\* The tickets that a process is about to cancel are given back with them, if they have
\* not been already.
Couverte(w) ==
  w.etape \notin {"libre", "reservation"} =>
    /\ w.demande.genre = "billet" =>
         LET S == Semblables(w.demande.billet[1])
         IN  (\E l \in S : w.aRendre[l] >= 1) \/ \A l \in S : rendu[l] >= Vendu[l]
    /\ w.demande.genre = "reservation" =>
         \A l \in LignesDe(w.demande.reservation) : rendu[l] + w.aRendre[l] >= Vendu[l]

Conforme(w) == Connue(w) /\ Soldee(w) /\ Couverte(w)
InvTravaux == \A t \in Travailleurs : Conforme(travail[t])

\* The rows written are worth what has been given back, up to what was collected.
Balance ==
  SommeDesReglements = IF Net(rendu) <= encaisse THEN Net(rendu) ELSE encaisse

InvArgent ==
  /\ encaisse \in Encaissements
  /\ statut \in {"VALID", "PARTIALLY_REFUNDED", "REFUNDED"}
  /\ \A i \in DOMAIN reglements : reglements[i] \in Reglement
  /\ \A k \in DOMAIN remboursements : remboursements[k] \in Nat \ {0}
  /\ Balance
  /\ statut = "REFUNDED" => \A l \in Lignes : rendu[l] = Vendu[l]

InvBillets ==
  /\ billets \in [Billets -> {"NOT_SCANNED", "SCANNED", "CANCELED"}]
  /\ reservations \in [Reservations -> {"VALID", "CANCELED"}]
  /\ scan \in Billets \cup {Aucun}
  /\ BilletsAnnulesRendus

Inv == /\ InvEtapes /\ InvVerrous /\ InvQuantites /\ InvCles
       /\ InvArgent /\ InvBillets /\ InvTravaux

-----------------------------------------------------------------------------
(* The sums of money *)

\* The lines of a sale are finitely many.
LEMMA LignesFinies == IsFiniteSet(Lignes)
  BY VenteHypothese, FS_Interval DEF Lignes

\* The lines of a same sold price: they are lines of one reservation.
LEMMA LignesSemblables ==
  ASSUME NEW l \in Lignes
  PROVE  /\ l \in Semblables(l) /\ Semblables(l) \subseteq Lignes
         /\ IsFiniteSet(Semblables(l))
         /\ \A m \in Semblables(l) : Resa[m] = Resa[l] /\ Semblables(m) = Semblables(l)
<1>1. l \in Semblables(l) /\ Semblables(l) \subseteq Lignes
  BY DEF Semblables
<1>2. \A m \in Semblables(l) : Resa[m] = Resa[l] /\ Semblables(m) = Semblables(l)
  BY VenteHypothese DEF Semblables
<1> QED
  BY <1>1, <1>2, LignesFinies, FS_Subset

\* Quantities that grow on the lines of a sold price have a greater sum there.
LEMMA SommesDuTarif ==
  ASSUME NEW l \in Lignes, NEW q, NEW p,
         \A m \in Semblables(l) : q[m] \in Nat /\ p[m] \in Nat /\ q[m] <= p[m]
  PROVE  LET S == Semblables(l)
         IN  /\ SumFunctionOnSet(q, S) \in Nat /\ SumFunctionOnSet(p, S) \in Nat
             /\ SumFunctionOnSet(q, S) <= SumFunctionOnSet(p, S)
             /\ (\E m \in S : p[m] >= q[m] + 1)
                  => SumFunctionOnSet(q, S) + 1 <= SumFunctionOnSet(p, S)
<1> DEFINE S == Semblables(l)
<1>1. IsFiniteSet(S) /\ \A m \in S : q[m] \in Nat /\ p[m] \in Nat /\ q[m] <= p[m]
  BY LignesSemblables
<1> HIDE DEF S
<1>2. /\ SumFunctionOnSet(q, S) \in Nat /\ SumFunctionOnSet(p, S) \in Nat
      /\ SumFunctionOnSet(q, S) <= SumFunctionOnSet(p, S)
  BY <1>1, SommeNaturelle, SommeCroissante
<1>3. ASSUME NEW m \in S, p[m] >= q[m] + 1
      PROVE  SumFunctionOnSet(q, S) + 1 <= SumFunctionOnSet(p, S)
  <2> DEFINE T == S \ {m}
  <2>1. IsFiniteSet(T) /\ T \subseteq S
    BY <1>1, FS_Subset
  <2>2. /\ SumFunctionOnSet(q, S) = q[m] + SumFunctionOnSet(q, T)
        /\ SumFunctionOnSet(p, S) = p[m] + SumFunctionOnSet(p, T)
    BY <1>1, <1>3, SommeRetrait
  <2> HIDE DEF T
  <2>3. /\ SumFunctionOnSet(q, T) \in Nat /\ SumFunctionOnSet(p, T) \in Nat
        /\ SumFunctionOnSet(q, T) <= SumFunctionOnSet(p, T)
    BY <1>1, <2>1, SommeNaturelle, SommeCroissante
  <2> QED
    BY <1>1, <1>3, <2>2, <2>3
<1> QED
  BY <1>2, <1>3 DEF S

\* The net of quantities, as a sum over the lines.
LEMMA NetSomme ==
  ASSUME NEW q
  PROVE  LET f == [l \in Lignes |-> Prix[l] * q[l]]
         IN  Net(q) = SumFunctionOnSet(f, Lignes) /\ \A l \in Lignes : f[l] = Prix[l] * q[l]
  BY DEF Net, SumFunction

\* The price of a line is a natural number, and so is that of some of its units.
LEMMA PrixNat ==
  ASSUME NEW l \in Lignes, NEW n \in Nat
  PROVE  /\ Prix[l] \in Nat /\ Prix[l] * n \in Nat
         /\ \A m \in Nat : /\ Prix[l] * (n + m) = Prix[l] * n + Prix[l] * m
                         /\ Prix[l] * n <= Prix[l] * (n + m)
<1>1. Prix[l] \in Nat
  BY VenteHypothese
<1>2. \A p, m \in Nat : /\ p * n \in Nat /\ p * m \in Nat
                       /\ p * (n + m) = p * n + p * m
  OBVIOUS
<1> QED
  BY <1>1, <1>2

\* The net of quantities is a natural number.
LEMMA NetNat ==
  ASSUME NEW q \in [Lignes -> Nat]
  PROVE  Net(q) \in Nat
<1> DEFINE f == [l \in Lignes |-> Prix[l] * q[l]]
<1>1. Net(q) = SumFunctionOnSet(f, Lignes)
  BY NetSomme
<1>2. \A l \in Lignes : f[l] \in Nat
  BY PrixNat
<1> HIDE DEF f
<1> QED
  BY <1>1, <1>2, LignesFinies, SommeNaturelle

\* Only the quantities of the lines count.
LEMMA NetEgal ==
  ASSUME NEW q, NEW r, \A l \in Lignes : q[l] = r[l]
  PROVE  Net(q) = Net(r)
  BY NetSomme, LignesFinies, SommeEgale

\* Nothing is worth nothing.
LEMMA NetNul ==
  ASSUME NEW q, \A l \in Lignes : q[l] = 0
  PROVE  Net(q) = 0
<1> DEFINE f == [l \in Lignes |-> Prix[l] * q[l]]
<1>1. Net(q) = SumFunctionOnSet(f, Lignes)
  BY NetSomme
<1>2. \A l \in Lignes : f[l] = 0
  BY VenteHypothese
<1> HIDE DEF f
<1> QED
  BY <1>1, <1>2, LignesFinies, SommeNulle

\* The net of what is given back twice is the sum of the nets.
LEMMA NetPlus ==
  ASSUME NEW q \in [Lignes -> Nat], NEW a \in [Lignes -> Nat],
         NEW r, \A l \in Lignes : r[l] = q[l] + a[l]
  PROVE  Net(r) = Net(q) + Net(a)
<1> DEFINE f == [l \in Lignes |-> Prix[l] * q[l]]
           g == [l \in Lignes |-> Prix[l] * a[l]]
           h == [l \in Lignes |-> Prix[l] * r[l]]
<1>1. \A l \in Lignes : f[l] \in Int /\ g[l] \in Int /\ h[l] = f[l] + g[l]
  BY PrixNat
<1>2. /\ Net(q) = SumFunctionOnSet(f, Lignes) /\ Net(a) = SumFunctionOnSet(g, Lignes)
      /\ Net(r) = SumFunctionOnSet(h, Lignes)
  BY NetSomme
<1> HIDE DEF f, g, h
<1> QED
  BY <1>1, <1>2, LignesFinies, SommeDeDeux

\* What is given back is never worth more than the sale.
LEMMA NetBorne ==
  ASSUME NEW q \in [Lignes -> Nat], NEW a \in [Lignes -> Nat],
         \A l \in Lignes : q[l] + a[l] <= Vendu[l]
  PROVE  Net(q) + Net(a) <= TotalVendu
<1> DEFINE r == [l \in Lignes |-> q[l] + a[l]]
           d == [l \in Lignes |-> Vendu[l] - r[l]]
<1>1. /\ r \in [Lignes -> Nat] /\ d \in [Lignes -> Nat]
      /\ \A l \in Lignes : r[l] = q[l] + a[l] /\ Vendu[l] = r[l] + d[l]
  BY VenteHypothese
<1> HIDE DEF r, d
<1>2. Net(r) = Net(q) + Net(a) /\ Net(Vendu) = Net(r) + Net(d)
  BY <1>1, NetPlus
<1>3. Net(r) \in Nat /\ Net(d) \in Nat
  BY <1>1, NetNat
<1> QED
  BY <1>2, <1>3 DEF TotalVendu

\* A reservation whose lines are worth nothing more has nothing left to give back.
LEMMA RienAPayer ==
  ASSUME NEW r, MontantPaye(r) = 0, \A l \in Lignes : Restant(l) \in Nat
  PROVE  \A l \in LignesDe(r) : Restant(l) = 0
<1> DEFINE f == [l \in LignesDe(r) |-> Prix[l] * Restant(l)]
<1>1. IsFiniteSet(LignesDe(r)) /\ LignesDe(r) \subseteq Lignes
  BY LignesFinies, FS_Subset DEF LignesDe
<1>2. SumFunctionOnSet(f, LignesDe(r)) = 0
  BY DEF MontantPaye, SumFunction
<1>3. \A l \in LignesDe(r) : f[l] = Prix[l] * Restant(l) /\ f[l] \in Nat
  BY <1>1, PrixNat
<1> HIDE DEF f
<1>4. \A l \in LignesDe(r) : f[l] = 0
  BY <1>1, <1>2, <1>3, SommeNulleTermes
<1>5. \A p \in Nat \ {0}, n \in Nat : p * n = 0 => n = 0
  OBVIOUS
<1> QED
  BY <1>1, <1>3, <1>4, <1>5, VenteHypothese

\* Appending to a sequence of anything.
LEMMA Ajout ==
  ASSUME NEW s, Suite(s), NEW x
  PROVE  /\ Suite(Append(s, x)) /\ Len(s) \in Nat /\ DOMAIN s = 1 .. Len(s)
         /\ Len(Append(s, x)) = Len(s) + 1
         /\ DOMAIN Append(s, x) = 1 .. Len(s) + 1
         /\ Append(s, x)[Len(s) + 1] = x
         /\ \A i \in 1 .. Len(s) : Append(s, x)[i] = s[i]
<1> DEFINE E == {s[i] : i \in DOMAIN s} \cup {x}
           r == Append(s, x)
<1>1. s \in Seq(E) /\ x \in E
  BY DEF Suite
<1> HIDE DEF E
<1>2. /\ r \in Seq(E) /\ Len(r) = Len(s) + 1 /\ r[Len(s) + 1] = x
      /\ \A i \in 1 .. Len(s) : r[i] = s[i]
  BY <1>1, AppendProperties
<1>3. Len(s) \in Nat /\ DOMAIN s = 1 .. Len(s) /\ DOMAIN r = 1 .. Len(r)
  BY <1>1, <1>2, LenProperties
<1>4. r \in Seq({r[i] : i \in DOMAIN r})
  <2>1. r \in [1 .. Len(r) -> E]
    BY <1>2, LenProperties
  <2> HIDE DEF r
  <2> QED
    BY <1>2, <1>3, <2>1
<1> QED
  BY <1>2, <1>3, <1>4 DEF Suite

\* One row more, and its amount.
LEMMA ReglementsEnPlus ==
  ASSUME NEW s, Suite(s), \A i \in DOMAIN s : s[i].montant \in Int,
         NEW x, x.montant \in Int
  PROVE  LET Total(z) == SumFunction([i \in DOMAIN z |-> z[i].montant])
         IN  Total(Append(s, x)) = Total(s) + x.montant
<1> DEFINE r == Append(s, x)
           L == Len(s)
           f == [i \in DOMAIN s |-> s[i].montant]
           g == [i \in DOMAIN r |-> r[i].montant]
<1>1. /\ L \in Nat /\ DOMAIN s = 1 .. L /\ DOMAIN r = 1 .. L + 1 /\ r[L + 1] = x
      /\ \A i \in 1 .. L : r[i] = s[i]
  BY Ajout
<1>2. /\ \A i \in 1 .. L : f[i] = s[i].montant /\ f[i] = g[i] /\ f[i] \in Int
      /\ g[L + 1] = x.montant
  <2> HIDE DEF r
  <2> QED
    BY <1>1
<1>3. SumFunction(f) = SumFunctionOnSet(f, 1 .. L) /\ SumFunction(g) = SumFunctionOnSet(g, 1 .. L + 1)
  BY <1>1 DEF SumFunction
<1> HIDE DEF f, g, L, r
<1>4. IsFiniteSet(1 .. L) /\ L + 1 \notin 1 .. L /\ (1 .. L) \cup {L + 1} = 1 .. L + 1
  <2>1. IsFiniteSet(1 .. L)
    BY <1>1, FS_Interval
  <2> QED
    BY <1>1, <2>1
<1>5. SumFunctionOnSet(g, 1 .. L + 1) = SumFunctionOnSet(g, 1 .. L) + g[L + 1]
  <2> DEFINE D == 1 .. L
             k == L + 1
  <2>1. IsFiniteSet(D) /\ k \notin D /\ \A i \in D \cup {k} : g[i] \in Int
    BY <1>2, <1>4
  <2> HIDE DEF D, k
  <2>2. SumFunctionOnSet(g, D \cup {k}) = SumFunctionOnSet(g, D) + g[k]
    BY <2>1, SommeAjout
  <2> QED
    BY <1>4, <2>2 DEF D, k
<1>6. SumFunctionOnSet(g, 1 .. L) = SumFunctionOnSet(f, 1 .. L)
  BY <1>2, <1>4, SommeEgale
<1> QED
  BY <1>2, <1>3, <1>5, <1>6 DEF f, g, r

-----------------------------------------------------------------------------
(* Lemmas *)

\* The step that follows each step, in the two kinds of requests.
LEMMA Chemins ==
  ASSUME NEW t, travail[t].demande.genre \in Annulations \cup Avoirs
  PROVE  /\ Genre(t) \in Annulations =>
              /\ Parcours(Genre(t)).libre = "reservation"
              /\ Apres(t, "reservation") = "paiement"
              /\ Apres(t, "paiement") = "lignes"
              /\ Apres(t, "lignes") = "stripe"
              /\ Apres(t, "stripe") = "lieu"
         /\ Genre(t) \in Avoirs => Apres(t, "lignes") = "lieu"
         /\ Apres(t, "lieu") = "ecrire"
  BY DEF Genre, Apres, Parcours, ParcoursAnnulation, ParcoursAvoir, Annulations, Avoirs

\* The fields of a record.
LEMMA Champs ==
  ASSUME NEW e, NEW d, NEW a, NEW v, NEW h, NEW m, NEW k
  PROVE  LET w == Fiche(e, d, a, v, h, m, k)
         IN  /\ w.etape = e /\ w.demande = d /\ w.aRendre = a /\ w.aVerrouiller = v
             /\ w.tient = h /\ w.rembourse = m /\ w.cle = k /\ Forme(w)
  BY DEF Fiche, Forme

\* The updates of several fields that the actions make.
LEMMA MajARendre ==
  ASSUME NEW w, Forme(w), NEW x, NEW y
  PROVE  [w EXCEPT !.etape = x, !.aRendre = y]
           = Fiche(x, w.demande, y, w.aVerrouiller, w.tient, w.rembourse, w.cle)
<1>1. [w EXCEPT !.etape = x]
           = Fiche(x, w.demande, w.aRendre, w.aVerrouiller, w.tient, w.rembourse,
                   w.cle)
  BY DEF Forme, Fiche
<1>2. [Fiche(x, w.demande, w.aRendre, w.aVerrouiller, w.tient, w.rembourse, w.cle)
         EXCEPT !.aRendre = y]
           = Fiche(x, w.demande, y, w.aVerrouiller, w.tient, w.rembourse, w.cle)
  BY DEF Fiche
<1> QED
  BY <1>1, <1>2, Zenon

\* The same of a step that fixes the rows still to lock.
LEMMA MajAVerrouiller ==
  ASSUME NEW w, Forme(w), NEW x, NEW y
  PROVE  [w EXCEPT !.etape = x, !.aVerrouiller = y]
           = Fiche(x, w.demande, w.aRendre, y, w.tient, w.rembourse, w.cle)
<1>1. [w EXCEPT !.etape = x]
           = Fiche(x, w.demande, w.aRendre, w.aVerrouiller, w.tient, w.rembourse,
                   w.cle)
  BY DEF Forme, Fiche
<1>2. [Fiche(x, w.demande, w.aRendre, w.aVerrouiller, w.tient, w.rembourse, w.cle)
         EXCEPT !.aVerrouiller = y]
           = Fiche(x, w.demande, w.aRendre, y, w.tient, w.rembourse, w.cle)
  BY DEF Fiche
<1> QED
  BY <1>1, <1>2, Zenon

\* The same of a step that does both.
LEMMA MajLigne ==
  ASSUME NEW w, Forme(w), NEW x, NEW y, NEW z
  PROVE  [w EXCEPT !.etape = x, !.aRendre = y, !.aVerrouiller = z]
           = Fiche(x, w.demande, y, z, w.tient, w.rembourse, w.cle)
<1>1. [w EXCEPT !.etape = x]
           = Fiche(x, w.demande, w.aRendre, w.aVerrouiller, w.tient, w.rembourse,
                   w.cle)
  BY DEF Forme, Fiche
<1>2. [Fiche(x, w.demande, w.aRendre, w.aVerrouiller, w.tient, w.rembourse, w.cle)
         EXCEPT !.aRendre = y]
           = Fiche(x, w.demande, y, w.aVerrouiller, w.tient, w.rembourse, w.cle)
  BY DEF Fiche
<1>3. [Fiche(x, w.demande, y, w.aVerrouiller, w.tient, w.rembourse, w.cle)
         EXCEPT !.aVerrouiller = z]
           = Fiche(x, w.demande, y, z, w.tient, w.rembourse, w.cle)
  BY DEF Fiche
<1> QED
  BY <1>1, <1>2, <1>3, Zenon

\* What is said of the tables stays true as long as they are not written.
LEMMA TablesInv ==
  ASSUME Inv, UNCHANGED <<encaisse, tables, remboursements, scan>>
  PROVE  InvArgent' /\ InvBillets'
<1>1. UNCHANGED <<statut, rendu, reglements, billets, reservations>>
  BY DEF tables
<1>2. InvArgent'
  BY <1>1 DEF Inv, InvArgent, Balance, SommeDesReglements
<1>3. InvBillets'
  BY <1>1 DEF Inv, InvBillets, BilletsAnnulesRendus
<1> QED
  BY <1>2, <1>3

\* So does what is said of a process, with the tables it was said of.
LEMMA ConformeInv ==
  ASSUME UNCHANGED <<encaisse, tables>>, NEW w, Conforme(w)
  PROVE  /\ encaisse' = encaisse /\ rendu' = rendu /\ SommeDesReglements' = SommeDesReglements
         /\ \A t \in Travailleurs : travail'[t] = w => Conforme(travail[t])'
<1>1. UNCHANGED <<rendu, reglements>>
  BY DEF tables
<1>2. SommeDesReglements' = SommeDesReglements
  BY <1>1 DEF SommeDesReglements
<1>3. ASSUME NEW t \in Travailleurs, travail'[t] = w
      PROVE  Conforme(travail[t])'
  BY <1>1, <1>2, <1>3 DEF Conforme, Connue, Soldee, APayer, Couverte
<1> QED
  BY <1>1, <1>2, <1>3

\* A process changes, and no table does.
LEMMA PasInv ==
  ASSUME Inv, NEW t \in Travailleurs, NEW n,
         travail' = [travail EXCEPT ![t] = n],
         UNCHANGED <<encaisse, tables, remboursements, scan>>,
         EtapeSaine(n), Assuree(n), CleEnMain(n), Conforme(n),
         \A u \in Travailleurs : u # t => n.tient \cap travail[u].tient = {}
  PROVE  Inv'
<1>0. UNCHANGED <<encaisse, tables, remboursements, scan>> /\ UNCHANGED <<rendu, reglements>>
  BY DEF tables
<1>1. travail'[t] = n /\ \A u \in Travailleurs : u # t => travail'[u] = travail[u]
  BY DEF Inv, InvEtapes
<1>2. InvEtapes'
  <2>1. travail' = [u \in Travailleurs |-> travail'[u]]
    BY DEF Inv, InvEtapes
  <2>2. \A u \in Travailleurs : EtapeSaine(travail'[u])
    BY <1>1 DEF Inv, InvEtapes
  <2> QED
    BY <2>1, <2>2 DEF InvEtapes, EtapeSaine
<1>3. InvVerrous'
  BY <1>1 DEF Inv, InvVerrous
<1>4. InvQuantites'
  BY <1>0, <1>1 DEF Inv, InvQuantites, Assuree, JamaisPlusQueVendu, Restant
<1>5. InvCles'
  BY <1>0, <1>1 DEF Inv, InvCles, CleEnMain, ReglementsConformes, ArgentRetrouve, Ecrit, Suite
<1>6. InvArgent' /\ InvBillets'
  BY <1>0, TablesInv
<1>7. InvTravaux'
  BY <1>0, <1>1, ConformeInv DEF InvTravaux, Inv
<1> QED
  BY <1>2, <1>3, <1>4, <1>5, <1>6, <1>7 DEF Inv

\* The records of the processes are records.
LEMMA Fiches ==
  ASSUME Inv, NEW t \in Travailleurs
  PROVE  travail[t] = Fiche(travail[t].etape, travail[t].demande, travail[t].aRendre,
                            travail[t].aVerrouiller, travail[t].tient,
                            travail[t].rembourse, travail[t].cle)
  BY DEF Inv, InvEtapes, EtapeSaine, Forme

\* A process at rest.
LEMMA Repos ==
  /\ AuRepos.etape = "libre" /\ AuRepos.demande = Aucun /\ AuRepos.aRendre = Rien
  /\ AuRepos.aVerrouiller = {} /\ AuRepos.tient = {} /\ AuRepos.rembourse = 0
  /\ AuRepos.cle = Aucun /\ Forme(AuRepos)
<1>1. AuRepos = Fiche("libre", Aucun, Rien, {}, {}, 0, Aucun)
  BY DEF AuRepos, Fiche
<1> QED
  BY <1>1, Champs

\* A request that starts.
LEMMA Commence ==
  ASSUME NEW x, NEW y
  PROVE  [AuRepos EXCEPT !.etape = x, !.demande = y]
           = Fiche(x, y, Rien, {}, {}, 0, Aucun)
<1>1. [AuRepos EXCEPT !.etape = x] = Fiche(x, Aucun, Rien, {}, {}, 0, Aucun)
  BY DEF AuRepos, Fiche
<1>2. [Fiche(x, Aucun, Rien, {}, {}, 0, Aucun)
         EXCEPT !.demande = y]
       = Fiche(x, y, Rien, {}, {}, 0, Aucun)
  BY DEF Fiche
<1> QED
  BY <1>1, <1>2, Zenon

\* A credit note starts from the call at rest.
LEMMA CommenceAvoir ==
  ASSUME NEW x, NEW y, NEW z, NEW v
  PROVE  [AuRepos EXCEPT !.etape = x, !.demande = y, !.aRendre = z, !.aVerrouiller = v]
           = Fiche(x, y, z, v, {}, 0, Aucun)
<1>1. [AuRepos EXCEPT !.etape = x] = Fiche(x, Aucun, Rien, {}, {}, 0, Aucun)
  BY DEF AuRepos, Fiche
<1>2. [Fiche(x, Aucun, Rien, {}, {}, 0, Aucun)
         EXCEPT !.demande = y]
       = Fiche(x, y, Rien, {}, {}, 0, Aucun)
  BY DEF Fiche
<1>3. [Fiche(x, y, Rien, {}, {}, 0, Aucun)
         EXCEPT !.aRendre = z]
       = Fiche(x, y, z, {}, {}, 0, Aucun)
  BY DEF Fiche
<1>4. [Fiche(x, y, z, {}, {}, 0, Aucun)
         EXCEPT !.aVerrouiller = v]
       = Fiche(x, y, z, v, {}, 0, Aucun)
  BY DEF Fiche
<1> QED
  BY <1>1, <1>2, <1>3, <1>4, Zenon

\* So does a full credit note.
LEMMA CommenceAvoirTotal ==
  ASSUME NEW x, NEW y, NEW v
  PROVE  [AuRepos EXCEPT !.etape = x, !.demande = y, !.aVerrouiller = v]
           = Fiche(x, y, Rien, v, {}, 0, Aucun)
<1>1. [AuRepos EXCEPT !.etape = x] = Fiche(x, Aucun, Rien, {}, {}, 0, Aucun)
  BY DEF AuRepos, Fiche
<1>2. [Fiche(x, Aucun, Rien, {}, {}, 0, Aucun)
         EXCEPT !.demande = y]
       = Fiche(x, y, Rien, {}, {}, 0, Aucun)
  BY DEF Fiche
<1>3. [Fiche(x, y, Rien, {}, {}, 0, Aucun)
         EXCEPT !.aVerrouiller = v]
       = Fiche(x, y, Rien, v, {}, 0, Aucun)
  BY DEF Fiche
<1> QED
  BY <1>1, <1>2, <1>3, Zenon

\* A process at rest satisfies everything asked of a process.
LEMMA ReposSain ==
  EtapeSaine(AuRepos) /\ Assuree(AuRepos) /\ CleEnMain(AuRepos) /\ Conforme(AuRepos)
<1>1. Rien \in [Lignes -> Nat] /\ \A l \in Lignes : Rien[l] = 0
  BY DEF Rien
<1> QED
  BY <1>1, Repos DEF EtapeSaine, Assuree, CleEnMain, Etapes, Conforme, Connue, Soldee,
                     Couverte

\* A rolled back transaction.
LEMMA AnnulerInv ==
  ASSUME Inv, NEW t \in Travailleurs, Annuler(t),
         UNCHANGED <<encaisse, remboursements, scan>>
  PROVE  Inv'
<1>1. travail' = [travail EXCEPT ![t] = AuRepos] /\ UNCHANGED tables
  BY DEF Annuler
<1>2. AuRepos.tient = {}
  BY DEF AuRepos
<1> QED
  BY <1>1, <1>2, ReposSain, PasInv

\* The row waited for, once free, is locked by nobody else.
LEMMA LibreExclusif ==
  ASSUME Inv, NEW t \in Travailleurs, Libre(t)
  PROVE  \A u \in Travailleurs : u # t =>
           (travail[t].tient \cup Attendue(t)) \cap travail[u].tient = {}
  BY DEF Inv, InvVerrous, Libre, Bloque

-----------------------------------------------------------------------------
(* The requests *)

\* A cancellation is asked for.
LEMMA DemanderInv ==
  ASSUME Inv, NEW t \in Travailleurs, Demander(t)
  PROVE  Inv'
<1>1. PICK d \in [genre : {"billet"}, billet : Billets]
                 \cup [genre : {"reservation"}, reservation : Reservations] :
        travail' = [travail EXCEPT ![t].etape = Parcours(d.genre).libre, ![t].demande = d]
  BY DEF Demander
<1> DEFINE n == Fiche("reservation", d, Rien, {}, {}, 0, Aucun)
<1>2. d.genre \in Annulations
  BY DEF Annulations
<1>3. travail[t] = AuRepos
  BY DEF Demander, A, Inv, InvEtapes, EtapeSaine
<1>4. [AuRepos EXCEPT !.etape = "reservation", !.demande = d] = n
  BY Commence
<1>5. Parcours(d.genre).libre = "reservation"
  BY <1>2 DEF Parcours, ParcoursAnnulation
<1>6. travail' = [travail EXCEPT
                    ![t] = [AuRepos EXCEPT !.etape = "reservation", !.demande = d]]
  BY <1>1, <1>3, <1>5 DEF Inv, InvEtapes
<1>7. travail' = [travail EXCEPT ![t] = n]
  BY <1>4, <1>6, Zenon
<1>8. /\ n.etape = "reservation" /\ n.demande = d /\ n.aRendre = Rien
      /\ n.aVerrouiller = {} /\ n.tient = {} /\ n.rembourse = 0 /\ n.cle = Aucun
      /\ Forme(n)
  BY Champs
<1> HIDE DEF n
<1>9. EtapeSaine(n) /\ Assuree(n) /\ CleEnMain(n)
  BY <1>2, <1>8 DEF EtapeSaine, Assuree, CleEnMain, Etapes, Rien
<1>10. Conforme(n)
  <2>1. d \in Demandes /\ d.genre \notin Avoirs
    BY <1>2 DEF Demandes, Annulations, Avoirs
  <2> QED
    BY <1>8, <2>1 DEF Conforme, Connue, Soldee, Couverte
<1> QED
  BY <1>7, <1>8, <1>9, <1>10, PasInv DEF Demander

\* A credit note of one line is asked for.
LEMMA DemanderAvoirInv ==
  ASSUME Inv, NEW t \in Travailleurs, DemanderAvoir(t)
  PROVE  Inv'
<1>1. PICK l \in Lignes : \E q \in 1 .. Vendu[l] :
        travail' = [travail EXCEPT
          ![t].etape = Parcours("avoir").libre,
          ![t].demande = [genre |-> "avoir", ligne |-> l, quantite |-> q],
          ![t].aRendre = [Rien EXCEPT ![l] = q], ![t].aVerrouiller = {l}]
  BY DEF DemanderAvoir
<1>2. PICK q \in 1 .. Vendu[l] :
        travail' = [travail EXCEPT
          ![t].etape = Parcours("avoir").libre,
          ![t].demande = [genre |-> "avoir", ligne |-> l, quantite |-> q],
          ![t].aRendre = [Rien EXCEPT ![l] = q], ![t].aVerrouiller = {l}]
  BY <1>1
<1> DEFINE d == [genre |-> "avoir", ligne |-> l, quantite |-> q]
           a == [Rien EXCEPT ![l] = q]
           n == Fiche("lignes", d, a, {l}, {}, 0, Aucun)
<1>3. d.genre = "avoir"
  OBVIOUS
<1>4. a \in [Lignes -> Nat] /\ \A m \in Lignes \ {l} : a[m] = 0
  <2>1. q \in Nat
    BY VenteHypothese
  <2> QED
    BY <2>1 DEF Rien
<1>5. travail[t] = AuRepos
  BY DEF DemanderAvoir, A, Inv, InvEtapes, EtapeSaine
<1>6. Parcours("avoir").libre = "lignes"
  BY DEF Parcours, ParcoursAvoir, Annulations
<1> HIDE DEF d, a
<1>7. travail' = [travail EXCEPT ![t] = [AuRepos EXCEPT
                    !.etape = "lignes", !.demande = d, !.aRendre = a, !.aVerrouiller = {l}]]
  BY <1>2, <1>5, <1>6 DEF Inv, InvEtapes, d, a
<1>8. travail' = [travail EXCEPT ![t] = n]
  <2>1. [AuRepos EXCEPT !.etape = "lignes", !.demande = d, !.aRendre = a,
                        !.aVerrouiller = {l}] = n
    BY CommenceAvoir
  <2> QED
    BY <1>7, <2>1, Zenon
<1>9. /\ n.etape = "lignes" /\ n.demande = d /\ n.aRendre = a /\ n.aVerrouiller = {l}
      /\ n.tient = {} /\ n.rembourse = 0 /\ n.cle = Aucun /\ Forme(n)
  BY Champs
<1> HIDE DEF n
<1>10. EtapeSaine(n) /\ Assuree(n) /\ CleEnMain(n)
  BY <1>3, <1>4, <1>9 DEF EtapeSaine, Assuree, CleEnMain, Etapes, Annulations, Avoirs
<1>11. Conforme(n)
  <2>1. d \in Demandes
    BY VenteHypothese DEF d, Demandes
  <2>2. encaisse = TotalVendu
    BY DEF DemanderAvoir, AvoirPermis
  <2> QED
    BY <1>3, <1>9, <2>1, <2>2 DEF Conforme, Connue, Soldee, Couverte, Annulations
<1> QED
  BY <1>8, <1>9, <1>10, <1>11, PasInv DEF DemanderAvoir

\* A credit note of a whole payment is asked for.
LEMMA DemanderAvoirTotalInv ==
  ASSUME Inv, NEW t \in Travailleurs, DemanderAvoirTotal(t)
  PROVE  Inv'
<1> DEFINE d == [genre |-> "avoirTotal"]
           n == Fiche("lignes", d, Rien, Lignes, {}, 0, Aucun)
<1>1. d.genre = "avoirTotal"
  OBVIOUS
<1>2. travail[t] = AuRepos
  BY DEF DemanderAvoirTotal, A, Inv, InvEtapes, EtapeSaine
<1>3. Parcours("avoirTotal").libre = "lignes"
  BY DEF Parcours, ParcoursAvoir, Annulations
<1> HIDE DEF d
<1>4. travail' = [travail EXCEPT ![t] = [AuRepos EXCEPT
                    !.etape = "lignes", !.demande = d, !.aVerrouiller = Lignes]]
  BY <1>2, <1>3 DEF DemanderAvoirTotal, Inv, InvEtapes, d
<1>5. travail' = [travail EXCEPT ![t] = n]
  <2>1. [AuRepos EXCEPT !.etape = "lignes", !.demande = d, !.aVerrouiller = Lignes] = n
    BY CommenceAvoirTotal
  <2> QED
    BY <1>4, <2>1, Zenon
<1>6. /\ n.etape = "lignes" /\ n.demande = d /\ n.aRendre = Rien
      /\ n.aVerrouiller = Lignes /\ n.tient = {} /\ n.rembourse = 0 /\ n.cle = Aucun
      /\ Forme(n)
  BY Champs
<1> HIDE DEF n
<1>7. EtapeSaine(n) /\ Assuree(n) /\ CleEnMain(n)
  BY <1>1, <1>6 DEF EtapeSaine, Assuree, CleEnMain, Etapes, Annulations, Avoirs, Rien
<1>8. Conforme(n)
  <2>1. d \in Demandes
    BY DEF d, Demandes
  <2>2. encaisse = TotalVendu
    BY DEF DemanderAvoirTotal, AvoirPermis
  <2> QED
    BY <1>1, <1>6, <2>1, <2>2 DEF Conforme, Connue, Soldee, Couverte, Annulations
<1> QED
  BY <1>5, <1>6, <1>7, <1>8, PasInv DEF DemanderAvoirTotal

-----------------------------------------------------------------------------
(* The steps that lock a row *)

\* What a process becomes when it locks the row it waits for.
Suivante(t, e, a, v) ==
  Fiche(e, travail[t].demande, a, v, travail[t].tient \cup Attendue(t),
        travail[t].rembourse, travail[t].cle)

\* The fields of Suivante.
LEMMA SuivanteChamps ==
  ASSUME NEW t, NEW e, NEW a, NEW v
  PROVE  LET s == Suivante(t, e, a, v)
         IN  /\ Forme(s) /\ s.etape = e /\ s.demande = travail[t].demande
             /\ s.aRendre = a /\ s.aVerrouiller = v
             /\ s.tient = travail[t].tient \cup Attendue(t)
             /\ s.rembourse = travail[t].rembourse /\ s.cle = travail[t].cle
  BY DEF Suivante, Fiche, Forme

\* A worker moves on without a lock and without money.
LEMMA AvecInv ==
  ASSUME Inv, NEW t \in Travailleurs, Libre(t), NEW n, NEW e, NEW a, NEW v,
         n = Fiche(e, travail[t].demande, a, v, travail[t].tient,
                   travail[t].rembourse, travail[t].cle),
         Avec(t, n), UNCHANGED <<encaisse, tables, remboursements, scan>>,
         EtapeSaine(Suivante(t, e, a, v)), Assuree(Suivante(t, e, a, v)),
         Conforme(Suivante(t, e, a, v))
  PROVE  Inv'
<1> DEFINE s == Suivante(t, e, a, v)
<1>1. n.tient = travail[t].tient
  BY DEF Fiche
<1>2. [n EXCEPT !.tient = n.tient \cup Attendue(t)] = s
  BY <1>1 DEF Fiche, Suivante
<1>3. travail' = [travail EXCEPT ![t] = s]
  BY <1>2 DEF Avec
<1>4. /\ s.tient = travail[t].tient \cup Attendue(t)
      /\ s.rembourse = travail[t].rembourse /\ s.cle = travail[t].cle
  BY SuivanteChamps
<1> HIDE DEF s
<1>5. CleEnMain(s)
  BY <1>4 DEF CleEnMain, Inv, InvCles
<1>6. \A u \in Travailleurs : u # t => s.tient \cap travail[u].tient = {}
  BY <1>4, LibreExclusif
<1>7. EtapeSaine(s) /\ Assuree(s) /\ Conforme(s)
  BY DEF s
<1> QED
  BY <1>3, <1>5, <1>6, <1>7, PasInv

\* A ticket or a reservation of a request is one of the sale.
LEMMA DemandeConnue ==
  ASSUME NEW d \in Demandes
  PROVE  /\ d.genre \in Annulations \cup Avoirs
         /\ d.genre = "billet" => /\ d.billet \in Billets /\ d.billet[1] \in Lignes
                                 /\ d.billet \in BilletsDeLigne(d.billet[1])
         /\ d.genre \in Annulations => ReservationDe(d) \in Reservations
         /\ d.genre = "billet" => d.billet[1] \in LignesDe(ReservationDe(d))
         /\ d.genre = "reservation" => ReservationDe(d) = d.reservation
<1>1. d.genre = "billet" => d.billet \in Billets
  BY DEF Demandes
<1>2. d.genre = "reservation" => d.reservation \in Reservations
  BY DEF Demandes
<1>3. d.genre \in Annulations \cup Avoirs
  BY DEF Demandes, Annulations, Avoirs
<1>4. \A b \in Billets : b[1] \in Lignes /\ b \in BilletsDeLigne(b[1])
  BY DEF Billets, BilletsDeLigne
<1> QED
  BY <1>1, <1>2, <1>3, <1>4, VenteHypothese DEF ReservationDe, Annulations, LignesDe

\* A process waits for rows of the sale only.
LEMMA AttendueRessources ==
  ASSUME Inv, NEW t \in Travailleurs
  PROVE  travail[t].tient \cup Attendue(t) \subseteq Ressources
<1> DEFINE w == travail[t]
<1>1. EtapeSaine(w) /\ Connue(w)
  BY DEF Inv, InvEtapes, InvTravaux, Conforme
<1>2. w.etape = "reservation" => ReservationDe(w.demande) \in Reservations
  BY <1>1, DemandeConnue DEF EtapeSaine, Connue
<1>3. Prochaine(t) \subseteq Lignes
  BY <1>1 DEF EtapeSaine, Prochaine
<1>4. Attendue(t) \subseteq Ressources
  BY <1>2, <1>3 DEF Attendue, A, Ressources
<1> QED
  BY <1>1, <1>4 DEF Connue

\* A process that locks a row still runs the request it runs.
LEMMA SuivanteConnue ==
  ASSUME Inv, NEW t \in Travailleurs, travail[t].etape # "libre", NEW e, NEW a, NEW v
  PROVE  Connue(Suivante(t, e, a, v))
<1>1. Connue(travail[t])
  BY DEF Inv, InvTravaux, Conforme
<1> DEFINE s == Suivante(t, e, a, v)
<1>2. s.demande = travail[t].demande /\ s.tient = travail[t].tient \cup Attendue(t)
  BY SuivanteChamps
<1> HIDE DEF s
<1>3. Connue(s)
  BY <1>1, <1>2, AttendueRessources DEF Connue
<1> QED
  BY <1>3 DEF s

\* A cancellation that leaves its first step holds no more than rows.
LEMMA EnReservation ==
  ASSUME Inv, NEW t \in Travailleurs, A(t, "reservation")
  PROVE  LET w == travail[t]
         IN  /\ EtapeSaine(w) /\ w.etape = "reservation"
             /\ w.demande.genre \in Annulations
             /\ w.aRendre = Rien /\ w.aVerrouiller = {} /\ w.rembourse = 0 /\ w.cle = Aucun
             /\ Attendue(t) = {<<"reservation", ReservationDe(w.demande)>>}
             /\ <<"lieu", 0>> \notin w.tient \cup Attendue(t)
<1>1. travail[t].etape = "reservation" /\ EtapeSaine(travail[t])
  BY DEF A, Inv, InvEtapes
<1>2. Attendue(t) = {<<"reservation", ReservationDe(travail[t].demande)>>}
  BY <1>1 DEF Attendue, A
<1> QED
  BY <1>1, <1>2 DEF EtapeSaine

\* What is left of a line is a natural number.
LEMMA RestantNat ==
  ASSUME Inv, NEW l \in Lignes
  PROVE  Restant(l) \in Nat
  BY VenteHypothese DEF Inv, InvQuantites, JamaisPlusQueVendu, Restant

\* Nothing to give back: the last writes come at once.
LEMMA SansArgentInv ==
  ASSUME Inv, NEW t \in Travailleurs, A(t, "reservation"), Libre(t),
         SansArgent(ReservationDe(travail[t].demande)),
         Avec(t, [travail[t] EXCEPT !.etape = "ecrire"]),
         UNCHANGED <<encaisse, tables, remboursements, scan>>
  PROVE  Inv'
<1> DEFINE w == travail[t]
           s == Suivante(t, "ecrire", w.aRendre, w.aVerrouiller)
<1>1. [w EXCEPT !.etape = "ecrire"]
        = Fiche("ecrire", w.demande, w.aRendre, w.aVerrouiller, w.tient, w.rembourse, w.cle)
  <2>1. Forme(w)
    BY EnReservation DEF EtapeSaine
  <2> QED
    BY <2>1 DEF Forme, Fiche
<1>2. EtapeSaine(s) /\ Assuree(s)
  <2>1. \A l \in Lignes : Rien[l] = 0
    BY DEF Rien
  <2>2. /\ Forme(s) /\ s.etape = "ecrire" /\ s.demande = w.demande
        /\ s.aRendre = Rien /\ s.aVerrouiller = {} /\ s.cle = Aucun
    BY SuivanteChamps, EnReservation
  <2>3. Rien \in [Lignes -> Nat] /\ w.demande.genre \in Annulations
    BY EnReservation DEF EtapeSaine
  <2> HIDE DEF s
  <2> QED
    BY <2>1, <2>2, <2>3 DEF EtapeSaine, Assuree, Etapes
<1>3. Conforme(s)
  <2> DEFINE d == w.demande
  <2>1. /\ s.etape = "ecrire" /\ s.demande = d /\ s.aRendre = Rien /\ s.rembourse = 0
        /\ d.genre \in Annulations
    BY SuivanteChamps, EnReservation
  <2>2. Connue(s)
    BY EnReservation, SuivanteConnue
  <2>3. d \in Demandes
    BY EnReservation DEF Inv, InvTravaux, Conforme, Connue
  <2>4. \A l \in LignesDe(ReservationDe(d)) : rendu[l] >= Vendu[l]
    <3>1. \A l \in LignesDe(ReservationDe(d)) : Restant(l) = 0
      BY RestantNat, RienAPayer DEF SansArgent
    <3> QED
      BY <3>1, VenteHypothese DEF Restant, Inv, InvQuantites, LignesDe
  <2>5. \A l \in Lignes : Rien[l] = 0
    BY DEF Rien
  <2>6. d.genre = "reservation" =>
          \A l \in LignesDe(d.reservation) : l \in Lignes /\ rendu[l] \in Nat /\ Vendu[l] \in Nat
                                            /\ rendu[l] >= Vendu[l]
    BY <2>3, <2>4, DemandeConnue, VenteHypothese DEF Inv, InvQuantites, LignesDe
  <2>7. d.genre = "billet" => \A l \in Semblables(d.billet[1]) : rendu[l] >= Vendu[l]
    <3>1. d.genre = "billet" => /\ d.billet[1] \in Lignes
                               /\ ReservationDe(d) = Resa[d.billet[1]]
      BY <2>3, DemandeConnue DEF ReservationDe
    <3> QED
      BY <2>4, <3>1, LignesSemblables DEF LignesDe
  <2> HIDE DEF s, d
  <2>8. Soldee(s)
    BY <2>1, <2>5 DEF Soldee, Annulations, Avoirs
  <2>9. Couverte(s)
    BY <2>1, <2>5, <2>6, <2>7 DEF Couverte
  <2> QED
    BY <2>2, <2>8, <2>9 DEF Conforme
<1> QED
  BY <1>1, <1>2, <1>3, AvecInv

\* The quantities to give back are chosen; the payment is locked next.
LEMMA VersPaiementInv ==
  ASSUME Inv, NEW t \in Travailleurs, A(t, "reservation"), Libre(t),
         NEW q \in [Lignes -> Nat],
         Genre(t) = "billet" =>
           \E l \in Semblables(travail[t].demande.billet[1]) : q[l] >= 1,
         Genre(t) = "reservation" =>
           \A l \in LignesDe(travail[t].demande.reservation) : rendu[l] + q[l] >= Vendu[l],
         Avec(t, [travail[t] EXCEPT !.etape = Apres(t, "reservation"), !.aRendre = q]),
         UNCHANGED <<encaisse, tables, remboursements, scan>>
  PROVE  Inv'
<1> DEFINE w == travail[t]
           s == Suivante(t, "paiement", q, w.aVerrouiller)
<1>1. Apres(t, "reservation") = "paiement"
  BY Chemins, EnReservation DEF Genre
<1>2. [w EXCEPT !.etape = Apres(t, "reservation"), !.aRendre = q]
        = Fiche("paiement", w.demande, q, w.aVerrouiller, w.tient, w.rembourse, w.cle)
  <2>1. Forme(w)
    BY EnReservation DEF EtapeSaine
  <2> QED
    BY <1>1, <2>1, MajARendre
<1>3. EtapeSaine(s) /\ Assuree(s)
  <2>1. /\ Forme(s) /\ s.etape = "paiement" /\ s.demande = w.demande
        /\ s.aRendre = q /\ s.aVerrouiller = {} /\ s.rembourse = 0 /\ s.cle = Aucun
        /\ <<"lieu", 0>> \notin s.tient
    BY SuivanteChamps, EnReservation
  <2>2. w.demande.genre \in Annulations
    BY EnReservation
  <2> HIDE DEF s
  <2> QED
    BY <2>1, <2>2 DEF EtapeSaine, Assuree, Etapes
<1>4. Conforme(s)
  <2>1. s.etape = "paiement" /\ s.demande = w.demande /\ s.aRendre = q
    BY SuivanteChamps
  <2>2. Connue(s)
    BY EnReservation, SuivanteConnue
  <2>3. w.demande.genre \in Annulations
    BY EnReservation
  <2> HIDE DEF s
  <2>4. Soldee(s)
    BY <2>1, <2>3 DEF Soldee, Annulations, Avoirs
  <2>5. Couverte(s)
    BY <2>1 DEF Couverte, Genre
  <2> QED
    BY <2>2, <2>4, <2>5 DEF Conforme
<1> QED
  BY <1>2, <1>3, <1>4, AvecInv

\* The cancellation of a ticket reads what is to be paid back.
LEMMA AnnulerBilletInv ==
  ASSUME Inv, NEW t \in Travailleurs, AnnulerBillet(t)
  PROVE  Inv'
<1> DEFINE b == travail[t].demande.billet
           q == [l \in Lignes |-> IF l \in LigneDuBillet(b) THEN 1 ELSE 0]
<1>1. /\ A(t, "reservation") /\ Libre(t) /\ Genre(t) = "billet"
      /\ UNCHANGED <<encaisse, remboursements, scan>>
      /\ \/ Annuler(t)
         \/ /\ \/ /\ SansArgent(Resa[b[1]])
                  /\ Avec(t, [travail[t] EXCEPT !.etape = "ecrire"])
               \/ /\ LigneDuBillet(b) # {}
                  /\ Avec(t, [travail[t] EXCEPT !.etape = Apres(t, "reservation"),
                                                !.aRendre = q])
            /\ UNCHANGED tables
  BY Zenon DEF AnnulerBillet
<1>2. travail[t].demande \in Demandes
  BY <1>1 DEF A, Inv, InvTravaux, Conforme, Connue
<1>3. ReservationDe(travail[t].demande) = Resa[b[1]] /\ b[1] \in Lignes
  BY <1>1, <1>2, DemandeConnue DEF ReservationDe, Genre
<1>4. q \in [Lignes -> Nat]
  OBVIOUS
<1>5. LigneDuBillet(b) # {} => \E l \in Semblables(b[1]) : q[l] >= 1
  BY <1>3, LignesSemblables DEF LigneDuBillet
<1> HIDE DEF q
<1> QED
  BY <1>1, <1>3, <1>4, <1>5, AnnulerInv, SansArgentInv, VersPaiementInv

\* The tickets of a line are as many as its quantity, a natural number.
LEMMA BilletsFinis ==
  ASSUME NEW l \in Lignes
  PROVE  IsFiniteSet(BilletsDeLigne(l)) /\ Cardinality(BilletsDeLigne(l)) = Vendu[l]
<1>1. Vendu[l] \in Nat
  BY VenteHypothese
<1>2. IsFiniteSet({l}) /\ Cardinality({l}) = 1
  BY FS_Singleton
<1>3. IsFiniteSet(1 .. Vendu[l]) /\ Cardinality(1 .. Vendu[l]) = Vendu[l]
  <2>1. 1 \in Int /\ Vendu[l] \in Int
    BY <1>1
  <2>2. /\ IsFiniteSet(1 .. Vendu[l])
        /\ Cardinality(1 .. Vendu[l]) = IF 1 > Vendu[l] THEN 0 ELSE Vendu[l] - 1 + 1
    BY <2>1, FS_Interval
  <2> QED
    BY <1>1, <2>2
<1>4. /\ IsFiniteSet(BilletsDeLigne(l))
      /\ Cardinality(BilletsDeLigne(l)) = Cardinality({l}) * Cardinality(1 .. Vendu[l])
  BY <1>2, <1>3, FS_Product DEF BilletsDeLigne
<1>5. Cardinality(BilletsDeLigne(l)) = Vendu[l]
  BY <1>1, <1>2, <1>3, <1>4
<1> QED
  BY <1>4, <1>5

\* The units sold at the sold price of a line.
VenduDuTarif(l) == SumFunctionOnSet(Vendu, Semblables(l))

\* The tickets of a sold price are as many as the units of its lines.
LEMMA BilletsDuTarifFinis ==
  ASSUME NEW l \in Lignes
  PROVE  /\ IsFiniteSet(BilletsDuTarif(l)) /\ Cardinality(BilletsDuTarif(l)) = VenduDuTarif(l)
         /\ VenduDuTarif(l) \in Nat
         /\ \A S \in SUBSET BilletsDuTarif(l) :
              IsFiniteSet(S) /\ Cardinality(S) \in Nat /\ Cardinality(S) <= VenduDuTarif(l)
<1> DEFINE S == Semblables(l)
           B(T) == UNION {BilletsDeLigne(m) : m \in T}
           W == {T \in SUBSET S : /\ IsFiniteSet(B(T))
                                 /\ Cardinality(B(T)) = SumFunctionOnSet(Vendu, T)}
<1>1. IsFiniteSet(S) /\ S \subseteq Lignes /\ \A m \in S : Vendu[m] \in Nat
  BY LignesSemblables, VenteHypothese
<1>2. {} \in W
  <2>1. B({}) = {}
    OBVIOUS
  <2> QED
    BY <2>1, SommeVide, FS_EmptySet
<1> HIDE DEF S
<1>3. ASSUME NEW T \in SUBSET S, T # {}, \A x \in T : T \ {x} \in W
      PROVE  T \in W
  <2>1. PICK x \in T : T \ {x} \in W
    BY <1>3
  <2> DEFINE U == T \ {x}
  <2>2. B(T) = B(U) \cup BilletsDeLigne(x) /\ B(U) \cap BilletsDeLigne(x) = {}
    BY DEF BilletsDeLigne
  <2>3. /\ IsFiniteSet(B(U)) /\ Cardinality(B(U)) = SumFunctionOnSet(Vendu, U)
        /\ IsFiniteSet(BilletsDeLigne(x)) /\ Cardinality(BilletsDeLigne(x)) = Vendu[x]
    BY <1>1, <2>1, BilletsFinis
  <2>4. IsFiniteSet(T) /\ IsFiniteSet(U) /\ \A m \in T : Vendu[m] \in Int
    BY <1>1, FS_Subset
  <2>5. SumFunctionOnSet(Vendu, T) = Vendu[x] + SumFunctionOnSet(Vendu, U)
    BY <2>4, SommeRetrait
  <2>6. Vendu[x] \in Nat /\ SumFunctionOnSet(Vendu, U) \in Int
    BY <1>1, <2>4, SommeEntiere
  <2> HIDE DEF B, U
  <2>7. /\ IsFiniteSet(B(U) \cup BilletsDeLigne(x))
        /\ Cardinality(B(U) \cup BilletsDeLigne(x))
             = Cardinality(B(U)) + Cardinality(BilletsDeLigne(x))
               - Cardinality(B(U) \cap BilletsDeLigne(x))
    BY <2>3, FS_Union
  <2>8. Cardinality(B(U) \cap BilletsDeLigne(x)) = 0
    BY <2>2, FS_EmptySet
  <2>9. IsFiniteSet(B(T)) /\ Cardinality(B(T)) = SumFunctionOnSet(Vendu, T)
    BY <2>2, <2>3, <2>5, <2>6, <2>7, <2>8
  <2> QED
    BY <2>9
<1> HIDE DEF W
<1>4. S \in W
  BY <1>1, <1>2, <1>3, Retraits
<1>5. /\ IsFiniteSet(BilletsDuTarif(l)) /\ Cardinality(BilletsDuTarif(l)) = VenduDuTarif(l)
  BY <1>4 DEF W, S, BilletsDuTarif, VenduDuTarif
<1> QED
  BY <1>5, FS_Subset, FS_CardinalityType

\* The smaller of two numbers.
LEMMA MinDeux ==
  ASSUME NEW a \in Int, NEW b \in Int
  PROVE  Min({a, b}) = IF a <= b THEN a ELSE b
<1>1. \A x \in Int : (x \in {a, b} /\ \A y \in {a, b} : x <= y) <=> x = (IF a <= b THEN a ELSE b)
  OBVIOUS
<1>2. \A x : x \in {a, b} => x \in Int
  OBVIOUS
<1> QED
  BY <1>1, <1>2 DEF Min

\* The greater of two numbers.
LEMMA MaxDeux ==
  ASSUME NEW a \in Int, NEW b \in Int
  PROVE  Max({a, b}) = IF a >= b THEN a ELSE b
<1>1. \A x \in Int : (x \in {a, b} /\ \A y \in {a, b} : x >= y) <=> x = (IF a >= b THEN a ELSE b)
  OBVIOUS
<1>2. \A x : x \in {a, b} => x \in Int
  OBVIOUS
<1> QED
  BY <1>1, <1>2 DEF Max

\* The tickets of a sold price, cancelled or not.
LEMMA BilletsVivants ==
  ASSUME NEW l \in Lignes
  PROVE  LET C == {b \in BilletsDuTarif(l) : billets[b] = "CANCELED"}
         IN  /\ Actifs(l) \in Nat /\ Cardinality(C) \in Nat
             /\ Actifs(l) = VenduDuTarif(l) - Cardinality(C)
<1> DEFINE V == {b \in BilletsDuTarif(l) : billets[b] # "CANCELED"}
           C == {b \in BilletsDuTarif(l) : billets[b] = "CANCELED"}
<1>1. V \in SUBSET BilletsDuTarif(l) /\ C \in SUBSET BilletsDuTarif(l)
  OBVIOUS
<1>2. V = BilletsDuTarif(l) \ C /\ BilletsDuTarif(l) \cap C = C
  OBVIOUS
<1> HIDE DEF V, C
<1>3. Cardinality(V) = Cardinality(BilletsDuTarif(l)) - Cardinality(BilletsDuTarif(l) \cap C)
  BY <1>2, BilletsDuTarifFinis, FS_Difference
<1>4. Cardinality(V) \in Nat /\ Cardinality(C) \in Nat
      /\ Cardinality(V) = VenduDuTarif(l) - Cardinality(C)
  BY <1>1, <1>2, <1>3, BilletsDuTarifFinis
<1> QED
  BY <1>4 DEF V, C, Actifs

\* What the newer lines of its sold price take leaves a line all it has left: as many
\* tickets are active as there are units to give back, or more.
LEMMA AssezDeBillets ==
  ASSUME Inv, NEW l \in Lignes
  PROVE  /\ DejaRepartis(l) \in Int
         /\ Actifs(l) - DejaRepartis(l) >= Restant(l)
<1> DEFINE S == Semblables(l)
           P == {m \in S : m > l}
           Q == S \ (P \cup {l})
           R == [m \in Lignes |-> Restant(m)]
<1>1. \A m \in Lignes : /\ rendu[m] \in Nat /\ Vendu[m] \in Nat /\ R[m] \in Nat
                        /\ Vendu[m] = rendu[m] + R[m]
  BY RestantNat, VenteHypothese DEF Inv, InvQuantites, Restant
<1>2. l \in S /\ S \subseteq Lignes /\ IsFiniteSet(S)
  BY LignesSemblables
<1>3. R[l] = Restant(l)
  OBVIOUS
<1>4. DejaRepartis(l) = SumFunctionOnSet(R, P)
  BY DEF DejaRepartis
<1>5. P \subseteq S /\ l \notin P
  BY VenteHypothese DEF Lignes
<1>6. IsFiniteSet(P) /\ IsFiniteSet(P \cup {l}) /\ IsFiniteSet(Q)
  BY <1>2, FS_Subset
<1> HIDE DEF S, P, R
<1>7. /\ (P \cup {l}) \cap Q = {} /\ (P \cup {l}) \cup Q = S
      /\ P \subseteq Lignes /\ Q \subseteq Lignes
  BY <1>2, <1>5
<1> HIDE DEF Q
<1>8. SumFunctionOnSet(R, P) \in Nat /\ SumFunctionOnSet(R, Q) \in Nat
  BY <1>1, <1>6, <1>7, SommeNaturelle
<1>9. SumFunctionOnSet(R, P \cup {l}) = SumFunctionOnSet(R, P) + R[l]
  <2>1. \A x \in P \cup {l} : R[x] \in Int
    BY <1>1, <1>7
  <2> QED
    BY <1>5, <1>6, <2>1, SommeAjout
<1>10. SumFunctionOnSet(R, S) = SumFunctionOnSet(R, P \cup {l}) + SumFunctionOnSet(R, Q)
  <2>1. \A x \in (P \cup {l}) \cup Q : R[x] \in Int
    BY <1>1, <1>7
  <2>2. SumFunctionOnSet(R, (P \cup {l}) \cup Q)
          = SumFunctionOnSet(R, P \cup {l}) + SumFunctionOnSet(R, Q)
    BY <1>6, <1>7, <2>1, SommeReunion
  <2> QED
    BY <1>7, <2>2
<1>11. /\ SumFunctionOnSet(Vendu, S) = SumFunctionOnSet(rendu, S) + SumFunctionOnSet(R, S)
       /\ SumFunctionOnSet(rendu, S) \in Nat
  <2>1. \A x \in S : /\ rendu[x] \in Int /\ R[x] \in Int /\ rendu[x] \in Nat
                     /\ Vendu[x] = rendu[x] + R[x]
    BY <1>1, <1>2
  <2> QED
    BY <1>2, <2>1, SommeDeDeux, SommeNaturelle
<1>12. Actifs(l) \in Nat /\ Actifs(l) >= SumFunctionOnSet(Vendu, S) - SumFunctionOnSet(rendu, S)
  <2> DEFINE c == Cardinality({b \in BilletsDuTarif(l) : billets[b] = "CANCELED"})
  <2>1. Actifs(l) \in Nat /\ c \in Nat /\ Actifs(l) = SumFunctionOnSet(Vendu, S) - c
    BY BilletsVivants DEF VenduDuTarif, S
  <2>2. c <= SumFunctionOnSet(rendu, S)
    BY DEF Inv, InvBillets, BilletsAnnulesRendus, S
  <2>3. SumFunctionOnSet(Vendu, S) \in Nat
    BY BilletsDuTarifFinis DEF VenduDuTarif, S
  <2> HIDE DEF c
  <2> QED
    BY <1>11, <2>1, <2>2, <2>3
<1>13. Restant(l) \in Nat
  BY RestantNat
<1> QED
  BY <1>3, <1>4, <1>8, <1>9, <1>10, <1>11, <1>12, <1>13

\* The quantities of a cancelled reservation: all that is left of its lines.
LEMMA QuantitesToutes ==
  ASSUME Inv, NEW r
  PROVE  /\ QuantitesARendre(r) \in [Lignes -> Nat]
         /\ \A l \in LignesDe(r) : rendu[l] + QuantitesARendre(r)[l] >= Vendu[l]
<1>1. \A l \in Lignes : rendu[l] \in Nat /\ Vendu[l] \in Nat /\ Restant(l) \in Nat
                        /\ Restant(l) = Vendu[l] - rendu[l]
  BY RestantNat, VenteHypothese DEF Inv, InvQuantites, Restant
<1>2. ASSUME NEW l \in Lignes
      PROVE  Max({0, Min({Restant(l), Actifs(l) - DejaRepartis(l)})}) = Restant(l)
  <2> DEFINE n == Restant(l)
             a == Actifs(l) - DejaRepartis(l)
  <2>1. n \in Nat /\ a \in Int /\ a >= n
    <3>1. Actifs(l) \in Nat
      BY BilletsVivants
    <3>2. DejaRepartis(l) \in Int /\ a >= n
      BY AssezDeBillets
    <3> QED
      BY <1>1, <3>1, <3>2
  <2> HIDE DEF n, a
  <2>2. Min({n, a}) = n
    BY <2>1, MinDeux
  <2>3. Max({0, n}) = n
    BY <2>1, MaxDeux
  <2> QED
    BY <2>2, <2>3 DEF n, a
<1>3. QuantitesARendre(r) = [l \in Lignes |-> IF Resa[l] # r THEN 0 ELSE Restant(l)]
  BY <1>2 DEF QuantitesARendre
<1> QED
  BY <1>1, <1>3 DEF LignesDe

\* The cancellation of a booking goes to its payments, or ends without money.
LEMMA AnnulerReservationInv ==
  ASSUME Inv, NEW t \in Travailleurs, AnnulerReservation(t)
  PROVE  Inv'
<1> DEFINE r == travail[t].demande.reservation
           q == QuantitesARendre(r)
<1>1. /\ A(t, "reservation") /\ Libre(t) /\ Genre(t) = "reservation"
      /\ UNCHANGED <<encaisse, remboursements, scan>>
      /\ \/ Annuler(t)
         \/ /\ \/ /\ SansArgent(r)
                  /\ Avec(t, [travail[t] EXCEPT !.etape = "ecrire"])
               \/ Avec(t, [travail[t] EXCEPT !.etape = Apres(t, "reservation"),
                                             !.aRendre = q])
            /\ UNCHANGED tables
  BY Zenon DEF AnnulerReservation
<1>2. travail[t].demande \in Demandes
  BY <1>1 DEF A, Inv, InvTravaux, Conforme, Connue
<1>3. ReservationDe(travail[t].demande) = r
  BY <1>1, <1>2, DemandeConnue DEF Genre
<1>4. q \in [Lignes -> Nat] /\ \A l \in LignesDe(r) : rendu[l] + q[l] >= Vendu[l]
  BY QuantitesToutes
<1> HIDE DEF q
<1> QED
  BY <1>1, <1>3, <1>4, AnnulerInv, SansArgentInv, VersPaiementInv

\* The row of the payment is locked, or waited for.
LEMMA VerrouillerPaiementInv ==
  ASSUME Inv, NEW t \in Travailleurs, VerrouillerPaiement(t)
  PROVE  Inv'
<1> DEFINE w == travail[t]
           aVoir == {l \in Lignes : w.aRendre[l] > 0}
           e == IF aVoir = {} THEN "ecrire" ELSE "lignes"
           s == Suivante(t, e, w.aRendre, aVoir)
<1>1. EtapeSaine(w) /\ w.etape = "paiement"
  BY DEF VerrouillerPaiement, A, Inv, InvEtapes
<1>2. w.demande.genre \in Annulations /\ w.rembourse = 0 /\ w.cle = Aucun
  BY <1>1 DEF EtapeSaine
<1>3. Attendue(t) = {<<"paiement", 0>>}
  BY <1>1 DEF Attendue, A
<1>4. Apres(t, "paiement") = "lignes"
  BY <1>2, Chemins DEF Genre
<1>5. [w EXCEPT !.etape = IF aVoir = {} THEN "ecrire" ELSE Apres(t, "paiement"),
                !.aVerrouiller = aVoir]
        = Fiche(e, w.demande, w.aRendre, aVoir, w.tient, w.rembourse, w.cle)
  <2>1. Forme(w)
    BY <1>1 DEF EtapeSaine
  <2>2. (IF aVoir = {} THEN "ecrire" ELSE Apres(t, "paiement")) = e
    BY <1>4
  <2> HIDE DEF e, aVoir
  <2> QED
    BY <2>1, <2>2, MajAVerrouiller
<1>6. /\ Libre(t) /\ UNCHANGED <<encaisse, tables, remboursements, scan>>
      /\ Avec(t, [w EXCEPT !.etape = IF aVoir = {} THEN "ecrire" ELSE Apres(t, "paiement"),
                           !.aVerrouiller = aVoir])
  BY Zenon DEF VerrouillerPaiement
<1>7. /\ Forme(s) /\ s.etape = e /\ s.demande = w.demande /\ s.aRendre = w.aRendre
      /\ s.aVerrouiller = aVoir /\ s.rembourse = 0 /\ s.cle = Aucun
      /\ <<"paiement", 0>> \in s.tient /\ <<"lieu", 0>> \notin s.tient
  BY <1>1, <1>2, <1>3, SuivanteChamps DEF EtapeSaine
<1>8. \A l \in Lignes : l \in aVoir \/ w.aRendre[l] = 0
  BY <1>1 DEF EtapeSaine
<1>9. w.aRendre \in [Lignes -> Nat]
  BY <1>1 DEF EtapeSaine
<1>10. e \in {"ecrire", "lignes"} /\ (e = "ecrire" => aVoir = {}) /\ aVoir \subseteq Lignes
  OBVIOUS
<1>13. Connue(s) /\ Couverte(w)
  BY <1>1, SuivanteConnue DEF Inv, InvTravaux, Conforme
<1> HIDE DEF s, aVoir, e
<1>11. EtapeSaine(s)
  BY <1>2, <1>7, <1>9, <1>10 DEF EtapeSaine, Etapes
<1>12. Assuree(s)
  BY <1>7, <1>8 DEF Assuree
<1>14. Conforme(s)
  <2>1. Soldee(s)
    BY <1>2, <1>7, <1>8, <1>10 DEF Soldee, Annulations, Avoirs
  <2>2. Couverte(s)
    BY <1>1, <1>7, <1>13 DEF Couverte
  <2> QED
    BY <1>13, <2>1, <2>2 DEF Conforme
<1> QED
  BY <1>5, <1>6, <1>11, <1>12, <1>14, AvecInv DEF s

\* A line is locked: what is to be given back of it is there to be given back.
LEMMA LigneVerrouilleeInv ==
  ASSUME Inv, NEW t \in Travailleurs, A(t, "lignes"), Libre(t),
         NEW l \in Prochaine(t), NEW q \in Nat, q <= Restant(l),
         Genre(t) # "avoirTotal" => q = travail[t].aRendre[l],
         NEW a, a = [travail[t].aRendre EXCEPT ![l] = q],
         NEW v, v = travail[t].aVerrouiller \ {l},
         Avec(t, [travail[t] EXCEPT !.etape = IF v = {} THEN Apres(t, "lignes") ELSE @,
                                    !.aRendre = a, !.aVerrouiller = v]),
         UNCHANGED <<encaisse, tables, remboursements, scan>>
  PROVE  Inv'
<1> DEFINE w == travail[t]
           e == IF v = {} THEN Apres(t, "lignes") ELSE w.etape
           s == Suivante(t, e, a, v)
<1>1. EtapeSaine(w) /\ w.etape = "lignes" /\ Assuree(w)
  BY DEF A, Inv, InvEtapes, InvQuantites
<1>2. /\ w.demande.genre \in Annulations \cup Avoirs /\ w.rembourse = 0 /\ w.cle = Aucun
      /\ w.aRendre \in [Lignes -> Nat] /\ <<"lieu", 0>> \notin w.tient
      /\ w.demande.genre \in Annulations => <<"paiement", 0>> \in w.tient
  BY <1>1 DEF EtapeSaine
<1>3. Attendue(t) = {<<"ligne", m>> : m \in Prochaine(t)}
  BY <1>1 DEF Attendue, A
<1>4. /\ <<"ligne", l>> \in Attendue(t) /\ <<"lieu", 0>> \notin Attendue(t)
      /\ l \in w.aVerrouiller
  BY <1>3 DEF Prochaine
<1>5. /\ e \in {"lignes", "stripe", "lieu"} /\ (e # "lignes" => v = {})
      /\ (e = "stripe" => w.demande.genre \in Annulations)
      /\ (e = "lieu" => w.demande.genre \notin Annulations)
  BY <1>1, <1>2, Chemins DEF Genre
<1>6. [w EXCEPT !.etape = IF v = {} THEN Apres(t, "lignes") ELSE @,
                !.aRendre = a, !.aVerrouiller = v]
        = Fiche(e, w.demande, a, v, w.tient, w.rembourse, w.cle)
  <2>1. Forme(w)
    BY <1>1 DEF EtapeSaine
  <2> QED
    BY <2>1, MajLigne
<1>7. /\ Forme(s) /\ s.etape = e /\ s.demande = w.demande /\ s.aRendre = a
      /\ s.aVerrouiller = v /\ s.rembourse = 0 /\ s.cle = Aucun
      /\ s.tient = w.tient \cup Attendue(t)
  BY <1>2, SuivanteChamps
<1>8. a \in [Lignes -> Nat] /\ v \subseteq Lignes
  BY <1>1, <1>2 DEF EtapeSaine
<1>11. Connue(s) /\ Conforme(w)
  BY <1>1, SuivanteConnue DEF Inv, InvTravaux
<1> HIDE DEF s, e
<1>9. EtapeSaine(s)
  BY <1>2, <1>4, <1>5, <1>7, <1>8 DEF EtapeSaine, Etapes
<1>10. Assuree(s)
  <2>1. ASSUME NEW m \in Lignes, m # l
        PROVE  \/ s.aRendre[m] = 0 \/ m \in s.aVerrouiller
               \/ <<"ligne", m>> \in s.tient /\ s.aRendre[m] <= Restant(m)
    <3>1. s.aRendre[m] = w.aRendre[m]
      BY <1>2, <1>7, <2>1
    <3> QED
      BY <1>1, <1>7, <2>1, <3>1 DEF Assuree
  <2>2. l \in Lignes => <<"ligne", l>> \in s.tient /\ s.aRendre[l] <= Restant(l)
    BY <1>2, <1>4, <1>7
  <2> QED
    BY <2>1, <2>2 DEF Assuree
<1>12. Conforme(s)
  <2>1. w.demande.genre \in Annulations => a = w.aRendre
    BY <1>2 DEF Genre, Annulations
  <2>2. Soldee(s)
    BY <1>5, <1>7 DEF Soldee
  <2>3. Couverte(s)
    BY <1>1, <1>7, <1>11, <2>1 DEF Conforme, Couverte, Annulations
  <2> QED
    BY <1>11, <2>2, <2>3 DEF Conforme
<1> QED
  BY <1>6, <1>9, <1>10, <1>12, AvecInv DEF s

\* The rows of the lines are locked in turn.
LEMMA VerrouillerLigneInv ==
  ASSUME Inv, NEW t \in Travailleurs, VerrouillerLigne(t)
  PROVE  Inv'
<1> DEFINE w == travail[t]
           q(l) == IF Genre(t) = "avoirTotal" THEN Restant(l) ELSE w.aRendre[l]
           a(l) == [w.aRendre EXCEPT ![l] = q(l)]
           v(l) == w.aVerrouiller \ {l}
<1>1. A(t, "lignes") /\ Libre(t) /\ UNCHANGED <<encaisse, remboursements, scan>>
  BY DEF VerrouillerLigne
<1>2. PICK l \in Prochaine(t) :
        \/ Annuler(t)
        \/ /\ ~ (Genre(t) # "avoirTotal" /\ Depasse(t, l))
           /\ Avec(t, [w EXCEPT !.etape = IF v(l) = {} THEN Apres(t, "lignes") ELSE @,
                                !.aRendre = a(l), !.aVerrouiller = v(l)])
           /\ UNCHANGED tables
  BY Zenon DEF VerrouillerLigne
<1>3. CASE Annuler(t)
  BY <1>1, <1>3, AnnulerInv
<1>4. CASE /\ ~ (Genre(t) # "avoirTotal" /\ Depasse(t, l))
           /\ Avec(t, [w EXCEPT !.etape = IF v(l) = {} THEN Apres(t, "lignes") ELSE @,
                                !.aRendre = a(l), !.aVerrouiller = v(l)])
           /\ UNCHANGED tables
  <2>1. l \in Lignes
    BY DEF Prochaine, Inv, InvEtapes, EtapeSaine
  <2>2. q(l) \in Nat /\ q(l) <= Restant(l) /\ (Genre(t) # "avoirTotal" => q(l) = w.aRendre[l])
    BY <1>4, <2>1, RestantNat DEF Depasse, Inv, InvEtapes, EtapeSaine
  <2> QED
    BY <1>1, <1>4, <2>2, LigneVerrouilleeInv
<1> QED
  BY <1>2, <1>3, <1>4

\* The row of the place is locked last.
LEMMA VerrouillerLieuInv ==
  ASSUME Inv, NEW t \in Travailleurs, VerrouillerLieu(t)
  PROVE  Inv'
<1> DEFINE w == travail[t]
           s == Suivante(t, "ecrire", w.aRendre, w.aVerrouiller)
<1>1. EtapeSaine(w) /\ w.etape = "lieu" /\ Assuree(w)
  BY DEF VerrouillerLieu, A, Inv, InvEtapes, InvQuantites
<1>2. /\ w.demande.genre \in Annulations \cup Avoirs /\ w.aVerrouiller = {}
      /\ w.aRendre \in [Lignes -> Nat] /\ (w.cle # Aucun => <<"paiement", 0>> \in w.tient)
  BY <1>1 DEF EtapeSaine
<1>3. [w EXCEPT !.etape = Apres(t, "lieu")]
        = Fiche("ecrire", w.demande, w.aRendre, w.aVerrouiller, w.tient, w.rembourse, w.cle)
  <2>1. Forme(w) /\ Apres(t, "lieu") = "ecrire"
    BY <1>1, <1>2, Chemins DEF EtapeSaine
  <2> QED
    BY <2>1 DEF Forme, Fiche
<1>4. /\ Libre(t) /\ UNCHANGED <<encaisse, tables, remboursements, scan>>
      /\ Avec(t, [w EXCEPT !.etape = Apres(t, "lieu")])
  BY Zenon DEF VerrouillerLieu
<1>5. /\ Forme(s) /\ s.etape = "ecrire" /\ s.demande = w.demande /\ s.aRendre = w.aRendre
      /\ s.aVerrouiller = {} /\ s.cle = w.cle /\ w.tient \subseteq s.tient
      /\ s.rembourse = w.rembourse
  BY <1>2, SuivanteChamps
<1>8. Connue(s) /\ Conforme(w)
  BY <1>1, SuivanteConnue DEF Inv, InvTravaux
<1> HIDE DEF s
<1>6. EtapeSaine(s)
  BY <1>2, <1>5 DEF EtapeSaine, Etapes
<1>7. Assuree(s)
  BY <1>1, <1>2, <1>5 DEF Assuree
<1>9. Conforme(s)
  <2>1. Soldee(s)
    BY <1>1, <1>5, <1>8 DEF Conforme, Soldee
  <2>2. Couverte(s)
    BY <1>1, <1>5, <1>8 DEF Conforme, Couverte
  <2> QED
    BY <1>8, <2>1, <2>2 DEF Conforme
<1> QED
  BY <1>3, <1>4, <1>6, <1>7, <1>9, AvecInv DEF s

-----------------------------------------------------------------------------
(* The refund *)

\* The payment is locked: no other process holds a key.
LEMMA CleUnique ==
  ASSUME Inv, NEW t \in Travailleurs, <<"paiement", 0>> \in travail[t].tient
  PROVE  \A u \in Travailleurs : u # t => travail[u].cle = Aucun
  BY DEF Inv, InvVerrous, InvEtapes, EtapeSaine

\* The settlements are a finite list.
LEMMA LongueurNat ==
  ASSUME Inv
  PROVE  Len(reglements) \in Nat /\ DOMAIN reglements = 1 .. Len(reglements)
  BY LenProperties DEF Inv, InvCles, Suite

\* The rows written never exceed what was collected, and what is asked of Stripe is what
\* the items are worth, up to the rest.
LEMMA Plafond ==
  ASSUME Inv
  PROVE  /\ encaisse \in Nat /\ SommeDesReglements \in Nat /\ SommeDesReglements <= encaisse
         /\ Net(rendu) \in Nat
         /\ \A m \in Nat : APayer(m) \in Nat
         /\ \A t \in Travailleurs : MontantDemande(t) = APayer(Net(travail[t].aRendre))
<1>1. encaisse \in Nat /\ Net(rendu) \in Nat
  BY VenteHypothese, NetNat DEF Inv, InvArgent, InvQuantites
<1>2. SommeDesReglements \in Nat /\ SommeDesReglements <= encaisse
  BY <1>1 DEF Inv, InvArgent, Balance
<1>3. \A m \in Nat : APayer(m) \in Nat
  BY <1>1, <1>2 DEF APayer
<1>4. ASSUME NEW t \in Travailleurs
      PROVE  MontantDemande(t) = APayer(Net(travail[t].aRendre))
  <2>1. Net(travail[t].aRendre) \in Nat
    BY NetNat DEF Inv, InvEtapes, EtapeSaine
  <2>2. Max({encaisse - SommeDesReglements, 0}) = encaisse - SommeDesReglements
    BY <1>1, <1>2, MaxDeux
  <2>3. encaisse - SommeDesReglements \in Int
    BY <1>1, <1>2
  <2> QED
    BY <2>1, <2>2, <2>3, MinDeux DEF MontantDemande, APayer
<1> QED
  BY <1>1, <1>2, <1>3, <1>4

\* Stripe has refunded: the key is the number of rows, and no row has it.
LEMMA RembourseInv ==
  ASSUME Inv, NEW t \in Travailleurs, A(t, "stripe"),
         NEW m \in Nat \ {0}, m = MontantDemande(t),
         remboursements' = AvecRemboursement(Cle, m),
         NEW n, n = Fiche("lieu", travail[t].demande, travail[t].aRendre,
                          travail[t].aVerrouiller, travail[t].tient, m, Cle),
         travail' = [travail EXCEPT ![t] = n],
         UNCHANGED <<encaisse, tables, scan>>
  PROVE  Inv'
<1> DEFINE w == travail[t]
<1>0. UNCHANGED <<statut, rendu, reglements, billets, reservations>>
  BY DEF tables
<1>1. EtapeSaine(w) /\ w.etape = "stripe" /\ Assuree(w)
  BY DEF A, Inv, InvEtapes, InvQuantites
<1>2. /\ w.demande.genre \in Annulations /\ w.aVerrouiller = {} /\ Forme(w)
      /\ w.aRendre \in [Lignes -> Nat] /\ <<"paiement", 0>> \in w.tient
      /\ <<"lieu", 0>> \notin w.tient
  BY <1>1 DEF EtapeSaine
<1>4. /\ n.etape = "lieu" /\ n.demande = w.demande /\ n.aRendre = w.aRendre
      /\ n.aVerrouiller = {} /\ n.tient = w.tient /\ n.rembourse = m /\ n.cle = Cle
      /\ Forme(n)
  BY <1>2, Champs
<1>5. travail'[t] = n /\ \A u \in Travailleurs : u # t => travail'[u] = travail[u]
  BY DEF Inv, InvEtapes
<1>6. InvEtapes'
  <2>1. travail' = [u \in Travailleurs |-> travail'[u]]
    BY DEF Inv, InvEtapes
  <2>2. EtapeSaine(n)
    BY <1>2, <1>4 DEF EtapeSaine, Etapes
  <2>3. \A u \in Travailleurs : EtapeSaine(travail'[u])
    BY <1>5, <2>2 DEF Inv, InvEtapes
  <2> QED
    BY <2>1, <2>3 DEF InvEtapes, EtapeSaine
<1>7. InvVerrous'
  <2>1. \A u \in Travailleurs : travail'[u].tient = travail[u].tient
    BY <1>4, <1>5
  <2> QED
    BY <2>1 DEF Inv, InvVerrous
<1>8. InvQuantites'
  <2>1. Assuree(n)
    BY <1>1, <1>2, <1>4 DEF Assuree
  <2> QED
    BY <1>0, <1>5, <2>1 DEF Inv, InvQuantites, Assuree, JamaisPlusQueVendu, Restant
<1>9. InvCles'
  <2> DEFINE L == Len(reglements)
  <2>1. L \in Nat /\ DOMAIN reglements = 1 .. L
    BY LongueurNat
  <2>2. /\ DOMAIN remboursements' = DOMAIN remboursements \cup {L}
        /\ remboursements'[L] = m
        /\ \A k \in DOMAIN remboursements : k # L => remboursements'[k] = remboursements[k]
    BY DEF AvecRemboursement, Cle
  <2>3. \A i \in DOMAIN reglements : reglements[i].cle # L
    BY <2>1, VenteHypothese DEF Inv, InvCles
  <2>4. \A k \in DOMAIN remboursements' : k \in Nat /\ k <= L
    BY <2>1, <2>2 DEF Inv, InvCles
  <2>5. ReglementsConformes'
    BY <1>0, <2>2, <2>3 DEF ReglementsConformes, Inv, InvCles
  <2>6. ArgentRetrouve'
    BY <1>0, <2>2 DEF ArgentRetrouve, Ecrit, Inv, InvCles
  <2>7. \A u \in Travailleurs : CleEnMain(travail[u])'
    <3>1. CleEnMain(travail[t])'
      <4>1. travail'[t].cle = L /\ travail'[t].rembourse = m
        BY <1>4, <1>5 DEF Cle
      <4> QED
        BY <1>0, <2>2, <2>3, <2>4, <4>1 DEF CleEnMain, Ecrit
    <3>2. \A u \in Travailleurs : u # t => travail'[u].cle = Aucun
      BY <1>2, <1>5, CleUnique
    <3> QED
      BY <1>5, <3>1, <3>2 DEF CleEnMain
  <2> QED
    BY <1>0, <2>4, <2>5, <2>6, <2>7 DEF InvCles, Inv, Suite
<1>10. InvArgent' /\ InvBillets'
  <2>1. /\ \A k \in DOMAIN remboursements' : remboursements'[k] \in Nat \ {0}
        /\ Balance'
    BY <1>0 DEF AvecRemboursement, Inv, InvArgent, Balance, SommeDesReglements
  <2>2. InvArgent'
    BY <1>0, <2>1 DEF Inv, InvArgent
  <2>3. InvBillets'
    BY <1>0 DEF Inv, InvBillets, BilletsAnnulesRendus
  <2> QED
    BY <2>2, <2>3
<1>11. InvTravaux'
  <2>1. Conforme(w)
    BY DEF Inv, InvTravaux
  <2>2. m = APayer(Net(w.aRendre))
    BY Plafond
  <2>3. Connue(n)
    BY <1>1, <1>4, <2>1 DEF Conforme, Connue
  <2>4. Soldee(n)
    BY <1>2, <1>4, <2>2 DEF Soldee, Annulations, Avoirs
  <2>5. Couverte(n)
    BY <1>1, <1>4, <2>1 DEF Conforme, Couverte
  <2>6. Conforme(n)
    BY <2>3, <2>4, <2>5 DEF Conforme
  <2> QED
    BY <1>5, <2>6, ConformeInv DEF InvTravaux, Inv
<1> QED
  BY <1>6, <1>7, <1>8, <1>9, <1>10, <1>11 DEF Inv

\* The record of a process that Stripe has answered.
LEMMA Repondu ==
  ASSUME Inv, NEW t \in Travailleurs, A(t, "stripe"), NEW m, NEW c
  PROVE  [travail[t] EXCEPT !.etape = Apres(t, "stripe"), !.rembourse = m, !.cle = c]
           = Fiche("lieu", travail[t].demande, travail[t].aRendre,
                   travail[t].aVerrouiller, travail[t].tient, m, c)
<1>1. EtapeSaine(travail[t]) /\ travail[t].etape = "stripe"
  BY DEF A, Inv, InvEtapes
<1>2. travail[t].demande.genre \in Annulations /\ Forme(travail[t])
  BY <1>1 DEF EtapeSaine
<1>3. Apres(t, "stripe") = "lieu"
  BY <1>2, Chemins DEF Genre
<1> DEFINE w == travail[t]
<1>4. [w EXCEPT !.etape = Apres(t, "stripe")]
        = Fiche("lieu", w.demande, w.aRendre, w.aVerrouiller, w.tient, w.rembourse, w.cle)
  BY <1>2, <1>3 DEF Forme, Fiche
<1>5. [Fiche("lieu", w.demande, w.aRendre, w.aVerrouiller, w.tient, w.rembourse, w.cle)
         EXCEPT !.rembourse = m]
        = Fiche("lieu", w.demande, w.aRendre, w.aVerrouiller, w.tient, m, w.cle)
  BY DEF Fiche
<1>6. [Fiche("lieu", w.demande, w.aRendre, w.aVerrouiller, w.tient, m, w.cle)
         EXCEPT !.cle = c]
        = Fiche("lieu", w.demande, w.aRendre, w.aVerrouiller, w.tient, m, c)
  BY DEF Fiche
<1> QED
  BY <1>4, <1>5, <1>6, Zenon

\* Stripe answers, refuses, or answers nothing.
LEMMA AppelerStripeInv ==
  ASSUME Inv, NEW t \in Travailleurs, AppelerStripe(t)
  PROVE  Inv'
<1> DEFINE w == travail[t]
           m == MontantDemande(t)
<1>1. A(t, "stripe") /\ UNCHANGED <<encaisse, scan>>
  BY DEF AppelerStripe
<1>2. CASE /\ m = 0
           /\ travail' = [travail EXCEPT ![t].etape = Apres(t, "stripe")]
           /\ UNCHANGED <<tables, remboursements>>
  <2> DEFINE n == Fiche("lieu", w.demande, w.aRendre, w.aVerrouiller, w.tient,
                        w.rembourse, w.cle)
  <2>1. EtapeSaine(w) /\ w.etape = "stripe" /\ Assuree(w) /\ CleEnMain(w)
    BY <1>1 DEF A, Inv, InvEtapes, InvQuantites, InvCles
  <2>2. w.demande.genre \in Annulations /\ Forme(w)
    BY <2>1 DEF EtapeSaine
  <2>3. Apres(t, "stripe") = "lieu"
    BY <2>2, Chemins DEF Genre
  <2>4. [w EXCEPT !.etape = "lieu"] = n
    BY <2>2 DEF Forme, Fiche
  <2>5. travail' = [travail EXCEPT ![t] = [w EXCEPT !.etape = "lieu"]]
    BY <1>2, <2>3 DEF Inv, InvEtapes
  <2>6. travail' = [travail EXCEPT ![t] = n]
    BY <2>4, <2>5
  <2>7. /\ n.etape = "lieu" /\ n.demande = w.demande /\ n.aRendre = w.aRendre
        /\ n.aVerrouiller = w.aVerrouiller /\ n.tient = w.tient
        /\ n.rembourse = w.rembourse /\ n.cle = w.cle /\ Forme(n)
    BY Champs
  <2> HIDE DEF n
  <2>8. EtapeSaine(n) /\ Assuree(n) /\ CleEnMain(n)
    BY <2>1, <2>2, <2>7 DEF EtapeSaine, Assuree, CleEnMain, Etapes
  <2>9. \A u \in Travailleurs : u # t => n.tient \cap travail[u].tient = {}
    BY <2>7 DEF Inv, InvVerrous
  <2>11. Conforme(n)
    <3>1. Conforme(w) /\ w.rembourse = 0 /\ <<"paiement", 0>> \in w.tient
      BY <2>1 DEF Inv, InvTravaux, EtapeSaine
    <3>2. APayer(Net(w.aRendre)) = 0
      BY <1>2, Plafond
    <3>3. Connue(n)
      BY <2>1, <2>7, <3>1 DEF Conforme, Connue
    <3>4. Soldee(n)
      BY <2>2, <2>7, <3>1, <3>2 DEF Soldee, Annulations, Avoirs
    <3>5. Couverte(n)
      BY <2>1, <2>7, <3>1 DEF Conforme, Couverte
    <3> QED
      BY <3>3, <3>4, <3>5 DEF Conforme
  <2> QED
    BY <1>1, <1>2, <2>6, <2>8, <2>9, <2>11, PasInv
<1>3. CASE /\ m > 0
           /\ remboursements' = AvecRemboursement(Cle, m)
           /\ travail' = [travail EXCEPT ![t].etape = Apres(t, "stripe"),
                                         ![t].rembourse = m, ![t].cle = Cle]
           /\ UNCHANGED tables
  <2> DEFINE n == Fiche("lieu", w.demande, w.aRendre, w.aVerrouiller, w.tient, m, Cle)
  <2>1. travail' = [travail EXCEPT ![t] = [w EXCEPT !.etape = Apres(t, "stripe"),
                                                    !.rembourse = m, !.cle = Cle]]
    BY <1>3 DEF Inv, InvEtapes
  <2>2. [w EXCEPT !.etape = Apres(t, "stripe"), !.rembourse = m, !.cle = Cle] = n
    BY <1>1, Repondu
  <2>3. travail' = [travail EXCEPT ![t] = n]
    BY <2>1, <2>2, Zenon
  <2>4. m \in Nat \ {0}
    <3>1. Net(w.aRendre) \in Nat
      BY NetNat DEF Inv, InvEtapes, EtapeSaine
    <3> QED
      BY <1>3, <3>1, Plafond
  <2> HIDE DEF m
  <2> QED
    BY <1>1, <1>3, <2>3, <2>4, RembourseInv DEF m
<1>4. CASE Annuler(t) /\ UNCHANGED remboursements
  BY <1>1, <1>4, AnnulerInv
<1> QED
  BY <1>2, <1>3, <1>4, Zenon DEF AppelerStripe

-----------------------------------------------------------------------------
(* The last writes *)

\* The commit of a request: its lines are given back, and a reglement is written with
\* the key and the amount it holds, or without a key.
LEMMA EcritureInv ==
  ASSUME Inv, NEW t \in Travailleurs, A(t, "ecrire"), NEW m, NEW c,
         \/ c = Aucun
         \/ c = travail[t].cle /\ m = travail[t].rembourse,
         rendu' = [l \in Lignes |-> rendu[l] + travail[t].aRendre[l]],
         reglements' = Ecrits(m, c),
         travail' = [travail EXCEPT ![t] = AuRepos],
         UNCHANGED remboursements
  PROVE  InvEtapes' /\ InvVerrous' /\ InvQuantites' /\ InvCles'
<1> DEFINE w == travail[t]
           L == Len(reglements)
<1>1. EtapeSaine(w) /\ w.etape = "ecrire" /\ Assuree(w) /\ CleEnMain(w)
  BY DEF A, Inv, InvEtapes, InvQuantites, InvCles
<1>2. /\ w.aVerrouiller = {} /\ w.aRendre \in [Lignes -> Nat]
      /\ (w.cle # Aucun => <<"paiement", 0>> \in w.tient)
  BY <1>1 DEF EtapeSaine
<1>3. travail'[t] = AuRepos /\ \A u \in Travailleurs : u # t => travail'[u] = travail[u]
  BY DEF Inv, InvEtapes
<1>4. InvEtapes'
  <2>1. travail' = [u \in Travailleurs |-> travail'[u]]
    BY DEF Inv, InvEtapes
  <2>2. \A u \in Travailleurs : EtapeSaine(travail'[u])
    BY <1>3, ReposSain DEF Inv, InvEtapes
  <2> QED
    BY <2>1, <2>2 DEF InvEtapes, EtapeSaine
<1>5. InvVerrous'
  BY <1>3, Repos DEF Inv, InvVerrous
<1>6. InvQuantites'
  <2>1. ASSUME NEW l \in Lignes
        PROVE  w.aRendre[l] <= Restant(l)
    <3>1. Restant(l) \in Nat
      BY RestantNat
    <3>2. w.aRendre[l] = 0 \/ w.aRendre[l] <= Restant(l)
      BY <1>1, <1>2 DEF Assuree
    <3> QED
      BY <3>1, <3>2
  <2>2. rendu' \in [Lignes -> Nat] /\ JamaisPlusQueVendu'
    BY <1>2, <2>1, VenteHypothese DEF Inv, InvQuantites, JamaisPlusQueVendu, Restant
  <2>3. ASSUME NEW u \in Travailleurs
        PROVE  Assuree(travail[u])'
    <3>1. CASE u = t
      BY <1>3, <3>1, Repos DEF Assuree, Rien
    <3>2. CASE u # t
      <4>1. ASSUME NEW l \in Lignes, <<"ligne", l>> \in travail[u].tient
            PROVE  rendu'[l] = rendu[l]
        <5>1. <<"ligne", l>> \notin w.tient
          BY <3>2, <4>1 DEF Inv, InvVerrous
        <5>2. w.aRendre[l] = 0
          BY <1>1, <1>2, <5>1 DEF Assuree
        <5> QED
          BY <5>2 DEF Inv, InvQuantites
      <4> QED
        BY <1>3, <3>2, <4>1 DEF Assuree, Inv, InvQuantites, Restant
    <3> QED
      BY <3>1, <3>2
  <2> QED
    BY <2>2, <2>3 DEF InvQuantites
<1>7. InvCles'
  <2>1. CASE reglements' = reglements
    <3>1. \A u \in Travailleurs : CleEnMain(travail[u])'
      BY <1>3, <2>1, ReposSain DEF CleEnMain, Ecrit, Inv, InvCles
    <3> QED
      BY <2>1, <3>1 DEF Inv, InvCles, ReglementsConformes, ArgentRetrouve, Ecrit, Suite
  <2>2. CASE reglements' = Append(reglements, [montant |-> m, cle |-> c])
    <3>1. /\ Suite(reglements') /\ L \in Nat /\ DOMAIN reglements = 1 .. L
          /\ DOMAIN reglements' = 1 .. L + 1 /\ Len(reglements') = L + 1
          /\ reglements'[L + 1].montant = m /\ reglements'[L + 1].cle = c
          /\ \A i \in 1 .. L : reglements'[i] = reglements[i]
      BY <2>2, Ajout DEF Inv, InvCles
    <3>2. c # Aucun =>
            /\ c = w.cle /\ c \in DOMAIN remboursements /\ m = remboursements[c]
            /\ \A k \in DOMAIN remboursements : k <= c
            /\ ~ Ecrit(c) /\ c \in Nat /\ c <= L
            /\ \A u \in Travailleurs : u # t => travail[u].cle = Aucun
      BY <1>1, <1>2, CleUnique DEF CleEnMain, Inv, InvCles
    <3>3. \A i \in DOMAIN reglements' :
            reglements'[i].cle = Aucun \/ reglements'[i].cle \in 0 .. i - 1
      BY <3>1, <3>2 DEF Inv, InvCles
    <3>4. ReglementsConformes'
      <4>1. ASSUME NEW i \in DOMAIN reglements', reglements'[i].cle # Aucun
            PROVE  /\ reglements'[i].cle \in DOMAIN remboursements
                   /\ reglements'[i].montant = remboursements[reglements'[i].cle]
        <5>1. CASE i = L + 1
          BY <3>1, <3>2, <4>1, <5>1
        <5>2. CASE i \in 1 .. L
          BY <3>1, <4>1, <5>2 DEF ReglementsConformes, Inv, InvCles
        <5> QED
          BY <3>1, <5>1, <5>2
      <4>2. ASSUME NEW i \in DOMAIN reglements', NEW j \in DOMAIN reglements',
                   i # j, reglements'[i].cle = reglements'[j].cle
            PROVE  reglements'[i].cle = Aucun
        <5>1. CASE i \in 1 .. L /\ j \in 1 .. L
          BY <3>1, <4>2, <5>1 DEF ReglementsConformes, Inv, InvCles
        <5>2. CASE i = L + 1 \/ j = L + 1
          BY <3>1, <3>2, <4>2, <5>2 DEF Ecrit
        <5> QED
          BY <3>1, <5>1, <5>2
      <4> QED
        BY <4>1, <4>2 DEF ReglementsConformes
    <3>5. ArgentRetrouve'
      <4> SUFFICES ASSUME NEW k \in DOMAIN remboursements, ~ Ecrit(k)'
                   PROVE  k = L + 1 \/ (k < L + 1 /\ reglements'[k + 1].cle = Aucun)
        BY <3>1 DEF ArgentRetrouve
      <4>1. ~ Ecrit(k) /\ k # c
        BY <3>1 DEF Ecrit
      <4>2. k \in Nat /\ (k = L \/ (k < L /\ reglements[k + 1].cle = Aucun))
        BY <4>1 DEF Inv, InvCles, ArgentRetrouve
      <4>3. CASE k = L
        <5>1. c = Aucun
          BY <3>1, <3>2, <4>1, <4>3
        <5>2. reglements'[k + 1].cle = Aucun
          BY <3>1, <4>3, <5>1, Zenon
        <5>3. k < L + 1
          BY <3>1, <4>3
        <5> QED
          BY <5>2, <5>3
      <4>4. CASE k < L /\ reglements[k + 1].cle = Aucun
        BY <3>1, <4>2, <4>4
      <4> QED
        BY <4>2, <4>3, <4>4
    <3>6. ASSUME NEW u \in Travailleurs
          PROVE  CleEnMain(travail[u])'
      <4>1. CASE u = t
        BY <1>3, <4>1, Repos DEF CleEnMain
      <4>2. CASE u # t /\ travail[u].cle # Aucun
        <5>1. c = Aucun /\ travail'[u] = travail[u]
          BY <1>3, <3>2, <4>2
        <5>2. CleEnMain(travail[u])
          BY DEF Inv, InvCles
        <5>3. ~ Ecrit(travail[u].cle)'
          BY <3>1, <4>2, <5>1, <5>2 DEF CleEnMain, Ecrit
        <5> QED
          BY <4>2, <5>1, <5>2, <5>3 DEF CleEnMain
      <4>3. CASE u # t /\ travail[u].cle = Aucun
        BY <1>3, <4>3 DEF CleEnMain
      <4> QED
        BY <4>1, <4>2, <4>3
    <3>7. \A k \in DOMAIN remboursements' : k \in Nat /\ k <= Len(reglements')
      BY <3>1 DEF Inv, InvCles
    <3> QED
      BY <3>1, <3>3, <3>4, <3>5, <3>6, <3>7 DEF InvCles
  <2> QED
    BY <2>1, <2>2 DEF Ecrits
<1> QED
  BY <1>4, <1>5, <1>6, <1>7

\* What a process that has locked its lines gives back is still there.
LEMMA Reserve ==
  ASSUME InvEtapes, InvQuantites, NEW t \in Travailleurs,
         travail[t].etape \in {"lieu", "ecrire"}
  PROVE  /\ travail[t].aRendre \in [Lignes -> Nat]
         /\ \A l \in Lignes : rendu[l] + travail[t].aRendre[l] <= Vendu[l]
<1> DEFINE w == travail[t]
<1>1. EtapeSaine(w) /\ Assuree(w)
  BY DEF InvEtapes, InvQuantites
<1>2. w.aRendre \in [Lignes -> Nat] /\ w.aVerrouiller = {}
  BY <1>1 DEF EtapeSaine
<1>3. \A l \in Lignes : w.aRendre[l] = 0 \/ w.aRendre[l] <= Restant(l)
  BY <1>1, <1>2 DEF Assuree
<1> QED
  BY <1>2, <1>3, VenteHypothese DEF Restant, InvQuantites, JamaisPlusQueVendu

\* The rows written, after one more of m, or none when m is 0.
LEMMA EcritsSomme ==
  ASSUME Inv, NEW m \in Nat, NEW c, reglements' = Ecrits(m, c)
  PROVE  SommeDesReglements' = SommeDesReglements + m
<1>1. SommeDesReglements \in Nat
  BY Plafond
<1>2. CASE m = 0
  BY <1>1, <1>2 DEF Ecrits, SommeDesReglements
<1>3. CASE m > 0
  <2> DEFINE x == [montant |-> m, cle |-> c]
  <2>1. reglements' = Append(reglements, x)
    BY <1>3 DEF Ecrits
  <2>2. x.montant = m
    OBVIOUS
  <2>3. \A i \in DOMAIN reglements : reglements[i].montant \in Int
    BY DEF Inv, InvArgent, Reglement
  <2>4. Suite(reglements)
    BY DEF Inv, InvCles
  <2> HIDE DEF x
  <2>5. x.montant \in Int
    BY <2>2
  <2>6. SumFunction([i \in DOMAIN Append(reglements, x) |-> Append(reglements, x)[i].montant])
          = SumFunction([i \in DOMAIN reglements |-> reglements[i].montant]) + x.montant
    BY <2>3, <2>4, <2>5, ReglementsEnPlus, Zenon
  <2> QED
    BY <2>1, <2>2, <2>6, Zenon DEF SommeDesReglements
<1> QED
  BY <1>2, <1>3

\* The commit of a request keeps the accounts: what is written is what the items given
\* back are worth, up to what was collected.
LEMMA EcritureArgent ==
  ASSUME Inv, NEW t \in Travailleurs, A(t, "ecrire"), NEW m, NEW c,
         \/ Genre(t) \in Annulations /\ m = travail[t].rembourse
         \/ Genre(t) \in Avoirs /\ m = Net(travail[t].aRendre),
         c \in Nat \cup {Aucun},
         rendu' = [l \in Lignes |-> rendu[l] + travail[t].aRendre[l]],
         reglements' = Ecrits(m, c),
         travail' = [travail EXCEPT ![t] = AuRepos],
         statut' \in {"VALID", "PARTIALLY_REFUNDED", "REFUNDED"},
         statut' = "REFUNDED" => statut = "REFUNDED" \/ ToutRendu,
         UNCHANGED <<encaisse, remboursements>>,
         InvQuantites'
  PROVE  InvArgent' /\ InvTravaux'
<1> DEFINE w == travail[t]
           a == w.aRendre
<1>1. EtapeSaine(w) /\ w.etape = "ecrire" /\ Conforme(w)
  BY DEF A, Inv, InvEtapes, InvTravaux
<1>2. /\ a \in [Lignes -> Nat] /\ \A l \in Lignes : rendu[l] + a[l] <= Vendu[l]
      /\ rendu \in [Lignes -> Nat] /\ \A l \in Lignes : rendu[l] <= Vendu[l]
  BY <1>1, Reserve DEF Inv, InvQuantites, JamaisPlusQueVendu
<1>3. \A l \in Lignes : /\ rendu'[l] = rendu[l] + a[l] /\ rendu'[l] >= rendu[l]
                        /\ rendu[l] \in Nat /\ rendu'[l] \in Nat
  BY <1>2
<1>4. Net(a) \in Nat /\ Net(rendu) \in Nat /\ Net(rendu) + Net(a) <= TotalVendu
  BY <1>2, NetNat, NetBorne
<1>5. Net(rendu') = Net(rendu) + Net(a)
  BY <1>2, <1>3, NetPlus
<1>6. /\ encaisse \in Nat /\ SommeDesReglements \in Nat /\ SommeDesReglements <= encaisse
      /\ SommeDesReglements = IF Net(rendu) <= encaisse THEN Net(rendu) ELSE encaisse
  BY Plafond DEF Inv, InvArgent, Balance
<1>7. \/ m = APayer(Net(a)) /\ <<"paiement", 0>> \in w.tient /\ Genre(t) \in Annulations
      \/ m = 0 /\ Net(a) = 0 /\ Genre(t) \in Annulations
      \/ m = Net(a) /\ encaisse = TotalVendu /\ Genre(t) \in Avoirs
  <2>1. w.demande.genre \in Annulations =>
          \/ <<"paiement", 0>> \in w.tient /\ w.rembourse = APayer(Net(a))
          \/ w.rembourse = 0 /\ \A l \in Lignes : a[l] = 0
    BY <1>1 DEF Conforme, Soldee
  <2>2. w.demande.genre \in Avoirs => encaisse = TotalVendu
    BY <1>1 DEF Conforme, Connue
  <2> QED
    BY <2>1, <2>2, NetNul DEF Genre
<1>8. m \in Nat
  BY <1>4, <1>7, Plafond
<1>9. SommeDesReglements' = SommeDesReglements + m
  BY <1>8, EcritsSomme
<1>10. Balance'
  <2>1. SommeDesReglements + m = IF Net(rendu) + Net(a) <= encaisse
                                 THEN Net(rendu) + Net(a) ELSE encaisse
    BY <1>4, <1>6, <1>7 DEF APayer
  <2> QED
    BY <1>5, <1>9, <2>1 DEF Balance
<1>11. \A i \in DOMAIN reglements' : reglements'[i] \in Reglement
  <2>1. CASE m = 0
    BY <2>1 DEF Ecrits, Inv, InvArgent
  <2>2. CASE m > 0
    <3> DEFINE x == [montant |-> m, cle |-> c]
    <3>1. x \in Reglement
      BY <1>8, <2>2 DEF Reglement
    <3>2. Suite(reglements) /\ reglements' = Append(reglements, x)
      BY <2>2 DEF Ecrits, Inv, InvCles
    <3> HIDE DEF x
    <3>3. /\ DOMAIN reglements' = 1 .. Len(reglements) + 1 /\ Len(reglements) \in Nat
          /\ DOMAIN reglements = 1 .. Len(reglements)
          /\ reglements'[Len(reglements) + 1] = x
          /\ \A i \in 1 .. Len(reglements) : reglements'[i] = reglements[i]
      BY <3>2, Ajout
    <3>4. \A i \in 1 .. Len(reglements) : reglements[i] \in Reglement
      BY <3>3 DEF Inv, InvArgent
    <3> QED
      BY <3>1, <3>3, <3>4
  <2> QED
    BY <1>8, <2>1, <2>2
<1>12. statut' = "REFUNDED" => \A l \in Lignes : rendu'[l] = Vendu[l]
  BY <1>2, <1>3 DEF ToutRendu, Inv, InvArgent
<1>13. InvArgent'
  BY <1>10, <1>11, <1>12 DEF Inv, InvArgent
<1>14. travail'[t] = AuRepos /\ \A u \in Travailleurs : u # t => travail'[u] = travail[u]
  BY DEF Inv, InvEtapes
<1>15. ASSUME NEW u \in Travailleurs
       PROVE  Conforme(travail[u])'
  <2>1. CASE u = t
    BY <1>14, <2>1, Repos DEF Conforme, Connue, Soldee, Couverte
  <2>2. CASE u # t
    <3> DEFINE v == travail[u]
    <3>1. travail'[u] = v /\ Conforme(v)
      BY <1>14, <2>2 DEF Inv, InvTravaux
    <3>2. Connue(travail[u])'
      BY <3>1 DEF Conforme, Connue
    <3>3. Couverte(travail[u])'
      <4>1. v.demande.genre = "billet" /\ v.etape \notin {"libre", "reservation"}
              => v.demande.billet[1] \in Lignes
        BY <3>1, DemandeConnue DEF Conforme, Connue
      <4>2. /\ \A l \in LignesDe(v.demande.reservation) : l \in Lignes
            /\ \A l \in Semblables(v.demande.billet[1]) : l \in Lignes
        BY DEF LignesDe, Semblables
      <4>3. \A l \in Lignes : v.aRendre[l] \in Nat /\ Vendu[l] \in Nat
        BY VenteHypothese DEF Inv, InvEtapes, EtapeSaine
      <4>4. Couverte(v)
        BY <3>1 DEF Conforme
      <4> QED
        BY <1>3, <3>1, <4>1, <4>2, <4>3, <4>4 DEF Couverte
    <3>4. Soldee(travail[u])'
      <4> SUFFICES ASSUME v.etape \in {"lieu", "ecrire"}, v.demande.genre \in Annulations,
                          <<"paiement", 0>> \in v.tient, v.rembourse = APayer(Net(v.aRendre))
                   PROVE  v.rembourse = APayer(Net(v.aRendre))'
        BY <3>1 DEF Conforme, Soldee
      <4>1. <<"paiement", 0>> \notin w.tient
        BY <2>2 DEF Inv, InvVerrous
      <4>2. CASE Genre(t) \in Annulations
        <5>1. m = 0
          BY <1>7, <4>1, <4>2 DEF Annulations, Avoirs
        <5> QED
          BY <1>6, <1>9, <3>1, <5>1 DEF APayer
      <4>3. CASE Genre(t) \in Avoirs
        <5>1. encaisse = TotalVendu
          BY <1>7, <4>3 DEF Annulations, Avoirs
        <5>2. /\ v.aRendre \in [Lignes -> Nat]
              /\ \A l \in Lignes : rendu[l] + v.aRendre[l] <= Vendu[l]
          BY Reserve DEF Inv
        <5>3. \A l \in Lignes : rendu'[l] + v.aRendre[l] <= Vendu[l]
          <6>1. v.aVerrouiller = {} /\ v.etape # "paiement"
            BY DEF Inv, InvEtapes, EtapeSaine
          <6>2. \A l \in Lignes : v.aRendre[l] = 0 \/ v.aRendre[l] <= Vendu[l] - rendu'[l]
            BY <3>1, <6>1 DEF InvQuantites, Assuree, Restant
          <6> QED
            BY <1>2, <1>3, <5>2, <6>2, VenteHypothese
        <5>4. rendu' \in [Lignes -> Nat]
          BY <1>2
        <5>5. Net(rendu) + Net(v.aRendre) <= TotalVendu
          BY <1>2, <5>2, NetBorne
        <5>6. Net(rendu') + Net(v.aRendre) <= TotalVendu
          BY <5>2, <5>3, <5>4, NetBorne
        <5>7. Net(v.aRendre) \in Nat
          BY <5>2, NetNat
        <5>8. /\ SommeDesReglements + Net(v.aRendre) <= encaisse
              /\ SommeDesReglements + m + Net(v.aRendre) <= encaisse
          BY <1>4, <1>5, <1>6, <1>7, <4>3, <5>1, <5>5, <5>6, <5>7 DEF Annulations, Avoirs
        <5>9. v.rembourse = Net(v.aRendre)
          BY <1>6, <5>7, <5>8 DEF APayer
        <5> QED
          BY <1>6, <1>8, <1>9, <3>1, <5>7, <5>8, <5>9 DEF APayer
      <4> QED
        BY <1>7, <4>2, <4>3
    <3> QED
      BY <3>2, <3>3, <3>4 DEF Conforme
  <2> QED
    BY <2>1, <2>2
<1> QED
  BY <1>13, <1>15 DEF InvTravaux

\* The tickets that a cancellation gives up are given back, on lines of their sold price.
LEMMA RembourserBillets ==
  ASSUME Inv, NEW t \in Travailleurs, Rembourser(t), InvQuantites'
  PROVE  InvBillets'
<1> DEFINE w == travail[t]
           d == w.demande
           a == w.aRendre
           r == ReservationDe(d)
           finis == IF d.genre = "billet" THEN {d.billet} ELSE BilletsDe(r)
           C(l) == {b \in BilletsDuTarif(l) : billets[b] = "CANCELED"}
           D(l) == {b \in BilletsDuTarif(l) : billets'[b] = "CANCELED"}
<1>1. /\ rendu' = [l \in Lignes |-> rendu[l] + a[l]]
      /\ billets' = [b \in Billets |-> IF b \in finis THEN "CANCELED" ELSE billets[b]]
      /\ \/ reservations' = [reservations EXCEPT ![r] = "CANCELED"]
         \/ reservations' = reservations
      /\ w.etape = "ecrire" /\ d.genre \in Annulations /\ scan' = scan
  BY Zenon DEF Rembourser, A, Genre
<1>2. EtapeSaine(w) /\ Conforme(w) /\ d \in Demandes
  BY <1>1 DEF Inv, InvEtapes, InvTravaux, Conforme, Connue
<1>3. a \in [Lignes -> Nat] /\ rendu \in [Lignes -> Nat] /\ Couverte(w)
  BY <1>2 DEF EtapeSaine, Inv, InvQuantites, Conforme
<1>4. \A l \in Lignes : rendu'[l] = rendu[l] + a[l] /\ rendu[l] \in Nat /\ a[l] \in Nat
                        /\ Vendu[l] \in Nat
  BY <1>1, <1>3, VenteHypothese
<1>5. /\ billets' \in [Billets -> {"NOT_SCANNED", "SCANNED", "CANCELED"}]
      /\ reservations' \in [Reservations -> {"VALID", "CANCELED"}]
      /\ scan' \in Billets \cup {Aucun}
  BY <1>1 DEF Inv, InvBillets
<1>6. ASSUME NEW l \in Lignes
      PROVE  Cardinality(D(l)) <= SumFunctionOnSet(rendu', Semblables(l))
  <2> DEFINE X == C(l)
             Y == D(l)
             n == SumFunctionOnSet(rendu, Semblables(l))
             n1 == SumFunctionOnSet(rendu', Semblables(l))
  <2>1. /\ Y \subseteq BilletsDuTarif(l) /\ X \subseteq BilletsDuTarif(l)
        /\ Y \subseteq X \cup (finis \cap BilletsDuTarif(l))
    <3>1. \A b \in BilletsDuTarif(l) : b \in Billets
      BY DEF Billets, BilletsDuTarif, Semblables
    <3> QED
      BY <1>1, <3>1, Zenon
  <2>2. Semblables(l) \subseteq Lignes /\ \A m \in Semblables(l) : Resa[m] = Resa[l]
    BY LignesSemblables
  <2>3. /\ n \in Nat /\ n1 \in Nat /\ n <= n1
        /\ (\E m \in Semblables(l) : rendu'[m] >= rendu[m] + 1) => n + 1 <= n1
    <3>1. \A m \in Semblables(l) : rendu[m] \in Nat /\ rendu'[m] \in Nat /\ rendu[m] <= rendu'[m]
      BY <1>4, <2>2
    <3> QED
      BY <3>1, SommesDuTarif
  <2>4. (\A m \in Semblables(l) : rendu'[m] >= Vendu[m]) => VenduDuTarif(l) <= n1
    <3> SUFFICES ASSUME \A m \in Semblables(l) : rendu'[m] >= Vendu[m]
                 PROVE  VenduDuTarif(l) <= n1
      OBVIOUS
    <3>1. \A m \in Semblables(l) : Vendu[m] \in Nat /\ rendu'[m] \in Nat /\ Vendu[m] <= rendu'[m]
      BY <1>4, <2>2
    <3> QED
      BY <3>1, SommesDuTarif DEF VenduDuTarif
  <2>5. Cardinality(X) <= n
    BY DEF Inv, InvBillets, BilletsAnnulesRendus
  <2>6. X \in SUBSET BilletsDuTarif(l) /\ Y \in SUBSET BilletsDuTarif(l)
    BY <2>1
  <2> HIDE DEF X, Y, n, n1
  <2>7. /\ IsFiniteSet(X) /\ Cardinality(X) \in Nat
        /\ IsFiniteSet(Y) /\ Cardinality(Y) \in Nat /\ Cardinality(Y) <= VenduDuTarif(l)
        /\ VenduDuTarif(l) \in Nat
    BY <2>6, BilletsDuTarifFinis
  <2>8. CASE Y \subseteq X
    <3>1. Cardinality(Y) <= Cardinality(X)
      BY <2>7, <2>8, FS_Subset
    <3> QED
      BY <2>3, <2>5, <2>7, <3>1 DEF Y, n1
  <2>9. CASE \A m \in Semblables(l) : rendu'[m] >= Vendu[m]
    <3>1. Cardinality(Y) <= n1
      BY <2>3, <2>4, <2>7, <2>9
    <3> QED
      BY <3>1 DEF Y, n1
  <2>10. CASE d.genre = "billet" /\ l \in Semblables(d.billet[1])
    <3> DEFINE b == d.billet
    <3>1. Y \subseteq X \cup {b}
      BY <2>1, <2>10
    <3>2. b[1] \in Lignes
      BY <1>2, <2>10, DemandeConnue
    <3>3. Semblables(b[1]) = Semblables(l)
      BY <2>10, <3>2, LignesSemblables
    <3>4. \/ \E m \in Semblables(l) : a[m] >= 1
          \/ \A m \in Semblables(l) : rendu[m] >= Vendu[m]
      BY <1>1, <1>3, <2>10, <3>3 DEF Couverte
    <3>5. n + 1 <= n1 \/ \A m \in Semblables(l) : rendu'[m] >= Vendu[m]
      BY <1>4, <2>2, <2>3, <3>4
    <3> HIDE DEF b
    <3>6. /\ IsFiniteSet(X \cup {b}) /\ Cardinality(X \cup {b}) \in Nat
          /\ Cardinality(X \cup {b}) <= Cardinality(X) + 1
      <4>1. Cardinality(X \cup {b}) = IF b \in X THEN Cardinality(X) ELSE Cardinality(X) + 1
        BY <2>7, FS_AddElement
      <4>2. IsFiniteSet(X \cup {b})
        BY <2>7, FS_AddElement
      <4> QED
        BY <2>7, <4>1, <4>2
    <3>7. Cardinality(Y) <= Cardinality(X \cup {b})
      BY <3>1, <3>6, FS_Subset
    <3>8. CASE n + 1 <= n1
      <4>1. Cardinality(Y) <= n1
        BY <2>3, <2>5, <2>7, <3>6, <3>7, <3>8
      <4> QED
        BY <4>1 DEF Y, n1
    <3> QED
      BY <2>9, <3>5, <3>8
  <2>11. CASE d.genre = "billet" /\ l \notin Semblables(d.billet[1])
    <3>1. finis \cap BilletsDuTarif(l) = {}
      BY <2>11 DEF BilletsDuTarif, BilletsDeLigne, Semblables
    <3> QED
      BY <2>1, <2>8, <3>1
  <2>12. CASE d.genre # "billet" /\ l \in LignesDe(r)
    <3>1. d.genre = "reservation" /\ r = d.reservation
      BY <1>1, <1>2, <2>12, DemandeConnue DEF Annulations
    <3>2. \A m \in Semblables(l) : m \in LignesDe(r)
      BY <2>2, <2>12 DEF LignesDe
    <3>3. \A m \in Semblables(l) : rendu[m] + a[m] >= Vendu[m]
      BY <1>1, <1>3, <2>12, <3>1, <3>2 DEF Couverte
    <3> QED
      BY <1>4, <2>2, <2>9, <3>3
  <2>13. CASE d.genre # "billet" /\ l \notin LignesDe(r)
    <3>1. finis \cap BilletsDuTarif(l) = {}
      BY <2>2, <2>13 DEF BilletsDuTarif, BilletsDeLigne, BilletsDe, LignesDe
    <3> QED
      BY <2>1, <2>8, <3>1
  <2> QED
    BY <2>10, <2>11, <2>12, <2>13
<1>7. BilletsAnnulesRendus'
  BY <1>6 DEF BilletsAnnulesRendus
<1> QED
  BY <1>5, <1>7 DEF InvBillets

\* A refund is written after Stripe paid it.
LEMMA RembourserInv ==
  ASSUME Inv, NEW t \in Travailleurs, Rembourser(t)
  PROVE  Inv'
<1> DEFINE w == travail[t]
<1>1. /\ A(t, "ecrire") /\ Genre(t) \in Annulations
      /\ rendu' = [l \in Lignes |-> rendu[l] + w.aRendre[l]]
      /\ reglements' = Ecrits(w.rembourse, w.cle)
      /\ travail' = [travail EXCEPT ![t] = AuRepos]
      /\ UNCHANGED <<encaisse, remboursements>>
  BY Zenon DEF Rembourser, MontantEcrit
<1>2. InvEtapes' /\ InvVerrous' /\ InvQuantites' /\ InvCles'
  BY <1>1, EcritureInv
<1>3. w.cle \in Nat \cup {Aucun}
  BY DEF Inv, InvCles, CleEnMain
<1>4. /\ statut' \in {"VALID", "PARTIALLY_REFUNDED", "REFUNDED"}
      /\ statut' = "REFUNDED" => statut = "REFUNDED" \/ ToutRendu
  <2>1. /\ statut \in {"VALID", "PARTIALLY_REFUNDED", "REFUNDED"}
        /\ statut' = CASE <<"paiement", 0>> \notin w.tient -> statut
                       [] <<"paiement", 0>> \in w.tient /\ ToutRendu -> "REFUNDED"
                       [] OTHER -> IF w.rembourse > 0 THEN "PARTIALLY_REFUNDED" ELSE statut
    BY Zenon DEF Rembourser, Inv, InvArgent
  <2> QED
    BY <2>1
<1>5. InvArgent' /\ InvTravaux'
  BY <1>1, <1>2, <1>3, <1>4, EcritureArgent
<1>6. InvBillets'
  BY <1>2, RembourserBillets
<1> QED
  BY <1>2, <1>5, <1>6 DEF Inv

\* A credit note is written.
LEMMA EcrireAvoirInv ==
  ASSUME Inv, NEW t \in Travailleurs, EcrireAvoir(t)
  PROVE  Inv'
<1> DEFINE w == travail[t]
<1>1. /\ A(t, "ecrire") /\ Genre(t) \in Avoirs
      /\ rendu' = [l \in Lignes |-> rendu[l] + w.aRendre[l]]
      /\ reglements' = Ecrits(Net(w.aRendre), Aucun)
      /\ travail' = [travail EXCEPT ![t] = AuRepos]
      /\ UNCHANGED <<encaisse, statut, billets, reservations, remboursements, scan>>
  BY DEF EcrireAvoir
<1>2. InvEtapes' /\ InvVerrous' /\ InvQuantites' /\ InvCles'
  BY <1>1, EcritureInv
<1>3. statut \in {"VALID", "PARTIALLY_REFUNDED", "REFUNDED"}
  BY DEF Inv, InvArgent
<1>4. InvArgent' /\ InvTravaux'
  BY <1>1, <1>2, <1>3, EcritureArgent
<1>5. InvBillets'
  <2>1. \A l \in Lignes : rendu[l] \in Nat /\ w.aRendre[l] \in Nat /\ rendu'[l] = rendu[l] + w.aRendre[l]
    BY <1>1 DEF Inv, InvQuantites, InvEtapes, EtapeSaine
  <2>2. ASSUME NEW l \in Lignes
        PROVE  Cardinality({b \in BilletsDuTarif(l) : billets'[b] = "CANCELED"})
                 <= SumFunctionOnSet(rendu', Semblables(l))
    <3> DEFINE n == Cardinality({b \in BilletsDuTarif(l) : billets[b] = "CANCELED"})
               S == Semblables(l)
    <3>1. n \in Nat /\ n <= SumFunctionOnSet(rendu, S)
      BY BilletsVivants DEF Inv, InvBillets, BilletsAnnulesRendus
    <3>2. n = Cardinality({b \in BilletsDuTarif(l) : billets'[b] = "CANCELED"})
      BY <1>1
    <3>3. \A m \in S : rendu[m] \in Nat /\ rendu'[m] \in Nat /\ rendu[m] <= rendu'[m]
      BY <2>1, LignesSemblables
    <3>4. /\ SumFunctionOnSet(rendu, S) \in Nat /\ SumFunctionOnSet(rendu', S) \in Nat
          /\ SumFunctionOnSet(rendu, S) <= SumFunctionOnSet(rendu', S)
      BY <3>3, SommesDuTarif
    <3> HIDE DEF n
    <3> QED
      BY <3>1, <3>2, <3>4
  <2> QED
    BY <1>1, <2>2 DEF Inv, InvBillets, BilletsAnnulesRendus
<1> QED
  BY <1>2, <1>4, <1>5 DEF Inv

-----------------------------------------------------------------------------
(* The specification *)

\* The invariant holds at the start.
LEMMA InitInv == Init => Inv
<1> SUFFICES ASSUME Init
             PROVE  Inv
  OBVIOUS
<1>1. \A t \in Travailleurs : travail[t] = AuRepos
  BY DEF Init
<1>2. InvEtapes
  <2>1. travail = [t \in Travailleurs |-> travail[t]]
    BY DEF Init
  <2> QED
    BY <1>1, <2>1, ReposSain DEF InvEtapes
<1>3. InvVerrous
  BY <1>1, Repos DEF InvVerrous
<1>4. InvQuantites
  <2>1. rendu \in [Lignes -> Nat] /\ JamaisPlusQueVendu
    BY VenteHypothese DEF Init, Rien, JamaisPlusQueVendu
  <2>2. \A t \in Travailleurs : Assuree(travail[t])
    BY <1>1, Repos DEF Assuree, Rien
  <2> QED
    BY <2>1, <2>2 DEF InvQuantites
<1>5. InvCles
  <2>1. Suite(reglements) /\ DOMAIN reglements = {}
    BY EmptySeq DEF Init, Suite
  <2>2. DOMAIN remboursements = {}
    BY DEF Init
  <2>3. \A t \in Travailleurs : CleEnMain(travail[t])
    BY <1>1, Repos DEF CleEnMain
  <2> QED
    BY <2>1, <2>2, <2>3 DEF InvCles, ReglementsConformes, ArgentRetrouve
<1>6. InvArgent
  <2>1. DOMAIN reglements = {} /\ DOMAIN remboursements = {}
    BY EmptySeq DEF Init
  <2>2. SommeDesReglements = 0
    <3> DEFINE f == [i \in DOMAIN reglements |-> reglements[i].montant]
    <3>1. SommeDesReglements = SumFunctionOnSet(f, {})
      BY <2>1 DEF SommeDesReglements, SumFunction
    <3> QED
      BY <3>1, SommeVide
  <2>3. rendu = Rien /\ Net(Rien) = 0
    BY NetNul DEF Init, Rien
  <2>4. encaisse \in Encaissements /\ encaisse \in Nat
    BY VenteHypothese DEF Init
  <2>5. Balance
    BY <2>2, <2>3, <2>4 DEF Balance
  <2> QED
    BY <2>1, <2>4, <2>5 DEF Init, InvArgent
<1>7. InvBillets
  <2>1. billets = [b \in Billets |-> "NOT_SCANNED"] /\ rendu = Rien
    BY DEF Init
  <2>2. ASSUME NEW l \in Lignes
        PROVE  Cardinality({b \in BilletsDuTarif(l) : billets[b] = "CANCELED"})
                 <= SumFunctionOnSet(rendu, Semblables(l))
    <3>1. {b \in BilletsDuTarif(l) : billets[b] = "CANCELED"} = {}
      BY <2>1 DEF Billets, BilletsDuTarif, Semblables
    <3>2. SumFunctionOnSet(rendu, Semblables(l)) = 0
      BY <2>1, LignesSemblables, SommeNulle DEF Rien
    <3>3. Cardinality({}) = 0
      BY FS_EmptySet
    <3> QED
      BY <3>1, <3>2, <3>3
  <2> QED
    BY <2>2 DEF Init, InvBillets, BilletsAnnulesRendus
<1>8. InvTravaux
  BY <1>1, ReposSain DEF InvTravaux
<1> QED
  BY <1>2, <1>3, <1>4, <1>5, <1>6, <1>7, <1>8 DEF Inv

\* What the scanner does, and a step that changes nothing.
LEMMA InchangeInv ==
  ASSUME Inv, InvBillets',
         UNCHANGED <<encaisse, statut, rendu, reglements, remboursements, travail>>
  PROVE  Inv'
<1>1. InvEtapes' /\ InvVerrous'
  BY DEF Inv, InvEtapes, InvVerrous
<1>2. InvQuantites'
  BY DEF Inv, InvQuantites, Assuree, JamaisPlusQueVendu, Restant
<1>3. InvCles'
  BY DEF Inv, InvCles, CleEnMain, ReglementsConformes, ArgentRetrouve, Ecrit
<1>4. InvArgent'
  BY DEF Inv, InvArgent, Balance, SommeDesReglements
<1>5. InvTravaux'
  <2>1. SommeDesReglements' = SommeDesReglements
    BY DEF SommeDesReglements
  <2> QED
    BY <2>1 DEF Inv, InvTravaux, Conforme, Connue, Soldee, APayer, Couverte
<1> QED
  BY <1>1, <1>2, <1>3, <1>4, <1>5 DEF Inv

\* A ticket scanned is not a cancelled one any more: no line has more of them.
LEMMA ScannerInv ==
  ASSUME Inv, ScannerBillet
  PROVE  Inv'
<1>1. /\ scan \in Billets /\ scan' = Aucun
      /\ billets \in [Billets -> {"NOT_SCANNED", "SCANNED", "CANCELED"}]
      /\ billets' = [billets EXCEPT ![scan] = "SCANNED"]
      /\ UNCHANGED <<encaisse, statut, rendu, reglements, reservations, remboursements,
                     travail>>
  BY DEF ScannerBillet, Inv, InvBillets
<1>2. ASSUME NEW l \in Lignes
      PROVE  Cardinality({b \in BilletsDuTarif(l) : billets'[b] = "CANCELED"})
               <= SumFunctionOnSet(rendu, Semblables(l))
  <2> DEFINE X == {b \in BilletsDuTarif(l) : billets[b] = "CANCELED"}
             Y == {b \in BilletsDuTarif(l) : billets'[b] = "CANCELED"}
             n == SumFunctionOnSet(rendu, Semblables(l))
  <2>1. Y \subseteq X
    BY <1>1 DEF Billets, BilletsDuTarif, Semblables
  <2>2. X \in SUBSET BilletsDuTarif(l) /\ Y \in SUBSET BilletsDuTarif(l)
    OBVIOUS
  <2>3. Cardinality(X) <= n /\ n \in Nat
    <3>1. \A m \in Semblables(l) : rendu[m] \in Nat
      BY LignesSemblables DEF Inv, InvQuantites
    <3>2. n \in Nat
      BY <3>1, LignesSemblables, SommeNaturelle
    <3> QED
      BY <3>2 DEF Inv, InvBillets, BilletsAnnulesRendus
  <2> HIDE DEF X, Y, n
  <2>4. /\ IsFiniteSet(X) /\ Cardinality(X) \in Nat /\ Cardinality(Y) \in Nat
        /\ Cardinality(Y) <= Cardinality(X)
    BY <2>1, <2>2, BilletsDuTarifFinis, FS_Subset
  <2>5. Cardinality(Y) <= n
    BY <2>3, <2>4
  <2> QED
    BY <2>5 DEF Y, n
<1>3. InvBillets'
  BY <1>1, <1>2 DEF Inv, InvBillets, BilletsAnnulesRendus
<1> QED
  BY <1>1, <1>3, InchangeInv

\* Every step preserves it: one case per action.
LEMMA NextInv == Inv /\ [Next]_vars => Inv'
<1> SUFFICES ASSUME Inv, [Next]_vars
             PROVE  Inv'
  OBVIOUS
<1>1. ASSUME NEW t \in Travailleurs, Demander(t)
      PROVE  Inv'
  BY <1>1, DemanderInv
<1>2. ASSUME NEW t \in Travailleurs, DemanderAvoir(t)
      PROVE  Inv'
  BY <1>2, DemanderAvoirInv
<1>3. ASSUME NEW t \in Travailleurs, DemanderAvoirTotal(t)
      PROVE  Inv'
  BY <1>3, DemanderAvoirTotalInv
<1>4. ASSUME NEW t \in Travailleurs, Avancer(t)
      PROVE  Inv'
  BY <1>4, AnnulerBilletInv, AnnulerReservationInv, VerrouillerPaiementInv,
     VerrouillerLigneInv, AppelerStripeInv, VerrouillerLieuInv, RembourserInv,
     EcrireAvoirInv DEF Avancer
<1>5. ASSUME NEW t \in Travailleurs, Interrompre(t) \/ Debloquer(t)
      PROVE  Inv'
  BY <1>5, AnnulerInv DEF Interrompre, Debloquer
<1>6. CASE LireBillet
  <2>1. InvBillets'
    BY <1>6 DEF LireBillet, tables, Inv, InvBillets, BilletsAnnulesRendus
  <2> QED
    BY <1>6, <2>1, InchangeInv DEF LireBillet, tables
<1>7. CASE ScannerBillet
  BY <1>7, ScannerInv
<1>8. CASE UNCHANGED vars
  <2>1. InvBillets'
    BY <1>8 DEF vars, tables, Inv, InvBillets, BilletsAnnulesRendus
  <2> QED
    BY <1>8, <2>1, InchangeInv DEF vars, tables
<1> QED
  BY <1>1, <1>2, <1>3, <1>4, <1>5, <1>6, <1>7, <1>8 DEF Next

\* The invariant of every reachable state: where a process is tells what it holds, a row
\* is locked once, what is about to be given back is still there, and a key that is
\* held is the last one.
THEOREM Invariant == Spec => []Inv
  BY InitInv, NextInv, PTL DEF Spec

\* The sums written as given back never exceed the money that Stripe collected, whatever
\* was collected, sold, asked for together or interrupted.
THEOREM ArgentJuste == Spec => []JamaisPlusQuEncaisse
<1>1. Inv => JamaisPlusQuEncaisse
  BY Plafond DEF JamaisPlusQuEncaisse
<1> QED
  BY <1>1, Invariant, PTL

\* A payment shown REFUNDED (is_fully_refunded) has given back all its units, and the
\* price of its items or all that Stripe had collected.
THEOREM ToutEstRendu == Spec => []RembourseEstToutRendu
<1>1. Inv => RembourseEstToutRendu
  <2> SUFFICES ASSUME Inv, statut = "REFUNDED"
               PROVE  /\ \A l \in Lignes : rendu[l] = Vendu[l]
                      /\ SommeDesReglements = Min({encaisse, TotalVendu})
    BY DEF RembourseEstToutRendu
  <2>1. \A l \in Lignes : rendu[l] = Vendu[l]
    BY DEF Inv, InvArgent
  <2>2. Net(rendu) = TotalVendu
    BY <2>1, NetEgal DEF TotalVendu
  <2>3. encaisse \in Int /\ TotalVendu \in Int
    BY <2>2, Plafond
  <2>4. SommeDesReglements = IF TotalVendu <= encaisse THEN TotalVendu ELSE encaisse
    BY <2>2 DEF Inv, InvArgent, Balance
  <2>5. SommeDesReglements = Min({encaisse, TotalVendu})
    BY <2>3, <2>4, MinDeux
  <2> QED
    BY <2>1, <2>5
<1> QED
  BY <1>1, Invariant, PTL

\* A ticket that is cancelled has been given back on its line: no money kept in silence.
THEOREM BilletsRendus == Spec => []BilletsAnnulesRendus
<1>1. Inv => BilletsAnnulesRendus
  BY DEF Inv, InvBillets
<1> QED
  BY <1>1, Invariant, PTL

\* The counters of the bounds.
Bornes == demandes \in 0 .. MaxDemandes /\ pannes \in 0 .. MaxPannes

\* Each request, and each failure, is counted below its bound.
LEMMA BornesInv == Spec => []Bornes
<1>1. Init => Bornes
  BY VenteHypothese DEF Init, Bornes
<1>2. Bornes /\ [Next]_vars => Bornes'
  <2> SUFFICES ASSUME Bornes, [Next]_vars
               PROVE  Bornes'
    OBVIOUS
  <2> USE VenteHypothese DEF Bornes
  <2>1. ASSUME NEW t \in Travailleurs,
               Demander(t) \/ DemanderAvoir(t) \/ DemanderAvoirTotal(t)
        PROVE  Bornes'
    <3>1. demandes < MaxDemandes /\ demandes' = demandes + 1 /\ pannes' = pannes
      BY <2>1, Zenon DEF Demander, DemanderAvoir, DemanderAvoirTotal
    <3> QED
      BY <3>1
  <2>2. ASSUME NEW t \in Travailleurs, Avancer(t)
        PROVE  UNCHANGED <<demandes, pannes>>
    BY <2>2 DEF Avancer, AnnulerBillet, AnnulerReservation, VerrouillerPaiement,
                VerrouillerLigne, AppelerStripe, VerrouillerLieu, Rembourser, EcrireAvoir
  <2>3. ASSUME NEW t \in Travailleurs, Interrompre(t)
        PROVE  Bornes'
    BY <2>3 DEF Interrompre
  <2>4. ASSUME NEW t \in Travailleurs, Debloquer(t)
        PROVE  UNCHANGED <<demandes, pannes>>
    BY <2>4 DEF Debloquer
  <2>5. LireBillet \/ ScannerBillet \/ UNCHANGED vars => UNCHANGED <<demandes, pannes>>
    BY DEF LireBillet, ScannerBillet, vars
  <2> QED
    BY <2>1, <2>2, <2>3, <2>4, <2>5 DEF Next
<1> QED
  BY <1>1, <1>2, PTL DEF Spec

\* The types of the tables, of the rows of Stripe and of the processes.
THEOREM Types == Spec => []TypeOK
<1>1. Inv /\ Bornes => TypeOK
  <2> SUFFICES ASSUME Inv, Bornes
               PROVE  TypeOK
    OBVIOUS
  <2>1. reglements \in Seq(Reglement)
    <3>1. /\ reglements \in Seq({reglements[i] : i \in DOMAIN reglements})
          /\ {reglements[i] : i \in DOMAIN reglements} \subseteq Reglement
      BY DEF Inv, InvCles, InvArgent, Suite
    <3> QED
      BY <3>1
  <2>2. /\ DOMAIN remboursements \subseteq Nat
        /\ \A k \in DOMAIN remboursements : remboursements[k] \in Nat \ {0}
    BY DEF Inv, InvCles, InvArgent
  <2>3. ASSUME NEW t \in Travailleurs
        PROVE  travail[t] \in Travaux
    <3> DEFINE w == travail[t]
    <3>1. EtapeSaine(w) /\ Conforme(w) /\ CleEnMain(w)
      BY DEF Inv, InvEtapes, InvTravaux, InvCles
    <3>2. w.demande \in Demandes \cup {Aucun}
      BY <3>1, Repos DEF EtapeSaine, Conforme, Connue
    <3>3. w.rembourse \in Nat
      <4>1. CASE w.etape \notin {"lieu", "ecrire"}
        BY <3>1, <4>1 DEF EtapeSaine
      <4>2. CASE w.etape \in {"lieu", "ecrire"}
        <5>1. w.demande.genre \in Annulations \cup Avoirs /\ APayer(Net(w.aRendre)) \in Nat
          BY <3>1, <4>2, Plafond, NetNat DEF EtapeSaine
        <5> QED
          BY <3>1, <4>2, <5>1 DEF Conforme, Soldee
      <4> QED
        BY <4>1, <4>2
    <3>4. w.cle \in Nat \cup {Aucun}
      BY <3>1 DEF CleEnMain, Inv, InvCles
    <3>5. /\ w.etape \in Etapes /\ w.aRendre \in [Lignes -> Nat] /\ w.aVerrouiller \subseteq Lignes
          /\ w.tient \subseteq Ressources /\ Forme(w)
      BY <3>1 DEF EtapeSaine, Conforme, Connue
    <3> QED
      BY <3>2, <3>3, <3>4, <3>5 DEF Forme, Fiche, Travaux
  <2>4. travail \in [Travailleurs -> Travaux]
    BY <2>3 DEF Inv, InvEtapes
  <2> QED
    BY <2>1, <2>2, <2>4 DEF TypeOK, Inv, InvArgent, InvBillets, InvQuantites, Bornes
<1> QED
  BY <1>1, Invariant, BornesInv, PTL

\* Whatever requests, credit notes and failures run together, a line never gives back
\* more than was sold (quantite_restante_de_la_ligne_sous_verrou).
THEOREM QuantitesJustes == Spec => []JamaisPlusQueVendu
<1>1. Inv => JamaisPlusQueVendu
  BY DEF Inv, InvQuantites
<1> QED
  BY <1>1, Invariant, PTL

\* No refund of Stripe is written twice, and it is written at its amount.
THEOREM ReglementsJustes == Spec => []ReglementsConformes
<1>1. Inv => ReglementsConformes
  BY DEF Inv, InvCles
<1> QED
  BY <1>1, Invariant, PTL

\* Money that left without a row has the key of the next refund, unless a credit note was
\* written in between.
THEOREM ArgentToujoursRetrouve == Spec => []ArgentRetrouve
<1>1. Inv => ArgentRetrouve
  BY DEF Inv, InvCles
<1> QED
  BY <1>1, Invariant, PTL

\* A transaction that holds a refund of Stripe is in no deadlock: it waits at most for the
\* row of the venue, and whoever holds this row waits for nothing.
THEOREM ArgentHorsDesInterblocages == Spec => []ArgentJamaisInterbloque
<1>1. Inv => ArgentJamaisInterbloque
  <2> SUFFICES ASSUME Inv, NEW t \in Travailleurs, travail[t].rembourse > 0,
                      NEW S \in SUBSET Travailleurs, t \in S, Cycle(S)
               PROVE  FALSE
    BY DEF ArgentJamaisInterbloque, Interbloque
  <2>1. PICK u \in S : Bloque(t, u)
    BY DEF Cycle
  <2>2. travail[t].etape \in {"lieu", "ecrire"}
    BY DEF Inv, InvEtapes, EtapeSaine
  <2>3. travail[t].etape = "lieu"
    BY <2>1, <2>2 DEF Bloque, Attendue, A
  <2>4. <<"lieu", 0>> \in travail[u].tient
    BY <2>1, <2>3 DEF Bloque, Attendue, A
  <2>5. travail[u].etape = "ecrire"
    BY <2>4 DEF Inv, InvEtapes, EtapeSaine
  <2>6. PICK v \in S : Bloque(u, v)
    BY DEF Cycle
  <2> QED
    BY <2>5, <2>6 DEF Bloque, Attendue, A
<1> QED
  BY <1>1, Invariant, PTL

=============================================================================
