----------------------------- MODULE Remboursement -----------------------------
(***************************************************************************)
(* Giving back the money of one Stripe payment: the buyer cancels a ticket *)
(* or a reservation (cancel_and_refund_ticket, cancel_and_refund_resa, and *)
(* partial_refund_payment which they call), while an administrator writes  *)
(* credit notes on the lines of the same sale, and the entrance scans the  *)
(* tickets.                                                                *)
(*                                                                         *)
(* A request is ONE database transaction that takes row locks one after    *)
(* the other and, in the middle, asks Stripe for a refund.  A rollback     *)
(* undoes the rows, never the refund: only the idempotency key of the call *)
(* ties the money that has left to the rows of a later try.                *)
(***************************************************************************)
EXTENDS Integers, Sequences, FiniteSets, FiniteSetsExt, Functions

CONSTANTS
  Travailleurs,    \* processes that run the requests
  Reservations,    \* the reservations paid by this payment (a cart has several)
  NbLignes,        \* the lines of the sale, numbered in the order of their datetime
  Resa,            \* the reservation of each line
  Tarif,           \* its PriceSold: a cart may hold several lines of the same one
  Vendu,           \* the quantity of each line: one ticket per unit
  Prix,            \* its unit price, in cents
  Encaissements,   \* what Stripe may have collected: montant_encaisse
  Aucun,           \* stands for None
  MaxDemandes,     \* bound: requests
  MaxPannes        \* bound: transactions cut by an error or a death

Lignes == 1..NbLignes

ASSUME VenteHypothese ==
  /\ NbLignes \in Nat \ {0}
  /\ Resa \in [Lignes -> Reservations]
  /\ \A l, m \in Lignes : Tarif[l] = Tarif[m] => Resa[l] = Resa[m]
  /\ Vendu \in [Lignes -> Nat \ {0}]
  /\ Prix \in [Lignes -> Nat \ {0}]
  /\ Encaissements \subseteq Nat
  /\ Aucun \notin Nat
  /\ MaxDemandes \in Nat /\ MaxPannes \in Nat

VARIABLES
  encaisse,        \* montant_encaisse of the payment
  statut,          \* its status
  rendu,           \* per line: the quantity its credit notes and refunds give back
  reglements,      \* the negative Reglement rows linked to the payment, as committed
  remboursements,  \* on Stripe's side: idempotency key |-> refunded amount
  billets,         \* status of each ticket
  reservations,    \* status of each reservation
  travail,         \* what each process is doing, its locks, the refund it holds
  scan,            \* the ticket read by the scanner, whose row is to be written
  demandes,        \* requests made
  pannes           \* transactions cut

tables == <<statut, rendu, reglements, billets, reservations>>
vars == <<encaisse, statut, rendu, reglements, remboursements, billets,
          reservations, travail, scan, demandes, pannes>>

-----------------------------------------------------------------------------
(* Rows *)

LignesDe(r) == {l \in Lignes : Resa[l] = r}
BilletsDeLigne(l) == {l} \X (1..Vendu[l])
Billets == UNION {BilletsDeLigne(l) : l \in Lignes}
BilletsDe(r) == {b \in Billets : Resa[b[1]] = r}

\* A ticket knows its PriceSold, not its line: numbering it by a line only makes as many
\* tickets of a PriceSold as units of it were sold.
Semblables(l) == {m \in Lignes : Tarif[m] = Tarif[l]}
BilletsDuTarif(l) == UNION {BilletsDeLigne(m) : m \in Semblables(l)}

\* The net of the given quantities.
Net(q) == SumFunction([l \in Lignes |-> Prix[l] * q[l]])
TotalVendu == Net(Vendu)
Restant(l) == Vendu[l] - rendu[l]
SommeDesReglements == SumFunction([i \in DOMAIN reglements |-> reglements[i].montant])

\* Reservation.total_paid: the lines of the reservation, credit notes included.
MontantPaye(r) == SumFunction([l \in LignesDe(r) |-> Prix[l] * Restant(l)])

\* Rows that a transaction locks: select_for_update, and the venue's row that
\* encaisser_vente takes for the number of the sale.
Ressources == ({"reservation"} \X Reservations) \cup ({"ligne"} \X Lignes)
              \cup {<<"paiement", 0>>, <<"lieu", 0>>}

Demandes ==
  [genre : {"billet"}, billet : Billets]
  \cup [genre : {"reservation"}, reservation : Reservations]
  \cup [genre : {"avoir"}, ligne : Lignes, quantite : Nat \ {0}]
  \cup {[genre |-> "avoirTotal"]}

\* What a request goes through: the rows it locks, and the call to Stripe.
ParcoursAnnulation ==
  [libre |-> "reservation", reservation |-> "paiement", paiement |-> "lignes",
   lignes |-> "stripe", stripe |-> "lieu", lieu |-> "ecrire"]

\* Mutant: the credit note takes its number before the locks of its lines.
ParcoursAvoirMutant == [libre |-> "lieu", lieu |-> "lignes", lignes |-> "ecrire"]
ParcoursAvoir == [libre |-> "lignes", lignes |-> "lieu", lieu |-> "ecrire"]

Annulations == {"billet", "reservation"}
Avoirs == {"avoir", "avoirTotal"}
Parcours(g) == IF g \in Annulations THEN ParcoursAnnulation ELSE ParcoursAvoir

Etapes == {"libre", "reservation", "paiement", "lignes", "stripe", "lieu", "ecrire"}

Rien == [l \in Lignes |-> 0]
AuRepos == [etape |-> "libre", demande |-> Aucun, aRendre |-> Rien,
            aVerrouiller |-> {}, tient |-> {}, rembourse |-> 0, cle |-> Aucun]

Init ==
  /\ encaisse \in Encaissements
  /\ statut = "VALID"
  /\ rendu = Rien
  /\ reglements = <<>>
  /\ remboursements = [k \in {} |-> 0]
  /\ billets = [b \in Billets |-> "NOT_SCANNED"]
  /\ reservations = [r \in Reservations |-> "VALID"]
  /\ travail = [t \in Travailleurs |-> AuRepos]
  /\ scan = Aucun
  /\ demandes = 0 /\ pannes = 0

-----------------------------------------------------------------------------
(* Locks *)

A(t, e) == travail[t].etape = e
Genre(t) == travail[t].demande.genre
ReservationDe(d) == IF d.genre = "billet" THEN Resa[d.billet[1]] ELSE d.reservation

\* The next line to lock: the newest first in partial_refund_payment (the default order
\* of LigneArticle), the oldest first in a whole credit note.
Prochaine(t) ==
  LET S == travail[t].aVerrouiller IN
  {l \in S : \A m \in S : IF Genre(t) \in Annulations THEN l >= m ELSE l <= m}

\* The row the process asks for now; none before Stripe and the last writes.
Attendue(t) ==
  CASE A(t, "reservation") -> {<<"reservation", ReservationDe(travail[t].demande)>>}
    [] A(t, "paiement") -> {<<"paiement", 0>>}
    [] A(t, "lignes") -> {<<"ligne", l>> : l \in Prochaine(t)}
    [] A(t, "lieu") -> {<<"lieu", 0>>}
    [] OTHER -> {}

Bloque(t, u) == u # t /\ Attendue(t) \cap travail[u].tient # {}
Libre(t) == \A u \in Travailleurs : ~Bloque(t, u)

\* Transactions that wait for one another: every one of them waits for another,
\* and is waited for.
Cycle(S) == \A t \in S : (\E u \in S : Bloque(t, u)) /\ (\E u \in S : Bloque(u, t))
Interbloque(t) == \E S \in SUBSET Travailleurs : t \in S /\ Cycle(S)

\* What comes next for the request.
Apres(t, e) == Parcours(Genre(t))[e]

\* The process takes the row it asked for; n is what it becomes.
Avec(t, n) ==
  travail' = [travail EXCEPT ![t] = [n EXCEPT !.tient = @ \cup Attendue(t)]]

\* Rollback: the rows come back, the locks are free, the request is over.
Annuler(t) == travail' = [travail EXCEPT ![t] = AuRepos] /\ UNCHANGED tables

-----------------------------------------------------------------------------
(* Requests *)

\* A sale with a collection gap gets no credit note (Q-H13).
AvoirPermisMutant == TRUE
AvoirPermis == encaisse = TotalVendu

Demander(t) ==
  /\ A(t, "libre") /\ demandes < MaxDemandes
  /\ \E d \in [genre : {"billet"}, billet : Billets]
             \cup [genre : {"reservation"}, reservation : Reservations] :
       travail' = [travail EXCEPT ![t].etape = Parcours(d.genre).libre, ![t].demande = d]
  /\ demandes' = demandes + 1
  /\ UNCHANGED <<encaisse, tables, remboursements, scan, pannes>>

\* ecrire_la_vente_d_avoir_d_une_ligne: one line, the quantity of the form.
DemanderAvoir(t) ==
  /\ A(t, "libre") /\ demandes < MaxDemandes
  /\ AvoirPermis
  /\ \E l \in Lignes : \E q \in 1..Vendu[l] :
       travail' = [travail EXCEPT
         ![t].etape = Parcours("avoir").libre,
         ![t].demande = [genre |-> "avoir", ligne |-> l, quantite |-> q],
         ![t].aRendre = [Rien EXCEPT ![l] = q], ![t].aVerrouiller = {l}]
  /\ demandes' = demandes + 1
  /\ UNCHANGED <<encaisse, tables, remboursements, scan, pannes>>

\* ecrire_la_vente_d_avoir_d_une_vente: every line, the oldest first.
DemanderAvoirTotal(t) ==
  /\ A(t, "libre") /\ demandes < MaxDemandes
  /\ AvoirPermis
  /\ travail' = [travail EXCEPT
       ![t].etape = Parcours("avoirTotal").libre,
       ![t].demande = [genre |-> "avoirTotal"],
       ![t].aVerrouiller = Lignes]
  /\ demandes' = demandes + 1
  /\ UNCHANGED <<encaisse, tables, remboursements, scan, pannes>>

-----------------------------------------------------------------------------
(* Cancelling: the reservation and its tickets are locked and read again *)

\* _ligne_stripe_du_billet_avec_une_quantite_a_rendre: the oldest one.
LigneDuBillet(b) ==
  LET S == {l \in Semblables(b[1]) : Restant(l) > 0}
  IN  {l \in S : \A m \in S : l <= m}

\* Mutant: a payment refunded in part is not among those that can be refunded.
SansArgentMutant(r) == MontantPaye(r) = 0 \/ statut = "PARTIALLY_REFUNDED"

\* partial_refund_payment is not called for a reservation whose lines are all given
\* back: the tickets are cancelled, nothing else.
SansArgent(r) == MontantPaye(r) = 0

AnnulerBillet(t) ==
  /\ A(t, "reservation") /\ Genre(t) = "billet" /\ Libre(t)
  /\ LET b == travail[t].demande.billet
         q == [l \in Lignes |-> IF l \in LigneDuBillet(b) THEN 1 ELSE 0] IN
       IF \/ billets[b] # "NOT_SCANNED"
          \/ ~SansArgent(Resa[b[1]]) /\ LigneDuBillet(b) = {}
       THEN Annuler(t)
       ELSE /\ IF SansArgent(Resa[b[1]])
               THEN Avec(t, [travail[t] EXCEPT !.etape = "ecrire"])
               ELSE Avec(t, [travail[t] EXCEPT !.etape = Apres(t, "reservation"),
                                               !.aRendre = q])
            /\ UNCHANGED tables
  /\ UNCHANGED <<encaisse, remboursements, scan, demandes, pannes>>

\* _poser_les_quantites_a_rendre_des_lignes_stripe: the active tickets of a PriceSold
\* are spread over its lines, the newest first, each up to what it has left.
Actifs(l) == Cardinality({b \in BilletsDuTarif(l) : billets[b] # "CANCELED"})
DejaRepartis(l) ==
  SumFunctionOnSet([m \in Lignes |-> Restant(m)], {m \in Semblables(l) : m > l})

QuantitesARendre(r) ==
  [l \in Lignes |->
     IF Resa[l] # r THEN 0
     ELSE Max({0, Min({Restant(l), Actifs(l) - DejaRepartis(l)})})]

AnnulerReservation(t) ==
  /\ A(t, "reservation") /\ Genre(t) = "reservation" /\ Libre(t)
  /\ LET r == travail[t].demande.reservation IN
       IF \/ reservations[r] = "CANCELED"
          \/ \E b \in BilletsDe(r) : billets[b] = "SCANNED"
       THEN Annuler(t)
       ELSE /\ IF SansArgent(r)
               THEN Avec(t, [travail[t] EXCEPT !.etape = "ecrire"])
               ELSE Avec(t, [travail[t] EXCEPT !.etape = Apres(t, "reservation"),
                                               !.aRendre = QuantitesARendre(r)])
            /\ UNCHANGED tables
  /\ UNCHANGED <<encaisse, remboursements, scan, demandes, pannes>>

-----------------------------------------------------------------------------
(* partial_refund_payment *)

\* Mutant: without select_for_update on the payment.
VerrouillerPaiementMutant(t) ==
  /\ A(t, "paiement")
  /\ LET aVoir == {l \in Lignes : travail[t].aRendre[l] > 0} IN
       travail' = [travail EXCEPT
         ![t].etape = IF aVoir = {} THEN "ecrire" ELSE Apres(t, "paiement"),
         ![t].aVerrouiller = aVoir]
  /\ UNCHANGED <<encaisse, tables, remboursements, scan, demandes, pannes>>

\* The payment first: what follows is read under this lock.
VerrouillerPaiement(t) ==
  /\ A(t, "paiement") /\ Libre(t)
  /\ LET aVoir == {l \in Lignes : travail[t].aRendre[l] > 0} IN
       Avec(t, [travail[t] EXCEPT
                  !.etape = IF aVoir = {} THEN "ecrire" ELSE Apres(t, "paiement"),
                  !.aVerrouiller = aVoir])
  /\ UNCHANGED <<encaisse, tables, remboursements, scan, demandes, pannes>>

\* quantite_restante_de_la_ligne_sous_verrou, and the refusal of its callers.
DepasseMutant(t, l) == FALSE
Depasse(t, l) == travail[t].aRendre[l] > Restant(l)

VerrouillerLigne(t) ==
  /\ A(t, "lignes") /\ Libre(t)
  /\ \E l \in Prochaine(t) :
       LET q == IF Genre(t) = "avoirTotal" THEN Restant(l) ELSE travail[t].aRendre[l]
           rendues == [travail[t].aRendre EXCEPT ![l] = q]
           reste == travail[t].aVerrouiller \ {l} IN
       IF \/ Genre(t) # "avoirTotal" /\ Depasse(t, l)
          \/ reste = {} /\ rendues = Rien
       THEN Annuler(t)
       ELSE /\ Avec(t, [travail[t] EXCEPT
                          !.etape = IF reste = {} THEN Apres(t, "lignes") ELSE @,
                          !.aRendre = rendues,
                          !.aVerrouiller = reste])
            /\ UNCHANGED tables
  /\ UNCHANGED <<encaisse, remboursements, scan, demandes, pannes>>

\* What is asked of Stripe: the net, up to what it still holds for this payment.
MontantDemande(t) ==
  Min({Net(travail[t].aRendre), Max({encaisse - SommeDesReglements, 0})})

\* Mutant: a fresh key for every call.
CleMutant == Cardinality(DOMAIN remboursements)

\* The idempotency key: the number of refunds already written.
Cle == Len(reglements)

\* Stripe answers a known key with the refund it has already made, refuses it with
\* another amount, and refuses more than it holds.
Stripe(k, m) ==
  IF k \in DOMAIN remboursements THEN remboursements[k] = m
  ELSE m + SumFunction(remboursements) <= encaisse

\* The refunds made at Stripe, with one of m under key k.
AvecRemboursement(k, m) ==
  [c \in DOMAIN remboursements \cup {k} |-> IF c = k THEN m ELSE remboursements[c]]

AppelerStripe(t) ==
  /\ A(t, "stripe")
  /\ LET m == MontantDemande(t) IN
       \/ /\ m = 0
          /\ travail' = [travail EXCEPT ![t].etape = Apres(t, "stripe")]
          /\ UNCHANGED <<tables, remboursements>>
       \/ /\ m > 0 /\ Stripe(Cle, m)
          /\ remboursements' = AvecRemboursement(Cle, m)
          /\ travail' = [travail EXCEPT ![t].etape = Apres(t, "stripe"),
                                        ![t].rembourse = m, ![t].cle = Cle]
          /\ UNCHANGED tables
       \/ /\ m > 0 /\ ~Stripe(Cle, m)
          /\ Annuler(t) /\ UNCHANGED remboursements
  /\ UNCHANGED <<encaisse, scan, demandes, pannes>>

\* encaisser_vente takes the venue's row to number the credit note sale.
VerrouillerLieu(t) ==
  /\ A(t, "lieu") /\ Libre(t)
  /\ Avec(t, [travail[t] EXCEPT !.etape = Apres(t, "lieu")])
  /\ UNCHANGED <<encaisse, tables, remboursements, scan, demandes, pannes>>

-----------------------------------------------------------------------------
(* The last writes, and the commit *)

\* Mutant: a reglement of 0 is written.
EcritsMutant(m, c) == Append(reglements, [montant |-> m, cle |-> c])
\* A reglement of 0 does not exist.
Ecrits(m, c) ==
  IF m > 0 THEN Append(reglements, [montant |-> m, cle |-> c]) ELSE reglements

\* Mutant: the net of the items is written, not what Stripe returned.
MontantEcritMutant(t) == Net(travail[t].aRendre)
MontantEcrit(t) == travail[t].rembourse

\* Mutant: all the money collected has been given back.
ToutRenduMutant == SommeDesReglements' >= encaisse
\* is_fully_refunded: the nets of the lines of the payment are 0.
ToutRendu == \A l \in Lignes : rendu'[l] = Vendu[l]

\* The end of partial_refund_payment, then of the cancellation.
Rembourser(t) ==
  /\ A(t, "ecrire") /\ Genre(t) \in Annulations
  /\ LET d == travail[t].demande
         r == ReservationDe(d)
         finis == IF d.genre = "billet" THEN {d.billet} ELSE BilletsDe(r) IN
       /\ rendu' = [l \in Lignes |-> rendu[l] + travail[t].aRendre[l]]
       /\ reglements' = Ecrits(MontantEcrit(t), travail[t].cle)
       /\ statut' = CASE <<"paiement", 0>> \notin travail[t].tient -> statut
                      [] <<"paiement", 0>> \in travail[t].tient /\ ToutRendu -> "REFUNDED"
                      [] OTHER -> IF travail[t].rembourse > 0
                                  THEN "PARTIALLY_REFUNDED" ELSE statut
       /\ billets' = [b \in Billets |-> IF b \in finis THEN "CANCELED" ELSE billets[b]]
       /\ reservations' =
            IF \A b \in BilletsDe(r) : billets'[b] = "CANCELED"
            THEN [reservations EXCEPT ![r] = "CANCELED"] ELSE reservations
  /\ travail' = [travail EXCEPT ![t] = AuRepos]
  /\ UNCHANGED <<encaisse, remboursements, scan, demandes, pannes>>

\* The credit note: a reglement linked to the payment, no call to Stripe.
EcrireAvoir(t) ==
  /\ A(t, "ecrire") /\ Genre(t) \in Avoirs
  /\ rendu' = [l \in Lignes |-> rendu[l] + travail[t].aRendre[l]]
  /\ reglements' = Ecrits(Net(travail[t].aRendre), Aucun)
  /\ travail' = [travail EXCEPT ![t] = AuRepos]
  /\ UNCHANGED <<encaisse, statut, billets, reservations, remboursements, scan,
                 demandes, pannes>>

\* An exception or the death of the process, before or after the call to Stripe.
Interrompre(t) ==
  /\ ~A(t, "libre") /\ pannes < MaxPannes
  /\ Annuler(t)
  /\ pannes' = pannes + 1
  /\ UNCHANGED <<encaisse, remboursements, scan, demandes>>

\* PostgreSQL cancels one of the transactions that wait for one another.
Debloquer(t) ==
  /\ Interbloque(t)
  /\ Annuler(t)
  /\ UNCHANGED <<encaisse, remboursements, scan, demandes, pannes>>

-----------------------------------------------------------------------------
(* The entrance: the ticket is read, then its row is written, without a lock *)

LireBillet ==
  /\ scan = Aucun
  /\ \E b \in Billets : billets[b] # "SCANNED" /\ scan' = b
  /\ UNCHANGED <<encaisse, tables, remboursements, travail, demandes, pannes>>

\* The tickets whose rows a cancellation has locked.
BilletsTenus(t) ==
  CASE Genre(t) = "billet" -> {travail[t].demande.billet}
    [] Genre(t) = "reservation" -> BilletsDe(travail[t].demande.reservation)
    [] OTHER -> {}

\* The UPDATE waits for the cancellation that holds the row, then overwrites it.
ScannerBillet ==
  /\ scan # Aucun
  /\ \A t \in Travailleurs :
       ~A(t, "libre") /\ ~A(t, "reservation") => scan \notin BilletsTenus(t)
  /\ billets' = [billets EXCEPT ![scan] = "SCANNED"]
  /\ scan' = Aucun
  /\ UNCHANGED <<encaisse, statut, rendu, reglements, reservations, remboursements,
                 travail, demandes, pannes>>

Avancer(t) ==
  \/ AnnulerBillet(t) \/ AnnulerReservation(t)
  \/ VerrouillerPaiement(t) \/ VerrouillerLigne(t)
  \/ AppelerStripe(t) \/ VerrouillerLieu(t)
  \/ Rembourser(t) \/ EcrireAvoir(t)

Next ==
  \/ \E t \in Travailleurs :
       \/ Demander(t) \/ DemanderAvoir(t) \/ DemanderAvoirTotal(t)
       \/ Avancer(t) \/ Interrompre(t) \/ Debloquer(t)
  \/ LireBillet \/ ScannerBillet

Spec == Init /\ [][Next]_vars
-----------------------------------------------------------------------------
(* Properties *)

Reglement == [montant : Nat \ {0}, cle : Nat \cup {Aucun}]
Travaux == [etape : Etapes, demande : Demandes \cup {Aucun}, aRendre : [Lignes -> Nat],
            aVerrouiller : SUBSET Lignes, tient : SUBSET Ressources, rembourse : Nat,
            cle : Nat \cup {Aucun}]

TypeOK ==
  /\ encaisse \in Encaissements
  /\ statut \in {"VALID", "PARTIALLY_REFUNDED", "REFUNDED"}
  /\ rendu \in [Lignes -> Nat]
  /\ reglements \in Seq(Reglement)
  /\ DOMAIN remboursements \subseteq Nat
  /\ \A k \in DOMAIN remboursements : remboursements[k] \in Nat \ {0}
  /\ billets \in [Billets -> {"NOT_SCANNED", "SCANNED", "CANCELED"}]
  /\ reservations \in [Reservations -> {"VALID", "CANCELED"}]
  /\ travail \in [Travailleurs -> Travaux]
  /\ scan \in Billets \cup {Aucun}
  /\ demandes \in 0..MaxDemandes /\ pannes \in 0..MaxPannes

\* Whatever requests run together, a line never gives back more than was sold: two
\* clicks, a ticket and its reservation, a refund and a credit note.
JamaisPlusQueVendu == \A l \in Lignes : rendu[l] <= Vendu[l]

\* The sums written as given back never exceed the money collected, even for a
\* payment that collected less than its items (received less, Q-H13).
JamaisPlusQuEncaisse == SommeDesReglements <= encaisse

\* A payment shown REFUNDED has given everything back: all its units, and the price
\* of all its items, or all that Stripe had collected for them.
RembourseEstToutRendu ==
  statut = "REFUNDED" =>
    /\ \A l \in Lignes : rendu[l] = Vendu[l]
    /\ SommeDesReglements = Min({encaisse, TotalVendu})

\* No refund of Stripe is written twice, and it is written at its amount.
ReglementsConformes ==
  /\ \A i \in DOMAIN reglements : reglements[i].cle # Aucun =>
       /\ reglements[i].cle \in DOMAIN remboursements
       /\ reglements[i].montant = remboursements[reglements[i].cle]
  /\ \A i, j \in DOMAIN reglements :
       i # j /\ reglements[i].cle = reglements[j].cle => reglements[i].cle = Aucun

Ecrit(k) == \E i \in DOMAIN reglements : reglements[i].cle = k

\* Money that left without a row (the transaction failed after Stripe) is never out
\* of reach: the next refund asks for it with the same key, as long as no credit
\* note has been written in between.
ArgentRetrouve ==
  \A k \in DOMAIN remboursements : ~Ecrit(k) =>
    \/ k = Len(reglements)
    \/ k < Len(reglements) /\ reglements[k + 1].cle = Aucun

\* A ticket cancelled has been given back, on a line of its PriceSold: no money kept in
\* silence.
BilletsAnnulesRendus ==
  \A l \in Lignes :
    Cardinality({b \in BilletsDuTarif(l) : billets[b] = "CANCELED"})
      <= SumFunctionOnSet(rendu, Semblables(l))

\* A transaction that holds a refund of Stripe is never one that the database could
\* cancel to break a deadlock: requests lock the lines before they call Stripe, and
\* credit notes lock them before the venue.
ArgentJamaisInterbloque ==
  \A t \in Travailleurs : travail[t].rembourse > 0 => ~Interbloque(t)

\* PaiementStripe/utils.py:54: after a failure a retry takes the same key, and gives
\* no money back again.  So a refund that no row tells and no process holds has the
\* key of the next call.
NouvelEssaiSansArgentDePlus ==
  \A k \in DOMAIN remboursements :
    /\ ~Ecrit(k)
    /\ \A t \in Travailleurs : travail[t].cle # k
    => k = Len(reglements)
=============================================================================
