--------------------------- MODULE PaiementEnLigne ---------------------------
(***************************************************************************)
(* One Stripe payment of an order, from the checkout to the tickets:       *)
(* Paiement_stripe.update_checkout_status and the status machine of        *)
(* BaseBillet/signals.py, run at the same time by the Stripe webhook, the  *)
(* buyer's return page, the Celery mailer and the cancellation.            *)
(*                                                                         *)
(* No transaction surrounds them: every save() is committed alone, and the *)
(* machine runs BEFORE the row that triggers it is written (pre_save).  So *)
(* a process works on the objects it has read, and writes whole rows back. *)
(* Stripe delivers an event again until it is answered.                    *)
(***************************************************************************)
EXTENDS Naturals, FiniteSets

CONSTANTS
  Travailleurs,   \* web processes
  Facteurs,       \* Celery processes: ticket_celery_mailer
  Lignes,         \* the items of the order
  Aucun,          \* stands for None
  MaxCourriels,   \* bound: mail tasks in the queue
  MaxRejeux,      \* bound: returns of the browser, and events delivered twice
  MaxPannes       \* bound: processes that die in the middle of their work

ASSUME LignesHypothese ==
  /\ IsFiniteSet(Lignes) /\ Lignes # {}
  /\ MaxCourriels \in Nat \ {0}
  /\ MaxRejeux \in Nat /\ MaxPannes \in Nat

VARIABLES
  genre,        \* the kind of order, chosen before the checkout
  session,      \* the Checkout session, on Stripe's side
  expiree,      \* whether its expires_at is past
  evenements,   \* the events Stripe has emitted: type |-> "absent" / "emis" / "acquitte"
  paiement,     \* the Paiement_stripe row
  commande,     \* status of the Commande of the cart
  ligne,        \* status of each LigneArticle
  reservation,  \* the Reservation row
  billets,      \* status of its tickets
  avoir,        \* whether the items have been refunded (sale AVOIR)
  vente,        \* status of its sale
  courriels,    \* ticket_celery_mailer tasks in the queue
  travail,      \* what each process is doing, and the objects it holds
  rejeux,       \* requests that Stripe did not need an answer to
  pannes,       \* processes that have died
  perdu,        \* history: one of them had already written the payment VALID
  laissee       \* history: the cancellation of the sale failed, and was only logged

stripe == <<genre, session, expiree, evenements>>
tables == <<paiement, commande, ligne, reservation, billets, avoir, vente>>
bilan == <<rejeux, pannes, perdu, laissee>>
vars == <<genre, session, expiree, evenements, paiement, commande, ligne,
          reservation, billets, avoir, vente, courriels, travail, rejeux, pannes,
          perdu, laissee>>

Processus == Travailleurs \cup Facteurs

-----------------------------------------------------------------------------
(* Rows *)

\* A reservation of one event (its payment names it, there is no Commande), a cart
\* with a reservation, a cart of memberships.  Only the last may be paid by SEPA.
Genres == {"directe", "panier", "adhesions"}
Sessions == {"ouverte",    \* nothing paid yet
             "soumise",    \* SEPA: complete, the debit is not confirmed
             "sansAbonnement",  \* paid, the subscription is not attached yet
             "payee",      \* payment_status "paid"
             "refusee",    \* SEPA: the debit has been refused
             "sansFrais"}  \* payment_status "no_payment_required"
Types == {"completed", "async_succeeded", "async_failed"}

ASSUME AucunHypothese == Aucun \notin Lignes \cup Types

StatutsPaiement == {"PENDING", "EXPIRE", "FAILED", "PAID", "VALID", "CANCELED",
                    "REFUNDED"}
StatutsLigne == {"UNPAID", "PAID", "VALID", "FAILED"}
StatutsReservation == {"UNPAID", "PAID", "PAID_ERROR", "PAID_NOMAIL", "VALID",
                       "CANCELED"}
Paiements == [statut : StatutsPaiement, traitement : BOOLEAN]
Reservations == [statut : StatutsReservation, mail : BOOLEAN]

Etapes == {"repos",
           "lu",           \* the payment has been read again
           "interroge",    \* the Stripe session has been read
           "lignes",       \* set_ligne_article_paid, over the items
           "ligne",        \* an item's trigger has run, its row is to be written
           "reservee",     \* the reservation object is loaded
           "activee",      \* reservation_paid has run, its row is to be written
           "encaisser",    \* set_ligne_article_paid, the sale
           "annuler",      \* annuler_la_vente_du_paiement_stripe
           "ecrire",       \* the payment's row is to be written
           "refuser",      \* async_payment_failed: update_checkout_status is over
           "refus",        \* its items are FAILED
           "refusVente",   \* its payment is FAILED
           "courrier"}     \* ticket_celery_mailer has loaded the reservation

\* The steps of set_ligne_article_paid: the items, the reservation, the sale.
EnTraitement == {"lignes", "ligne", "reservee", "activee", "encaisser"}
Servie == {"reservee", "activee", "encaisser"}

Payantes == {l \in Lignes : ligne[l] \in {"PAID", "VALID"}}

\* What a process holds: the event it answers to (Aucun for a browser), its
\* payment object, the items it still has to pass to PAID, the one it is saving
\* with the status the trigger has set, its reservation object.
Travaux == [etape : Etapes, motif : Types \cup {Aucun}, objet : Paiements,
            aFaire : SUBSET Lignes,
            enMain : [ligne : Lignes \cup {Aucun}, statut : StatutsLigne],
            copie : Reservations]

PaiementCree == [statut |-> "PENDING", traitement |-> FALSE]
ReservationCreee == [statut |-> "UNPAID", mail |-> FALSE]
AuRepos ==
  [etape |-> "repos", motif |-> Aucun, objet |-> PaiementCree, aFaire |-> {},
   enMain |-> [ligne |-> Aucun, statut |-> "UNPAID"],
   copie |-> ReservationCreee]

A(p, e) == travail[p].etape = e
Passer(p, e) == travail' = [travail EXCEPT ![p].etape = e]

\* After the checkout: everything waits for the payment.  UNPAID is also the
\* reservation of a cart, left CREATED, which has the same transition to PAID.
Init ==
  /\ genre \in Genres
  /\ session = "ouverte" /\ expiree = FALSE
  /\ evenements = [t \in Types |-> "absent"]
  /\ paiement = PaiementCree
  /\ commande = IF genre = "directe" THEN "aucune" ELSE "PENDING"
  /\ ligne = [l \in Lignes |-> "UNPAID"]
  /\ reservation = ReservationCreee
  /\ billets = "NOT_ACTIV"
  /\ avoir = FALSE
  /\ vente = "EN_ATTENTE"
  /\ courriels = 0
  /\ travail = [p \in Processus |-> AuRepos]
  /\ rejeux = 0 /\ pannes = 0 /\ perdu = FALSE /\ laissee = FALSE

-----------------------------------------------------------------------------
(* Stripe *)

Emettre(t) == evenements' = [evenements EXCEPT ![t] = "emis"]

\* The buyer pays by card, submits a SEPA debit, or owes nothing.  A membership that
\* renews may be paid before Stripe has attached its subscription: what the browser
\* sees then, the event comes after (assumed, as update_checkout_status does).
Payer ==
  /\ session = "ouverte" /\ ~ expiree
  /\ \/ /\ session' \in {"soumise", "payee", "sansFrais"}
        /\ session' = "soumise" => genre = "adhesions"
        /\ Emettre("completed")
     \/ /\ session' = "sansAbonnement" /\ genre = "adhesions"
        /\ UNCHANGED evenements
  /\ UNCHANGED <<genre, expiree, tables, courriels, travail, bilan>>

Attacher ==
  /\ session = "sansAbonnement"
  /\ session' = "payee"
  /\ Emettre("completed")
  /\ UNCHANGED <<genre, expiree, tables, courriels, travail, bilan>>

\* Days later, the bank confirms the debit, or refuses it.
Confirmer ==
  /\ session = "soumise"
  /\ \/ session' = "payee" /\ Emettre("async_succeeded")
     \/ session' = "refusee" /\ Emettre("async_failed")
  /\ UNCHANGED <<genre, expiree, tables, courriels, travail, bilan>>

Expirer ==
  /\ ~ expiree
  /\ expiree' = TRUE
  /\ UNCHANGED <<genre, session, evenements, tables, courriels, travail, bilan>>

-----------------------------------------------------------------------------
(* update_checkout_status *)

\* An event answered is not delivered again on purpose.
Repondre(m) ==
  evenements' = IF m = Aucun THEN evenements ELSE [evenements EXCEPT ![m] = "acquitte"]

\* update_checkout_status has returned: the request is answered, except a refused
\* debit, which goes on.
Rendre(w, m) ==
  IF m = "async_failed"
  THEN /\ travail' = [travail EXCEPT ![w].motif = m, ![w].etape = "refuser"]
       /\ UNCHANGED evenements
  ELSE /\ travail' = [travail EXCEPT ![w] = AuRepos]
       /\ Repondre(m)

\* An event emitted, that no process is answering to.
ALivrer(m) ==
  /\ m # Aucun
  /\ evenements[m] = "emis"
  /\ \A u \in Travailleurs : travail[u].motif # m

\* The webhook view or a return page starts.  Events come in any order, and
\* again after they were answered.  The payment is read: "being processed" or
\* VALID, nothing is asked to Stripe.
Recevoir(w, m) ==
  /\ A(w, "repos")
  /\ m # Aucun => evenements[m] # "absent"
  /\ \/ ALivrer(m) /\ UNCHANGED rejeux
     \/ ~ ALivrer(m) /\ rejeux < MaxRejeux /\ rejeux' = rejeux + 1
  /\ CASE paiement.traitement -> Repondre(m) /\ UNCHANGED travail
       [] ~ paiement.traitement /\ paiement.statut = "VALID" -> Rendre(w, m)
       [] OTHER -> /\ travail' = [travail EXCEPT ![w].motif = m, ![w].etape = "lu"]
                   /\ UNCHANGED evenements
  /\ UNCHANGED <<genre, session, expiree, tables, courriels, pannes, perdu, laissee>>

\* Not paid, or paid without the subscription that goes with it, which does not expire.
StatutImpaye(o) ==
  [o EXCEPT !.statut =
     IF expiree /\ session # "sansAbonnement" THEN "EXPIRE" ELSE "PENDING"]

\* Mutants: a submitted session counts as paid; the Stripe word is stored.
StatutSelonCompletion(o) ==
  CASE session \in {"payee", "soumise"} -> [statut |-> "PAID", traitement |-> TRUE]
    [] session = "sansFrais" -> [o EXCEPT !.statut = "CANCELED"]
    [] OTHER -> StatutImpaye(o)
StatutDeStripe(o) ==
  CASE session = "payee"     -> [statut |-> "PAID", traitement |-> TRUE]
    [] session = "sansFrais" -> [o EXCEPT !.statut = "no_payment_required"]
    [] OTHER -> StatutImpaye(o)

\* What the Stripe session makes of the payment object o.
StatutSelonStripe(o) ==
  CASE session = "payee"     -> [statut |-> "PAID", traitement |-> TRUE]
    [] session = "sansFrais" -> [o EXCEPT !.statut = "CANCELED"]
    [] OTHER -> StatutImpaye(o)

\* The session is read at Stripe, under no lock.
Interroger(w) ==
  /\ A(w, "lu")
  /\ travail' = [travail EXCEPT ![w].objet = StatutSelonStripe(@),
                                ![w].etape = "interroge"]
  /\ UNCHANGED <<stripe, tables, courriels, bilan>>

\* Mutants: a late payment starts nothing; an expired session cancels the sale.
EtapeSansRetard(ancien, nouveau) ==
  CASE nouveau = "PAID" /\ ancien \in {"PENDING", "PAID"} -> "lignes"
    [] nouveau = "CANCELED" /\ ancien = "PENDING" -> "annuler"
    [] OTHER -> "ecrire"
EtapeQuiAnnuleLExpiree(ancien, nouveau) ==
  CASE nouveau = "PAID" /\ ancien \in {"PENDING", "EXPIRE", "PAID"} -> "lignes"
    [] nouveau \in {"CANCELED", "EXPIRE"} /\ ancien = "PENDING" -> "annuler"
    [] OTHER -> "ecrire"

\* PRE_SAVE_TRANSITIONS of the payment, from the status in the database.  The
\* other transitions, error_regression included, only write the log.
EtapeDeLaTransition(ancien, nouveau) ==
  CASE nouveau = "PAID" /\ ancien \in {"PENDING", "EXPIRE", "PAID"} -> "lignes"
    [] nouveau = "CANCELED" /\ ancien = "PENDING" -> "annuler"
    [] OTHER -> "ecrire"

\* The items still to pass to PAID; after the last one, the reservation is
\* loaded, if the order has one.
EtapeApres(restantes) ==
  CASE restantes # {}      -> "lignes"
    [] genre = "adhesions" -> "encaisser"
    [] OTHER               -> "reservee"

Continuer(w, restantes) ==
  travail' = [travail EXCEPT
    ![w].aFaire = restantes,
    ![w].enMain = AuRepos.enMain,
    ![w].etape = EtapeApres(restantes),
    ![w].copie = IF restantes = {} THEN reservation ELSE @]

\* save(): pre_save reads the old row and dispatches.  set_ligne_article_paid
\* starts with the items that are not VALID.
Declarer(w) ==
  /\ A(w, "interroge")
  /\ LET suite == EtapeDeLaTransition(paiement.statut, travail[w].objet.statut)
         restantes == {l \in Lignes : ligne[l] # "VALID"}
     IN  IF suite = "lignes" THEN Continuer(w, restantes) ELSE Passer(w, suite)
  /\ UNCHANGED <<stripe, tables, courriels, bilan>>

\* The payment's row becomes o; post_save passes the Commande of a VALID payment
\* to PAID.
EcrireLePaiement(o) ==
  /\ paiement' = o
  /\ commande' = IF o.statut = "VALID" /\ commande = "PENDING" THEN "PAID" ELSE commande

-----------------------------------------------------------------------------
(* set_ligne_article_paid *)

Valide == [statut |-> "VALID", traitement |-> FALSE]

\* The item becomes PAID, its pre_save runs the trigger of its category: the
\* item becomes VALID, unless there is no trigger or it fails.  Once every other
\* item is VALID, the payment object is saved VALID, before this item is.
Declencher(w, l) ==
  /\ A(w, "lignes") /\ l \in travail[w].aFaire
  /\ \E statut \in {"PAID", "VALID"} :
       LET derniere == statut = "VALID" /\ \A k \in Lignes \ {l} : ligne[k] = "VALID"
       IN  /\ statut = "VALID" =>
                ligne[l] \in {"UNPAID", "PAID"}
           /\ travail' = [travail EXCEPT
                ![w].aFaire = @ \ {l}, ![w].etape = "ligne",
                ![w].enMain = [ligne |-> l, statut |-> statut],
                ![w].objet = IF derniere THEN Valide ELSE @]
           /\ IF derniere THEN EcrireLePaiement(Valide)
              ELSE UNCHANGED <<paiement, commande>>
  /\ UNCHANGED <<stripe, ligne, reservation, billets, avoir, vente,
                 courriels, bilan>>

EcrireLigne(w) ==
  /\ A(w, "ligne")
  /\ ligne' = [ligne EXCEPT ![travail[w].enMain.ligne] = travail[w].enMain.statut]
  /\ Continuer(w, travail[w].aFaire)
  /\ UNCHANGED <<stripe, paiement, commande, reservation, billets, avoir,
                 vente, courriels, bilan>>

\* set_paiement_valid: the mail has left, the PAID payments that name the
\* reservation become VALID.  The payment of a cart names none.
ValiderLePaiementPaye ==
  IF genre = "directe" /\ paiement.statut = "PAID" THEN EcrireLePaiement(Valide)
  ELSE UNCHANGED <<paiement, commande>>

\* The reservation is saved PAID.  From UNPAID or PAID, reservation_paid: tickets
\* activated, mail asked for, before the row is written.  A cancelled reservation
\* has no transition.
ActiverBillets(w) ==
  /\ A(w, "reservee")
  /\ Passer(w, "activee")
  /\ IF reservation.statut \in {"UNPAID", "PAID"}
     THEN /\ billets' = IF billets = "NOT_ACTIV" THEN "NOT_SCANNED" ELSE billets
          /\ \/ /\ travail[w].copie.mail
                /\ ValiderLePaiementPaye
                /\ UNCHANGED courriels
             \/ /\ ~ travail[w].copie.mail
                /\ courriels < MaxCourriels
                /\ courriels' = courriels + 1
                /\ UNCHANGED <<paiement, commande>>
     ELSE UNCHANGED <<billets, courriels, paiement, commande>>
  /\ UNCHANGED <<stripe, ligne, reservation, avoir, vente, bilan>>

EcrireReservation(w) ==
  /\ A(w, "activee")
  /\ reservation' = [travail[w].copie EXCEPT !.statut = "PAID"]
  /\ travail' = [travail EXCEPT ![w].etape = "encaisser",
                                ![w].copie = AuRepos.copie]
  /\ UNCHANGED <<stripe, paiement, commande, ligne, billets, avoir, vente,
                 courriels, bilan>>

\* encaisser_vente_stripe, last: its exceptions are swallowed and leave the sale
\* pending; a cancelled sale is refused, a settled one is left alone.
Encaisser(w) ==
  /\ A(w, "encaisser")
  /\ \/ vente = "EN_ATTENTE" /\ vente' = "REGLEE"
     \/ UNCHANGED vente
  /\ Passer(w, "ecrire")
  /\ UNCHANGED <<stripe, paiement, commande, ligne, reservation,
                 billets, avoir, courriels, bilan>>

-----------------------------------------------------------------------------
(* The other transitions, and the end of a request *)

\* annuler_vente, for a sale still pending.  Both callers catch its failure and log it:
\* the sale is left as it is, and the event is answered all the same.
AnnulerLaVente ==
  \/ vente = "EN_ATTENTE" /\ vente' = "ANNULEE" /\ UNCHANGED laissee
  \/ vente = "EN_ATTENTE" /\ laissee' = TRUE /\ UNCHANGED vente
  \/ vente # "EN_ATTENTE" /\ UNCHANGED <<vente, laissee>>

\* Stripe says no: PENDING -> CANCELED.
Annuler(w) ==
  /\ A(w, "annuler")
  /\ AnnulerLaVente
  /\ Passer(w, "ecrire")
  /\ UNCHANGED <<stripe, paiement, commande, ligne, reservation,
                 billets, avoir, courriels, rejeux, pannes, perdu>>

\* The row that had triggered everything is written at last.
EcrirePaiement(w) ==
  /\ A(w, "ecrire")
  /\ EcrireLePaiement(travail[w].objet)
  /\ Rendre(w, travail[w].motif)
  /\ UNCHANGED <<genre, session, expiree, ligne, reservation, billets, avoir,
                 vente, courriels, bilan>>

\* async_payment_failed: the items by one update(), then the payment's row, then
\* the sale.
RefuserLignes(w) ==
  /\ A(w, "refuser")
  /\ travail' = [travail EXCEPT ![w].objet.statut = "FAILED", ![w].etape = "refus"]
  /\ ligne' = [l \in Lignes |-> "FAILED"]
  /\ UNCHANGED <<stripe, paiement, commande, reservation, billets, avoir,
                 vente, courriels, bilan>>

RefuserPaiement(w) ==
  /\ A(w, "refus")
  /\ EcrireLePaiement(travail[w].objet)
  /\ Passer(w, "refusVente")
  /\ UNCHANGED <<stripe, ligne, reservation, billets, avoir, vente,
                 courriels, bilan>>

\* Mutant: the sale is left to the status machine, which ignores FAILED.
RefuserSansLaVente(w) ==
  /\ A(w, "refusVente")
  /\ travail' = [travail EXCEPT ![w] = AuRepos]
  /\ Repondre("async_failed")
  /\ UNCHANGED <<genre, session, expiree, tables, courriels, bilan>>

RefuserVente(w) ==
  /\ A(w, "refusVente")
  /\ AnnulerLaVente
  /\ travail' = [travail EXCEPT ![w] = AuRepos]
  /\ Repondre("async_failed")
  /\ UNCHANGED <<genre, session, expiree, paiement, commande, ligne, reservation,
                 billets, avoir, courriels, rejeux, pannes, perdu>>

-----------------------------------------------------------------------------
(* The mailer, the cancellation, a death *)

ChargerCourrier(f) ==
  /\ A(f, "repos")
  /\ courriels > 0
  /\ courriels' = courriels - 1
  /\ travail' = [travail EXCEPT ![f].copie = reservation, ![f].etape = "courrier"]
  /\ UNCHANGED <<stripe, tables, bilan>>

\* The whole row is written back, with the transition from the status in the
\* database: PAID -> VALID is set_paiement_valid, PAID -> PAID_ERROR releases the
\* payment.
RangerCourrier(r) ==
  /\ reservation' = r
  /\ CASE reservation.statut = "PAID" /\ r.statut = "VALID" -> ValiderLePaiementPaye
       [] reservation.statut = "PAID" /\ r.statut = "PAID_ERROR" ->
            /\ paiement' = [paiement EXCEPT !.traitement = @ /\ genre # "directe"]
            /\ UNCHANGED commande
       [] OTHER -> UNCHANGED <<paiement, commande>>

\* The mail leaves, is refused by the SMTP server, or no mail is wanted.
Envoyer(f) ==
  /\ A(f, "courrier")
  /\ LET c == travail[f].copie
     IN  \/ RangerCourrier([c EXCEPT !.statut = "VALID", !.mail = TRUE])
         \/ RangerCourrier([c EXCEPT !.statut = "PAID_ERROR", !.mail = FALSE])
         \/ RangerCourrier([c EXCEPT !.statut = "PAID_NOMAIL"])
  /\ travail' = [travail EXCEPT ![f] = AuRepos]
  /\ UNCHANGED <<stripe, ligne, billets, avoir, vente, courriels, bilan>>

\* What is left to refund, and what cancel_and_refund_resa may refund: for a direct
\* reservation, only payments PAID or VALID are looked at.
ArgentARendre == Payantes # {} /\ ~ avoir
PaiementRemboursable == genre = "panier" \/ paiement.statut \in {"PAID", "VALID"}

\* cancel_and_refund_resa, one transaction.  Stripe gives back the tickets that are
\* active, out of a settled sale; without an active ticket partial_refund_payment
\* succeeds and gives back nothing.
AnnulerReservation ==
  /\ genre # "adhesions"
  /\ reservation.statut # "CANCELED"
  /\ \/ ~ ArgentARendre /\ UNCHANGED <<paiement, avoir>>
     \/ /\ ArgentARendre /\ PaiementRemboursable
        /\ billets # "NOT_SCANNED"
        /\ UNCHANGED <<paiement, avoir>>
     \/ /\ ArgentARendre /\ PaiementRemboursable
        /\ billets = "NOT_SCANNED" /\ vente = "REGLEE"
        /\ paiement' = [paiement EXCEPT !.statut = "REFUNDED"]
        /\ avoir' = TRUE
  /\ reservation' = [reservation EXCEPT !.statut = "CANCELED"]
  /\ billets' = "CANCELED"
  /\ UNCHANGED <<stripe, commande, ligne, vente, courriels, travail, bilan>>

\* A process dies, or an exception leaves the view: nothing more is written, and
\* the event is not answered.
Interrompre(p) ==
  /\ ~ A(p, "repos")
  /\ pannes < MaxPannes
  /\ pannes' = pannes + 1
  /\ perdu' = \/ perdu
              \/ travail[p].etape \in EnTraitement /\ travail[p].objet = Valide
  /\ travail' = [travail EXCEPT ![p] = AuRepos]
  /\ UNCHANGED <<stripe, tables, courriels, rejeux, laissee>>

-----------------------------------------------------------------------------

Avancer(w) ==
  \/ Interroger(w) \/ Declarer(w)
  \/ (\E l \in Lignes : Declencher(w, l)) \/ EcrireLigne(w)
  \/ ActiverBillets(w) \/ EcrireReservation(w)
  \/ Encaisser(w) \/ Annuler(w) \/ EcrirePaiement(w)
  \/ RefuserLignes(w) \/ RefuserPaiement(w) \/ RefuserVente(w)

Poster(f) == ChargerCourrier(f) \/ Envoyer(f)

Livrer(t) ==
  /\ ALivrer(t)
  /\ \E w \in Travailleurs : Recevoir(w, t)

Next ==
  \/ Payer \/ Attacher \/ Confirmer \/ Expirer
  \/ \E w \in Travailleurs, m \in Types \cup {Aucun} : Recevoir(w, m)
  \/ \E w \in Travailleurs : Avancer(w)
  \/ \E f \in Facteurs : Poster(f)
  \/ AnnulerReservation
  \/ \E p \in Processus : Interrompre(p)

Spec == Init /\ [][Next]_vars

\* A process goes on with its work (strong, because the bound on the mail queue
\* disables one of its steps), the mailer serves its queue, and Stripe delivers
\* an event again until it is answered.
Equite ==
  /\ \A w \in Travailleurs : SF_vars(Avancer(w))
  /\ \A f \in Facteurs : WF_vars(Poster(f))
  /\ \A t \in Types : SF_vars(Livrer(t))

SpecEquitable == Spec /\ Equite

-----------------------------------------------------------------------------
(* Properties *)

\* Every variable keeps the shape declared above.
TypeOK ==
  /\ genre \in Genres /\ session \in Sessions /\ expiree \in BOOLEAN
  /\ evenements \in [Types -> {"absent", "emis", "acquitte"}]
  /\ paiement \in Paiements
  /\ commande \in {"aucune", "PENDING", "PAID"}
  /\ ligne \in [Lignes -> StatutsLigne]
  /\ reservation \in Reservations
  /\ billets \in {"NOT_ACTIV", "NOT_SCANNED", "CANCELED"} /\ avoir \in BOOLEAN
  /\ vente \in {"EN_ATTENTE", "REGLEE", "ANNULEE"}
  /\ courriels \in 0 .. MaxCourriels
  /\ travail \in [Processus -> Travaux]
  /\ rejeux \in 0 .. MaxRejeux /\ pannes \in 0 .. MaxPannes
  /\ perdu \in BOOLEAN /\ laissee \in BOOLEAN

\* Whoever processes the payment and in whatever order: nothing is delivered,
\* confirmed or settled as long as Stripe does not hold the money.  A SEPA debit
\* submitted and not confirmed is not money.
RienSansArgent ==
  \/ paiement.statut \in {"PAID", "VALID", "REFUNDED"} \/ commande = "PAID"
  \/ Payantes # {} \/ vente = "REGLEE" \/ billets = "NOT_SCANNED"
  \/ reservation.statut \notin {"UNPAID", "CANCELED"} \/ courriels > 0
  => session = "payee"

\* The sale of a payment Stripe ends up collecting is never cancelled: a session
\* that has expired, or a debit that takes days, can still be settled.
PaiementTardifEncaissable == session = "payee" => vente # "ANNULEE"

\* What the buyer was promised: the tickets activated, or the reservation cancelled;
\* without tickets, every item passed to PAID.
Servi ==
  IF genre = "adhesions" THEN Payantes = Lignes ELSE billets # "NOT_ACTIV"

\* Once Stripe holds the money, the buyer ends up served, through deaths,
\* duplicates and late events, unless a process died after it had written the
\* payment VALID and before it had served the buyer.
LePayeEstServi == session = "payee" ~> (Servi \/ perdu)

\* A refused SEPA debit ends with every item FAILED and the sale cancelled, through
\* deaths and duplicates; or with a cancellation that was tried, failed, and was only
\* logged, the event being answered all the same.
RefusAnnuleLaVente ==
  session = "refusee" ~>
    /\ \A l \in Lignes : ligne[l] = "FAILED"
    /\ vente = "ANNULEE" \/ laissee

\* "Sans ce try, le paiement resterait PENDING et Stripe rejouerait tout"
\* (set_ligne_article_paid): until it has reached its end, the payment is not
\* VALID in the database.
RejouableJusquAuBout ==
  \A w \in Travailleurs : travail[w].etape \in Servie => paiement.statut # "VALID"

\* "On refuse d'annuler plutot que de garder l'argent en silence"
\* (cancel_and_refund_resa): a paid reservation is not cancelled without a refund.
RienGardeEnSilence ==
  [][reservation.statut # "CANCELED" /\ reservation'.statut = "CANCELED"
     /\ ArgentARendre => avoir']_vars
=============================================================================
