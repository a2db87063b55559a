------------------------------- MODULE Creneaux -------------------------------
(* The booking of a resource (room, equipment): booking/booking_engine.py,      *)
(* booking/models.py, booking/views.py and trigger_C of BaseBillet/triggers.py. *)
(*                                                                              *)
(* A request is checked against the capacity and written in one SERIALIZABLE    *)
(* transaction.  Everything after it runs under READ COMMITTED, on a Booking    *)
(* object read before and saved whole: the opening of a Stripe session, the     *)
(* decision of the administrator (the only one that locks the row), the         *)
(* withdrawal by the person and the payment that arrives.                       *)
EXTENDS Naturals, FiniteSets

CONSTANTS
  Demandes,     \* the bookings
  Plages,       \* what a request may ask for: sets of slots of the resource
  Capacite,     \* resource.capacity
  Sessions,     \* the Stripe sessions, with their Paiement_stripe
  Processus,    \* web processes and webhooks
  MaxPannes,    \* processes that die or transactions rolled back: bound
  Aucun

ASSUME CapaciteHypothese == Capacite \in Nat \ {0} /\ MaxPannes \in Nat
ASSUME DemandesHypothese == IsFiniteSet(Demandes)
ASSUME AucunHypothese ==
  Aucun \notin Demandes \cup Sessions \cup Processus

Statuts == {"absente", "WAITING_PAYMENT", "ADMIN_WAITING", "ADMIN_VALID",
            "PAID_BY_USER", "FREERES", "USER_CANCELED", "ADMIN_CANCELED"}
Annulees == {"USER_CANCELED", "ADMIN_CANCELED"}
Etapes == {"libre", "creer", "ouvrir", "enregistrer", "confirmer", "encaisser",
           "accepter", "fermer", "annuler", "rembourser",
           "declencheur", "ligne", "regler"}

VARIABLES
  booking,    \* Demandes -> the committed row, its line and its sale
  verrou,     \* Demandes -> the process that holds the row (select_for_update)
  session,    \* Sessions -> its state at Stripe and in the database
  processus,  \* Processus -> where a request is, and the copy it works on
  lachees,    \* history: the bookings that have ceased to hold their slots
  pannes

vars == <<booking, verrou, session, processus, lachees, pannes>>

Absente == [statut |-> "absente", plage |-> {}, payant |-> FALSE, retenue |-> FALSE,
            ligne |-> "CREATED", session |-> Aucun, vente |-> "EN_ATTENTE",
            acceptations |-> 0]
PasDeSession == [de |-> Aucun, stripe |-> "aucune", base |-> "aucune"]
Libre == [etape |-> "libre", b |-> Aucun, copie |-> "absente", s |-> Aucun,
          plage |-> {}, payant |-> FALSE, manuelle |-> FALSE, vues |-> {}, fermees |-> {}]

-----------------------------------------------------------------------------
(* What the code reads.                                                         *)

Existantes == {b \in Demandes : booking[b].statut # "absente"}

\* get_existing_bookings_for_resource: an unpaid booking holds its slots for
\* DUREE_D_UN_PAIEMENT_EN_COURS, the others as long as they are not cancelled.
Occupe(b) ==
  \/ booking[b].statut \in {"PAID_BY_USER", "ADMIN_WAITING", "ADMIN_VALID", "FREERES"}
  \/ booking[b].statut = "WAITING_PAYMENT" /\ booking[b].retenue

\* compute_remaining_capacity of every slot of the request, above zero.
PlaceLibre(plage) ==
  \A c \in plage :
    Cardinality({b \in Demandes : Occupe(b) /\ c \in booking[b].plage}) < Capacite

\* total_paid: the line of the booking is paid.
Reglee(b) == booking[b].ligne \in {"PAID", "VALID"}

\* est_une_demande_non_payee, on a status that may have been read before.
DemandeNonPayee(b, statut) ==
  statut = "ADMIN_WAITING" \/ (statut = "ADMIN_VALID" /\ ~Reglee(b))

\* Nobody else holds the row: a save waits for the commit of who does.
Ecrivable(p, b) == verrou[b] \in {Aucun, p}

Au(p, etape) == processus[p].etape = etape
Passer(p, etape) == processus' = [processus EXCEPT ![p].etape = etape]
Finir(p) == processus' = [processus EXCEPT ![p] = Libre]
\* Mutant: the row stays locked after the commit.
GarderLeVerrou(p) == UNCHANGED verrou

Relacher(p) == verrou' = [b \in Demandes |-> IF verrou[b] = p THEN Aucun ELSE verrou[b]]

-----------------------------------------------------------------------------
(* validate_new_booking.                                                        *)

\* The SERIALIZABLE transaction reads the slots in its snapshot; a full slot is
\* a refusal that writes nothing.
LireLesCreneaux(p) ==
  \E b \in Demandes \ Existantes, plage \in Plages, payant, manuelle \in BOOLEAN :
    /\ Au(p, "libre") /\ PlaceLibre(plage)
    /\ \A q \in Processus : processus[q].b # b
    /\ processus' = [processus EXCEPT ![p] =
         [Libre EXCEPT !.etape = "creer", !.b = b, !.plage = plage, !.payant = payant,
                       !.manuelle = manuelle, !.vues = Existantes]]
    /\ UNCHANGED <<booking, verrou, session, pannes>>

\* Mutant: READ COMMITTED, the default isolation.
SansSerialisation(p) == TRUE

\* SSI: two requests that overlap have each read what the other writes; the second
\* to commit is refused (40001).
Serialisable(p) ==
  \A b \in Existantes \ processus[p].vues :
    booking[b].plage \cap processus[p].plage = {}

\* The booking, its line and its sale; then, outside the transaction, Stripe or
\* the confirmation of a free booking.  A request waits for the administrator.
CreerLeBooking(p) ==
  LET e == processus[p] IN
  /\ Au(p, "creer") /\ Serialisable(p)
  /\ booking' = [booking EXCEPT ![e.b] =
       [Absente EXCEPT !.statut = IF e.manuelle THEN "ADMIN_WAITING" ELSE "WAITING_PAYMENT",
                       !.plage = e.plage, !.payant = e.payant, !.retenue = TRUE]]
  /\ processus' = [processus EXCEPT ![p] =
       IF e.manuelle THEN Libre
       ELSE [Libre EXCEPT !.b = e.b, !.copie = "WAITING_PAYMENT",
                          !.etape = IF e.payant THEN "ouvrir" ELSE "confirmer"]]
  /\ UNCHANGED <<verrou, session, pannes>>

CreneauPris(p) ==
  /\ Au(p, "creer") /\ ~Serialisable(p)
  /\ Finir(p)
  /\ UNCHANGED <<booking, verrou, session, pannes>>

\* confirmer_booking_gratuit: the booking and its line...
ConfirmerGratuit(p) ==
  LET b == processus[p].b IN
  /\ Au(p, "confirmer") /\ Ecrivable(p, b)
  /\ booking' = [booking EXCEPT ![b].statut = "FREERES", ![b].ligne = "VALID"]
  /\ Passer(p, "encaisser")
  /\ UNCHANGED <<verrou, session, pannes>>

\* ... then its sale, settled at 0.
EncaisserGratuit(p) ==
  /\ Au(p, "encaisser")
  /\ booking' = [booking EXCEPT ![processus[p].b].vente = "REGLEE"]
  /\ Finir(p)
  /\ UNCHANGED <<verrou, session, pannes>>

\* get_checkout_stripe: the payment, to which the line is moved, and its session.
OuvrirSession(p) ==
  \E s \in Sessions :
    /\ Au(p, "ouvrir") /\ session[s].stripe = "aucune"
    /\ session' = [session EXCEPT ![s] =
         [de |-> processus[p].b, stripe |-> "open", base |-> "PENDING"]]
    /\ booking' = [booking EXCEPT ![processus[p].b].session = s]
    /\ processus' = [processus EXCEPT ![p].etape = "enregistrer", ![p].s = s]
    /\ UNCHANGED <<verrou, pannes>>

\* ... then the line of this payment is UNPAID and the Booking object, read before
\* the calls to Stripe, is saved whole.
Enregistre(l, e) ==
  [l EXCEPT !.statut = e.copie, !.ligne = IF l.session = e.s THEN "UNPAID" ELSE @]

EnregistrerLeBooking(p) ==
  LET e == processus[p] IN
  /\ Au(p, "enregistrer") /\ Ecrivable(p, e.b)
  /\ booking' = [booking EXCEPT ![e.b] = Enregistre(@, e)]
  /\ Finir(p)
  /\ UNCHANGED <<verrou, session, pannes>>

\* views.pay: the person opens the payment of an accepted request.  An open
\* session is used again and a complete one waited for; an expired one is marked.
Pay(p, b) ==
  LET encours == {s \in Sessions : session[s].de = b /\ session[s].base = "PENDING"} IN
  /\ Au(p, "libre")
  /\ booking[b].statut = "ADMIN_VALID" /\ ~Reglee(b)
  /\ \/ encours = {} /\ UNCHANGED session
     \/ \E s \in encours : /\ session[s].stripe = "expired"
                           /\ session' = [session EXCEPT ![s].base = "EXPIRE"]
  /\ processus' = [processus EXCEPT ![p] =
       [Libre EXCEPT !.etape = "ouvrir", !.b = b, !.copie = "ADMIN_VALID"]]
  /\ UNCHANGED <<booking, verrou, pannes>>

-----------------------------------------------------------------------------
(* The decision of the administrator: admin_accept, admin_refuse.               *)

\* Mutant: the row is read without select_for_update.
AccepterSansVerrou(p, b) ==
  /\ Au(p, "libre") /\ booking[b].statut = "ADMIN_WAITING"
  /\ processus' = [processus EXCEPT ![p] = [Libre EXCEPT !.etape = "accepter", !.b = b]]
  /\ UNCHANGED <<booking, verrou, session, pannes>>

\* The row is locked and its status read.
AccepterVerrouiller(p, b) ==
  /\ Au(p, "libre") /\ verrou[b] = Aucun
  /\ booking[b].statut = "ADMIN_WAITING"
  /\ verrou' = [verrou EXCEPT ![b] = p]
  /\ processus' = [processus EXCEPT ![p] = [Libre EXCEPT !.etape = "accepter", !.b = b]]
  /\ UNCHANGED <<booking, session, pannes>>

\* A free request is confirmed and its sale settled in the same transaction; the
\* mail leaves at the commit.
Acceptee(l) ==
  IF l.payant THEN [l EXCEPT !.statut = "ADMIN_VALID", !.acceptations = @ + 1]
  ELSE [l EXCEPT !.statut = "FREERES", !.ligne = "VALID", !.vente = "REGLEE",
                 !.acceptations = @ + 1]

Accepter(p) ==
  LET b == processus[p].b IN
  /\ Au(p, "accepter") /\ Ecrivable(p, b)
  /\ booking' = [booking EXCEPT ![b] = Acceptee(@)]
  /\ Relacher(p) /\ Finir(p)
  /\ UNCHANGED <<session, pannes>>

RefuserVerrouiller(p, b) ==
  /\ Au(p, "libre") /\ verrou[b] = Aucun
  /\ DemandeNonPayee(b, booking[b].statut)
  /\ verrou' = [verrou EXCEPT ![b] = p]
  /\ processus' = [processus EXCEPT ![p] =
       [Libre EXCEPT !.etape = "fermer", !.b = b, !.copie = "ADMIN_CANCELED"]]
  /\ UNCHANGED <<booking, session, pannes>>

-----------------------------------------------------------------------------
(* The withdrawal by the person: cancel_confirm, cancel_and_refund_booking.     *)

\* The booking is read without a lock; its status decides what follows.
Retirer(p, b) ==
  /\ Au(p, "libre")
  /\ booking[b].statut \in {"PAID_BY_USER", "ADMIN_VALID", "ADMIN_WAITING", "FREERES"}
  /\ processus' = [processus EXCEPT ![p] =
       [Libre EXCEPT !.b = b, !.copie = "USER_CANCELED",
          !.etape = IF DemandeNonPayee(b, booking[b].statut) THEN "fermer" ELSE "rembourser"]]
  /\ UNCHANGED <<booking, verrou, session, pannes>>

\* expirer_la_session_stripe_ouverte: Stripe closes the open sessions at once, and
\* refuses for the complete ones.
FermerLesSessions(p) ==
  LET ouvertes == {s \in Sessions : /\ session[s].de = processus[p].b
                                    /\ session[s].base = "PENDING"
                                    /\ session[s].stripe = "open"} IN
  /\ Au(p, "fermer")
  /\ session' = [s \in Sessions |->
       IF s \in ouvertes THEN [session[s] EXCEPT !.stripe = "expired"] ELSE session[s]]
  /\ processus' = [processus EXCEPT ![p].etape = "annuler", ![p].fermees = ouvertes]
  /\ UNCHANGED <<booking, verrou, pannes>>

\* annuler_vente refuses a settled sale: the whole transaction is undone.
VenteAnnulable(b) == booking[b].vente # "REGLEE"

Annulee(l, statut) ==
  [l EXCEPT !.statut = statut, !.ligne = "CANCELED", !.vente = "ANNULEE"]

\* annuler_la_demande_non_payee, for a refusal or a withdrawal.
AnnulerLaDemande(p) ==
  LET e == processus[p] IN
  /\ Au(p, "annuler") /\ Ecrivable(p, e.b)
  /\ IF VenteAnnulable(e.b)
     THEN /\ booking' = [booking EXCEPT ![e.b] = Annulee(@, e.copie)]
          /\ session' = [s \in Sessions |->
               IF s \in e.fermees THEN [session[s] EXCEPT !.base = "EXPIRE"] ELSE session[s]]
     ELSE UNCHANGED <<booking, session>>
  /\ Relacher(p) /\ Finir(p)
  /\ UNCHANGED pannes

\* A paid booking: its lines are given back (partial_refund_payment), then the row
\* is saved.  A free one has nothing to give back.
AnnulerEtRembourser(p) ==
  LET b == processus[p].b IN
  /\ Au(p, "rembourser") /\ Ecrivable(p, b)
  /\ booking' = [booking EXCEPT ![b].statut = "USER_CANCELED"]
  /\ Finir(p)
  /\ UNCHANGED <<verrou, session, pannes>>

-----------------------------------------------------------------------------
(* The payment that arrives: set_ligne_article_paid, trigger_C.                 *)

\* A session of the booking is paid: its line, if it is still the one of this
\* payment, passes PAID.  From UNPAID the state machine calls trigger_C, which
\* reads the booking; from CANCELED no transition is declared.
ConstaterPaye(p, s) ==
  LET b == session[s].de IN
  /\ Au(p, "libre") /\ session[s].stripe = "complete" /\ session[s].base # "VALID"
  /\ \A q \in Processus : processus[q].s # s
  /\ processus' = [processus EXCEPT ![p] =
       [Libre EXCEPT !.b = b, !.s = s, !.copie = booking[b].statut,
          !.etape = IF booking[b].session = s /\ booking[b].ligne \in {"CREATED", "UNPAID"}
                    THEN "declencheur" ELSE "regler"]]
  /\ booking' = [booking EXCEPT ![b].ligne =
       IF booking[b].session = s /\ @ = "CANCELED" THEN "PAID" ELSE @]
  /\ UNCHANGED <<verrou, session, pannes>>

\* trigger_C: a booking read cancelled is left alone; another is saved PAID.
Declencher(p) ==
  LET e == processus[p] IN
  /\ Au(p, "declencheur")
  /\ IF e.copie \in Annulees THEN UNCHANGED booking
     ELSE /\ Ecrivable(p, e.b)
          /\ booking' = [booking EXCEPT ![e.b].statut = "PAID_BY_USER"]
  /\ Passer(p, "ligne")
  /\ UNCHANGED <<verrou, session, pannes>>

\* The line, set VALID by the trigger, is saved after it.
ValiderLaLigne(p) ==
  /\ Au(p, "ligne")
  /\ booking' = [booking EXCEPT ![processus[p].b].ligne = "VALID"]
  /\ Passer(p, "regler")
  /\ UNCHANGED <<verrou, session, pannes>>

\* Mutant: a cancelled sale is settled by a payment that arrives late.
ReglerMemeAnnulee(p) ==
  LET e == processus[p] IN
  /\ Au(p, "regler")
  /\ booking' = [booking EXCEPT ![e.b].vente = "REGLEE"]
  /\ session' = [session EXCEPT ![e.s].base = "VALID"]
  /\ Finir(p)
  /\ UNCHANGED <<verrou, pannes>>

\* encaisser_vente_stripe: a cancelled sale is refused, and only logged.
ReglerLaVente(p) ==
  LET e == processus[p] IN
  /\ Au(p, "regler")
  /\ booking' = [booking EXCEPT ![e.b].vente = IF @ = "EN_ATTENTE" THEN "REGLEE" ELSE @]
  /\ session' = [session EXCEPT ![e.s].base = "VALID"]
  /\ Finir(p)
  /\ UNCHANGED <<verrou, pannes>>

-----------------------------------------------------------------------------
(* The person at Stripe, the time, the failures.                                *)

Payer(s) ==
  /\ session[s].stripe = "open"
  /\ session' = [session EXCEPT ![s].stripe = "complete"]
  /\ UNCHANGED <<booking, verrou, processus, pannes>>

\* The hold is counted from the booking...
RetenueEchue(b) ==
  /\ booking[b].statut = "WAITING_PAYMENT" /\ booking[b].retenue
  /\ booking' = [booking EXCEPT ![b].retenue = FALSE]
  /\ UNCHANGED <<verrou, session, processus, pannes>>

\* ... and the session expires one minute later than a hold begun with it.
SessionEchue(s) ==
  LET b == session[s].de IN
  /\ session[s].stripe = "open"
  /\ booking[b].statut = "WAITING_PAYMENT" => ~booking[b].retenue
  /\ session' = [session EXCEPT ![s].stripe = "expired"]
  /\ UNCHANGED <<booking, verrou, processus, pannes>>

\* A process dies, or its transaction is rolled back: error of Stripe, deadlock.
Interrompre(p) ==
  /\ ~Au(p, "libre") /\ pannes < MaxPannes
  /\ pannes' = pannes + 1
  /\ Relacher(p) /\ Finir(p)
  /\ UNCHANGED <<booking, session>>

Init ==
  /\ booking = [b \in Demandes |-> Absente]
  /\ verrou = [b \in Demandes |-> Aucun]
  /\ session = [s \in Sessions |-> PasDeSession]
  /\ processus = [p \in Processus |-> Libre]
  /\ lachees = {}
  /\ pannes = 0

Recevoir(p) ==
  \/ LireLesCreneaux(p)
  \/ \E b \in Demandes : \/ Pay(p, b) \/ Retirer(p, b)
                         \/ AccepterVerrouiller(p, b) \/ RefuserVerrouiller(p, b)
  \/ \E s \in Sessions : ConstaterPaye(p, s)

Continuer(p) ==
  \/ CreerLeBooking(p) \/ CreneauPris(p) \/ ConfirmerGratuit(p) \/ EncaisserGratuit(p)
  \/ OuvrirSession(p) \/ EnregistrerLeBooking(p)
  \/ Accepter(p) \/ FermerLesSessions(p) \/ AnnulerLaDemande(p) \/ AnnulerEtRembourser(p)
  \/ Declencher(p) \/ ValiderLaLigne(p) \/ ReglerLaVente(p)

Pas ==
  \/ \E p \in Processus : Recevoir(p) \/ Continuer(p) \/ Interrompre(p)
  \/ \E s \in Sessions : Payer(s) \/ SessionEchue(s)
  \/ \E b \in Demandes : RetenueEchue(b)

\* History: a booking that does not hold its slots after a step has let them go.
SansPlace == {b \in Existantes : ~Occupe(b)}

Next == Pas /\ lachees' = lachees \cup SansPlace'

Spec == Init /\ [][Next]_vars

-----------------------------------------------------------------------------
(* Properties.                                                                  *)

\* The state has the declared shape; a row is held only by a decision in progress.
TypeOK ==
  /\ booking \in [Demandes ->
       [statut : Statuts, plage : Plages \cup {{}}, payant : BOOLEAN, retenue : BOOLEAN,
        ligne : {"CREATED", "UNPAID", "PAID", "VALID", "CANCELED"},
        session : Sessions \cup {Aucun}, vente : {"EN_ATTENTE", "REGLEE", "ANNULEE"},
        acceptations : Nat]]
  /\ verrou \in [Demandes -> Processus \cup {Aucun}]
  /\ \A b \in Demandes : verrou[b] # Aucun =>
       /\ processus[verrou[b]].b = b
       /\ processus[verrou[b]].etape \in {"accepter", "fermer", "annuler"}
  /\ session \in [Sessions ->
       [de : Demandes \cup {Aucun}, stripe : {"aucune", "open", "complete", "expired"},
        base : {"aucune", "PENDING", "EXPIRE", "VALID"}]]
  /\ \A p \in Processus : /\ processus[p].etape \in Etapes
                          /\ processus[p].copie \in Statuts
                          /\ processus[p].etape # "libre" => processus[p].b \in Demandes
  /\ lachees \in SUBSET Demandes
  /\ pannes \in 0..MaxPannes

\* A slot is never given to more bookings than its capacity, whatever requests run
\* together, as long as they have held it without a break: only a booking that let
\* its slots go (hold over, cancelled) and came back can exceed it
\* (validate_new_booking, booking_engine.py 536-582).
PlaceJamaisDonneeDeuxFois ==
  \A c \in UNION Plages :
    Cardinality({b \in Demandes \ lachees : Occupe(b) /\ c \in booking[b].plage}) <= Capacite

\* The person is told once that the request is accepted: a double click, two
\* administrators, a withdrawal at the same time or a process that dies never
\* accept a request again (views.py 1344-1346).
UneSeuleAcceptation == \A b \in Demandes : booking[b].acceptations <= 1

\* A refusal and a settled sale exclude each other: a request shown as refused has
\* its sale cancelled, without a number, even when the payment, another decision
\* and the withdrawal of the person overlap (models.py 794-828).
RefuseeSansVenteReglee ==
  \A b \in Demandes : booking[b].statut = "ADMIN_CANCELED" => booking[b].vente = "ANNULEE"

\* trigger_C (triggers.py 332-333): "Un booking refuse par l'admin ou annule par la
\* personne n'est jamais reactive : son creneau a pu etre redonne."
AnnuleeJamaisReactivee ==
  [][\A b \in Demandes :
       booking[b].statut \in Annulees => booking'[b].statut \in Annulees]_vars

=============================================================================
