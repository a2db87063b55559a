------------------------ MODULE PaiementEnLigneProofs ------------------------
(* Theorems of PaiementEnLigne, for any number of processes, items, mails,      *)
(* returns of the browser and deaths: the types, nothing served without the     *)
(* money, no cancelled sale once Stripe holds it.                               *)
(*                                                                              *)
(* Both come from what a process may hold: an object that Stripe's answer made  *)
(* PAID exists only once the session is paid, one that it made CANCELED only if *)
(* nothing was owed, and a session never leaves one of these ends.              *)
EXTENDS PaiementEnLigne, TLAPS

-----------------------------------------------------------------------------
(* The invariant.                                                               *)

Impayes == {"PENDING", "EXPIRE", "FAILED", "CANCELED"}
Refus == {"refuser", "refus", "refusVente"}

\* The shape of everything but the processes.
TablesTypees ==
  /\ genre \in Genres /\ session \in Sessions /\ expiree \in BOOLEAN
  /\ evenements \in [Types -> {"absent", "emis", "acquitte"}]
  /\ paiement \in Paiements
  /\ commande \in {"aucune", "PENDING", "PAID"}
  /\ ligne \in [Lignes -> StatutsLigne]
  /\ reservation \in Reservations
  /\ billets \in {"NOT_ACTIV", "NOT_SCANNED", "CANCELED"} /\ avoir \in BOOLEAN
  /\ vente \in {"EN_ATTENTE", "REGLEE", "ANNULEE"}
  /\ courriels \in 0 .. MaxCourriels
  /\ rejeux \in 0 .. MaxRejeux /\ pannes \in 0 .. MaxPannes
  /\ perdu \in BOOLEAN /\ laissee \in BOOLEAN

\* Without the money, the database shows nothing paid.
RienDePaye ==
  session # "payee" =>
    /\ paiement.statut \in Impayes /\ commande # "PAID"
    /\ \A l \in Lignes : ligne[l] \in {"UNPAID", "FAILED"}
    /\ vente # "REGLEE" /\ billets # "NOT_SCANNED"
    /\ reservation.statut \in {"UNPAID", "CANCELED"} /\ courriels = 0

\* A sale is cancelled, a refusal announced, only at an end where nothing is paid.
Annulations ==
  /\ vente = "ANNULEE" => session \in {"sansFrais", "refusee"}
  /\ evenements["async_failed"] # "absent" => session = "refusee"

\* What a process holds agrees with the session, which only moves to an end.
TravailBon(e) ==
  /\ session # "payee" =>
       /\ e.objet.statut \in Impayes
       /\ e.etape \notin EnTraitement \cup {"courrier"}
  /\ e.etape = "annuler" \/ (e.etape = "interroge" /\ e.objet.statut = "CANCELED")
       => session = "sansFrais"
  /\ e.etape \in Refus \/ e.motif = "async_failed" => session = "refusee"

IInv ==
  /\ TablesTypees /\ travail \in [Processus -> Travaux]
  /\ RienDePaye /\ Annulations
  /\ \A p \in Processus : TravailBon(travail[p])

-----------------------------------------------------------------------------
(* The steps of a process.                                                      *)

\* A step of one process, the session apart.
LEMMA UnPas ==
  ASSUME IInv, NEW p \in Processus, NEW e \in Travaux, travail' = [travail EXCEPT ![p] = e],
         session' = session, TravailBon(e), TablesTypees', RienDePaye', Annulations'
  PROVE  IInv'
<1>1. /\ travail' \in [Processus -> Travaux] /\ travail'[p] = e
      /\ \A q \in Processus \ {p} : travail'[q] = travail[q]
  BY DEF IInv
<1>2. \A q \in Processus : TravailBon(travail'[q])
  BY <1>1 DEF IInv
<1>3. \A q \in Processus : TravailBon(travail[q])'
  BY <1>2 DEF TravailBon
<1>. QED BY <1>1, <1>3 DEF IInv

\* A process at rest holds nothing.
LEMMA Repos == AuRepos \in Travaux /\ TravailBon(AuRepos)
<1>1. PaiementCree \in Paiements /\ PaiementCree.statut = "PENDING"
  BY DEF PaiementCree, Paiements, StatutsPaiement
<1>2. ReservationCreee \in Reservations
  BY DEF ReservationCreee, Reservations, StatutsReservation
<1>3. [ligne |-> Aucun, statut |-> "UNPAID"]
        \in [ligne : Lignes \cup {Aucun}, statut : StatutsLigne]
  BY DEF StatutsLigne
<1>. HIDE DEF PaiementCree, ReservationCreee
<1>4. AuRepos \in Travaux
  BY <1>1, <1>2, <1>3 DEF AuRepos, Travaux, Etapes
<1>5. /\ AuRepos.etape = "repos" /\ AuRepos.motif = Aucun
      /\ AuRepos.objet.statut = "PENDING"
  BY <1>1 DEF AuRepos
<1>6. TravailBon(AuRepos)
  BY <1>5, AucunHypothese DEF TravailBon, Impayes, Refus, EnTraitement, Types
<1>. QED BY <1>4, <1>6

\* A process that moves on, with the payment object o.
LEMMA Avance ==
  ASSUME IInv, NEW p \in Processus, NEW etape \in Etapes, NEW o \in Paiements
  PROVE  LET e == [travail[p] EXCEPT !.etape = etape, !.objet = o]
         IN  /\ e \in Travaux /\ e.etape = etape /\ e.objet = o
             /\ e.motif = travail[p].motif
BY DEF IInv, Travaux

\* What a process holds is typed and agrees with the session.
LEMMA Lecture ==
  ASSUME IInv, NEW p \in Processus
  PROVE  /\ travail[p] \in Travaux /\ TravailBon(travail[p])
         /\ travail[p].objet \in Paiements /\ travail[p].etape \in Etapes
         /\ travail[p].motif \in Types \cup {Aucun}
         /\ travail[p].enMain.statut \in StatutsLigne
         /\ travail[p].copie \in Reservations
BY DEF IInv, Travaux

\* The payment's row and its Commande.
LEMMA PaiementEcrit ==
  ASSUME IInv, NEW o \in Paiements, EcrireLePaiement(o),
         session # "payee" => o.statut \in Impayes
  PROVE  /\ paiement' \in Paiements /\ commande' \in {"aucune", "PENDING", "PAID"}
         /\ session # "payee" => paiement'.statut \in Impayes /\ commande' # "PAID"
BY DEF IInv, TablesTypees, RienDePaye, EcrireLePaiement, Impayes

\* An event answered stays an event that was emitted.
LEMMA ReponseBonne ==
  ASSUME IInv, NEW m \in Types \cup {Aucun}, Repondre(m), session' = session,
         m = "async_failed" => session = "refusee"
  PROVE  /\ evenements' \in [Types -> {"absent", "emis", "acquitte"}]
         /\ evenements'["async_failed"] # "absent" => session = "refusee"
BY DEF IInv, TablesTypees, Annulations, Repondre, Types

\* The end of update_checkout_status.
LEMMA Rendu ==
  ASSUME IInv, NEW w \in Processus, NEW m \in Types \cup {Aucun}, Rendre(w, m),
         session' = session, m = "async_failed" => session = "refusee",
         m = "async_failed" => (session # "payee" => travail[w].objet.statut \in Impayes)
  PROVE  /\ \E e \in Travaux : travail' = [travail EXCEPT ![w] = e] /\ TravailBon(e)
         /\ evenements' \in [Types -> {"absent", "emis", "acquitte"}]
         /\ evenements'["async_failed"] # "absent" => session = "refusee"
<1>1. CASE m = "async_failed"
  <2> DEFINE e == [travail[w] EXCEPT !.motif = m, !.etape = "refuser"]
  <2>1. travail' = [travail EXCEPT ![w] = e] /\ evenements' = evenements
    BY <1>1 DEF Rendre, IInv
  <2>2. e \in Travaux /\ e.etape = "refuser" /\ e.objet = travail[w].objet /\ e.motif = m
    BY DEF IInv, Travaux, Etapes
  <2>. HIDE DEF e
  <2>3. TravailBon(e)
    BY <1>1, <2>2 DEF TravailBon, Refus, EnTraitement
  <2>. QED BY <2>1, <2>2, <2>3 DEF IInv, TablesTypees, Annulations
<1>2. CASE m # "async_failed"
  <2>1. travail' = [travail EXCEPT ![w] = AuRepos] /\ Repondre(m)
    BY <1>2 DEF Rendre
  <2>. QED BY <1>2, <2>1, Repos, ReponseBonne
<1>. QED BY <1>1, <1>2

\* A step of nobody's process: a session only moves to its end.
LEMMA HorsProcessus ==
  ASSUME IInv, travail' = travail,
         session' # "payee" => session # "payee",
         session \in {"sansFrais", "refusee"} => session' = session,
         TablesTypees', RienDePaye', Annulations'
  PROVE  IInv'
<1>1. ASSUME NEW p \in Processus PROVE TravailBon(travail[p])'
  <2> DEFINE e == travail[p]
  <2>1. TravailBon(e)
    BY DEF IInv
  <2>2. travail'[p] = e
    OBVIOUS
  <2>. HIDE DEF e
  <2>. QED BY <2>1, <2>2 DEF TravailBon
<1>2. travail' \in [Processus -> Travaux]
  BY DEF IInv
<1>. QED BY <1>1, <1>2 DEF IInv

-----------------------------------------------------------------------------
(* Stripe and the person.                                                       *)

\* The buyer pays, submits a debit, or owes nothing.
LEMMA PayerBon == ASSUME IInv, Payer PROVE IInv'
<1>1. /\ session = "ouverte"
      /\ session' \in {"soumise", "payee", "sansFrais", "sansAbonnement"}
      /\ evenements' \in {evenements, [evenements EXCEPT !["completed"] = "emis"]}
      /\ UNCHANGED <<genre, expiree, tables, courriels, travail, bilan>>
  BY DEF Payer, Emettre
<1>2. TablesTypees'
  BY <1>1 DEF IInv, TablesTypees, Sessions, Types, tables, bilan
<1>3. RienDePaye' /\ Annulations'
  BY <1>1 DEF IInv, TablesTypees, RienDePaye, Annulations, Types, tables
<1>. QED BY <1>1, <1>2, <1>3, HorsProcessus

\* The subscription of a paid membership is attached.
LEMMA AttacherBon == ASSUME IInv, Attacher PROVE IInv'
<1>1. /\ session = "sansAbonnement" /\ session' = "payee"
      /\ evenements' = [evenements EXCEPT !["completed"] = "emis"]
      /\ UNCHANGED <<genre, expiree, tables, courriels, travail, bilan>>
  BY DEF Attacher, Emettre
<1>2. TablesTypees'
  BY <1>1 DEF IInv, TablesTypees, Sessions, Types, tables, bilan
<1>3. RienDePaye' /\ Annulations'
  BY <1>1 DEF IInv, TablesTypees, RienDePaye, Annulations, Types, tables
<1>. QED BY <1>1, <1>2, <1>3, HorsProcessus

\* The bank answers for a debit.
LEMMA ConfirmerBon == ASSUME IInv, Confirmer PROVE IInv'
<1>1. /\ session = "soumise"
      /\ \/ /\ session' = "payee"
            /\ evenements' = [evenements EXCEPT !["async_succeeded"] = "emis"]
         \/ /\ session' = "refusee"
            /\ evenements' = [evenements EXCEPT !["async_failed"] = "emis"]
      /\ UNCHANGED <<genre, expiree, tables, courriels, travail, bilan>>
  BY DEF Confirmer, Emettre
<1>2. TablesTypees'
  BY <1>1 DEF IInv, TablesTypees, Sessions, Types, tables, bilan
<1>3. RienDePaye' /\ Annulations'
  BY <1>1 DEF IInv, TablesTypees, RienDePaye, Annulations, Types, tables
<1>. QED BY <1>1, <1>2, <1>3, HorsProcessus

\* The session passes its deadline.
LEMMA ExpirerBon == ASSUME IInv, Expirer PROVE IInv'
<1>1. /\ expiree' = TRUE /\ session' = session /\ travail' = travail
      /\ UNCHANGED <<genre, evenements, tables, courriels, bilan>>
  BY DEF Expirer
<1>2. TablesTypees' /\ RienDePaye' /\ Annulations'
  BY <1>1 DEF IInv, TablesTypees, RienDePaye, Annulations, tables, bilan
<1>. QED BY <1>1, <1>2, HorsProcessus

\* Without the money there is nothing to give back, and no ticket is active.
LEMMA AnnulerReservationBon == ASSUME IInv, AnnulerReservation PROVE IInv'
<1>1. /\ reservation' = [reservation EXCEPT !.statut = "CANCELED"] /\ billets' = "CANCELED"
      /\ paiement' \in {paiement, [paiement EXCEPT !.statut = "REFUNDED"]}
      /\ avoir' \in {avoir, TRUE}
      /\ session' = session /\ travail' = travail
      /\ genre' = genre /\ expiree' = expiree /\ evenements' = evenements
      /\ commande' = commande /\ ligne' = ligne /\ vente' = vente /\ courriels' = courriels
      /\ rejeux' = rejeux /\ pannes' = pannes /\ perdu' = perdu /\ laissee' = laissee
  BY DEF AnnulerReservation, stripe, bilan
<1>2. session # "payee" => paiement' = paiement
  <2>. SUFFICES ASSUME session # "payee" PROVE paiement' = paiement
    OBVIOUS
  <2>1. Payantes = {}
    BY DEF IInv, RienDePaye, Payantes
  <2>. QED BY <2>1 DEF AnnulerReservation, ArgentARendre
<1>3. paiement' \in Paiements /\ reservation' \in Reservations /\ avoir' \in BOOLEAN
      /\ reservation'.statut = "CANCELED"
  BY <1>1 DEF IInv, TablesTypees, Paiements, Reservations, StatutsPaiement, StatutsReservation
<1>4. TablesTypees'
  BY <1>1, <1>3 DEF IInv, TablesTypees
<1>5. RienDePaye' /\ Annulations'
  BY <1>1, <1>2, <1>3 DEF IInv, RienDePaye, Annulations
<1>. QED BY <1>1, <1>4, <1>5, HorsProcessus

-----------------------------------------------------------------------------
(* update_checkout_status.                                                      *)

\* The rows are those of before the step.
TablesInchangees ==
  /\ paiement' = paiement /\ commande' = commande /\ ligne' = ligne
  /\ reservation' = reservation /\ billets' = billets /\ avoir' = avoir /\ vente' = vente

\* A step that leaves the rows alone.
LEMMA SansEcriture ==
  ASSUME IInv, TablesInchangees, genre' = genre, session' = session, expiree' = expiree,
         courriels' \in 0 .. MaxCourriels, session # "payee" => courriels' = 0,
         rejeux' \in 0 .. MaxRejeux, pannes' \in 0 .. MaxPannes, perdu' \in BOOLEAN,
         laissee' \in BOOLEAN,
         evenements' \in [Types -> {"absent", "emis", "acquitte"}],
         evenements'["async_failed"] # "absent" => session = "refusee"
  PROVE  TablesTypees' /\ RienDePaye' /\ Annulations'
BY DEF IInv, TablesTypees, RienDePaye, Annulations, TablesInchangees

\* A request or an event arrives, and the payment is read.
LEMMA RecevoirBon ==
  ASSUME IInv, NEW w \in Travailleurs, NEW m \in Types \cup {Aucun}, Recevoir(w, m)
  PROVE  IInv'
<1>1. /\ travail[w].etape = "repos" /\ (m # Aucun => evenements[m] # "absent")
      /\ TablesInchangees /\ genre' = genre /\ session' = session /\ expiree' = expiree
      /\ courriels' = courriels /\ pannes' = pannes /\ perdu' = perdu /\ laissee' = laissee
      /\ rejeux' = rejeux \/ (rejeux < MaxRejeux /\ rejeux' = rejeux + 1)
  BY DEF Recevoir, A, tables, TablesInchangees
<1>2. w \in Processus /\ rejeux' \in 0 .. MaxRejeux
      /\ courriels' \in 0 .. MaxCourriels /\ pannes' \in 0 .. MaxPannes /\ perdu' \in BOOLEAN
      /\ laissee' \in BOOLEAN
  BY <1>1, LignesHypothese DEF Processus, IInv, TablesTypees
<1>3. session # "payee" => courriels' = 0
  BY <1>1 DEF IInv, RienDePaye
<1>4. m = "async_failed" => session = "refusee"
  BY <1>1, AucunHypothese DEF IInv, Annulations, Types
<1>5. /\ \E e \in Travaux : travail' = [travail EXCEPT ![w] = e] /\ TravailBon(e)
      /\ evenements' \in [Types -> {"absent", "emis", "acquitte"}]
      /\ evenements'["async_failed"] # "absent" => session = "refusee"
  <2>1. CASE paiement.traitement
    <3>1. Repondre(m) /\ travail' = travail
      BY <2>1 DEF Recevoir
    <3>2. travail[w] \in Travaux /\ TravailBon(travail[w])
      BY <1>2, Lecture
    <3>3. travail' = [travail EXCEPT ![w] = travail[w]]
      BY <1>2, <3>1 DEF IInv
    <3>. QED BY <1>1, <1>4, <3>1, <3>2, <3>3, ReponseBonne
  <2>2. CASE ~ paiement.traitement /\ paiement.statut = "VALID"
    <3>1. Rendre(w, m)
      BY <2>2 DEF Recevoir
    <3>2. session # "payee" => travail[w].objet.statut \in Impayes
      BY <1>2 DEF IInv, TravailBon
    <3>. QED BY <1>1, <1>2, <1>4, <3>1, <3>2, Rendu
  <2>3. CASE ~ paiement.traitement /\ paiement.statut # "VALID"
    <3> DEFINE e == [travail[w] EXCEPT !.motif = m, !.etape = "lu"]
    <3>1. travail' = [travail EXCEPT ![w] = e] /\ evenements' = evenements
      BY <1>2, <2>3 DEF Recevoir, IInv
    <3>2. TravailBon(travail[w]) /\ travail[w] \in Travaux
      BY <1>2, Lecture
    <3>3. e \in Travaux /\ e.etape = "lu" /\ e.objet = travail[w].objet /\ e.motif = m
      BY <3>2 DEF Travaux, Etapes
    <3>. HIDE DEF e
    <3>4. TravailBon(e)
      BY <1>4, <3>2, <3>3 DEF TravailBon, Refus, EnTraitement
    <3>. QED BY <3>1, <3>3, <3>4 DEF IInv, TablesTypees, Annulations
  <2>. QED BY <2>1, <2>2, <2>3 DEF IInv, TablesTypees, Paiements
<1>6. TablesTypees' /\ RienDePaye' /\ Annulations'
  BY <1>1, <1>2, <1>3, <1>5, SansEcriture
<1>. QED BY <1>1, <1>2, <1>5, <1>6, UnPas

\* A step of a worker that leaves the session, the events and the counters alone.
LEMMA Inchanges ==
  ASSUME IInv, UNCHANGED <<stripe, tables, courriels, bilan>>
  PROVE  session' = session /\ TablesTypees' /\ RienDePaye' /\ Annulations'
BY DEF IInv, TablesTypees, RienDePaye, Annulations, stripe, tables, bilan

\* Stripe's answer: PAID only if it holds the money, CANCELED only if nothing was owed.
LEMMA InterrogerBon ==
  ASSUME IInv, NEW w \in Travailleurs, Interroger(w) PROVE IInv'
<1> DEFINE d == travail[w]
           o == StatutSelonStripe(d.objet)
           e == [d EXCEPT !.objet = o, !.etape = "interroge"]
<1>1. /\ d.etape = "lu" /\ d \in Travaux /\ TravailBon(d) /\ d.objet \in Paiements
      /\ w \in Processus
  BY Lecture DEF Interroger, A, Processus
<1>2. travail' = [travail EXCEPT ![w] = e]
  BY <1>1 DEF Interroger, IInv
<1>3. /\ o \in Paiements
      /\ session # "payee" => o.statut \in Impayes
      /\ o.statut = "CANCELED" => session = "sansFrais"
  <2>1. CASE session = "payee"
    <3>1. o = [statut |-> "PAID", traitement |-> TRUE]
      BY <2>1 DEF StatutSelonStripe
    <3>. HIDE DEF o
    <3>. QED BY <2>1, <3>1 DEF Paiements, StatutsPaiement
  <2>2. CASE session = "sansFrais"
    <3>1. o = [d.objet EXCEPT !.statut = "CANCELED"]
      BY <2>2 DEF StatutSelonStripe
    <3>. HIDE DEF o, d
    <3>. QED BY <1>1, <2>2, <3>1 DEF Paiements, StatutsPaiement, Impayes
  <2>3. CASE session \notin {"payee", "sansFrais"}
    <3>1. o \in {[d.objet EXCEPT !.statut = "EXPIRE"], [d.objet EXCEPT !.statut = "PENDING"]}
      BY <2>3 DEF StatutSelonStripe, StatutImpaye
    <3>. HIDE DEF o, d
    <3>. QED BY <1>1, <3>1 DEF Paiements, StatutsPaiement, Impayes
  <2>. QED BY <2>1, <2>2, <2>3
<1>. HIDE DEF o, d
<1>4. e \in Travaux /\ e.etape = "interroge" /\ e.objet = o /\ e.motif = d.motif
  BY <1>1, <1>3 DEF Travaux, Etapes
<1>. HIDE DEF e
<1>5. TravailBon(e)
  BY <1>1, <1>3, <1>4 DEF TravailBon, Refus, EnTraitement
<1>6. session' = session /\ TablesTypees' /\ RienDePaye' /\ Annulations'
  BY Inchanges DEF Interroger
<1>. QED BY <1>1, <1>2, <1>4, <1>5, <1>6, UnPas

\* A process passes to a later step with what it holds.
LEMMA Suivant ==
  ASSUME IInv, NEW p \in Processus, NEW etape \in Etapes, Passer(p, etape),
         session # "payee" => etape \notin EnTraitement \cup {"courrier"},
         etape = "annuler" => session = "sansFrais", etape # "interroge",
         etape \in Refus => session = "refusee"
  PROVE  \E e \in Travaux : travail' = [travail EXCEPT ![p] = e] /\ TravailBon(e)
<1> DEFINE d == travail[p]
           e == [d EXCEPT !.etape = etape]
<1>1. d \in Travaux /\ TravailBon(d)
  BY Lecture
<1>2. travail' = [travail EXCEPT ![p] = e]
  BY DEF Passer, IInv
<1>. HIDE DEF d
<1>3. e \in Travaux /\ e.etape = etape /\ e.objet = d.objet /\ e.motif = d.motif
  BY <1>1 DEF Travaux
<1>. HIDE DEF e
<1>4. TravailBon(e)
  BY <1>1, <1>3 DEF TravailBon
<1>. QED BY <1>2, <1>3, <1>4

\* set_ligne_article_paid goes on, for a paid session.
LEMMA ContinuerBon ==
  ASSUME IInv, NEW w \in Processus, NEW restantes \in SUBSET Lignes, Continuer(w, restantes),
         session = "payee"
  PROVE  \E e \in Travaux : travail' = [travail EXCEPT ![w] = e] /\ TravailBon(e)
<1> DEFINE d == travail[w]
           etape == EtapeApres(restantes)
           copie == IF restantes = {} THEN reservation ELSE d.copie
           vide == AuRepos.enMain
           e == [d EXCEPT !.aFaire = restantes, !.enMain = vide, !.etape = etape,
                          !.copie = copie]
<1>1. d \in Travaux /\ TravailBon(d) /\ d.copie \in Reservations
  BY Lecture
<1>2. travail' = [travail EXCEPT ![w] = e]
  BY DEF Continuer, IInv
<1>3. etape \in {"lignes", "encaisser", "reservee"}
  BY DEF EtapeApres
<1>4. copie \in Reservations
  BY <1>1 DEF IInv, TablesTypees
<1>5. vide \in [ligne : Lignes \cup {Aucun}, statut : StatutsLigne]
  BY DEF AuRepos, StatutsLigne
<1>. HIDE DEF d, etape, copie, vide
<1>6. e \in Travaux /\ e.etape = etape /\ e.objet = d.objet /\ e.motif = d.motif
  BY <1>1, <1>3, <1>4, <1>5 DEF Travaux, Etapes
<1>. HIDE DEF e
<1>7. TravailBon(e)
  BY <1>1, <1>3, <1>6 DEF TravailBon, Refus
<1>. QED BY <1>2, <1>6, <1>7

\* The transition of the payment: the items are processed only for an object PAID,
\* the sale is cancelled only for an object CANCELED.
LEMMA DeclarerBon ==
  ASSUME IInv, NEW w \in Travailleurs, Declarer(w) PROVE IInv'
<1> DEFINE d == travail[w]
           suite == EtapeDeLaTransition(paiement.statut, d.objet.statut)
           restantes == {l \in Lignes : ligne[l] # "VALID"}
<1>1. d.etape = "interroge" /\ TravailBon(d) /\ w \in Processus
  BY Lecture DEF Declarer, A, Processus
<1>2. /\ suite \in {"lignes", "annuler", "ecrire"}
      /\ suite = "lignes" => d.objet.statut = "PAID"
      /\ suite = "annuler" => d.objet.statut = "CANCELED"
  BY DEF EtapeDeLaTransition
<1>3. IF suite = "lignes" THEN Continuer(w, restantes) ELSE Passer(w, suite)
  BY DEF Declarer
<1>. HIDE DEF suite
<1>4. \E e \in Travaux : travail' = [travail EXCEPT ![w] = e] /\ TravailBon(e)
  <2>1. CASE suite = "lignes"
    <3>1. session = "payee"
      BY <1>1, <1>2, <2>1 DEF TravailBon, Impayes
    <3>. QED BY <1>1, <1>3, <2>1, <3>1, ContinuerBon
  <2>2. CASE suite \in {"annuler", "ecrire"}
    <3>1. /\ suite \in Etapes /\ suite # "interroge" /\ suite \notin Refus
          /\ suite \notin EnTraitement \cup {"courrier"}
      BY <2>2 DEF Etapes, Refus, EnTraitement
    <3>2. suite = "annuler" => session = "sansFrais"
      BY <1>1, <1>2 DEF TravailBon
    <3>3. Passer(w, suite)
      BY <1>3, <2>2
    <3>. QED BY <1>1, <3>1, <3>2, <3>3, Suivant
  <2>. QED BY <1>2, <2>1, <2>2
<1>5. session' = session /\ TablesTypees' /\ RienDePaye' /\ Annulations'
  BY Inchanges DEF Declarer
<1>. QED BY <1>1, <1>4, <1>5, UnPas

-----------------------------------------------------------------------------
(* set_ligne_article_paid.                                                      *)

\* A process in the middle of it has seen the money.
LEMMA EnTraitementPaye ==
  ASSUME IInv, NEW w \in Processus, travail[w].etape \in EnTraitement
  PROVE  session = "payee"
BY DEF IInv, TravailBon

\* Once the money is there, a step that writes the tables has only their shape and
\* the sale to keep.
LEMMA EcritureApresPaiement ==
  ASSUME IInv, session = "payee", session' = session, genre' = genre, expiree' = expiree,
         evenements' = evenements, rejeux' = rejeux, pannes' = pannes, perdu' = perdu,
         laissee' = laissee,
         paiement' \in Paiements, commande' \in {"aucune", "PENDING", "PAID"},
         ligne' \in [Lignes -> StatutsLigne], reservation' \in Reservations,
         billets' \in {"NOT_ACTIV", "NOT_SCANNED", "CANCELED"}, avoir' = avoir,
         vente' \in {vente, "REGLEE"}, courriels' \in 0 .. MaxCourriels
  PROVE  TablesTypees' /\ RienDePaye' /\ Annulations'
BY DEF IInv, TablesTypees, RienDePaye, Annulations

\* The trigger of an item, for a paid session.
LEMMA DeclencherBon ==
  ASSUME IInv, NEW w \in Travailleurs, NEW l \in Lignes, Declencher(w, l) PROVE IInv'
<1> DEFINE d == travail[w]
<1>1. /\ d.etape = "lignes" /\ w \in Processus
      /\ d \in Travaux /\ TravailBon(d) /\ d.objet \in Paiements
  BY Lecture DEF Declencher, A, Processus
<1>2. session = "payee"
  BY <1>1, EnTraitementPaye DEF EnTraitement
<1>3. PICK statut \in {"PAID", "VALID"}, derniere \in BOOLEAN :
        /\ travail' = [travail EXCEPT
                ![w].aFaire = @ \ {l}, ![w].etape = "ligne",
                ![w].enMain = [ligne |-> l, statut |-> statut],
                ![w].objet = IF derniere THEN Valide ELSE @]
        /\ IF derniere THEN EcrireLePaiement(Valide) ELSE UNCHANGED <<paiement, commande>>
  BY DEF Declencher
<1> DEFINE o == IF derniere THEN Valide ELSE d.objet
           reste == d.aFaire \ {l}
           main == [ligne |-> l, statut |-> statut]
           e == [d EXCEPT !.aFaire = reste, !.etape = "ligne", !.enMain = main, !.objet = o]
<1>4. travail' = [travail EXCEPT ![w] = e]
  <2>1. travail \in [Processus -> Travaux]
    BY DEF IInv
  <2>2. CASE derniere
    BY <1>1, <1>3, <2>1, <2>2
  <2>3. CASE ~ derniere
    BY <1>1, <1>3, <2>1, <2>3
  <2>. QED BY <2>2, <2>3
<1>5. Valide \in Paiements
  BY DEF Valide, Paiements, StatutsPaiement
<1>6. /\ o \in Paiements /\ reste \in SUBSET Lignes
      /\ main \in [ligne : Lignes \cup {Aucun}, statut : StatutsLigne]
  BY <1>1, <1>5 DEF Travaux, StatutsLigne
<1>. HIDE DEF o, reste, main, d
<1>7. e \in Travaux /\ e.etape = "ligne" /\ e.motif = d.motif
  BY <1>1, <1>6 DEF Travaux, Etapes
<1>. HIDE DEF e
<1>8. TravailBon(e)
  BY <1>1, <1>2, <1>7 DEF TravailBon, Refus
<1>9. paiement' \in Paiements /\ commande' \in {"aucune", "PENDING", "PAID"}
  BY <1>2, <1>3, <1>5, PaiementEcrit DEF IInv, TablesTypees
<1>10. /\ session' = session /\ genre' = genre /\ expiree' = expiree
       /\ evenements' = evenements /\ rejeux' = rejeux /\ pannes' = pannes
       /\ perdu' = perdu /\ laissee' = laissee
       /\ ligne' = ligne /\ reservation' = reservation /\ billets' = billets
       /\ avoir' = avoir /\ vente' = vente /\ courriels' = courriels
  BY DEF Declencher, stripe, bilan
<1>11. TablesTypees' /\ RienDePaye' /\ Annulations'
  BY <1>2, <1>9, <1>10, EcritureApresPaiement DEF IInv, TablesTypees
<1>. QED BY <1>1, <1>4, <1>7, <1>8, <1>10, <1>11, UnPas

\* The row of the item.
LEMMA EcrireLigneBon ==
  ASSUME IInv, NEW w \in Travailleurs, EcrireLigne(w) PROVE IInv'
<1> DEFINE d == travail[w]
<1>1. /\ d.etape = "ligne" /\ w \in Processus /\ d \in Travaux
      /\ d.enMain.statut \in StatutsLigne /\ d.aFaire \in SUBSET Lignes
  <2>1. d \in Travaux
    BY Lecture DEF Processus
  <2>. QED BY <2>1, Lecture DEF EcrireLigne, A, Processus, Travaux
<1>2. session = "payee"
  BY <1>1, EnTraitementPaye DEF EnTraitement
<1>3. \E e \in Travaux : travail' = [travail EXCEPT ![w] = e] /\ TravailBon(e)
  BY <1>1, <1>2, ContinuerBon DEF EcrireLigne
<1>4. ligne' \in [Lignes -> StatutsLigne]
  BY <1>1 DEF EcrireLigne, IInv, TablesTypees
<1>5. /\ session' = session /\ genre' = genre /\ expiree' = expiree
      /\ evenements' = evenements /\ rejeux' = rejeux /\ pannes' = pannes
      /\ perdu' = perdu /\ laissee' = laissee
      /\ paiement' = paiement /\ commande' = commande
      /\ reservation' = reservation /\ billets' = billets
      /\ avoir' = avoir /\ vente' = vente /\ courriels' = courriels
  BY DEF EcrireLigne, stripe, bilan
<1>6. TablesTypees' /\ RienDePaye' /\ Annulations'
  BY <1>2, <1>4, <1>5, EcritureApresPaiement DEF IInv, TablesTypees
<1>. QED BY <1>1, <1>3, <1>5, <1>6, UnPas

\* The mail has left: the payment of a direct reservation becomes VALID if it was PAID.
LEMMA ValiderBon ==
  ASSUME IInv, ValiderLePaiementPaye
  PROVE  /\ paiement' \in Paiements /\ commande' \in {"aucune", "PENDING", "PAID"}
         /\ session # "payee" => paiement'.statut \in Impayes /\ commande' # "PAID"
<1>1. CASE genre = "directe" /\ paiement.statut = "PAID"
  <2>1. session = "payee"
    BY <1>1 DEF IInv, RienDePaye, Impayes
  <2>2. Valide \in Paiements
    BY DEF Valide, Paiements, StatutsPaiement
  <2>. QED BY <1>1, <2>1, <2>2, PaiementEcrit DEF ValiderLePaiementPaye
<1>2. CASE ~(genre = "directe" /\ paiement.statut = "PAID")
  BY <1>2 DEF ValiderLePaiementPaye, IInv, TablesTypees, RienDePaye
<1>. QED BY <1>1, <1>2

\* The tickets and the mail, for a paid session.
LEMMA ActiverBilletsBon ==
  ASSUME IInv, NEW w \in Travailleurs, ActiverBillets(w) PROVE IInv'
<1>1. travail[w].etape = "reservee" /\ w \in Processus /\ Passer(w, "activee")
  BY DEF ActiverBillets, A, Processus
<1>2. session = "payee"
  BY <1>1, EnTraitementPaye DEF EnTraitement
<1>3. \E e \in Travaux : travail' = [travail EXCEPT ![w] = e] /\ TravailBon(e)
  BY <1>1, <1>2, Suivant DEF Etapes, Refus
<1>4. /\ session' = session /\ genre' = genre /\ expiree' = expiree
      /\ evenements' = evenements /\ rejeux' = rejeux /\ pannes' = pannes
      /\ perdu' = perdu /\ laissee' = laissee
      /\ ligne' = ligne /\ reservation' = reservation /\ avoir' = avoir /\ vente' = vente
  BY DEF ActiverBillets, stripe, bilan
<1>5. /\ billets' \in {billets, "NOT_SCANNED"}
      /\ courriels' = courriels \/ (courriels < MaxCourriels /\ courriels' = courriels + 1)
      /\ UNCHANGED <<paiement, commande>> \/ ValiderLePaiementPaye
  BY DEF ActiverBillets
<1>6. paiement' \in Paiements /\ commande' \in {"aucune", "PENDING", "PAID"}
  BY <1>5, ValiderBon DEF IInv, TablesTypees
<1>7. courriels' \in 0 .. MaxCourriels /\ billets' \in {"NOT_ACTIV", "NOT_SCANNED", "CANCELED"}
  BY <1>5, LignesHypothese DEF IInv, TablesTypees
<1>8. TablesTypees' /\ RienDePaye' /\ Annulations'
  BY <1>2, <1>4, <1>6, <1>7, EcritureApresPaiement DEF IInv, TablesTypees
<1>. QED BY <1>1, <1>3, <1>4, <1>8, UnPas

\* The row of the reservation.
LEMMA EcrireReservationBon ==
  ASSUME IInv, NEW w \in Travailleurs, EcrireReservation(w) PROVE IInv'
<1> DEFINE d == travail[w]
           vide == AuRepos.copie
           r == [d.copie EXCEPT !.statut = "PAID"]
           e == [d EXCEPT !.etape = "encaisser", !.copie = vide]
<1>1. /\ d.etape = "activee" /\ w \in Processus
      /\ d \in Travaux /\ TravailBon(d) /\ d.copie \in Reservations
  BY Lecture DEF EcrireReservation, A, Processus
<1>2. session = "payee"
  BY <1>1, EnTraitementPaye DEF EnTraitement
<1>3. travail' = [travail EXCEPT ![w] = e] /\ reservation' = r
  BY <1>1 DEF EcrireReservation, IInv
<1>4. r \in Reservations
  BY <1>1 DEF Reservations, StatutsReservation
<1>5. vide \in Reservations
  BY DEF AuRepos, ReservationCreee, Reservations, StatutsReservation
<1>. HIDE DEF d, vide, r
<1>6. e \in Travaux /\ e.etape = "encaisser" /\ e.motif = d.motif
  BY <1>1, <1>5 DEF Travaux, Etapes
<1>. HIDE DEF e
<1>7. TravailBon(e)
  BY <1>1, <1>2, <1>6 DEF TravailBon, Refus
<1>8. /\ session' = session /\ genre' = genre /\ expiree' = expiree
      /\ evenements' = evenements /\ rejeux' = rejeux /\ pannes' = pannes
      /\ perdu' = perdu /\ laissee' = laissee
      /\ paiement' = paiement /\ commande' = commande /\ ligne' = ligne
      /\ billets' = billets /\ avoir' = avoir /\ vente' = vente /\ courriels' = courriels
  BY DEF EcrireReservation, stripe, bilan
<1>9. TablesTypees' /\ RienDePaye' /\ Annulations'
  BY <1>2, <1>3, <1>4, <1>8, EcritureApresPaiement DEF IInv, TablesTypees
<1>. QED BY <1>1, <1>3, <1>6, <1>7, <1>8, <1>9, UnPas

\* The sale is settled, for a paid session.
LEMMA EncaisserBon ==
  ASSUME IInv, NEW w \in Travailleurs, Encaisser(w) PROVE IInv'
<1>1. travail[w].etape = "encaisser" /\ w \in Processus /\ Passer(w, "ecrire")
  BY DEF Encaisser, A, Processus
<1>2. session = "payee"
  BY <1>1, EnTraitementPaye DEF EnTraitement
<1>3. \E e \in Travaux : travail' = [travail EXCEPT ![w] = e] /\ TravailBon(e)
  BY <1>1, <1>2, Suivant DEF Etapes, Refus
<1>4. /\ session' = session /\ genre' = genre /\ expiree' = expiree
      /\ evenements' = evenements /\ rejeux' = rejeux /\ pannes' = pannes
      /\ perdu' = perdu /\ laissee' = laissee
      /\ paiement' = paiement /\ commande' = commande /\ ligne' = ligne
      /\ reservation' = reservation /\ billets' = billets /\ avoir' = avoir
      /\ vente' \in {vente, "REGLEE"} /\ courriels' = courriels
  BY DEF Encaisser, stripe, bilan
<1>5. TablesTypees' /\ RienDePaye' /\ Annulations'
  BY <1>2, <1>4, EcritureApresPaiement DEF IInv, TablesTypees
<1>. QED BY <1>1, <1>3, <1>4, <1>5, UnPas

-----------------------------------------------------------------------------
(* The other transitions, and the end of a request.                             *)

\* The sale is cancelled only at an end of the session where nothing is paid.
LEMMA VenteAnnuleeBonne ==
  ASSUME IInv, AnnulerLaVente
  PROVE  /\ vente' \in {vente, "ANNULEE"}
         /\ vente' \in {"EN_ATTENTE", "REGLEE", "ANNULEE"} /\ laissee' \in BOOLEAN
BY DEF IInv, TablesTypees, AnnulerLaVente

\* The sale is cancelled: nothing was owed.
LEMMA AnnulerBon ==
  ASSUME IInv, NEW w \in Travailleurs, Annuler(w) PROVE IInv'
<1>1. travail[w].etape = "annuler" /\ w \in Processus /\ Passer(w, "ecrire")
  BY DEF Annuler, A, Processus
<1>2. session = "sansFrais"
  BY <1>1 DEF IInv, TravailBon
<1>3. \E e \in Travaux : travail' = [travail EXCEPT ![w] = e] /\ TravailBon(e)
  BY <1>1, Suivant DEF Etapes, Refus, EnTraitement
<1>4. vente' \in {vente, "ANNULEE"} /\ vente' \in {"EN_ATTENTE", "REGLEE", "ANNULEE"}
  BY VenteAnnuleeBonne DEF Annuler
<1>5. /\ session' = session /\ genre' = genre /\ expiree' = expiree
      /\ evenements' = evenements /\ rejeux' = rejeux /\ pannes' = pannes
      /\ perdu' = perdu /\ laissee' \in BOOLEAN
      /\ paiement' = paiement /\ commande' = commande /\ ligne' = ligne
      /\ reservation' = reservation /\ billets' = billets /\ avoir' = avoir
      /\ courriels' = courriels
  BY VenteAnnuleeBonne DEF Annuler, stripe
<1>6. TablesTypees' /\ RienDePaye' /\ Annulations'
  BY <1>2, <1>4, <1>5 DEF IInv, TablesTypees, RienDePaye, Annulations
<1>. QED BY <1>1, <1>3, <1>5, <1>6, UnPas

\* The payment's row, written last.
LEMMA EcrirePaiementBon ==
  ASSUME IInv, NEW w \in Travailleurs, EcrirePaiement(w) PROVE IInv'
<1> DEFINE d == travail[w]
           m == d.motif
<1>1. /\ w \in Processus /\ d.objet \in Paiements /\ TravailBon(d)
      /\ m \in Types \cup {Aucun}
  BY Lecture DEF Processus
<1>2. EcrireLePaiement(d.objet) /\ Rendre(w, m)
  BY DEF EcrirePaiement
<1>3. /\ session' = session /\ genre' = genre /\ expiree' = expiree
      /\ rejeux' = rejeux /\ pannes' = pannes /\ perdu' = perdu /\ laissee' = laissee
      /\ ligne' = ligne /\ reservation' = reservation /\ billets' = billets
      /\ avoir' = avoir /\ vente' = vente /\ courriels' = courriels
  BY DEF EcrirePaiement, bilan
<1>4. /\ session # "payee" => d.objet.statut \in Impayes
      /\ m = "async_failed" => session = "refusee"
  BY <1>1 DEF TravailBon
<1>. HIDE DEF m
<1>5. /\ \E e \in Travaux : travail' = [travail EXCEPT ![w] = e] /\ TravailBon(e)
      /\ evenements' \in [Types -> {"absent", "emis", "acquitte"}]
      /\ evenements'["async_failed"] # "absent" => session = "refusee"
  BY <1>1, <1>2, <1>3, <1>4, Rendu
<1>6. /\ paiement' \in Paiements /\ commande' \in {"aucune", "PENDING", "PAID"}
      /\ session # "payee" => paiement'.statut \in Impayes /\ commande' # "PAID"
  BY <1>1, <1>2, <1>4, PaiementEcrit
<1>7. TablesTypees' /\ RienDePaye' /\ Annulations'
  BY <1>3, <1>5, <1>6 DEF IInv, TablesTypees, RienDePaye, Annulations
<1>. QED BY <1>1, <1>3, <1>5, <1>7, UnPas

\* A refused debit: the session is at its end, not paid.
LEMMA RefuserLignesBon ==
  ASSUME IInv, NEW w \in Travailleurs, RefuserLignes(w) PROVE IInv'
<1> DEFINE d == travail[w]
           o == [d.objet EXCEPT !.statut = "FAILED"]
           e == [d EXCEPT !.objet = o, !.etape = "refus"]
<1>1. /\ d.etape = "refuser" /\ w \in Processus /\ d \in Travaux /\ TravailBon(d)
      /\ d.objet \in Paiements
  BY Lecture DEF RefuserLignes, A, Processus
<1>2. session = "refusee"
  BY <1>1 DEF TravailBon, Refus
<1>3. travail' = [travail EXCEPT ![w] = e]
  BY <1>1 DEF RefuserLignes, IInv
<1>4. o \in Paiements /\ o.statut = "FAILED"
  BY <1>1 DEF Paiements, StatutsPaiement
<1>. HIDE DEF d, o
<1>5. e \in Travaux /\ e.etape = "refus" /\ e.objet = o /\ e.motif = d.motif
  BY <1>1, <1>4 DEF Travaux, Etapes
<1>. HIDE DEF e
<1>6. TravailBon(e)
  BY <1>2, <1>4, <1>5 DEF TravailBon, Refus, EnTraitement, Impayes
<1>7. /\ session' = session /\ genre' = genre /\ expiree' = expiree
      /\ evenements' = evenements /\ rejeux' = rejeux /\ pannes' = pannes
      /\ perdu' = perdu /\ laissee' = laissee
      /\ paiement' = paiement /\ commande' = commande
      /\ ligne' = [l \in Lignes |-> "FAILED"]
      /\ reservation' = reservation /\ billets' = billets /\ avoir' = avoir
      /\ vente' = vente /\ courriels' = courriels
  BY DEF RefuserLignes, stripe, bilan
<1>8. TablesTypees'
  BY <1>7 DEF IInv, TablesTypees, StatutsLigne
<1>9. RienDePaye' /\ Annulations'
  BY <1>7 DEF IInv, RienDePaye, Annulations
<1>. QED BY <1>1, <1>3, <1>5, <1>6, <1>7, <1>8, <1>9, UnPas

\* The payment of a refused debit.
LEMMA RefuserPaiementBon ==
  ASSUME IInv, NEW w \in Travailleurs, RefuserPaiement(w) PROVE IInv'
<1> DEFINE d == travail[w]
<1>1. /\ d.etape = "refus" /\ w \in Processus /\ TravailBon(d) /\ d.objet \in Paiements
  BY Lecture DEF RefuserPaiement, A, Processus
<1>2. session = "refusee" /\ d.objet.statut \in Impayes
  BY <1>1 DEF TravailBon, Refus
<1>3. Passer(w, "refusVente") /\ EcrireLePaiement(d.objet)
  BY DEF RefuserPaiement
<1>4. \E e \in Travaux : travail' = [travail EXCEPT ![w] = e] /\ TravailBon(e)
  BY <1>1, <1>2, <1>3, Suivant DEF Etapes, EnTraitement
<1>5. /\ paiement' \in Paiements /\ commande' \in {"aucune", "PENDING", "PAID"}
      /\ session # "payee" => paiement'.statut \in Impayes /\ commande' # "PAID"
  BY <1>1, <1>2, <1>3, PaiementEcrit
<1>6. /\ session' = session /\ genre' = genre /\ expiree' = expiree
      /\ evenements' = evenements /\ rejeux' = rejeux /\ pannes' = pannes
      /\ perdu' = perdu /\ laissee' = laissee
      /\ ligne' = ligne /\ reservation' = reservation /\ billets' = billets
      /\ avoir' = avoir /\ vente' = vente /\ courriels' = courriels
  BY DEF RefuserPaiement, stripe, bilan
<1>7. TablesTypees' /\ RienDePaye' /\ Annulations'
  BY <1>5, <1>6 DEF IInv, TablesTypees, RienDePaye, Annulations
<1>. QED BY <1>1, <1>4, <1>6, <1>7, UnPas

\* The sale of a refused debit.
LEMMA RefuserVenteBon ==
  ASSUME IInv, NEW w \in Travailleurs, RefuserVente(w) PROVE IInv'
<1>1. travail[w].etape = "refusVente" /\ w \in Processus
      /\ travail' = [travail EXCEPT ![w] = AuRepos] /\ Repondre("async_failed")
  BY DEF RefuserVente, A, Processus
<1>2. session = "refusee"
  BY <1>1 DEF IInv, TravailBon, Refus
<1>3. vente' \in {vente, "ANNULEE"} /\ vente' \in {"EN_ATTENTE", "REGLEE", "ANNULEE"}
  BY VenteAnnuleeBonne DEF RefuserVente
<1>4. /\ session' = session /\ genre' = genre /\ expiree' = expiree
      /\ rejeux' = rejeux /\ pannes' = pannes /\ perdu' = perdu /\ laissee' \in BOOLEAN
      /\ paiement' = paiement /\ commande' = commande /\ ligne' = ligne
      /\ reservation' = reservation /\ billets' = billets /\ avoir' = avoir
      /\ courriels' = courriels
  BY VenteAnnuleeBonne DEF RefuserVente
<1> DEFINE m == "async_failed"
<1>5. m \in Types \cup {Aucun} /\ Repondre(m)
  BY <1>1 DEF Types
<1>. HIDE DEF m
<1>6. /\ evenements' \in [Types -> {"absent", "emis", "acquitte"}]
      /\ evenements'["async_failed"] # "absent" => session = "refusee"
  BY <1>2, <1>4, <1>5, ReponseBonne
<1>7. TablesTypees'
  BY <1>3, <1>4, <1>6 DEF IInv, TablesTypees
<1>8. RienDePaye'
  BY <1>2, <1>3, <1>4 DEF IInv, RienDePaye
<1>9. Annulations'
  BY <1>2, <1>4, <1>6 DEF Annulations
<1>. QED BY <1>1, <1>4, <1>7, <1>8, <1>9, Repos, UnPas

-----------------------------------------------------------------------------
(* The mailer, a death.                                                         *)

\* A mail task in the queue: the session is paid.
LEMMA ChargerCourrierBon ==
  ASSUME IInv, NEW f \in Facteurs, ChargerCourrier(f) PROVE IInv'
<1> DEFINE d == travail[f]
           e == [d EXCEPT !.copie = reservation, !.etape = "courrier"]
<1>1. /\ courriels > 0 /\ courriels' = courriels - 1 /\ UNCHANGED <<stripe, tables, bilan>>
      /\ f \in Processus /\ d \in Travaux /\ TravailBon(d)
  BY Lecture DEF ChargerCourrier, Processus
<1>2. session = "payee"
  BY <1>1 DEF IInv, RienDePaye
<1>3. travail' = [travail EXCEPT ![f] = e]
  BY <1>1 DEF ChargerCourrier, IInv
<1>. HIDE DEF d
<1>4. e \in Travaux /\ e.etape = "courrier" /\ e.motif = d.motif
  BY <1>1 DEF Travaux, Etapes, IInv, TablesTypees
<1>. HIDE DEF e
<1>5. TravailBon(e)
  BY <1>1, <1>2, <1>4 DEF TravailBon, Refus
<1>6. /\ session' = session /\ genre' = genre /\ expiree' = expiree
      /\ evenements' = evenements /\ rejeux' = rejeux /\ pannes' = pannes
      /\ perdu' = perdu /\ laissee' = laissee
      /\ paiement' = paiement /\ commande' = commande /\ ligne' = ligne
      /\ reservation' = reservation /\ billets' = billets /\ avoir' = avoir
      /\ vente' = vente
  BY <1>1 DEF stripe, tables, bilan
<1>7. courriels' \in 0 .. MaxCourriels
  BY <1>1, LignesHypothese DEF IInv, TablesTypees
<1>8. TablesTypees' /\ RienDePaye' /\ Annulations'
  BY <1>2, <1>6, <1>7, EcritureApresPaiement DEF IInv, TablesTypees
<1>. QED BY <1>1, <1>3, <1>4, <1>5, <1>6, <1>8, UnPas

\* The reservation is written back with its status, and the payment follows.
LEMMA CourrierRange ==
  ASSUME IInv, NEW r \in Reservations, RangerCourrier(r), session = "payee"
  PROVE  /\ reservation' \in Reservations
         /\ paiement' \in Paiements /\ commande' \in {"aucune", "PENDING", "PAID"}
<1>1. paiement \in Paiements /\ commande \in {"aucune", "PENDING", "PAID"}
      /\ reservation' = r
  BY DEF RangerCourrier, IInv, TablesTypees
<1>2. CASE reservation.statut = "PAID" /\ r.statut = "VALID"
  <2>1. ValiderLePaiementPaye
    BY <1>2 DEF RangerCourrier
  <2>. QED BY <1>1, <2>1, ValiderBon
<1>3. CASE reservation.statut = "PAID" /\ r.statut = "PAID_ERROR"
  <2> DEFINE t == paiement.traitement /\ genre # "directe"
  <2>1. paiement' = [paiement EXCEPT !.traitement = t] /\ commande' = commande
    BY <1>3 DEF RangerCourrier
  <2>2. t \in BOOLEAN
    OBVIOUS
  <2>. HIDE DEF t
  <2>. QED BY <1>1, <2>1, <2>2 DEF Paiements
<1>4. CASE ~(reservation.statut = "PAID" /\ r.statut \in {"VALID", "PAID_ERROR"})
  <2>1. UNCHANGED <<paiement, commande>>
    BY <1>4 DEF RangerCourrier
  <2>. QED BY <1>1, <2>1
<1>. QED BY <1>2, <1>3, <1>4

\* The mail leaves, or not, for a paid session.
LEMMA EnvoyerBon ==
  ASSUME IInv, NEW f \in Facteurs, Envoyer(f) PROVE IInv'
<1> DEFINE c == travail[f].copie
<1>1. /\ travail[f].etape = "courrier" /\ f \in Processus /\ c \in Reservations
      /\ travail' = [travail EXCEPT ![f] = AuRepos]
  BY Lecture DEF Envoyer, A, Processus
<1>2. session = "payee"
  BY <1>1 DEF IInv, TravailBon
<1>3. \E r \in Reservations : RangerCourrier(r)
  <2>1. /\ [c EXCEPT !.statut = "VALID", !.mail = TRUE] \in Reservations
        /\ [c EXCEPT !.statut = "PAID_ERROR", !.mail = FALSE] \in Reservations
        /\ [c EXCEPT !.statut = "PAID_NOMAIL"] \in Reservations
    BY <1>1 DEF Reservations, StatutsReservation
  <2>. QED BY <2>1 DEF Envoyer
<1>4. /\ reservation' \in Reservations
      /\ paiement' \in Paiements /\ commande' \in {"aucune", "PENDING", "PAID"}
  BY <1>2, <1>3, CourrierRange
<1>5. /\ session' = session /\ genre' = genre /\ expiree' = expiree
      /\ evenements' = evenements /\ rejeux' = rejeux /\ pannes' = pannes
      /\ perdu' = perdu /\ laissee' = laissee
      /\ ligne' = ligne /\ billets' = billets /\ avoir' = avoir /\ vente' = vente
      /\ courriels' = courriels
  BY DEF Envoyer, stripe, bilan
<1>6. TablesTypees' /\ RienDePaye' /\ Annulations'
  BY <1>2, <1>4, <1>5, EcritureApresPaiement DEF IInv, TablesTypees
<1>. QED BY <1>1, <1>5, <1>6, Repos, UnPas

\* A process that dies forgets what it holds.
LEMMA InterrompreBon ==
  ASSUME IInv, NEW p \in Processus, Interrompre(p) PROVE IInv'
<1>1. /\ pannes < MaxPannes /\ pannes' = pannes + 1
      /\ travail' = [travail EXCEPT ![p] = AuRepos]
      /\ UNCHANGED <<stripe, tables, courriels, rejeux, laissee>>
  BY DEF Interrompre
<1>2. perdu' \in BOOLEAN
  BY DEF Interrompre, IInv, TablesTypees
<1>3. pannes' \in 0 .. MaxPannes
  BY <1>1, LignesHypothese DEF IInv, TablesTypees
<1>4. /\ session' = session /\ genre' = genre /\ expiree' = expiree
      /\ evenements' = evenements /\ rejeux' = rejeux /\ courriels' = courriels
      /\ TablesInchangees
  BY <1>1 DEF stripe, tables, TablesInchangees
<1>5. TablesTypees' /\ RienDePaye' /\ Annulations'
  BY <1>1, <1>2, <1>3, <1>4, SansEcriture DEF IInv, TablesTypees, RienDePaye, Annulations
<1>. QED BY <1>1, <1>4, <1>5, Repos, UnPas

-----------------------------------------------------------------------------
(* The theorems.                                                                *)

\* After the checkout, nothing is paid.
LEMMA InitBon == Init => IInv
<1>. SUFFICES ASSUME Init PROVE IInv
  OBVIOUS
<1>1. PaiementCree \in Paiements /\ PaiementCree.statut = "PENDING"
  BY DEF PaiementCree, Paiements, StatutsPaiement
<1>2. ReservationCreee \in Reservations /\ ReservationCreee.statut = "UNPAID"
  BY DEF ReservationCreee, Reservations, StatutsReservation
<1>3. TablesTypees
  <2>1. commande \in {"aucune", "PENDING", "PAID"}
    BY DEF Init
  <2>2. /\ evenements \in [Types -> {"absent", "emis", "acquitte"}]
        /\ ligne \in [Lignes -> StatutsLigne]
    BY DEF Init, StatutsLigne
  <2>3. courriels \in 0 .. MaxCourriels /\ rejeux \in 0 .. MaxRejeux /\ pannes \in 0 .. MaxPannes
    BY LignesHypothese DEF Init
  <2>4. /\ genre \in Genres /\ session \in Sessions /\ expiree \in BOOLEAN
        /\ paiement \in Paiements /\ reservation \in Reservations
        /\ billets \in {"NOT_ACTIV", "NOT_SCANNED", "CANCELED"} /\ avoir \in BOOLEAN
        /\ vente \in {"EN_ATTENTE", "REGLEE", "ANNULEE"} /\ perdu \in BOOLEAN
        /\ laissee \in BOOLEAN
    BY <1>1, <1>2 DEF Init, Sessions
  <2>. QED BY <2>1, <2>2, <2>3, <2>4 DEF TablesTypees
<1>4. RienDePaye /\ Annulations
  BY <1>1, <1>2 DEF Init, RienDePaye, Annulations, Impayes, Types
<1>5. travail \in [Processus -> Travaux] /\ \A p \in Processus : TravailBon(travail[p])
  BY Repos DEF Init
<1>. QED BY <1>3, <1>4, <1>5 DEF IInv

\* Every step keeps the invariant.
LEMMA NextBon == IInv /\ [Next]_vars => IInv'
<1>. SUFFICES ASSUME IInv, [Next]_vars PROVE IInv'
  OBVIOUS
<1>1. CASE Payer BY <1>1, PayerBon
<1>10. CASE Attacher BY <1>10, AttacherBon
<1>2. CASE Confirmer BY <1>2, ConfirmerBon
<1>3. CASE Expirer BY <1>3, ExpirerBon
<1>4. ASSUME NEW w \in Travailleurs, NEW m \in Types \cup {Aucun}, Recevoir(w, m) PROVE IInv'
  BY <1>4, RecevoirBon
<1>5. ASSUME NEW w \in Travailleurs, Avancer(w) PROVE IInv'
  <2>1. CASE Interroger(w) BY <2>1, InterrogerBon
  <2>2. CASE Declarer(w) BY <2>2, DeclarerBon
  <2>3. ASSUME NEW l \in Lignes, Declencher(w, l) PROVE IInv'
    BY <2>3, DeclencherBon
  <2>4. CASE EcrireLigne(w) BY <2>4, EcrireLigneBon
  <2>5. CASE ActiverBillets(w) BY <2>5, ActiverBilletsBon
  <2>6. CASE EcrireReservation(w) BY <2>6, EcrireReservationBon
  <2>7. CASE Encaisser(w) BY <2>7, EncaisserBon
  <2>8. CASE Annuler(w) BY <2>8, AnnulerBon
  <2>9. CASE EcrirePaiement(w) BY <2>9, EcrirePaiementBon
  <2>10. CASE RefuserLignes(w) BY <2>10, RefuserLignesBon
  <2>11. CASE RefuserPaiement(w) BY <2>11, RefuserPaiementBon
  <2>12. CASE RefuserVente(w) BY <2>12, RefuserVenteBon
  <2>. QED BY <1>5, <2>1, <2>2, <2>3, <2>4, <2>5, <2>6, <2>7, <2>8, <2>9, <2>10, <2>11,
              <2>12 DEF Avancer
<1>6. ASSUME NEW f \in Facteurs, Poster(f) PROVE IInv'
  BY <1>6, ChargerCourrierBon, EnvoyerBon DEF Poster
<1>7. CASE AnnulerReservation BY <1>7, AnnulerReservationBon
<1>8. ASSUME NEW p \in Processus, Interrompre(p) PROVE IInv'
  BY <1>8, InterrompreBon
<1>9. CASE UNCHANGED vars
  <2>1. UNCHANGED <<stripe, tables, courriels, bilan>> /\ travail' = travail
    BY <1>9 DEF vars, stripe, tables, bilan
  <2>2. session' = session /\ TablesTypees' /\ RienDePaye' /\ Annulations'
    BY <2>1, Inchanges
  <2>. QED BY <2>1, <2>2, HorsProcessus
<1>. QED BY <1>1, <1>2, <1>3, <1>4, <1>5, <1>6, <1>7, <1>8, <1>9, <1>10 DEF Next

\* The invariant holds in every reachable state.
LEMMA Invariante == Spec => []IInv
<1>. QED BY InitBon, NextBon, PTL DEF Spec

\* Every row, every event and every object a process holds keeps its shape.
THEOREM TypeCorrect == Spec => []TypeOK
<1>1. IInv => TypeOK
  BY DEF IInv, TablesTypees, TypeOK
<1>. QED BY <1>1, Invariante, PTL

\* Nothing is delivered, confirmed or settled before Stripe holds the money, whoever
\* processes the payment and in whatever order (update_checkout_status, signals.py).
THEOREM JamaisSansArgent == Spec => []RienSansArgent
<1>1. IInv => RienSansArgent
  <2>. SUFFICES ASSUME IInv, session # "payee"
                PROVE  /\ paiement.statut \notin {"PAID", "VALID", "REFUNDED"}
                       /\ commande # "PAID" /\ Payantes = {} /\ vente # "REGLEE"
                       /\ billets # "NOT_SCANNED"
                       /\ reservation.statut \in {"UNPAID", "CANCELED"} /\ ~(courriels > 0)
    BY DEF RienSansArgent
  <2>1. Payantes = {}
    BY DEF IInv, RienDePaye, Payantes
  <2>. QED BY <2>1 DEF IInv, RienDePaye, Impayes
<1>. QED BY <1>1, Invariante, PTL

\* The sale of a payment that Stripe ends up collecting is never cancelled (set_paiement_
\* canceled, async_payment_failed).
THEOREM TardifEncaissable == Spec => []PaiementTardifEncaissable
<1>1. IInv => PaiementTardifEncaissable
  BY DEF IInv, Annulations, PaiementTardifEncaissable
<1>. QED BY <1>1, Invariante, PTL

=============================================================================
