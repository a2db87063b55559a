---------------------------- MODULE CreneauxProofs ----------------------------
(* Theorems of Creneaux, for any number of bookings, slots, sessions and        *)
(* processes and any capacity: the types, the capacity, the single acceptance,  *)
(* the refused request whose sale is never settled.                             *)
(*                                                                              *)
(* The argument for the capacity: among the bookings a request has read, those  *)
(* that hold a slot it wants can only become fewer, because one that lets go is *)
(* in lachees for ever; and SSI refuses the request when a booking it has not   *)
(* read overlaps it.                                                            *)
EXTENDS Creneaux, FiniteSetTheorems, TLAPS

-----------------------------------------------------------------------------
(* The invariant.                                                               *)

Lignes ==
  [statut : Statuts, plage : Plages \cup {{}}, payant : BOOLEAN, retenue : BOOLEAN,
   ligne : {"CREATED", "UNPAID", "PAID", "VALID", "CANCELED"},
   session : Sessions \cup {Aucun}, vente : {"EN_ATTENTE", "REGLEE", "ANNULEE"},
   acceptations : Nat]
Etats ==
  [etape : Etapes, b : Demandes \cup {Aucun}, copie : Statuts, s : Sessions \cup {Aucun},
   plage : Plages \cup {{}}, payant : BOOLEAN, manuelle : BOOLEAN,
   vues : SUBSET Demandes, fermees : SUBSET Sessions]
EtatsDeSession ==
  [de : Demandes \cup {Aucun}, stripe : {"aucune", "open", "complete", "expired"},
   base : {"aucune", "PENDING", "EXPIRE", "VALID"}]

Types ==
  /\ booking \in [Demandes -> Lignes]
  /\ verrou \in [Demandes -> Processus \cup {Aucun}]
  /\ session \in [Sessions -> EtatsDeSession]
  /\ processus \in [Processus -> Etats]
  /\ lachees \in SUBSET Demandes
  /\ pannes \in 0..MaxPannes

\* A request never accepted, or refused.
LigneBonne(l) ==
  /\ l.acceptations <= 1
  /\ l.statut \in {"absente", "ADMIN_WAITING"} => l.acceptations = 0
  /\ l.statut = "ADMIN_CANCELED" => l.vente = "ANNULEE"

\* Statuses that only the decision of the administrator gives.
DuGestionnaire == {"absente", "ADMIN_WAITING", "ADMIN_VALID", "ADMIN_CANCELED"}
DeLaDecision == {"accepter", "fermer", "annuler"}
Gratuites == {"confirmer", "encaisser"}

\* What a process knows of the row of the booking it works on...
Compatible(e, l) ==
  /\ e.etape = "creer" => l.statut = "absente"
  /\ e.etape \notin {"libre", "creer"} => l.statut # "absente"
  /\ e.etape = "accepter" => l.acceptations = 0
  /\ e.etape \in Gratuites => l.statut \notin DuGestionnaire

\* ... and what its own copy says.
CopieBonne(e) ==
  /\ e.etape = "libre" <=> e.b = Aucun
  /\ e.etape \in {"ouvrir", "enregistrer"} => e.copie \in {"WAITING_PAYMENT", "ADMIN_VALID"}
  /\ e.etape \in {"fermer", "annuler"} => e.copie \in Annulees

EtatBon(e) == CopieBonne(e) /\ Compatible(e, booking[e.b])

\* Two processes on the same booking: nobody else knows one that is being created,
\* and no decision runs on one that is confirmed because it is free.
Couple(e, f) ==
  e.b = f.b /\ e.etape # "libre" =>
    /\ e.etape # "creer"
    /\ e.etape \in Gratuites => /\ f.etape \notin DeLaDecision
                                /\ f.copie = "ADMIN_VALID"
                                   => f.etape \notin {"ouvrir", "enregistrer"}

VerrousBons ==
  /\ \A b \in Demandes : verrou[b] # Aucun =>
       processus[verrou[b]].b = b /\ processus[verrou[b]].etape \in DeLaDecision
  /\ \A p \in Processus : processus[p].etape = "accepter" => verrou[processus[p].b] = p

\* A session that is or was open is that of a booking.
SessionBonne(x) ==
  x.stripe # "aucune" => x.de \in Demandes /\ booking[x.de].statut # "absente"
SessionsBonnes == \A s \in Sessions : SessionBonne(session[s])

\* The bookings that hold a slot and never let it go.
Tenues(c) == {b \in Demandes \ lachees : Occupe(b) /\ c \in booking[b].plage}

\* Among the bookings a request has read, there is still room for it.
Reservee(e) ==
  /\ e.vues \subseteq Existantes
  /\ \A c \in e.plage : Cardinality(Tenues(c) \cap e.vues) < Capacite

PlacesBonnes ==
  /\ SansPlace \subseteq lachees
  /\ \A c \in UNION Plages : Cardinality(Tenues(c)) <= Capacite
  /\ \A p \in Processus : processus[p].etape = "creer" => Reservee(processus[p])

IInv ==
  /\ Types
  /\ \A b \in Demandes : LigneBonne(booking[b])
  /\ \A p \in Processus : EtatBon(processus[p])
  /\ \A p, q \in Processus : p # q => Couple(processus[p], processus[q])
  /\ VerrousBons /\ SessionsBonnes /\ PlacesBonnes

-----------------------------------------------------------------------------
(* The slots.                                                                   *)

\* What a step does to the bookings that exist: they stay, on the same slots.
Evolution ==
  \A b \in Demandes : booking[b].statut # "absente" =>
    booking'[b].statut # "absente" /\ booking'[b].plage = booking[b].plage

\* A booking that holds a slot after a step held it before.
LEMMA TenuesGardees ==
  ASSUME IInv, Evolution, lachees' = lachees \cup SansPlace',
         NEW c, NEW b \in Tenues(c)', booking[b].statut # "absente"
  PROVE  b \in Tenues(c)
<1>1. b \in Demandes /\ b \notin lachees
  BY DEF Tenues
<1>2. c \in booking[b].plage
  BY <1>1 DEF Evolution, Tenues
<1>3. Occupe(b)
  BY <1>1 DEF IInv, PlacesBonnes, SansPlace, Existantes
<1>. QED BY <1>1, <1>2, <1>3 DEF Tenues

\* A set of bookings is finite, and a smaller one has no more elements.
LEMMA Sousensemble ==
  ASSUME NEW S \in SUBSET Demandes, NEW T \in SUBSET S
  PROVE  /\ Cardinality(S) \in Nat /\ Cardinality(T) \in Nat
         /\ Cardinality(T) <= Cardinality(S)
BY DemandesHypothese, FS_Subset, FS_CardinalityType

\* One more booking.
LEMMA UnDePlus ==
  ASSUME NEW S \in SUBSET Demandes, NEW x \in Demandes
  PROVE  Cardinality(S) \in Nat /\ Cardinality(S \cup {x}) <= Cardinality(S) + 1
<1>1. IsFiniteSet(S) /\ Cardinality(S) \in Nat
  BY DemandesHypothese, FS_Subset, FS_CardinalityType
<1>2. Cardinality(S \cup {x}) = IF x \in S THEN Cardinality(S) ELSE Cardinality(S) + 1
  BY <1>1, FS_AddElement
<1>. QED BY <1>1, <1>2

\* As long as no booking is created, the slots stay as they must.
LEMMA PlacesGardees ==
  ASSUME IInv, Evolution, lachees' = lachees \cup SansPlace',
         \A b \in Demandes : booking[b].statut = "absente" => booking'[b].statut = "absente",
         \A p \in Processus : processus'[p].etape = "creer" => Reservee(processus'[p])
  PROVE  PlacesBonnes'
<1>1. SansPlace' \subseteq lachees'
  OBVIOUS
<1>2. ASSUME NEW c PROVE Tenues(c)' \subseteq Tenues(c) /\ Tenues(c) \in SUBSET Demandes
  <2>1. ASSUME NEW b \in Tenues(c)' PROVE booking[b].statut # "absente"
    <3>1. b \in Demandes /\ booking'[b].statut # "absente"
      BY DEF Tenues, Occupe
    <3>. QED BY <3>1
  <2>. QED BY <2>1, TenuesGardees DEF Tenues
<1>3. ASSUME NEW c \in UNION Plages PROVE Cardinality(Tenues(c)') <= Capacite
  <2>1. Cardinality(Tenues(c)) <= Capacite
    BY DEF IInv, PlacesBonnes
  <2>. QED BY <1>2, <2>1, Sousensemble, CapaciteHypothese
<1>4. Existantes \subseteq Existantes'
  BY DEF Existantes, Evolution
<1>5. ASSUME NEW p \in Processus, processus'[p].etape = "creer",
             NEW c \in processus'[p].plage
      PROVE  Cardinality(Tenues(c)' \cap processus'[p].vues) < Capacite
  <2> DEFINE S == Tenues(c) \cap processus'[p].vues
             T == Tenues(c)' \cap processus'[p].vues
  <2>1. Cardinality(S) < Capacite
    BY <1>5 DEF Reservee
  <2>2. S \in SUBSET Demandes /\ T \in SUBSET S
    BY <1>2
  <2>. HIDE DEF S, T
  <2>3. Cardinality(S) \in Nat /\ Cardinality(T) \in Nat /\ Cardinality(T) <= Cardinality(S)
    BY <2>2, Sousensemble
  <2>4. Cardinality(T) < Capacite
    BY <2>1, <2>3, CapaciteHypothese
  <2>. QED BY <2>4 DEF T
<1>6. \A p \in Processus : (processus[p].etape = "creer" => Reservee(processus[p]))'
  BY <1>4, <1>5 DEF Reservee
<1>. QED BY <1>1, <1>3, <1>6 DEF PlacesBonnes

-----------------------------------------------------------------------------
(* The steps of a process.                                                      *)

\* What the other processes know allows a row, and a state of the process.
Compatibles(p, b, l) ==
  \A q \in Processus \ {p} : processus[q].b = b => Compatible(processus[q], l)
Couples(p, e) ==
  \A q \in Processus \ {p} : Couple(e, processus[q]) /\ Couple(processus[q], e)

\* A step of a process that writes one booking, the locks and the slots apart.
LEMMA LignesEtEtats ==
  ASSUME IInv, NEW p \in Processus, NEW e \in Etats, processus' = [processus EXCEPT ![p] = e],
         NEW b \in Demandes, NEW l \in Lignes, booking' = [booking EXCEPT ![b] = l],
         LigneBonne(l), CopieBonne(e), Compatible(e, l), e.etape # "libre" => e.b = b,
         Couples(p, e), Compatibles(p, b, l)
  PROVE  /\ booking' \in [Demandes -> Lignes] /\ processus' \in [Processus -> Etats]
         /\ \A x \in Demandes : LigneBonne(booking'[x])
         /\ \A q \in Processus : EtatBon(processus[q])'
         /\ \A q, r \in Processus : q # r => Couple(processus'[q], processus'[r])
<1>1. /\ booking' \in [Demandes -> Lignes] /\ booking'[b] = l
      /\ \A x \in Demandes \ {b} : booking'[x] = booking[x]
  BY DEF IInv, Types
<1>2. /\ processus' \in [Processus -> Etats] /\ processus'[p] = e
      /\ \A q \in Processus \ {p} : processus'[q] = processus[q]
  BY DEF IInv, Types
<1>3. \A x \in Demandes : LigneBonne(booking'[x])
  <2>1. \A x \in Demandes : LigneBonne(booking[x])
    BY DEF IInv
  <2>. QED BY <1>1, <2>1, Zenon
<1>4. ASSUME NEW q \in Processus \ {p} PROVE EtatBon(processus[q])'
  <2> DEFINE f == processus[q]
  <2>1. EtatBon(f) /\ processus'[q] = f /\ f \in Etats
    BY <1>2 DEF IInv, Types
  <2>2. f.etape # "libre" => f.b \in Demandes
    BY <2>1 DEF Etats, EtatBon, CopieBonne
  <2>3. CASE f.b = b
    <3>1. Compatible(f, l) /\ booking'[f.b] = l
      BY <1>1, <2>3 DEF Compatibles
    <3>. QED BY <2>1, <3>1 DEF EtatBon
  <2>4. CASE f.b # b
    <3>1. f.etape # "libre" => booking'[f.b] = booking[f.b]
      BY <1>1, <2>2, <2>4
    <3>. HIDE DEF f
    <3>. QED BY <2>1, <3>1 DEF EtatBon, Compatible, Gratuites, f
  <2>. QED BY <2>3, <2>4
<1>5. EtatBon(processus[p])'
  BY <1>1, <1>2 DEF EtatBon, Compatible, Gratuites
<1>6. ASSUME NEW q \in Processus, NEW r \in Processus, q # r
      PROVE  Couple(processus'[q], processus'[r])
  <2>1. Couple(processus[q], processus[r])
    BY <1>6 DEF IInv
  <2>. QED BY <1>2, <1>6, <2>1 DEF Couples
<1>. QED BY <1>1, <1>2, <1>3, <1>4, <1>5, <1>6

\* A step of a process that writes one booking, without creating it.
LEMMA Ecriture ==
  ASSUME IInv, NEW p \in Processus, NEW e \in Etats, processus' = [processus EXCEPT ![p] = e],
         NEW b \in Demandes, NEW l \in Lignes, booking' = [booking EXCEPT ![b] = l],
         booking[b].statut # "absente", l.statut # "absente", l.plage = booking[b].plage,
         LigneBonne(l), CopieBonne(e), Compatible(e, l), e.etape # "libre" => e.b = b,
         e.etape # "creer",
         Couples(p, e), Compatibles(p, b, l),
         verrou' \in [Demandes -> Processus \cup {Aucun}], VerrousBons',
         session' \in [Sessions -> EtatsDeSession], \A s \in Sessions : SessionBonne(session'[s]),
         lachees' = lachees \cup SansPlace', pannes' = pannes
  PROVE  IInv'
<1>1. /\ booking' \in [Demandes -> Lignes] /\ processus' \in [Processus -> Etats]
      /\ \A x \in Demandes : LigneBonne(booking'[x])
      /\ \A q \in Processus : EtatBon(processus[q])'
      /\ \A q, r \in Processus : q # r => Couple(processus'[q], processus'[r])
  BY LignesEtEtats
<1>2. /\ booking'[b] = l /\ \A x \in Demandes \ {b} : booking'[x] = booking[x]
      /\ processus'[p] = e /\ \A q \in Processus \ {p} : processus'[q] = processus[q]
  BY DEF IInv, Types
<1>3. Evolution
  BY <1>2 DEF Evolution
<1>4. \A q \in Processus : processus'[q].etape = "creer" => Reservee(processus'[q])
  BY <1>2 DEF IInv, PlacesBonnes
<1>5. PlacesBonnes'
  <2>1. \A x \in Demandes : booking[x].statut = "absente" => booking'[x].statut = "absente"
    BY <1>2
  <2>. QED BY <1>3, <1>4, <2>1, PlacesGardees
<1>6. SessionsBonnes'
  BY <1>3 DEF SessionsBonnes, SessionBonne, Evolution
<1>7. Types'
  BY <1>1 DEF IInv, Types, SansPlace, Existantes
<1>. QED BY <1>1, <1>5, <1>6, <1>7 DEF IInv

\* A step of a process that writes no booking.
LEMMA SansEcriture ==
  ASSUME IInv, NEW p \in Processus, NEW e \in Etats, processus' = [processus EXCEPT ![p] = e],
         booking' = booking, EtatBon(e), e.etape = "creer" => Reservee(e),
         Couples(p, e),
         verrou' \in [Demandes -> Processus \cup {Aucun}], VerrousBons',
         session' \in [Sessions -> EtatsDeSession], \A s \in Sessions : SessionBonne(session'[s]),
         lachees' = lachees \cup SansPlace', pannes' \in 0..MaxPannes
  PROVE  IInv'
<1>1. /\ processus' \in [Processus -> Etats]
      /\ processus'[p] = e /\ \A q \in Processus \ {p} : processus'[q] = processus[q]
  BY DEF IInv, Types
<1>2. \A q \in Processus : EtatBon(processus[q])'
  <2>1. \A q \in Processus : EtatBon(processus'[q])
    BY <1>1 DEF IInv
  <2>. QED BY <2>1 DEF EtatBon
<1>3. ASSUME NEW q \in Processus, NEW r \in Processus, q # r
      PROVE  Couple(processus'[q], processus'[r])
  <2>1. Couple(processus[q], processus[r])
    BY <1>3 DEF IInv
  <2>. QED BY <1>1, <1>3, <2>1 DEF Couples
<1>4. Evolution
  BY DEF Evolution
<1>5. PlacesBonnes'
  <2>1. \A q \in Processus : processus'[q].etape = "creer" => Reservee(processus'[q])
    BY <1>1 DEF IInv, PlacesBonnes
  <2>. QED BY <1>4, <2>1, PlacesGardees
<1>6. SessionsBonnes'
  BY DEF SessionsBonnes, SessionBonne
<1>7. Types'
  BY <1>1 DEF IInv, Types, SansPlace, Existantes
<1>8. \A x \in Demandes : LigneBonne(booking[x])'
  BY DEF IInv, LigneBonne
<1>. QED BY <1>2, <1>3, <1>5, <1>6, <1>7, <1>8 DEF IInv

-----------------------------------------------------------------------------
(* The locks.                                                                   *)

\* A process out of a decision holds no row, before and after its step.
LEMMA VerrousInchanges ==
  ASSUME IInv, NEW p \in Processus, NEW e \in Etats, processus' = [processus EXCEPT ![p] = e],
         verrou' = verrou, e.etape # "accepter",
         \/ processus[p].etape \notin DeLaDecision
         \/ /\ processus[p].etape # "accepter" /\ e.etape \in DeLaDecision
            /\ e.b = processus[p].b
  PROVE  VerrousBons' /\ verrou' \in [Demandes -> Processus \cup {Aucun}]
<1>1. /\ processus'[p] = e /\ \A q \in Processus \ {p} : processus'[q] = processus[q]
      /\ verrou \in [Demandes -> Processus \cup {Aucun}] /\ VerrousBons
  BY DEF IInv, Types
<1>2. ASSUME NEW b \in Demandes, verrou[b] # Aucun
      PROVE  processus'[verrou[b]].b = b /\ processus'[verrou[b]].etape \in DeLaDecision
  <2>1. verrou[b] \in Processus /\ processus[verrou[b]].b = b
        /\ processus[verrou[b]].etape \in DeLaDecision
    BY <1>1, <1>2 DEF VerrousBons
  <2>. QED BY <1>1, <2>1
<1>3. ASSUME NEW q \in Processus, processus'[q].etape = "accepter"
      PROVE  verrou[processus'[q].b] = q
  BY <1>1, <1>3 DEF VerrousBons
<1>. QED BY <1>1, <1>2, <1>3 DEF VerrousBons

\* A process that ends releases what it holds.
LEMMA VerrousRelaches ==
  ASSUME IInv, NEW p \in Processus, processus' = [processus EXCEPT ![p] = Libre], Relacher(p)
  PROVE  VerrousBons' /\ verrou' \in [Demandes -> Processus \cup {Aucun}]
<1>1. /\ processus'[p] = Libre /\ \A q \in Processus \ {p} : processus'[q] = processus[q]
      /\ verrou \in [Demandes -> Processus \cup {Aucun}] /\ VerrousBons
      /\ processus \in [Processus -> Etats]
  BY DEF IInv, Types
<1>2. verrou' \in [Demandes -> Processus \cup {Aucun}]
      /\ \A b \in Demandes : verrou'[b] = IF verrou[b] = p THEN Aucun ELSE verrou[b]
  BY <1>1 DEF Relacher
<1>3. ASSUME NEW b \in Demandes, verrou'[b] # Aucun
      PROVE  processus'[verrou'[b]].b = b /\ processus'[verrou'[b]].etape \in DeLaDecision
  <2>1. verrou[b] \in Processus \ {p} /\ verrou'[b] = verrou[b]
    BY <1>1, <1>2, <1>3
  <2>. QED BY <1>1, <2>1, AucunHypothese DEF VerrousBons
<1>4. ASSUME NEW q \in Processus, processus'[q].etape = "accepter"
      PROVE  verrou'[processus'[q].b] = q
  <2>1. q # p
    BY <1>1, <1>4 DEF Libre
  <2>2. processus[q] \in Etats /\ EtatBon(processus[q]) /\ processus[q].etape = "accepter"
    BY <1>1, <1>4, <2>1 DEF IInv
  <2>3. processus[q].b \in Demandes
    BY <2>2 DEF Etats, EtatBon, CopieBonne
  <2>. QED BY <1>1, <1>2, <2>1, <2>2, <2>3 DEF VerrousBons
<1>. QED BY <1>2, <1>3, <1>4 DEF VerrousBons

\* A decision takes a row nobody holds.
LEMMA VerrouPris ==
  ASSUME IInv, NEW p \in Processus, NEW e \in Etats, processus' = [processus EXCEPT ![p] = e],
         NEW b \in Demandes, verrou[b] = Aucun, verrou' = [verrou EXCEPT ![b] = p],
         processus[p].etape = "libre", e.etape \in DeLaDecision, e.b = b
  PROVE  VerrousBons' /\ verrou' \in [Demandes -> Processus \cup {Aucun}]
<1>1. /\ processus'[p] = e /\ \A q \in Processus \ {p} : processus'[q] = processus[q]
      /\ verrou \in [Demandes -> Processus \cup {Aucun}] /\ VerrousBons
  BY DEF IInv, Types
<1>2. /\ verrou' \in [Demandes -> Processus \cup {Aucun}] /\ verrou'[b] = p
      /\ \A x \in Demandes \ {b} : verrou'[x] = verrou[x]
  BY <1>1
<1>3. ASSUME NEW x \in Demandes, verrou'[x] # Aucun
      PROVE  processus'[verrou'[x]].b = x /\ processus'[verrou'[x]].etape \in DeLaDecision
  <2>1. CASE x = b
    BY <1>1, <1>2, <2>1
  <2>2. CASE x # b
    <3>1. /\ verrou'[x] = verrou[x] /\ verrou[x] \in Processus
          /\ processus[verrou[x]].b = x /\ processus[verrou[x]].etape \in DeLaDecision
      BY <1>1, <1>2, <1>3, <2>2 DEF VerrousBons
    <3>2. verrou[x] # p
      BY <3>1 DEF DeLaDecision
    <3>. QED BY <1>1, <3>1, <3>2
  <2>. QED BY <2>1, <2>2
<1>4. ASSUME NEW q \in Processus, processus'[q].etape = "accepter"
      PROVE  verrou'[processus'[q].b] = q
  <2>1. CASE q = p
    BY <1>1, <1>2, <2>1
  <2>2. CASE q # p
    <3>1. processus[q] \in Etats /\ EtatBon(processus[q]) /\ processus[q].etape = "accepter"
          /\ processus'[q] = processus[q]
      BY <1>1, <1>4, <2>2 DEF IInv, Types
    <3>2. processus[q].b \in Demandes /\ verrou[processus[q].b] = q
      BY <1>1, <3>1 DEF Etats, EtatBon, CopieBonne, VerrousBons
    <3>3. processus[q].b # b
      BY <3>2, AucunHypothese
    <3>. QED BY <1>2, <3>1, <3>2, <3>3
  <2>. QED BY <2>1, <2>2
<1>. QED BY <1>2, <1>3, <1>4 DEF VerrousBons

-----------------------------------------------------------------------------
(* One lemma for each action.                                                   *)

\* A process at rest knows nothing and is alone.
LEMMA LibreBon ==
  /\ Libre \in Etats /\ Libre.etape = "libre" /\ Libre.b = Aucun /\ CopieBonne(Libre)
  /\ \A l : Compatible(Libre, l)
  /\ \A f : CopieBonne(f) => Couple(Libre, f) /\ Couple(f, Libre)
<1>1. Libre \in Etats /\ Libre.etape = "libre" /\ Libre.b = Aucun
  BY DEF Libre, Etats, Etapes, Statuts
<1>. HIDE DEF Libre
<1>. QED BY <1>1 DEF CopieBonne, Compatible, Couple, Gratuites

\* A process that works knows a booking, which exists unless it is creating it.
LEMMA AuTravail ==
  ASSUME IInv, NEW p \in Processus, processus[p].etape # "libre"
  PROVE  /\ processus[p] \in Etats /\ processus[p].b \in Demandes
         /\ CopieBonne(processus[p]) /\ Compatible(processus[p], booking[processus[p].b])
         /\ booking[processus[p].b] \in Lignes /\ LigneBonne(booking[processus[p].b])
         /\ Couples(p, processus[p])
         /\ Compatibles(p, processus[p].b, booking[processus[p].b])
BY DEF IInv, Types, EtatBon, CopieBonne, Etats, Couples, Compatibles

\* A process that ends after writing its booking.
LEMMA Fin ==
  ASSUME IInv, NEW p \in Processus, processus' = [processus EXCEPT ![p] = Libre],
         NEW b \in Demandes, NEW l \in Lignes, booking' = [booking EXCEPT ![b] = l],
         booking[b].statut # "absente", l.statut # "absente", l.plage = booking[b].plage,
         LigneBonne(l),
         Compatibles(p, b, l),
         \/ verrou' = verrou /\ processus[p].etape \notin DeLaDecision
         \/ Relacher(p),
         session' \in [Sessions -> EtatsDeSession], \A s \in Sessions : SessionBonne(session'[s]),
         lachees' = lachees \cup SansPlace', pannes' = pannes
  PROVE  IInv'
<1> DEFINE e == Libre
<1>1. /\ e \in Etats /\ e.etape = "libre" /\ CopieBonne(e) /\ Compatible(e, l)
      /\ e.etape # "libre" => e.b = b
      /\ processus' = [processus EXCEPT ![p] = e]
  BY LibreBon
<1>2. Couples(p, e)
  BY LibreBon DEF IInv, EtatBon, Couples
<1>3. VerrousBons' /\ verrou' \in [Demandes -> Processus \cup {Aucun}]
  <2>1. CASE Relacher(p)
    BY <2>1, VerrousRelaches
  <2>2. CASE verrou' = verrou /\ processus[p].etape \notin DeLaDecision
    <3>. HIDE DEF e
    <3>. QED BY <1>1, <2>2, VerrousInchanges
  <2>. QED BY <2>1, <2>2
<1>. HIDE DEF e
<1>. QED BY <1>1, <1>2, <1>3, Ecriture

\* A process that ends without writing.
LEMMA FinSansEcrire ==
  ASSUME IInv, NEW p \in Processus, processus' = [processus EXCEPT ![p] = Libre],
         booking' = booking,
         \/ verrou' = verrou /\ processus[p].etape \notin DeLaDecision
         \/ Relacher(p),
         session' = session, lachees' = lachees \cup SansPlace', pannes' \in 0..MaxPannes
  PROVE  IInv'
<1> DEFINE e == Libre
<1>1. /\ e \in Etats /\ e.etape = "libre" /\ EtatBon(e)
      /\ processus' = [processus EXCEPT ![p] = e]
  BY LibreBon DEF EtatBon
<1>2. Couples(p, e)
  BY LibreBon DEF IInv, EtatBon, Couples
<1>3. VerrousBons' /\ verrou' \in [Demandes -> Processus \cup {Aucun}]
  <2>1. CASE Relacher(p)
    BY <2>1, VerrousRelaches
  <2>2. CASE verrou' = verrou /\ processus[p].etape \notin DeLaDecision
    <3>. HIDE DEF e
    <3>. QED BY <1>1, <2>2, VerrousInchanges
  <2>. QED BY <2>1, <2>2
<1>4. session' \in [Sessions -> EtatsDeSession] /\ \A s \in Sessions : SessionBonne(session'[s])
  BY DEF IInv, Types, SessionsBonnes
<1>. HIDE DEF e
<1>. QED BY <1>1, <1>2, <1>3, <1>4, SansEcriture

\* The sessions are as before.
LEMMA SessionsInchangees ==
  ASSUME IInv, session' = session
  PROVE  session' \in [Sessions -> EtatsDeSession] /\ \A s \in Sessions : SessionBonne(session'[s])
BY DEF IInv, Types, SessionsBonnes

\* A request refused by SSI writes nothing.
LEMMA CreneauPrisBon ==
  ASSUME IInv, NEW p \in Processus, CreneauPris(p), lachees' = lachees \cup SansPlace'
  PROVE  IInv'
<1>1. pannes' \in 0..MaxPannes /\ processus[p].etape \notin DeLaDecision
  BY DEF CreneauPris, Au, IInv, Types, DeLaDecision
<1>2. UNCHANGED <<booking, verrou, session>> /\ processus' = [processus EXCEPT ![p] = Libre]
  BY DEF CreneauPris, Finir
<1>. QED BY <1>1, <1>2, FinSansEcrire

\* A process that dies releases its rows and writes nothing.
LEMMA InterrompreBon ==
  ASSUME IInv, NEW p \in Processus, Interrompre(p), lachees' = lachees \cup SansPlace'
  PROVE  IInv'
<1>1. pannes' \in 0..MaxPannes
  BY CapaciteHypothese DEF Interrompre, IInv, Types
<1>2. /\ UNCHANGED <<booking, session>> /\ Relacher(p)
      /\ processus' = [processus EXCEPT ![p] = Libre]
  BY DEF Interrompre, Finir
<1>. QED BY <1>1, <1>2, FinSansEcrire

\* The sale of a free booking: no refusal ran since it was confirmed.
LEMMA EncaisserGratuitBon ==
  ASSUME IInv, NEW p \in Processus, EncaisserGratuit(p), lachees' = lachees \cup SansPlace'
  PROVE  IInv'
<1> DEFINE d == processus[p]
           b == d.b
           l == [booking[b] EXCEPT !.vente = "REGLEE"]
<1>1. d.etape = "encaisser"
  BY DEF EncaisserGratuit, Au
<1>2. /\ b \in Demandes /\ booking[b] \in Lignes /\ LigneBonne(booking[b])
      /\ Compatible(d, booking[b])
      /\ Compatibles(p, b, booking[b])
  BY <1>1, AuTravail
<1>3. /\ l \in Lignes /\ l.statut = booking[b].statut /\ l.plage = booking[b].plage
      /\ l.acceptations = booking[b].acceptations
  BY <1>2 DEF Lignes
<1>4. /\ booking' = [booking EXCEPT ![b] = l] /\ verrou' = verrou /\ session' = session /\ pannes' = pannes
      /\ processus' = [processus EXCEPT ![p] = Libre]
  BY DEF EncaisserGratuit, Finir
<1>. HIDE DEF l, b, d
<1>5. LigneBonne(l) /\ booking[b].statut # "absente" /\ l.statut # "absente"
  BY <1>1, <1>2, <1>3 DEF LigneBonne, Compatible, Gratuites, DuGestionnaire
<1>6. Compatibles(p, b, l)
  BY <1>2, <1>3 DEF Compatibles, Compatible
<1>7. processus[p].etape \notin DeLaDecision
  BY <1>1 DEF DeLaDecision, d
<1>8. session' \in [Sessions -> EtatsDeSession] /\ \A s \in Sessions : SessionBonne(session'[s])
  BY <1>4, SessionsInchangees
<1>. QED BY <1>2, <1>3, <1>4, <1>5, <1>6, <1>7, <1>8, Fin

\* A process that goes on with the same booking stays in order with the others.
LEMMA CouplesSuivis ==
  ASSUME NEW p, NEW d, NEW e, Couples(p, d), d.etape # "libre", e.b = d.b,
         e.etape \notin {"libre", "creer"},
         e.etape \in Gratuites => d.etape \in Gratuites,
         e.etape \in DeLaDecision => d.etape \in DeLaDecision,
         e.etape \in {"ouvrir", "enregistrer"}
           => d.etape \in {"ouvrir", "enregistrer"} /\ e.copie = d.copie
  PROVE  Couples(p, e)
BY DEF Couples, Couple, DeLaDecision, Gratuites

\* A row whose status is not one of the administrator, or does not change, suits
\* the others as the old one did.
LEMMA CompatiblesSuivis ==
  ASSUME NEW p, NEW b, NEW m, NEW l, Compatibles(p, b, m), m.statut # "absente",
         l.acceptations = m.acceptations, l.statut # "absente",
         l.statut \notin DuGestionnaire \/ l.statut = m.statut
  PROVE  Compatibles(p, b, l)
BY DEF Compatibles, Compatible

\* A free booking is confirmed: nobody else decides on it.
LEMMA ConfirmerGratuitBon ==
  ASSUME IInv, NEW p \in Processus, ConfirmerGratuit(p), lachees' = lachees \cup SansPlace'
  PROVE  IInv'
<1> DEFINE d == processus[p]
           b == d.b
           m == booking[b]
           l == [m EXCEPT !.statut = "FREERES", !.ligne = "VALID"]
           e == [d EXCEPT !.etape = "encaisser"]
<1>1. d.etape = "confirmer"
  BY DEF ConfirmerGratuit, Au
<1>2. /\ d \in Etats /\ CopieBonne(d) /\ Couples(p, d)
      /\ b \in Demandes /\ m \in Lignes /\ LigneBonne(m) /\ Compatible(d, m)
      /\ Compatibles(p, b, m)
  BY <1>1, AuTravail
<1>3. /\ booking' = [booking EXCEPT ![b] = l] /\ processus' = [processus EXCEPT ![p] = e]
      /\ verrou' = verrou /\ session' = session /\ pannes' = pannes
  BY <1>2 DEF ConfirmerGratuit, Passer, IInv, Types
<1>. HIDE DEF m, b
<1>4. /\ l \in Lignes /\ l.statut = "FREERES" /\ l.plage = m.plage
      /\ l.acceptations = m.acceptations
  BY <1>2 DEF Lignes, Statuts
<1>5. e \in Etats /\ e.etape = "encaisser" /\ e.b = d.b /\ e.copie = d.copie
  BY <1>2 DEF Etats, Etapes
<1>. HIDE DEF l, e, d
<1>6. /\ LigneBonne(l) /\ CopieBonne(e) /\ Compatible(e, l) /\ m.statut # "absente"
      /\ l.statut # "absente" /\ e.etape # "creer"
  BY <1>1, <1>2, <1>4, <1>5
     DEF LigneBonne, CopieBonne, Compatible, Gratuites, DuGestionnaire
<1>7. Couples(p, e)
  BY <1>1, <1>2, <1>5, CouplesSuivis DEF Gratuites, DeLaDecision
<1>8. Compatibles(p, b, l)
  BY <1>2, <1>4, <1>6, CompatiblesSuivis DEF DuGestionnaire
<1>9. VerrousBons' /\ verrou' \in [Demandes -> Processus \cup {Aucun}]
  BY <1>1, <1>3, <1>5, VerrousInchanges DEF DeLaDecision, d
<1>. QED BY <1>2, <1>3, <1>4, <1>5, <1>6, <1>7, <1>8, <1>9, SessionsInchangees, Ecriture
     DEF b, m

\* The payment overwrites any status but a cancellation it read; the sale of a
\* refused request is cancelled all the same.
LEMMA DeclencherBon ==
  ASSUME IInv, NEW p \in Processus, Declencher(p), lachees' = lachees \cup SansPlace'
  PROVE  IInv'
<1> DEFINE d == processus[p]
           b == d.b
           m == booking[b]
           l == IF d.copie \in Annulees THEN m ELSE [m EXCEPT !.statut = "PAID_BY_USER"]
           e == [d EXCEPT !.etape = "ligne"]
<1>1. d.etape = "declencheur"
  BY DEF Declencher, Au
<1>2. /\ d \in Etats /\ CopieBonne(d) /\ Couples(p, d)
      /\ b \in Demandes /\ m \in Lignes /\ LigneBonne(m) /\ Compatible(d, m)
      /\ Compatibles(p, b, m)
  BY <1>1, AuTravail
<1>3. /\ booking' = [booking EXCEPT ![b] = l] /\ processus' = [processus EXCEPT ![p] = e]
      /\ verrou' = verrou /\ session' = session /\ pannes' = pannes
  BY <1>2 DEF Declencher, Passer, IInv, Types
<1>. HIDE DEF m, b
<1>4. /\ l \in Lignes /\ l.statut \in {m.statut, "PAID_BY_USER"} /\ l.plage = m.plage
      /\ l.acceptations = m.acceptations /\ l.vente = m.vente
  BY <1>2 DEF Lignes, Statuts
<1>5. e \in Etats /\ e.etape = "ligne" /\ e.b = d.b /\ e.copie = d.copie
  BY <1>2 DEF Etats, Etapes
<1>. HIDE DEF l, e, d
<1>6. /\ LigneBonne(l) /\ CopieBonne(e) /\ Compatible(e, l) /\ m.statut # "absente"
      /\ l.statut # "absente" /\ e.etape # "creer"
  BY <1>1, <1>2, <1>4, <1>5
     DEF LigneBonne, CopieBonne, Compatible, Gratuites, DuGestionnaire
<1>7. Couples(p, e)
  BY <1>1, <1>2, <1>5, CouplesSuivis DEF Gratuites, DeLaDecision
<1>8. Compatibles(p, b, l)
  BY <1>2, <1>4, <1>6, CompatiblesSuivis DEF DuGestionnaire
<1>9. VerrousBons' /\ verrou' \in [Demandes -> Processus \cup {Aucun}]
  BY <1>1, <1>3, <1>5, VerrousInchanges DEF DeLaDecision, d
<1>. QED BY <1>2, <1>3, <1>4, <1>5, <1>6, <1>7, <1>8, <1>9, SessionsInchangees, Ecriture
     DEF b, m

\* The line of the payment.
LEMMA ValiderLaLigneBon ==
  ASSUME IInv, NEW p \in Processus, ValiderLaLigne(p), lachees' = lachees \cup SansPlace'
  PROVE  IInv'
<1> DEFINE d == processus[p]
           b == d.b
           m == booking[b]
           l == [m EXCEPT !.ligne = "VALID"]
           e == [d EXCEPT !.etape = "regler"]
<1>1. d.etape = "ligne"
  BY DEF ValiderLaLigne, Au
<1>2. /\ d \in Etats /\ CopieBonne(d) /\ Couples(p, d)
      /\ b \in Demandes /\ m \in Lignes /\ LigneBonne(m) /\ Compatible(d, m)
      /\ Compatibles(p, b, m)
  BY <1>1, AuTravail
<1>3. /\ booking' = [booking EXCEPT ![b] = l] /\ processus' = [processus EXCEPT ![p] = e]
      /\ verrou' = verrou /\ session' = session /\ pannes' = pannes
  BY <1>2 DEF ValiderLaLigne, Passer, IInv, Types
<1>. HIDE DEF m, b
<1>4. /\ l \in Lignes /\ l.statut = m.statut /\ l.plage = m.plage
      /\ l.acceptations = m.acceptations /\ l.vente = m.vente
  BY <1>2 DEF Lignes
<1>5. e \in Etats /\ e.etape = "regler" /\ e.b = d.b /\ e.copie = d.copie
  BY <1>2 DEF Etats, Etapes
<1>. HIDE DEF l, e, d
<1>6. /\ LigneBonne(l) /\ CopieBonne(e) /\ Compatible(e, l) /\ m.statut # "absente"
      /\ l.statut # "absente" /\ e.etape # "creer"
  BY <1>1, <1>2, <1>4, <1>5
     DEF LigneBonne, CopieBonne, Compatible, Gratuites, DuGestionnaire
<1>7. Couples(p, e)
  BY <1>1, <1>2, <1>5, CouplesSuivis DEF Gratuites, DeLaDecision
<1>8. Compatibles(p, b, l)
  BY <1>2, <1>4, <1>6, CompatiblesSuivis DEF DuGestionnaire
<1>9. VerrousBons' /\ verrou' \in [Demandes -> Processus \cup {Aucun}]
  BY <1>1, <1>3, <1>5, VerrousInchanges DEF DeLaDecision, d
<1>. QED BY <1>2, <1>3, <1>4, <1>5, <1>6, <1>7, <1>8, <1>9, SessionsInchangees, Ecriture
     DEF b, m

\* A new session is that of a booking which exists.
LEMMA OuvrirSessionBon ==
  ASSUME IInv, NEW p \in Processus, OuvrirSession(p), lachees' = lachees \cup SansPlace'
  PROVE  IInv'
<1> DEFINE d == processus[p]
           b == d.b
           m == booking[b]
<1>1. PICK s \in Sessions :
        /\ Au(p, "ouvrir")
        /\ session' = [session EXCEPT ![s] =
             [de |-> b, stripe |-> "open", base |-> "PENDING"]]
        /\ booking' = [booking EXCEPT ![b].session = s]
        /\ processus' = [processus EXCEPT ![p].etape = "enregistrer", ![p].s = s]
        /\ UNCHANGED <<verrou, pannes>>
  BY DEF OuvrirSession
<1> DEFINE l == [m EXCEPT !.session = s]
           e == [d EXCEPT !.etape = "enregistrer", !.s = s]
<1>2. /\ d.etape = "ouvrir" /\ d \in Etats /\ CopieBonne(d) /\ Couples(p, d)
      /\ b \in Demandes /\ m \in Lignes /\ LigneBonne(m) /\ Compatible(d, m)
      /\ Compatibles(p, b, m)
  BY <1>1, AuTravail DEF Au
<1>3. /\ booking' = [booking EXCEPT ![b] = l] /\ processus' = [processus EXCEPT ![p] = e]
      /\ verrou' = verrou /\ pannes' = pannes
  BY <1>1, <1>2 DEF IInv, Types
<1>10. session' \in [Sessions -> EtatsDeSession] /\ \A x \in Sessions : SessionBonne(session'[x])
  <2>1. [de |-> b, stripe |-> "open", base |-> "PENDING"] \in EtatsDeSession
    BY <1>2 DEF EtatsDeSession
  <2>2. SessionBonne([de |-> b, stripe |-> "open", base |-> "PENDING"])
    BY <1>2 DEF SessionBonne, Compatible
  <2>. QED BY <1>1, <2>1, <2>2 DEF IInv, Types, SessionsBonnes
<1>. HIDE DEF m, b
<1>4. /\ l \in Lignes /\ l.statut = m.statut /\ l.plage = m.plage
      /\ l.acceptations = m.acceptations /\ l.vente = m.vente
  BY <1>2 DEF Lignes
<1>5. e \in Etats /\ e.etape = "enregistrer" /\ e.b = d.b /\ e.copie = d.copie
  BY <1>2 DEF Etats, Etapes
<1>. HIDE DEF l, e, d
<1>6. /\ LigneBonne(l) /\ CopieBonne(e) /\ Compatible(e, l) /\ m.statut # "absente"
      /\ l.statut # "absente" /\ e.etape # "creer"
  BY <1>2, <1>4, <1>5
     DEF LigneBonne, CopieBonne, Compatible, Gratuites, DuGestionnaire
<1>7. Couples(p, e)
  BY <1>2, <1>5, CouplesSuivis DEF Gratuites, DeLaDecision
<1>8. Compatibles(p, b, l)
  BY <1>2, <1>4, <1>6, CompatiblesSuivis
<1>9. VerrousBons' /\ verrou' \in [Demandes -> Processus \cup {Aucun}]
  BY <1>2, <1>3, <1>5, VerrousInchanges DEF DeLaDecision, d
<1>. QED BY <1>2, <1>3, <1>4, <1>5, <1>6, <1>7, <1>8, <1>9, <1>10, Ecriture DEF b, m

\* The object saved whole carries a status of the payment or of an acceptance;
\* no booking confirmed as free is opened after an acceptance.
LEMMA EnregistrerLeBookingBon ==
  ASSUME IInv, NEW p \in Processus, EnregistrerLeBooking(p), lachees' = lachees \cup SansPlace'
  PROVE  IInv'
<1> DEFINE d == processus[p]
           b == d.b
           m == booking[b]
           l == Enregistre(m, d)
<1>1. d.etape = "enregistrer"
  BY DEF EnregistrerLeBooking, Au
<1>2. /\ d \in Etats /\ CopieBonne(d) /\ Couples(p, d)
      /\ b \in Demandes /\ m \in Lignes /\ LigneBonne(m) /\ Compatible(d, m)
      /\ Compatibles(p, b, m)
  BY <1>1, AuTravail
<1>3. /\ booking' = [booking EXCEPT ![b] = l] /\ processus' = [processus EXCEPT ![p] = Libre]
      /\ verrou' = verrou /\ session' = session /\ pannes' = pannes
  BY DEF EnregistrerLeBooking, Finir
<1>4. d.copie \in {"WAITING_PAYMENT", "ADMIN_VALID"}
  BY <1>1, <1>2 DEF CopieBonne
<1>. HIDE DEF m
<1>5. /\ l \in Lignes /\ l.statut = d.copie /\ l.plage = m.plage
      /\ l.acceptations = m.acceptations /\ l.vente = m.vente
  BY <1>2, <1>4 DEF Lignes, Statuts, Enregistre
<1>. HIDE DEF l
<1>6. LigneBonne(l) /\ m.statut # "absente" /\ l.statut # "absente"
  BY <1>1, <1>2, <1>4, <1>5 DEF LigneBonne, Compatible
<1>7. Compatibles(p, b, l)
  <2> SUFFICES ASSUME NEW q \in Processus \ {p}, processus[q].b = b
               PROVE  Compatible(processus[q], l)
    BY DEF Compatibles
  <2> DEFINE f == processus[q]
  <2>1. Compatible(f, m) /\ Couple(f, d) /\ f.b = d.b
    BY <1>2 DEF Compatibles, Couples
  <2>. HIDE DEF f, d
  <2>. QED BY <1>1, <1>4, <1>5, <1>6, <2>1 DEF Compatible, Couple, DuGestionnaire, Gratuites, f
<1>8. processus[p].etape \notin DeLaDecision
  BY <1>1 DEF DeLaDecision
<1>. QED BY <1>2, <1>3, <1>5, <1>6, <1>7, <1>8, SessionsInchangees, Fin DEF m

\* A late payment leaves a cancelled sale as it is.
LEMMA ReglerLaVenteBon ==
  ASSUME IInv, NEW p \in Processus, ReglerLaVente(p), lachees' = lachees \cup SansPlace'
  PROVE  IInv'
<1> DEFINE d == processus[p]
           b == d.b
           m == booking[b]
           l == [m EXCEPT !.vente = IF @ = "EN_ATTENTE" THEN "REGLEE" ELSE @]
<1>1. d.etape = "regler"
  BY DEF ReglerLaVente, Au
<1>2. /\ b \in Demandes /\ m \in Lignes /\ LigneBonne(m) /\ Compatible(d, m)
      /\ Compatibles(p, b, m)
  BY <1>1, AuTravail
<1>3. /\ booking' = [booking EXCEPT ![b] = l] /\ processus' = [processus EXCEPT ![p] = Libre]
      /\ verrou' = verrou /\ pannes' = pannes
      /\ session' = [session EXCEPT ![d.s].base = "VALID"]
  BY DEF ReglerLaVente, Finir
<1>4. session' \in [Sessions -> EtatsDeSession] /\ \A s \in Sessions : SessionBonne(session'[s])
  <2>1. session \in [Sessions -> EtatsDeSession] /\ \A s \in Sessions : SessionBonne(session[s])
    BY DEF IInv, Types, SessionsBonnes
  <2>2. ASSUME NEW s \in Sessions
        PROVE  /\ session'[s] \in EtatsDeSession /\ session'[s].de = session[s].de
               /\ session'[s].stripe = session[s].stripe
    BY <1>3, <2>1 DEF EtatsDeSession
  <2>3. session' \in [Sessions -> EtatsDeSession]
    BY <1>3, <2>1, <2>2
  <2>. QED BY <2>1, <2>2, <2>3 DEF SessionBonne
<1>. HIDE DEF m
<1>5. /\ l \in Lignes /\ l.statut = m.statut /\ l.plage = m.plage
      /\ l.acceptations = m.acceptations /\ (m.vente = "ANNULEE" => l.vente = "ANNULEE")
  BY <1>2 DEF Lignes
<1>. HIDE DEF l
<1>6. LigneBonne(l) /\ m.statut # "absente" /\ l.statut # "absente"
  BY <1>1, <1>2, <1>5 DEF LigneBonne, Compatible
<1>7. Compatibles(p, b, l)
  BY <1>2, <1>5, <1>6, CompatiblesSuivis
<1>8. processus[p].etape \notin DeLaDecision
  BY <1>1 DEF DeLaDecision
<1>. QED BY <1>2, <1>3, <1>4, <1>5, <1>6, <1>7, <1>8, Fin DEF m

\* The acceptance holds the row since it read it: nobody accepted meanwhile.
LEMMA AccepterBon ==
  ASSUME IInv, NEW p \in Processus, Accepter(p), lachees' = lachees \cup SansPlace'
  PROVE  IInv'
<1> DEFINE d == processus[p]
           b == d.b
           m == booking[b]
           l == Acceptee(m)
<1>1. d.etape = "accepter"
  BY DEF Accepter, Au
<1>2. /\ d \in Etats /\ Couples(p, d)
      /\ b \in Demandes /\ m \in Lignes /\ LigneBonne(m) /\ Compatible(d, m)
      /\ Compatibles(p, b, m)
  BY <1>1, AuTravail
<1>3. /\ booking' = [booking EXCEPT ![b] = l] /\ processus' = [processus EXCEPT ![p] = Libre]
      /\ Relacher(p) /\ session' = session /\ pannes' = pannes
  BY DEF Accepter, Finir
<1>. HIDE DEF m
<1>4. m.acceptations = 0 /\ m.statut # "absente"
  BY <1>1, <1>2 DEF Compatible
<1>5. /\ l \in Lignes /\ l.statut \in {"ADMIN_VALID", "FREERES"} /\ l.plage = m.plage
      /\ l.acceptations = 1
  <2>1. m.acceptations + 1 = 1
    BY <1>4
  <2>2. CASE m.payant
    <3>1. l = [m EXCEPT !.statut = "ADMIN_VALID", !.acceptations = 1]
      BY <2>1, <2>2 DEF Acceptee
    <3>. HIDE DEF l
    <3>. QED BY <1>2, <3>1 DEF Lignes, Statuts
  <2>3. CASE ~m.payant
    <3>1. l = [m EXCEPT !.statut = "FREERES", !.ligne = "VALID", !.vente = "REGLEE",
                        !.acceptations = 1]
      BY <2>1, <2>3 DEF Acceptee
    <3>. HIDE DEF l
    <3>. QED BY <1>2, <3>1 DEF Lignes, Statuts
  <2>. QED BY <2>2, <2>3
<1>. HIDE DEF l
<1>6. LigneBonne(l) /\ l.statut # "absente"
  BY <1>5 DEF LigneBonne
<1>7. Compatibles(p, b, l)
  <2> SUFFICES ASSUME NEW q \in Processus \ {p}, processus[q].b = b
               PROVE  Compatible(processus[q], l)
    BY DEF Compatibles
  <2> DEFINE f == processus[q]
  <2>1. Compatible(f, m) /\ Couple(f, d) /\ f.b = d.b
    BY <1>2 DEF Compatibles, Couples
  <2>2. f.etape # "accepter"
    BY <1>1 DEF IInv, VerrousBons
  <2>. HIDE DEF f, d
  <2>3. f.etape \notin Gratuites \cup {"accepter", "creer"}
    BY <1>1, <1>4, <2>1, <2>2 DEF Compatible, Couple, DeLaDecision, Gratuites
  <2>. QED BY <1>6, <2>3 DEF Compatible, f
<1>. QED BY <1>2, <1>3, <1>4, <1>5, <1>6, <1>7, SessionsInchangees, Fin DEF m

\* A refusal or a withdrawal cancels the sale with the booking, unless the sale is
\* settled: nothing is written then.
LEMMA AnnulerLaDemandeBon ==
  ASSUME IInv, NEW p \in Processus, AnnulerLaDemande(p), lachees' = lachees \cup SansPlace'
  PROVE  IInv'
<1> DEFINE d == processus[p]
           b == d.b
           m == booking[b]
           l == Annulee(m, d.copie)
<1>1. d.etape = "annuler"
  BY DEF AnnulerLaDemande, Au
<1>2. /\ d \in Etats /\ CopieBonne(d) /\ Couples(p, d)
      /\ b \in Demandes /\ m \in Lignes /\ LigneBonne(m) /\ Compatible(d, m)
      /\ Compatibles(p, b, m)
  BY <1>1, AuTravail
<1>3. /\ processus' = [processus EXCEPT ![p] = Libre] /\ Relacher(p) /\ pannes' = pannes
  BY DEF AnnulerLaDemande, Finir
<1>4. CASE ~VenteAnnulable(b)
  <2>1. booking' = booking /\ session' = session
    BY <1>4 DEF AnnulerLaDemande
  <2>2. pannes' \in 0..MaxPannes
    BY <1>3 DEF IInv, Types
  <2>. QED BY <1>3, <2>1, <2>2, FinSansEcrire
<1>5. CASE VenteAnnulable(b)
  <2>1. /\ booking' = [booking EXCEPT ![b] = l]
        /\ session' = [s \in Sessions |->
             IF s \in d.fermees THEN [session[s] EXCEPT !.base = "EXPIRE"] ELSE session[s]]
    BY <1>5 DEF AnnulerLaDemande
  <2>2. session' \in [Sessions -> EtatsDeSession] /\ \A s \in Sessions : SessionBonne(session'[s])
    <3>1. session \in [Sessions -> EtatsDeSession] /\ \A s \in Sessions : SessionBonne(session[s])
      BY DEF IInv, Types, SessionsBonnes
    <3>2. ASSUME NEW s \in Sessions
          PROVE  /\ session'[s] \in EtatsDeSession /\ session'[s].de = session[s].de
                 /\ session'[s].stripe = session[s].stripe
      BY <2>1, <3>1 DEF EtatsDeSession
    <3>3. session' \in [Sessions -> EtatsDeSession]
      BY <2>1, <3>2
    <3>. QED BY <3>1, <3>2, <3>3 DEF SessionBonne
  <2>3. d.copie \in Annulees
    BY <1>1, <1>2 DEF CopieBonne
  <2>. HIDE DEF m
  <2>4. /\ l \in Lignes /\ l.statut = d.copie /\ l.plage = m.plage
        /\ l.acceptations = m.acceptations /\ l.vente = "ANNULEE"
    BY <1>2, <2>3 DEF Lignes, Statuts, Annulees, Annulee
  <2>. HIDE DEF l
  <2>5. LigneBonne(l) /\ m.statut # "absente" /\ l.statut # "absente"
    BY <1>1, <1>2, <2>3, <2>4 DEF LigneBonne, Compatible, Annulees
  <2>6. Compatibles(p, b, l)
    <3> SUFFICES ASSUME NEW q \in Processus \ {p}, processus[q].b = b
                 PROVE  Compatible(processus[q], l)
      BY DEF Compatibles
    <3> DEFINE f == processus[q]
    <3>1. Compatible(f, m) /\ Couple(f, d) /\ f.b = d.b
      BY <1>2 DEF Compatibles, Couples
    <3>. HIDE DEF f, d
    <3>. QED BY <1>1, <2>4, <2>5, <3>1 DEF Compatible, Couple, DeLaDecision, Gratuites, f
  <2>. QED BY <1>2, <1>3, <2>1, <2>2, <2>4, <2>5, <2>6, Fin DEF m
<1>. QED BY <1>4, <1>5

\* The withdrawal of a paid booking.
LEMMA AnnulerEtRembourserBon ==
  ASSUME IInv, NEW p \in Processus, AnnulerEtRembourser(p), lachees' = lachees \cup SansPlace'
  PROVE  IInv'
<1> DEFINE d == processus[p]
           b == d.b
           m == booking[b]
           l == [m EXCEPT !.statut = "USER_CANCELED"]
<1>1. d.etape = "rembourser"
  BY DEF AnnulerEtRembourser, Au
<1>2. /\ b \in Demandes /\ m \in Lignes /\ LigneBonne(m) /\ Compatible(d, m)
      /\ Compatibles(p, b, m)
  BY <1>1, AuTravail
<1>3. /\ booking' = [booking EXCEPT ![b] = l] /\ processus' = [processus EXCEPT ![p] = Libre]
      /\ verrou' = verrou /\ session' = session /\ pannes' = pannes
  BY DEF AnnulerEtRembourser, Finir
<1>. HIDE DEF m
<1>5. /\ l \in Lignes /\ l.statut = "USER_CANCELED" /\ l.plage = m.plage
      /\ l.acceptations = m.acceptations
  BY <1>2 DEF Lignes, Statuts
<1>. HIDE DEF l
<1>6. LigneBonne(l) /\ m.statut # "absente" /\ l.statut # "absente"
  BY <1>1, <1>2, <1>5 DEF LigneBonne, Compatible
<1>7. Compatibles(p, b, l)
  BY <1>2, <1>5, <1>6, CompatiblesSuivis DEF DuGestionnaire
<1>8. processus[p].etape \notin DeLaDecision
  BY <1>1 DEF DeLaDecision
<1>. QED BY <1>2, <1>3, <1>5, <1>6, <1>7, <1>8, SessionsInchangees, Fin DEF m

\* The sessions are closed before the booking is cancelled.
LEMMA FermerLesSessionsBon ==
  ASSUME IInv, NEW p \in Processus, FermerLesSessions(p), lachees' = lachees \cup SansPlace'
  PROVE  IInv'
<1> DEFINE d == processus[p]
           ouvertes == {s \in Sessions : /\ session[s].de = d.b
                                         /\ session[s].base = "PENDING"
                                         /\ session[s].stripe = "open"}
           e == [d EXCEPT !.etape = "annuler", !.fermees = ouvertes]
<1>1. d.etape = "fermer"
  BY DEF FermerLesSessions, Au
<1>2. /\ d \in Etats /\ CopieBonne(d) /\ Couples(p, d)
      /\ Compatible(d, booking[d.b])
  BY <1>1, AuTravail
<1>3. /\ processus' = [processus EXCEPT ![p] = e] /\ booking' = booking
      /\ verrou' = verrou /\ pannes' = pannes
      /\ session' = [s \in Sessions |->
           IF s \in ouvertes THEN [session[s] EXCEPT !.stripe = "expired"] ELSE session[s]]
  BY <1>2 DEF FermerLesSessions, IInv, Types
<1>4. session' \in [Sessions -> EtatsDeSession] /\ \A s \in Sessions : SessionBonne(session'[s])
  <2>1. session \in [Sessions -> EtatsDeSession] /\ \A s \in Sessions : SessionBonne(session[s])
    BY DEF IInv, Types, SessionsBonnes
  <2>2. ASSUME NEW s \in Sessions
        PROVE  /\ session'[s] \in EtatsDeSession /\ session'[s].de = session[s].de
               /\ session'[s].stripe # "aucune" => session[s].stripe # "aucune"
    BY <1>3, <2>1 DEF EtatsDeSession
  <2>3. session' \in [Sessions -> EtatsDeSession]
    BY <1>3, <2>2
  <2>. QED BY <2>1, <2>2, <2>3 DEF SessionBonne
<1>5. ouvertes \in SUBSET Sessions
  OBVIOUS
<1>. HIDE DEF ouvertes
<1>6. e \in Etats /\ e.etape = "annuler" /\ e.b = d.b /\ e.copie = d.copie
  BY <1>2, <1>5 DEF Etats, Etapes
<1>. HIDE DEF e, d
<1>7. EtatBon(e) /\ e.etape # "creer"
  BY <1>1, <1>2, <1>6 DEF EtatBon, CopieBonne, Compatible, Gratuites
<1>8. Couples(p, e)
  BY <1>1, <1>2, <1>6, CouplesSuivis DEF Gratuites, DeLaDecision
<1>9. VerrousBons' /\ verrou' \in [Demandes -> Processus \cup {Aucun}]
  BY <1>1, <1>3, <1>6, VerrousInchanges DEF DeLaDecision, d
<1>10. pannes' \in 0..MaxPannes
  BY <1>3 DEF IInv, Types
<1>. QED BY <1>3, <1>4, <1>6, <1>7, <1>8, <1>9, <1>10, SansEcriture

-----------------------------------------------------------------------------
(* The requests that arrive, and the steps of nobody's process.                 *)

\* A process alone on a booking that nobody else knows.
LEMMA SeulSurLaDemande ==
  ASSUME IInv, NEW p \in Processus, NEW e \in Etats, e.b \in Demandes, CopieBonne(e),
         \A q \in Processus \ {p} : processus[q].b # e.b
  PROVE  Couples(p, e)
BY DEF Couples, Couple

\* A process that arrives on a booking that exists, out of its creation and of the
\* confirmation of a free one.
LEMMA ArriveeSuivie ==
  ASSUME IInv, NEW p \in Processus, NEW e \in Etats,
         booking[e.b].statut # "absente", e.b \in Demandes,
         e.etape \notin Gratuites \cup {"libre", "creer"},
         booking[e.b].statut \in DuGestionnaire
         \/ e.etape \notin DeLaDecision \cup {"ouvrir", "enregistrer"}
  PROVE  Couples(p, e)
<1>1. ASSUME NEW q \in Processus, processus[q].b = e.b, processus[q].etape # "libre"
      PROVE  Compatible(processus[q], booking[e.b])
  BY <1>1 DEF IInv, EtatBon
<1>. QED BY <1>1 DEF Couples, Couple, Compatible, Gratuites, DeLaDecision

\* The capacity is read before the request is written.
LEMMA LireLesCreneauxBon ==
  ASSUME IInv, NEW p \in Processus, LireLesCreneaux(p), lachees' = lachees \cup SansPlace'
  PROVE  IInv'
<1>1. PICK b \in Demandes \ Existantes, plage \in Plages, payant \in BOOLEAN,
           manuelle \in BOOLEAN :
        /\ Au(p, "libre") /\ PlaceLibre(plage)
        /\ \A q \in Processus : processus[q].b # b
        /\ processus' = [processus EXCEPT ![p] =
             [Libre EXCEPT !.etape = "creer", !.b = b, !.plage = plage, !.payant = payant,
                           !.manuelle = manuelle, !.vues = Existantes]]
        /\ UNCHANGED <<booking, verrou, session, pannes>>
  BY DEF LireLesCreneaux
<1> DEFINE e == [Libre EXCEPT !.etape = "creer", !.b = b, !.plage = plage, !.payant = payant,
                              !.manuelle = manuelle, !.vues = Existantes]
<1>2. /\ e \in Etats /\ e.etape = "creer" /\ e.b = b /\ e.plage = plage
      /\ e.vues = Existantes
  BY <1>1 DEF Libre, Etats, Etapes, Statuts, Existantes
<1>3. /\ processus' = [processus EXCEPT ![p] = e] /\ booking' = booking
      /\ verrou' = verrou /\ session' = session /\ pannes' = pannes
  BY <1>1
<1>. HIDE DEF e
<1>4. EtatBon(e) /\ CopieBonne(e)
  <2>1. b # Aucun /\ booking[b].statut = "absente"
    BY AucunHypothese DEF Existantes
  <2>. QED BY <1>2, <2>1 DEF EtatBon, CopieBonne, Compatible, Gratuites
<1>5. Couples(p, e)
  BY <1>1, <1>2, <1>4, SeulSurLaDemande
<1>6. Reservee(e)
  <2>1. ASSUME NEW c \in plage PROVE Cardinality(Tenues(c) \cap Existantes) < Capacite
    <3> DEFINE S == {x \in Demandes : Occupe(x) /\ c \in booking[x].plage}
               T == Tenues(c) \cap Existantes
    <3>1. S \in SUBSET Demandes /\ T \in SUBSET S
      BY DEF Tenues
    <3>2. Cardinality(S) < Capacite
      BY <1>1 DEF PlaceLibre
    <3>. HIDE DEF S, T
    <3>3. Cardinality(T) < Capacite
      BY <3>1, <3>2, Sousensemble, CapaciteHypothese
    <3>. QED BY <3>3 DEF T
  <2>. QED BY <1>2, <2>1 DEF Reservee
<1>7. processus[p].etape \notin DeLaDecision /\ e.etape # "accepter"
  BY <1>1, <1>2 DEF Au, DeLaDecision
<1>8. VerrousBons' /\ verrou' \in [Demandes -> Processus \cup {Aucun}]
  BY <1>2, <1>3, <1>7, VerrousInchanges
<1>9. pannes' \in 0..MaxPannes
  BY <1>3 DEF IInv, Types
<1>. QED BY <1>2, <1>3, <1>4, <1>5, <1>6, <1>8, <1>9, SessionsInchangees, SansEcriture

\* A process at rest that begins to work on a booking, without a lock.
LEMMA Arrivee ==
  ASSUME IInv, NEW p \in Processus, NEW e \in Etats, processus' = [processus EXCEPT ![p] = e],
         processus[p].etape = "libre", booking' = booking,
         EtatBon(e), Couples(p, e), e.etape \notin {"creer", "accepter"}, verrou' = verrou,
         session' \in [Sessions -> EtatsDeSession], \A s \in Sessions : SessionBonne(session'[s]),
         lachees' = lachees \cup SansPlace', pannes' = pannes
  PROVE  IInv'
<1>1. processus[p].etape \notin DeLaDecision /\ pannes' \in 0..MaxPannes
  BY DEF DeLaDecision, IInv, Types
<1>2. VerrousBons' /\ verrou' \in [Demandes -> Processus \cup {Aucun}]
  BY <1>1, VerrousInchanges
<1>. QED BY <1>1, <1>2, SansEcriture

\* The payment of an accepted request.
LEMMA PayBon ==
  ASSUME IInv, NEW p \in Processus, NEW b \in Demandes, Pay(p, b),
         lachees' = lachees \cup SansPlace'
  PROVE  IInv'
<1> DEFINE e == [Libre EXCEPT !.etape = "ouvrir", !.b = b, !.copie = "ADMIN_VALID"]
<1>1. /\ processus[p].etape = "libre" /\ booking[b].statut = "ADMIN_VALID"
      /\ processus' = [processus EXCEPT ![p] = e]
      /\ booking' = booking /\ verrou' = verrou /\ pannes' = pannes
  BY DEF Pay, Au
<1>2. session' \in [Sessions -> EtatsDeSession] /\ \A s \in Sessions : SessionBonne(session'[s])
  <2>1. CASE session' = session
    BY <2>1, SessionsInchangees
  <2>2. CASE \E s \in Sessions : session' = [session EXCEPT ![s].base = "EXPIRE"]
    <3>1. session \in [Sessions -> EtatsDeSession] /\ \A s \in Sessions : SessionBonne(session[s])
      BY DEF IInv, Types, SessionsBonnes
    <3>2. ASSUME NEW s \in Sessions
          PROVE  /\ session'[s] \in EtatsDeSession /\ session'[s].de = session[s].de
                 /\ session'[s].stripe = session[s].stripe
      BY <2>2, <3>1 DEF EtatsDeSession
    <3>3. session' \in [Sessions -> EtatsDeSession]
      BY <2>2, <3>1, <3>2
    <3>. QED BY <3>1, <3>2, <3>3 DEF SessionBonne
  <2>. QED BY <2>1, <2>2 DEF Pay
<1>3. e \in Etats /\ e.etape = "ouvrir" /\ e.b = b /\ e.copie = "ADMIN_VALID"
  BY DEF Libre, Etats, Etapes, Statuts
<1>. HIDE DEF e
<1>4. EtatBon(e) /\ e.etape \notin {"creer", "accepter"}
  BY <1>1, <1>3, AucunHypothese DEF EtatBon, CopieBonne, Compatible, Gratuites
<1>5. Couples(p, e)
  BY <1>1, <1>3, ArriveeSuivie DEF Gratuites, DuGestionnaire
<1>. QED BY <1>1, <1>2, <1>3, <1>4, <1>5, Arrivee

\* The withdrawal chosen on the status read: the cancellation of a request not paid,
\* or the refund.
LEMMA RetirerBon ==
  ASSUME IInv, NEW p \in Processus, NEW b \in Demandes, Retirer(p, b),
         lachees' = lachees \cup SansPlace'
  PROVE  IInv'
<1> DEFINE e == [Libre EXCEPT !.b = b, !.copie = "USER_CANCELED",
                   !.etape = IF DemandeNonPayee(b, booking[b].statut) THEN "fermer"
                             ELSE "rembourser"]
<1>1. /\ processus[p].etape = "libre" /\ booking[b].statut # "absente"
      /\ processus' = [processus EXCEPT ![p] = e]
      /\ booking' = booking /\ verrou' = verrou /\ session' = session /\ pannes' = pannes
  BY DEF Retirer, Au
<1>2. /\ e \in Etats /\ e.etape \in {"fermer", "rembourser"} /\ e.b = b
      /\ e.copie = "USER_CANCELED"
      /\ e.etape = "fermer" => booking[b].statut \in {"ADMIN_WAITING", "ADMIN_VALID"}
  BY DEF Libre, Etats, Etapes, Statuts, DemandeNonPayee
<1>. HIDE DEF e
<1>3. EtatBon(e) /\ e.etape \notin {"creer", "accepter"}
  BY <1>1, <1>2, AucunHypothese DEF EtatBon, CopieBonne, Compatible, Gratuites, Annulees
<1>4. Couples(p, e)
  BY <1>1, <1>2, ArriveeSuivie DEF Gratuites, DuGestionnaire, DeLaDecision
<1>. QED BY <1>1, <1>2, <1>3, <1>4, SessionsInchangees, Arrivee

\* A decision locks the row, then reads its status.
LEMMA VerrouillerBon ==
  ASSUME IInv, NEW p \in Processus, NEW e \in Etats, processus' = [processus EXCEPT ![p] = e],
         NEW b \in Demandes, verrou[b] = Aucun, verrou' = [verrou EXCEPT ![b] = p],
         processus[p].etape = "libre", e.etape \in DeLaDecision, e.b = b, EtatBon(e),
         booking[b].statut \in DuGestionnaire \ {"absente"},
         booking' = booking, session' = session, pannes' = pannes,
         lachees' = lachees \cup SansPlace'
  PROVE  IInv'
<1>1. VerrousBons' /\ verrou' \in [Demandes -> Processus \cup {Aucun}]
  BY VerrouPris
<1>2. Couples(p, e)
  BY ArriveeSuivie DEF Gratuites, DuGestionnaire, DeLaDecision
<1>3. pannes' \in 0..MaxPannes /\ e.etape # "creer"
  BY DEF IInv, Types, DeLaDecision
<1>. QED BY <1>1, <1>2, <1>3, SessionsInchangees, SansEcriture

\* The acceptance reads a request that was never accepted.
LEMMA AccepterVerrouillerBon ==
  ASSUME IInv, NEW p \in Processus, NEW b \in Demandes, AccepterVerrouiller(p, b),
         lachees' = lachees \cup SansPlace'
  PROVE  IInv'
<1> DEFINE e == [Libre EXCEPT !.etape = "accepter", !.b = b]
<1>1. /\ processus[p].etape = "libre" /\ verrou[b] = Aucun
      /\ booking[b].statut = "ADMIN_WAITING" /\ verrou' = [verrou EXCEPT ![b] = p]
      /\ processus' = [processus EXCEPT ![p] = e]
      /\ booking' = booking /\ session' = session /\ pannes' = pannes
  BY DEF AccepterVerrouiller, Au
<1>2. e \in Etats /\ e.etape = "accepter" /\ e.b = b
  BY DEF Libre, Etats, Etapes, Statuts
<1>. HIDE DEF e
<1>3. LigneBonne(booking[b])
  BY DEF IInv
<1>4. EtatBon(e)
  BY <1>1, <1>2, <1>3, AucunHypothese
     DEF EtatBon, CopieBonne, Compatible, Gratuites, LigneBonne
<1>. QED BY <1>1, <1>2, <1>4, VerrouillerBon DEF DuGestionnaire, DeLaDecision

\* The refusal reads a request nobody has paid.
LEMMA RefuserVerrouillerBon ==
  ASSUME IInv, NEW p \in Processus, NEW b \in Demandes, RefuserVerrouiller(p, b),
         lachees' = lachees \cup SansPlace'
  PROVE  IInv'
<1> DEFINE e == [Libre EXCEPT !.etape = "fermer", !.b = b, !.copie = "ADMIN_CANCELED"]
<1>1. /\ processus[p].etape = "libre" /\ verrou[b] = Aucun
      /\ booking[b].statut \in {"ADMIN_WAITING", "ADMIN_VALID"}
      /\ verrou' = [verrou EXCEPT ![b] = p]
      /\ processus' = [processus EXCEPT ![p] = e]
      /\ booking' = booking /\ session' = session /\ pannes' = pannes
  BY DEF RefuserVerrouiller, Au, DemandeNonPayee
<1>2. e \in Etats /\ e.etape = "fermer" /\ e.b = b /\ e.copie = "ADMIN_CANCELED"
  BY DEF Libre, Etats, Etapes, Statuts
<1>. HIDE DEF e
<1>3. EtatBon(e)
  BY <1>1, <1>2, AucunHypothese
     DEF EtatBon, CopieBonne, Compatible, Gratuites, Annulees
<1>. QED BY <1>1, <1>2, <1>3, VerrouillerBon DEF DuGestionnaire, DeLaDecision

\* The webhook of a paid session.
LEMMA ConstaterPayeBon ==
  ASSUME IInv, NEW p \in Processus, NEW s \in Sessions, ConstaterPaye(p, s),
         lachees' = lachees \cup SansPlace'
  PROVE  IInv'
<1> DEFINE b == session[s].de
           m == booking[b]
           l == [m EXCEPT !.ligne = IF m.session = s /\ @ = "CANCELED" THEN "PAID" ELSE @]
           etape == IF m.session = s /\ m.ligne \in {"CREATED", "UNPAID"}
                    THEN "declencheur" ELSE "regler"
           e == [Libre EXCEPT !.b = b, !.s = s, !.copie = m.statut, !.etape = etape]
<1>1. /\ processus[p].etape = "libre" /\ session[s].stripe = "complete"
      /\ processus' = [processus EXCEPT ![p] = e]
      /\ booking' = [booking EXCEPT ![b] = l]
      /\ verrou' = verrou /\ session' = session /\ pannes' = pannes
  BY DEF ConstaterPaye, Au
<1>2. b \in Demandes /\ m.statut # "absente" /\ m \in Lignes /\ LigneBonne(m)
  BY <1>1 DEF IInv, Types, SessionsBonnes, SessionBonne
<1>3. Compatibles(p, b, m)
  BY DEF IInv, EtatBon, Compatibles
<1>. HIDE DEF m, b
<1>4. /\ l \in Lignes /\ l.statut = m.statut /\ l.plage = m.plage
      /\ l.acceptations = m.acceptations /\ l.vente = m.vente
  BY <1>2 DEF Lignes
<1>5. etape \in {"declencheur", "regler"} /\ m.statut \in Statuts
  BY <1>2 DEF Lignes
<1>. HIDE DEF l, etape
<1>6. e \in Etats /\ e.etape \in {"declencheur", "regler"} /\ e.b = b
  BY <1>2, <1>5 DEF Libre, Etats, Etapes, Statuts
<1>. HIDE DEF e
<1>7. LigneBonne(l) /\ CopieBonne(e) /\ Compatible(e, l) /\ e.etape # "creer"
  BY <1>2, <1>4, <1>6, AucunHypothese DEF LigneBonne, CopieBonne, Compatible, Gratuites
<1>8. Couples(p, e)
  BY <1>2, <1>6, ArriveeSuivie DEF Gratuites, DeLaDecision, m
<1>9. Compatibles(p, b, l)
  BY <1>2, <1>3, <1>4, CompatiblesSuivis
<1>10. VerrousBons' /\ verrou' \in [Demandes -> Processus \cup {Aucun}]
  BY <1>1, <1>6, VerrousInchanges DEF DeLaDecision
<1>. QED BY <1>1, <1>2, <1>4, <1>6, <1>7, <1>8, <1>9, <1>10, SessionsInchangees, Ecriture
     DEF m

\* A step of nobody's process, which moves no booking.
LEMMA PasDuMonde ==
  ASSUME IInv, processus' = processus, verrou' = verrou, pannes' = pannes,
         booking' \in [Demandes -> Lignes],
         \A b \in Demandes :
           /\ booking'[b].statut = booking[b].statut /\ booking'[b].plage = booking[b].plage
           /\ booking'[b].acceptations = booking[b].acceptations
           /\ booking'[b].vente = booking[b].vente,
         session' \in [Sessions -> EtatsDeSession], \A s \in Sessions : SessionBonne(session'[s]),
         lachees' = lachees \cup SansPlace'
  PROVE  IInv'
<1>1. Evolution
  BY DEF Evolution
<1>2. \A b \in Demandes : LigneBonne(booking[b])'
  BY DEF IInv, LigneBonne
<1>3. ASSUME NEW p \in Processus PROVE EtatBon(processus[p])'
  <2> DEFINE e == processus[p]
  <2>1. EtatBon(e) /\ e \in Etats
    BY DEF IInv, Types
  <2>2. e.etape # "libre" => e.b \in Demandes
    BY <2>1 DEF Etats, EtatBon, CopieBonne
  <2>3. EtatBon(e)'
    BY <2>1, <2>2 DEF EtatBon, Compatible, Gratuites
  <2>. QED BY <2>3
<1>4. \A p, q \in Processus : p # q => Couple(processus'[p], processus'[q])
  BY DEF IInv
<1>5. VerrousBons'
  BY DEF IInv, VerrousBons
<1>6. SessionsBonnes'
  BY <1>1 DEF SessionsBonnes, SessionBonne, Evolution
<1>7. PlacesBonnes'
  <2>1. \A p \in Processus : processus'[p].etape = "creer" => Reservee(processus'[p])
    BY DEF IInv, PlacesBonnes
  <2>. QED BY <1>1, <2>1, PlacesGardees
<1>8. Types'
  BY DEF IInv, Types, SansPlace, Existantes
<1>. QED BY <1>2, <1>3, <1>4, <1>5, <1>6, <1>7, <1>8 DEF IInv

\* The hold of an unpaid booking ends.
LEMMA RetenueEchueBon ==
  ASSUME IInv, NEW b \in Demandes, RetenueEchue(b), lachees' = lachees \cup SansPlace'
  PROVE  IInv'
<1>1. /\ booking' = [booking EXCEPT ![b].retenue = FALSE]
      /\ verrou' = verrou /\ session' = session /\ processus' = processus /\ pannes' = pannes
  BY DEF RetenueEchue
<1>2. booking \in [Demandes -> Lignes]
  BY DEF IInv, Types
<1>3. ASSUME NEW x \in Demandes
      PROVE  /\ booking'[x] \in Lignes
             /\ booking'[x].statut = booking[x].statut /\ booking'[x].plage = booking[x].plage
             /\ booking'[x].acceptations = booking[x].acceptations
             /\ booking'[x].vente = booking[x].vente
  BY <1>1, <1>2 DEF Lignes
<1>4. booking' \in [Demandes -> Lignes]
  BY <1>1, <1>2, <1>3
<1>. QED BY <1>1, <1>3, <1>4, SessionsInchangees, PasDuMonde

\* An open session is paid or expires.
LEMMA SessionSuivie ==
  ASSUME IInv, NEW s \in Sessions, session[s].stripe = "open", NEW v \in {"complete", "expired"},
         session' = [session EXCEPT ![s].stripe = v],
         booking' = booking, verrou' = verrou, processus' = processus, pannes' = pannes,
         lachees' = lachees \cup SansPlace'
  PROVE  IInv'
<1>1. session \in [Sessions -> EtatsDeSession] /\ \A x \in Sessions : SessionBonne(session[x])
  BY DEF IInv, Types, SessionsBonnes
<1>2. ASSUME NEW x \in Sessions
      PROVE  /\ session'[x] \in EtatsDeSession /\ session'[x].de = session[x].de
             /\ session'[x].stripe # "aucune" => session[x].stripe # "aucune"
  BY <1>1 DEF EtatsDeSession
<1>3. session' \in [Sessions -> EtatsDeSession]
  BY <1>1, <1>2
<1>4. \A x \in Sessions : SessionBonne(session'[x])
  BY <1>1, <1>2 DEF SessionBonne
<1>5. booking' \in [Demandes -> Lignes]
  BY DEF IInv, Types
<1>. QED BY <1>3, <1>4, <1>5, PasDuMonde

-----------------------------------------------------------------------------
(* The request that is written.                                                 *)

\* The booking, on the slots read: nobody else knows it.
LEMMA CreationEcrite ==
  ASSUME IInv, NEW p \in Processus, CreerLeBooking(p)
  PROVE  \E l \in Lignes, e \in Etats :
           /\ booking' = [booking EXCEPT ![processus[p].b] = l]
           /\ processus' = [processus EXCEPT ![p] = e]
           /\ l.statut # "absente" /\ l.plage = processus[p].plage /\ LigneBonne(l)
           /\ CopieBonne(e) /\ Compatible(e, l) /\ Couples(p, e)
           /\ e.etape # "libre" => e.b = processus[p].b
           /\ e.etape \in {"libre", "ouvrir", "confirmer"}
<1> DEFINE d == processus[p]
           statut == IF d.manuelle THEN "ADMIN_WAITING" ELSE "WAITING_PAYMENT"
           l == [Absente EXCEPT !.statut = statut, !.plage = d.plage, !.payant = d.payant,
                                !.retenue = TRUE]
           etape == IF d.payant THEN "ouvrir" ELSE "confirmer"
           e == IF d.manuelle THEN Libre
                ELSE [Libre EXCEPT !.b = d.b, !.copie = "WAITING_PAYMENT", !.etape = etape]
<1>1. d.etape = "creer" /\ d \in Etats /\ d.b \in Demandes /\ Couples(p, d)
  BY AuTravail DEF CreerLeBooking, Au
<1>2. booking' = [booking EXCEPT ![d.b] = l] /\ processus' = [processus EXCEPT ![p] = e]
  BY DEF CreerLeBooking
<1>3. /\ statut \in {"ADMIN_WAITING", "WAITING_PAYMENT"}
      /\ ~d.manuelle => statut = "WAITING_PAYMENT"
  OBVIOUS
<1>4. \A q \in Processus \ {p} : processus[q].b # d.b
  BY <1>1 DEF Couples, Couple
<1>5. d.plage \in Plages \cup {{}} /\ d.payant \in BOOLEAN
  BY <1>1 DEF Etats
<1>. HIDE DEF statut
<1>6. /\ l \in Lignes /\ l.statut = statut /\ l.plage = d.plage /\ l.acceptations = 0
  BY <1>3, <1>5 DEF Absente, Lignes, Statuts
<1>7. LigneBonne(l) /\ l.statut # "absente"
  BY <1>3, <1>6 DEF LigneBonne
<1>. HIDE DEF l, d
<1>8. CASE d.manuelle
  <2>1. e = Libre
    BY <1>8
  <2>2. Couples(p, Libre)
    BY LibreBon DEF IInv, EtatBon, Couples
  <2>. HIDE DEF e
  <2>. QED BY <1>2, <1>6, <1>7, <2>1, <2>2, LibreBon DEF d
<1>9. CASE ~d.manuelle
  <2>1. e = [Libre EXCEPT !.b = d.b, !.copie = "WAITING_PAYMENT", !.etape = etape]
    BY <1>9
  <2>2. etape \in {"ouvrir", "confirmer"}
    OBVIOUS
  <2>. HIDE DEF e, etape
  <2>3. /\ e \in Etats /\ e.etape \in {"ouvrir", "confirmer"} /\ e.b = d.b
        /\ e.copie = "WAITING_PAYMENT"
    BY <1>1, <2>1, <2>2 DEF Libre, Etats, Etapes, Statuts
  <2>4. CopieBonne(e) /\ Compatible(e, l)
    BY <1>1, <1>3, <1>6, <1>9, <2>3, AucunHypothese
       DEF CopieBonne, Compatible, Gratuites, DuGestionnaire
  <2>5. Couples(p, e)
    BY <1>1, <1>4, <2>3, <2>4, SeulSurLaDemande
  <2>. QED BY <1>2, <1>6, <1>7, <2>3, <2>4, <2>5 DEF d
<1>. QED BY <1>8, <1>9

\* SSI: the new booking takes a place that was free among the bookings read, and no
\* booking that was not read wants the same slot.
LEMMA CreationAvecPlace ==
  ASSUME IInv, NEW p \in Processus, Au(p, "creer"), Serialisable(p),
         lachees' = lachees \cup SansPlace',
         NEW l \in Lignes, booking' = [booking EXCEPT ![processus[p].b] = l],
         l.statut # "absente", l.plage = processus[p].plage,
         \A q \in Processus \ {p} : processus'[q] = processus[q],
         processus'[p].etape # "creer"
  PROVE  Evolution /\ PlacesBonnes'
<1> DEFINE d == processus[p]
           b == d.b
<1>1. /\ d \in Etats /\ b \in Demandes /\ booking[b].statut = "absente" /\ Reservee(d)
  <2>1. d.etape = "creer"
    BY DEF Au
  <2>. QED BY <2>1, AuTravail DEF Compatible, IInv, PlacesBonnes
<1>2. /\ booking'[b] = l /\ \A x \in Demandes \ {b} : booking'[x] = booking[x]
  BY <1>1 DEF IInv, Types
<1>. HIDE DEF b
<1>3. Evolution
  BY <1>1, <1>2 DEF Evolution
<1>4. ASSUME NEW c PROVE Tenues(c)' \ {b} \subseteq Tenues(c) /\ Tenues(c) \in SUBSET Demandes
  <2>1. ASSUME NEW x \in Tenues(c)' \ {b} PROVE booking[x].statut # "absente"
    <3>1. x \in Demandes \ {b} /\ booking'[x].statut # "absente"
      BY DEF Tenues, Occupe
    <3>. QED BY <1>2, <3>1
  <2>2. \A x \in Tenues(c)' \ {b} : x \in Tenues(c)
    BY <1>3, <2>1, TenuesGardees
  <2>. QED BY <2>2 DEF Tenues
<1>5. ASSUME NEW c \in UNION Plages PROVE Cardinality(Tenues(c)') <= Capacite
  <2>1. CASE c \in d.plage
    <3> DEFINE S == Tenues(c) \cap d.vues
               T == Tenues(c)'
    <3>1. ASSUME NEW x \in T \ {b} PROVE x \in S
      <4>1. x \in Tenues(c) /\ x \in Demandes \ {b} /\ Occupe(x) /\ c \in booking[x].plage
        BY <1>4 DEF Tenues
      <4>2. x \in Existantes
        BY <4>1 DEF Existantes, Occupe
      <4>3. x \in d.vues
        BY <2>1, <4>1, <4>2 DEF Serialisable
      <4>. QED BY <4>1, <4>3
    <3>2. S \in SUBSET Demandes /\ Cardinality(S) < Capacite
      BY <1>1, <1>4, <2>1 DEF Reservee
    <3>3. S \cup {b} \in SUBSET Demandes /\ T \in SUBSET (S \cup {b})
      BY <1>1, <3>1, <3>2
    <3>. HIDE DEF S, T
    <3>5. Cardinality(S) \in Nat /\ Cardinality(S \cup {b}) <= Cardinality(S) + 1
      BY <1>1, <3>2, UnDePlus
    <3>6. /\ Cardinality(T) \in Nat /\ Cardinality(S \cup {b}) \in Nat
          /\ Cardinality(T) <= Cardinality(S \cup {b})
      BY <3>3, Sousensemble
    <3>7. Cardinality(T) <= Capacite
      BY <3>2, <3>5, <3>6, CapaciteHypothese
    <3>. QED BY <3>7 DEF T
  <2>2. CASE c \notin d.plage
    <3>1. b \notin Tenues(c)'
      BY <1>2, <2>2 DEF Tenues
    <3>2. Tenues(c)' \in SUBSET Tenues(c) /\ Tenues(c) \in SUBSET Demandes
      BY <1>4, <3>1
    <3>3. Cardinality(Tenues(c)) <= Capacite
      BY DEF IInv, PlacesBonnes
    <3>. QED BY <3>2, <3>3, Sousensemble, CapaciteHypothese
  <2>. QED BY <2>1, <2>2
<1>6. ASSUME NEW q \in Processus, processus'[q].etape = "creer" PROVE Reservee(processus[q])'
  <2>1. q # p /\ processus'[q] = processus[q]
    BY <1>6
  <2>2. Reservee(processus[q])
    BY <1>6, <2>1 DEF IInv, PlacesBonnes
  <2>3. processus[q].vues \subseteq Existantes' /\ b \notin processus[q].vues
    BY <1>1, <1>3, <2>2 DEF Reservee, Existantes, Evolution
  <2>4. ASSUME NEW c \in processus[q].plage
        PROVE  Cardinality(Tenues(c)' \cap processus[q].vues) < Capacite
    <3> DEFINE S == Tenues(c) \cap processus[q].vues
               T == Tenues(c)' \cap processus[q].vues
    <3>1. S \in SUBSET Demandes /\ T \in SUBSET S /\ Cardinality(S) < Capacite
      BY <1>4, <2>2, <2>3 DEF Reservee
    <3>. HIDE DEF S, T
    <3>2. Cardinality(T) < Capacite
      BY <3>1, Sousensemble, CapaciteHypothese
    <3>. QED BY <3>2 DEF T
  <2>. QED BY <2>1, <2>3, <2>4 DEF Reservee
<1>7. SansPlace' \subseteq lachees'
  OBVIOUS
<1>. QED BY <1>3, <1>5, <1>6, <1>7 DEF PlacesBonnes

\* The request is written, with a place.
LEMMA CreerLeBookingBon ==
  ASSUME IInv, NEW p \in Processus, CreerLeBooking(p), lachees' = lachees \cup SansPlace'
  PROVE  IInv'
<1> DEFINE d == processus[p]
           b == d.b
<1>1. PICK l \in Lignes, e \in Etats :
        /\ booking' = [booking EXCEPT ![b] = l]
        /\ processus' = [processus EXCEPT ![p] = e]
        /\ l.statut # "absente" /\ l.plage = d.plage /\ LigneBonne(l)
        /\ CopieBonne(e) /\ Compatible(e, l) /\ Couples(p, e)
        /\ e.etape # "libre" => e.b = b
        /\ e.etape \in {"libre", "ouvrir", "confirmer"}
  BY CreationEcrite
<1>2. /\ Au(p, "creer") /\ Serialisable(p) /\ verrou' = verrou /\ session' = session
      /\ pannes' = pannes
  BY DEF CreerLeBooking
<1>3. b \in Demandes /\ Couples(p, d) /\ d.etape = "creer"
  BY <1>2, AuTravail DEF Au
<1>4. processus'[p] = e /\ \A q \in Processus \ {p} : processus'[q] = processus[q]
  BY <1>1 DEF IInv, Types
<1>5. Compatibles(p, b, l)
  BY <1>3 DEF Couples, Couple, Compatibles
<1>6. Evolution /\ PlacesBonnes'
  BY <1>1, <1>2, <1>4, CreationAvecPlace
<1>7. VerrousBons' /\ verrou' \in [Demandes -> Processus \cup {Aucun}]
  <2>1. processus[p].etape \notin DeLaDecision /\ e.etape # "accepter"
    BY <1>1, <1>3 DEF DeLaDecision
  <2>. QED BY <1>1, <1>2, <2>1, VerrousInchanges
<1>8. /\ booking' \in [Demandes -> Lignes] /\ processus' \in [Processus -> Etats]
      /\ \A x \in Demandes : LigneBonne(booking'[x])
      /\ \A q \in Processus : EtatBon(processus[q])'
      /\ \A q, r \in Processus : q # r => Couple(processus'[q], processus'[r])
  <2>. HIDE DEF d, b
  <2>. QED BY <1>1, <1>3, <1>5, LignesEtEtats
<1>9. SessionsBonnes'
  BY <1>2, <1>6 DEF IInv, SessionsBonnes, SessionBonne, Evolution
<1>10. Types'
  BY <1>2, <1>7, <1>8 DEF IInv, Types, SansPlace, Existantes
<1>. QED BY <1>6, <1>7, <1>8, <1>9, <1>10 DEF IInv

-----------------------------------------------------------------------------
(* The theorems.                                                                *)

\* Nothing is booked at the start.
LEMMA InitBon == Init => IInv
<1>. SUFFICES ASSUME Init PROVE IInv
  OBVIOUS
<1>1. /\ booking = [b \in Demandes |-> Absente] /\ verrou = [b \in Demandes |-> Aucun]
      /\ session = [s \in Sessions |-> PasDeSession]
      /\ processus = [p \in Processus |-> Libre] /\ lachees = {} /\ pannes = 0
  BY DEF Init
<1>2. Absente \in Lignes /\ Absente.statut = "absente" /\ LigneBonne(Absente)
  BY DEF Absente, Lignes, Statuts, LigneBonne
<1>3. PasDeSession \in EtatsDeSession /\ SessionBonne(PasDeSession)
  BY DEF PasDeSession, EtatsDeSession, SessionBonne
<1>4. Types
  BY <1>1, <1>2, <1>3, LibreBon, CapaciteHypothese DEF Types
<1>5. \A p \in Processus : EtatBon(processus[p])
  BY <1>1, LibreBon DEF EtatBon
<1>6. \A p, q \in Processus : p # q => Couple(processus[p], processus[q])
  BY <1>1, LibreBon
<1>7. VerrousBons
  BY <1>1, LibreBon DEF VerrousBons
<1>8. \A b \in Demandes : LigneBonne(booking[b])
  BY <1>1, <1>2
<1>9. SessionsBonnes
  BY <1>1, <1>3 DEF SessionsBonnes
<1>10. PlacesBonnes
  <2>1. Existantes = {} /\ \A c : Tenues(c) = {}
    BY <1>1, <1>2 DEF Existantes, Tenues, Occupe
  <2>2. \A p \in Processus : processus[p].etape # "creer"
    BY <1>1, LibreBon
  <2>. QED BY <2>1, <2>2, FS_EmptySet, CapaciteHypothese DEF PlacesBonnes, SansPlace
<1>. QED BY <1>4, <1>5, <1>6, <1>7, <1>8, <1>9, <1>10 DEF IInv

\* Every step keeps the invariant.
LEMMA NextBon == IInv /\ [Next]_vars => IInv'
<1>. SUFFICES ASSUME IInv, [Next]_vars PROVE IInv'
  OBVIOUS
<1>1. CASE UNCHANGED vars
  <2>1. /\ booking' = booking /\ verrou' = verrou /\ session' = session
        /\ processus' = processus /\ lachees' = lachees /\ pannes' = pannes
    BY <1>1 DEF vars
  <2>2. booking' \in [Demandes -> Lignes] /\ SansPlace' = SansPlace
    BY <2>1 DEF IInv, Types, SansPlace, Existantes, Occupe
  <2>3. lachees' = lachees \cup SansPlace'
    BY <2>1, <2>2 DEF IInv, PlacesBonnes
  <2>. QED BY <2>1, <2>2, <2>3, SessionsInchangees, PasDuMonde
<1>2. CASE Next
  <2>1. lachees' = lachees \cup SansPlace'
    BY <1>2 DEF Next
  <2>2. ASSUME NEW p \in Processus, Recevoir(p) PROVE IInv'
    <3>1. CASE LireLesCreneaux(p)
      BY <2>1, <3>1, LireLesCreneauxBon
    <3>2. ASSUME NEW b \in Demandes, Pay(p, b) PROVE IInv'
      BY <2>1, <3>2, PayBon
    <3>3. ASSUME NEW b \in Demandes, Retirer(p, b) PROVE IInv'
      BY <2>1, <3>3, RetirerBon
    <3>4. ASSUME NEW b \in Demandes, AccepterVerrouiller(p, b) PROVE IInv'
      BY <2>1, <3>4, AccepterVerrouillerBon
    <3>5. ASSUME NEW b \in Demandes, RefuserVerrouiller(p, b) PROVE IInv'
      BY <2>1, <3>5, RefuserVerrouillerBon
    <3>6. ASSUME NEW s \in Sessions, ConstaterPaye(p, s) PROVE IInv'
      BY <2>1, <3>6, ConstaterPayeBon
    <3>. QED BY <2>2, <3>1, <3>2, <3>3, <3>4, <3>5, <3>6 DEF Recevoir
  <2>3. ASSUME NEW p \in Processus, Continuer(p) PROVE IInv'
    <3>1. CASE CreerLeBooking(p) BY <2>1, <3>1, CreerLeBookingBon
    <3>2. CASE CreneauPris(p) BY <2>1, <3>2, CreneauPrisBon
    <3>3. CASE ConfirmerGratuit(p) BY <2>1, <3>3, ConfirmerGratuitBon
    <3>4. CASE EncaisserGratuit(p) BY <2>1, <3>4, EncaisserGratuitBon
    <3>5. CASE OuvrirSession(p) BY <2>1, <3>5, OuvrirSessionBon
    <3>6. CASE EnregistrerLeBooking(p) BY <2>1, <3>6, EnregistrerLeBookingBon
    <3>7. CASE Accepter(p) BY <2>1, <3>7, AccepterBon
    <3>8. CASE FermerLesSessions(p) BY <2>1, <3>8, FermerLesSessionsBon
    <3>9. CASE AnnulerLaDemande(p) BY <2>1, <3>9, AnnulerLaDemandeBon
    <3>10. CASE AnnulerEtRembourser(p) BY <2>1, <3>10, AnnulerEtRembourserBon
    <3>11. CASE Declencher(p) BY <2>1, <3>11, DeclencherBon
    <3>12. CASE ValiderLaLigne(p) BY <2>1, <3>12, ValiderLaLigneBon
    <3>13. CASE ReglerLaVente(p) BY <2>1, <3>13, ReglerLaVenteBon
    <3>. QED BY <2>3, <3>1, <3>2, <3>3, <3>4, <3>5, <3>6, <3>7, <3>8, <3>9, <3>10,
                <3>11, <3>12, <3>13 DEF Continuer
  <2>4. ASSUME NEW p \in Processus, Interrompre(p) PROVE IInv'
    BY <2>1, <2>4, InterrompreBon
  <2>5. ASSUME NEW s \in Sessions, Payer(s) PROVE IInv'
    <3> DEFINE v == "complete"
    <3>1. /\ session[s].stripe = "open" /\ v \in {"complete", "expired"}
          /\ session' = [session EXCEPT ![s].stripe = v]
          /\ booking' = booking /\ verrou' = verrou /\ processus' = processus
          /\ pannes' = pannes
      BY <2>5 DEF Payer
    <3>. HIDE DEF v
    <3>. QED BY <2>1, <3>1, SessionSuivie
  <2>6. ASSUME NEW s \in Sessions, SessionEchue(s) PROVE IInv'
    <3> DEFINE v == "expired"
    <3>1. /\ session[s].stripe = "open" /\ v \in {"complete", "expired"}
          /\ session' = [session EXCEPT ![s].stripe = v]
          /\ booking' = booking /\ verrou' = verrou /\ processus' = processus
          /\ pannes' = pannes
      BY <2>6 DEF SessionEchue
    <3>. HIDE DEF v
    <3>. QED BY <2>1, <3>1, SessionSuivie
  <2>7. ASSUME NEW b \in Demandes, RetenueEchue(b) PROVE IInv'
    BY <2>1, <2>7, RetenueEchueBon
  <2>. QED BY <1>2, <2>2, <2>3, <2>4, <2>5, <2>6, <2>7 DEF Next, Pas
<1>. QED BY <1>1, <1>2

\* The invariant holds in every reachable state.
LEMMA Invariante == Spec => []IInv
<1>. QED BY InitBon, NextBon, PTL DEF Spec

\* The variables keep their declared shape; a locked row is that of a decision in
\* progress.
THEOREM TypeCorrect == Spec => []TypeOK
<1>1. IInv => TypeOK
  <2>. SUFFICES ASSUME IInv PROVE TypeOK
    OBVIOUS
  <2>1. \A p \in Processus : /\ processus[p].etape \in Etapes
                             /\ processus[p].copie \in Statuts
                             /\ processus[p].etape # "libre" => processus[p].b \in Demandes
    BY DEF IInv, Types, Etats, EtatBon, CopieBonne
  <2>. QED BY <2>1 DEF IInv, Types, TypeOK, VerrousBons, DeLaDecision, Lignes, EtatsDeSession
<1>. QED BY <1>1, Invariante, PTL

\* A slot is never given beyond its capacity to bookings that held it without a
\* break, however many requests are validated together (validate_new_booking).
THEOREM CapaciteRespectee == Spec => []PlaceJamaisDonneeDeuxFois
<1>1. IInv => PlaceJamaisDonneeDeuxFois
  BY DEF IInv, PlacesBonnes, Tenues, PlaceJamaisDonneeDeuxFois
<1>. QED BY <1>1, Invariante, PTL

\* A request is accepted at most once, whatever clicks and withdrawals meet
\* (admin_accept and its lock).
THEOREM AccepteeUneFois == Spec => []UneSeuleAcceptation
<1>1. IInv => UneSeuleAcceptation
  BY DEF IInv, LigneBonne, UneSeuleAcceptation
<1>. QED BY <1>1, Invariante, PTL

\* A request shown as refused never has a settled sale (annuler_la_demande_non_payee
\* against encaisser_vente_stripe).
THEOREM RefuseeNonReglee == Spec => []RefuseeSansVenteReglee
<1>1. IInv => RefuseeSansVenteReglee
  BY DEF IInv, LigneBonne, RefuseeSansVenteReglee
<1>. QED BY <1>1, Invariante, PTL

===============================================================================
