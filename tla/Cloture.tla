------------------------------- MODULE Cloture -------------------------------
(***************************************************************************)
(* The closures of a venue: the sliding day J (the Z asked at the till, or *)
(* the hourly net for the Z nobody made), then the week, month and year    *)
(* closures, while the till goes on settling sales.                        *)
(*                                                                         *)
(* A closure is made in three times: its range is fixed under the lock of  *)
(* the sales, its report is read with no lock at all, and it is recorded   *)
(* under the lock of the closures.  What keeps the report true is that a   *)
(* sale takes its hour and its number under the lock of the sales.         *)
(* Vente.tla models that settlement; here a settled sale is its hour, and  *)
(* its rank in the register is its number.                                 *)
(***************************************************************************)
EXTENDS Integers, Sequences, FiniteSets, FiniteSetsExt, Functions

CONSTANTS
  Ventes,        \* the sales of the venue
  Virements,     \* among them, those of received transfers that were never written
  DateVirement,  \* the hour of each of these transfers
  Taches,        \* the hourly sub-tasks of the venue
  Demandes,      \* the button of the till and the command generer_cloture
  Seuils,        \* the daily thresholds of the net: closing time + 2 h
  Periodes,      \* the weeks, months and years of the calendar
  Plafond,       \* week, month and year closures created in one hourly run (12)
  MaxHeure,      \* bound: the clock
  Aucun          \* stands for None

Niveaux == {"H", "M", "A"}
Processus == Taches \cup Demandes

ASSUME ClotureHypothese ==
  /\ Virements \subseteq Ventes
  /\ DateVirement \in [Virements -> Nat \ {0}]
  /\ Taches \cap Demandes = {}
  /\ Seuils \subseteq Nat /\ 0 \in Seuils
  /\ Periodes \subseteq [niveau : Niveaux, debut : Nat, fin : Nat]
  /\ Plafond \in Nat /\ MaxHeure \in Nat
  /\ Aucun \notin Nat /\ Aucun \notin Ventes

VARIABLES
  heure,         \* timezone.now()
  registre,      \* the settled sales, in the order of their numbers
  date,          \* datetime_encaissement of each sale
  verrou,        \* the sale whose transaction holds the lock of the sales
  journees,      \* the J closures, in the order of their numbers
  calendaires,   \* the H, M and A closures, in the order of their numbers
  appel,         \* what each process that closes is doing
  rattrapage,    \* the end of the last closure, as the catch-up command read it
  antidatees,    \* the sales this command settled at the hour of their transfer
  connues        \* history: how many J, and H, M or A closures, this command had read
                 \* when it took up each transfer

ventesVars == <<registre, date, verrou, antidatees, connues>>
cloturesVars == <<journees, calendaires>>
vars == <<heure, registre, date, verrou, journees, calendaires, appel, rattrapage,
          antidatees, connues>>

-----------------------------------------------------------------------------
(* Readings *)

Reglees == Range(registre)
VentesEntre(d, f) == {v \in Reglees : d <= date[v] /\ date[v] < f}
PremiereHeure == Min({date[v] : v \in Reglees})

FinDeLaDerniereJ == IF journees = <<>> THEN 0 ELSE journees[Len(journees)].fin
Perpetuel == IF journees = <<>> THEN 0 ELSE journees[Len(journees)].perpetuel

\* The current threshold of the net, and whether the net of the day a period ends on
\* has passed: periods end at midnight, the threshold of that day is the next one.
SeuilCourant == Max({s \in Seuils : s <= heure})
FiletPasse(f) == \E s \in Seuils : f <= s /\ s <= heure

ClotureesDe(n) == {c \in Range(calendaires) : c.periode.niveau = n}
DejaCloturee(q) == \E c \in Range(calendaires) : c.periode = q

\* Where the hourly task starts again for a level.
Depart(n) == IF ClotureesDe(n) # {} THEN Max({c.periode.fin : c \in ClotureesDe(n)})
             ELSE PremiereHeure

PeriodesFinies(n) ==
  IF ClotureesDe(n) = {} /\ Reglees = {} THEN {}
  ELSE {q \in Periodes : q.niveau = n /\ q.fin > Depart(n) /\ FiletPasse(q.fin)}

NiveauSuivant == [H |-> "M", M |-> "A", A |-> Aucun]

-----------------------------------------------------------------------------
(* Processes *)

Etapes == {"libre", "filet", "rapport", "enregistrer", "niveau", "periodes",
           "barriere"}

AuRepos == [etape |-> "libre", genre |-> Aucun, seuil |-> 0, debut |-> 0, fin |-> 0,
            lue |-> 0, rapport |-> {}, aFaire |-> {}, crees |-> 0]

A(p, e) == appel[p].etape = e
Devient(p, a) == appel' = [appel EXCEPT ![p] = a]

\* The rest of the hourly run: after the net, the levels; after the last one, nothing.
\* Any other call is over.
Suite(p, n, crees) ==
  IF p \in Taches /\ n # Aucun
  THEN [AuRepos EXCEPT !.etape = "niveau", !.genre = n, !.crees = crees]
  ELSE AuRepos

Init ==
  /\ heure = 1
  /\ registre = <<>>
  /\ date = [v \in Ventes |-> Aucun]
  /\ verrou = Aucun
  /\ journees = <<>>
  /\ calendaires = <<>>
  /\ appel = [p \in Processus |-> AuRepos]
  /\ rattrapage = Aucun
  /\ antidatees = {}
  /\ connues = [v \in Virements |-> [j |-> 0, c |-> 0]]

-----------------------------------------------------------------------------
(* Time and sales *)

Tic ==
  /\ heure < MaxHeure
  /\ heure' = heure + 1
  /\ UNCHANGED <<registre, date, verrou, journees, calendaires, appel, rattrapage,
                 antidatees, connues>>

\* Mutant: a settled sale is settled again.
EncaissableMutant(v) == v \notin Virements
Encaissable(v) == v \notin Reglees \cup Virements

\* encaisser_vente: the lock, then the number and the hour; the lock is held until the
\* transaction of the caller ends.
Encaisser(v) ==
  /\ Encaissable(v)
  /\ verrou = Aucun
  /\ verrou' = v
  /\ date' = [date EXCEPT ![v] = heure]
  /\ UNCHANGED <<heure, registre, journees, calendaires, appel, rattrapage, antidatees,
                 connues>>

Valider ==
  /\ verrou # Aucun
  /\ registre' = Append(registre, verrou)
  /\ verrou' = Aucun
  /\ UNCHANGED <<heure, date, journees, calendaires, appel, rattrapage, antidatees, connues>>

\* The transaction fails: the sale has neither hour nor number.
Annuler ==
  /\ verrou # Aucun
  /\ date' = [date EXCEPT ![verrou] = Aucun]
  /\ antidatees' = antidatees \ {verrou}
  /\ verrou' = Aucun
  /\ UNCHANGED <<heure, registre, journees, calendaires, appel, rattrapage, connues>>

\* The catch-up of the transfers reads the end of the last closure once, then settles
\* each transfer: at its own hour when no closure ends there or later, else now.
FinsDesClotures ==
  {journees[i].fin : i \in DOMAIN journees}
  \cup {calendaires[i].periode.fin : i \in DOMAIN calendaires}

LireLesVirements ==
  /\ Virements \ Reglees # {}
  /\ rattrapage = Aucun
  /\ rattrapage' = Max({0} \cup FinsDesClotures)
  /\ connues' = [v \in Virements |-> IF v \in Reglees THEN connues[v]
                    ELSE [j |-> Len(journees), c |-> Len(calendaires)]]
  /\ UNCHANGED <<heure, registre, date, verrou, antidatees, cloturesVars, appel>>

EncaisserVirement(v) ==
  /\ rattrapage # Aucun
  /\ v \in Virements \ Reglees
  /\ DateVirement[v] <= heure
  /\ verrou = Aucun
  /\ verrou' = v
  /\ LET ouverte == DateVirement[v] > rattrapage
     IN  /\ date' = [date EXCEPT ![v] = IF ouverte THEN DateVirement[v] ELSE heure]
         /\ antidatees' = IF ouverte THEN antidatees \cup {v} ELSE antidatees
  /\ UNCHANGED <<heure, registre, cloturesVars, appel, rattrapage, connues>>

FinDuRattrapage ==
  /\ rattrapage # Aucun
  /\ verrou \notin Virements
  /\ rattrapage' = Aucun
  /\ UNCHANGED <<heure, ventesVars, cloturesVars, appel>>

-----------------------------------------------------------------------------
(* The day closure (_creer_la_cloture_journaliere) *)

\* First time, under the lock of the sales: the range [debut, f[, unless it has no sale.
DebutDeLaJ == IF journees # <<>> THEN FinDeLaDerniereJ ELSE PremiereHeure

PlageVide(f) == Reglees = {} \/ VentesEntre(DebutDeLaJ, f) = {}

FixerLaPlage(p, f) ==
  Devient(p, [AuRepos EXCEPT !.etape = "rapport", !.genre = "J", !.debut = DebutDeLaJ,
                             !.fin = f, !.lue = Len(journees)])

\* Mutant: the range is fixed while a sale is being settled.
VerrouDesVentesMutant == TRUE
VerrouDesVentes == verrou = Aucun

\* The Z asked at the till, or by the command: it ends now.
FixerLaFin(p) ==
  /\ p \in Demandes /\ A(p, "libre")
  /\ VerrouDesVentes
  /\ ~PlageVide(heure)
  /\ FixerLaPlage(p, heure)
  /\ UNCHANGED <<heure, ventesVars, cloturesVars, rattrapage>>

\* The net: the threshold is computed, then the lock is waited for.
LireLeSeuil(p) ==
  /\ p \in Taches /\ A(p, "libre")
  /\ Devient(p, [AuRepos EXCEPT !.etape = "filet", !.seuil = SeuilCourant])
  /\ UNCHANGED <<heure, ventesVars, cloturesVars, rattrapage>>

\* The Z of the service was made after its threshold.
FiletDejaFait(s) == journees # <<>> /\ FinDeLaDerniereJ >= s

FixerLeFilet(p) ==
  /\ A(p, "filet")
  /\ VerrouDesVentes
  /\ LET s == appel[p].seuil
     IN  IF FiletDejaFait(s) \/ PlageVide(s)
         THEN Devient(p, Suite(p, "H", 0))
         ELSE FixerLaPlage(p, s)
  /\ UNCHANGED <<heure, ventesVars, cloturesVars, rattrapage>>

-----------------------------------------------------------------------------
(* The report, read without a lock: its sections are read one after the other, and   *)
(* are those of one moment as long as no sale enters the range (RapportDefinitif)    *)

LireRapport(p) ==
  /\ A(p, "rapport")
  /\ Devient(p, [appel[p] EXCEPT !.etape = "enregistrer",
                    !.rapport = VentesEntre(appel[p].debut, appel[p].fin)])
  /\ UNCHANGED <<heure, ventesVars, cloturesVars, rattrapage>>

-----------------------------------------------------------------------------
(* Recording, under the lock of the closures *)

\* Mutant: the last J is not read again.
AutreJCreeeMutant(p) == FALSE
AutreJCreee(p) == appel[p].lue # Len(journees)

\* Mutant: the J restarts the perpetual total from its own sales.
PerpetuelDeLaJMutant(S) == Cardinality(S)
PerpetuelDeLaJ(S) == Perpetuel + Cardinality(S)

EnregistrerJ(p) ==
  /\ A(p, "enregistrer") /\ appel[p].genre = "J"
  /\ journees' =
       IF AutreJCreee(p) THEN journees
       ELSE Append(journees,
              [debut |-> appel[p].debut, fin |-> appel[p].fin,
               ventes |-> appel[p].rapport,
               perpetuel |-> PerpetuelDeLaJ(appel[p].rapport)])
  /\ Devient(p, Suite(p, "H", 0))
  /\ UNCHANGED <<heure, ventesVars, calendaires, rattrapage>>

PeriodeDe(p) == [niveau |-> appel[p].genre, debut |-> appel[p].debut, fin |-> appel[p].fin]

\* Mutant: the period is not looked for again under the lock.
PeriodeCreeeMutant(p) == FALSE
PeriodeCreee(p) == DejaCloturee(PeriodeDe(p))

\* After a period, the hourly run goes on with the ones left of the level.
ApresPeriode(p, crees) ==
  IF p \in Taches
  THEN [AuRepos EXCEPT !.etape = "periodes", !.genre = appel[p].genre,
                       !.aFaire = appel[p].aFaire, !.crees = crees]
  ELSE AuRepos

EnregistrerPeriode(p) ==
  /\ A(p, "enregistrer") /\ appel[p].genre \in Niveaux
  /\ calendaires' =
       IF PeriodeCreee(p) THEN calendaires
       ELSE Append(calendaires,
              [periode |-> PeriodeDe(p), ventes |-> appel[p].rapport,
               perpetuel |-> Perpetuel, apres |-> Len(journees)])
  /\ Devient(p, ApresPeriode(p, appel[p].crees + (IF PeriodeCreee(p) THEN 0 ELSE 1)))
  /\ UNCHANGED <<heure, ventesVars, journees, rattrapage>>

-----------------------------------------------------------------------------
(* Week, month and year closures *)

Cloturable(q) ==
  /\ ~DejaCloturee(q)
  /\ FiletPasse(q.fin)
  /\ VentesEntre(q.debut, q.fin) # {}

AvecPeriode(p, q, reste) ==
  [appel[p] EXCEPT !.etape = "barriere", !.genre = q.niveau, !.debut = q.debut,
                   !.fin = q.fin, !.aFaire = reste]

\* The command generer_cloture --niveau H, M or A.
DemanderPeriode(p, q) ==
  /\ p \in Demandes /\ A(p, "libre")
  /\ Cloturable(q)
  /\ Devient(p, AvecPeriode(p, q, {}))
  /\ UNCHANGED <<heure, ventesVars, cloturesVars, rattrapage>>

LireLesPeriodes(p) ==
  /\ A(p, "niveau")
  /\ Devient(p, [appel[p] EXCEPT !.etape = "periodes",
                                 !.aFaire = PeriodesFinies(appel[p].genre)])
  /\ UNCHANGED <<heure, ventesVars, cloturesVars, rattrapage>>

\* The periods of the level in the order of the calendar, as long as the cap allows.
PeriodeSuivante(p) ==
  /\ A(p, "periodes")
  /\ appel[p].crees < Plafond
  /\ \E q \in appel[p].aFaire :
       /\ \A r \in appel[p].aFaire : q.debut <= r.debut
       /\ LET reste == appel[p].aFaire \ {q}
          IN  IF Cloturable(q) THEN Devient(p, AvecPeriode(p, q, reste))
              ELSE Devient(p, [appel[p] EXCEPT !.aFaire = reste])
  /\ UNCHANGED <<heure, ventesVars, cloturesVars, rattrapage>>

FinDuNiveau(p) ==
  /\ A(p, "periodes")
  /\ appel[p].aFaire = {} \/ appel[p].crees >= Plafond
  /\ Devient(p, IF appel[p].crees >= Plafond THEN AuRepos
                ELSE Suite(p, NiveauSuivant[appel[p].genre], appel[p].crees))
  /\ UNCHANGED <<heure, ventesVars, cloturesVars, rattrapage>>

\* The barrier: the lock of the sales is taken and given back.
\* Mutant: no barrier.
BarriereMutant == TRUE
Barriere == verrou = Aucun

PasserLaBarriere(p) ==
  /\ A(p, "barriere")
  /\ Barriere
  /\ Devient(p, [appel[p] EXCEPT !.etape = "rapport"])
  /\ UNCHANGED <<heure, ventesVars, cloturesVars, rattrapage>>

\* A process dies, or its report fails: nothing of its closure is kept.  One that dies
\* before its range is fixed, or between two periods, has nothing to lose: the next run
\* reads all of it again.
Interrompre(p) ==
  /\ A(p, "rapport") \/ A(p, "enregistrer")
  /\ Devient(p, AuRepos)
  /\ UNCHANGED <<heure, ventesVars, cloturesVars, rattrapage>>

-----------------------------------------------------------------------------

VenteSuivante ==
  \/ \E v \in Ventes : Encaisser(v)
  \/ Valider
  \/ Annuler
  \/ LireLesVirements
  \/ \E v \in Virements : EncaisserVirement(v)
  \/ FinDuRattrapage

Filet(p) ==
  \/ LireLeSeuil(p)
  \/ FixerLeFilet(p)
  \/ LireLesPeriodes(p)
  \/ PeriodeSuivante(p)
  \/ FinDuNiveau(p)

Etape(p) ==
  \/ LireRapport(p)
  \/ EnregistrerJ(p)
  \/ EnregistrerPeriode(p)
  \/ PasserLaBarriere(p)

Next ==
  \/ Tic
  \/ VenteSuivante
  \/ \E p \in Demandes : FixerLaFin(p) \/ \E q \in Periodes : DemanderPeriode(p, q)
  \/ \E p \in Taches : Filet(p)
  \/ \E p \in Processus : Etape(p) \/ Interrompre(p)

Spec == Init /\ [][Next]_vars

-----------------------------------------------------------------------------
(* Properties *)

JDe(v) == {i \in DOMAIN journees : v \in journees[i].ventes}

\* Shapes of the closures and of the calls.
TypeOK ==
  /\ heure \in Nat
  /\ registre \in Seq(Ventes) /\ IsInjective(registre)
  /\ date \in [Ventes -> Nat \cup {Aucun}]
  /\ verrou \in Ventes \cup {Aucun}
  /\ rattrapage \in Nat \cup {Aucun}
  /\ antidatees \subseteq Virements
  /\ connues \in [Virements -> [j : Nat, c : Nat]]
  /\ journees \in Seq([debut : Nat, fin : Nat, ventes : SUBSET Ventes, perpetuel : Nat])
  /\ calendaires \in Seq([periode : Periodes, ventes : SUBSET Ventes,
                          perpetuel : Nat, apres : Nat])
  /\ appel \in [Processus ->
        [etape : Etapes, genre : Niveaux \cup {"J", Aucun}, seuil : Nat, debut : Nat,
         fin : Nat, lue : Nat, rapport : SUBSET Ventes,
         aFaire : SUBSET Periodes, crees : Nat]]

\* Partition: a settled sale whose hour is before the end of the last J is in one J
\* and only one, the one whose range holds its hour; a sale after it is in none
\* (_creer_la_cloture_journaliere, its three times).  The catch-up may leave a transfer
\* out of every J, only if a J was recorded after the command had read the last one.
ChaqueVenteDansUneJ ==
  \A v \in Reglees :
    \/ \E i \in DOMAIN journees :
         /\ JDe(v) = {i}
         /\ journees[i].debut <= date[v] /\ date[v] < journees[i].fin
    \/ /\ JDe(v) = {}
       /\ \/ date[v] >= FinDeLaDerniereJ
          \/ v \in antidatees /\ connues[v].j < Len(journees)

\* A recorded closure says what the register will always say of its range, though its
\* report was read without a lock: each of its sales is and stays a sale of the range,
\* and a sale of the range that it lacks is a transfer that the catch-up has dated
\* against the closures recorded before this one.
Definitif(S, d, f, tardives) ==
  S \subseteq VentesEntre(d, f) /\ VentesEntre(d, f) \ S \subseteq tardives
RapportDefinitif ==
  /\ \A i \in DOMAIN journees :
       Definitif(journees[i].ventes, journees[i].debut, journees[i].fin,
                 {v \in antidatees : connues[v].j < i})
  /\ \A i \in DOMAIN calendaires :
       Definitif(calendaires[i].ventes, calendaires[i].periode.debut,
                 calendaires[i].periode.fin, {v \in antidatees : connues[v].c < i})

\* What verify_clotures checks of the J (verifier_continuite_des_journees): each starts
\* at the end of the one before, and its first sale follows the last sale of the one
\* before.  The numbers follow as long as no late transfer takes an earlier hour.
Numero(v) == CHOOSE n \in DOMAIN registre : registre[n] = v
JourneesContinues ==
  \A i \in 1..(Len(journees) - 1) :
    LET avant == journees[i]
        apres == journees[i + 1]
    IN  /\ apres.debut = avant.fin
        /\ antidatees = {} =>
             Min({Numero(v) : v \in apres.ventes}) = Max({Numero(v) : v \in avant.ventes}) + 1

\* The perpetual total of a J counts every sale of the J up to it, once; that of a period
\* is the one of the last J recorded before it (_enregistrer_la_cloture).
PerpetuelJuste ==
  /\ \A i \in DOMAIN journees :
       journees[i].perpetuel = Cardinality(UNION {journees[k].ventes : k \in 1..i})
  /\ \A i \in DOMAIN calendaires :
       LET k == calendaires[i].apres
       IN  calendaires[i].perpetuel = IF k = 0 THEN 0 ELSE journees[k].perpetuel

\* A week, a month or a year is closed once, whoever asks for it
\* (_creer_la_cloture_d_une_periode reads it twice).
PeriodeClotureeUneFois ==
  \A i, k \in DOMAIN calendaires :
    calendaires[i].periode = calendaires[k].periode => i = k
=============================================================================
