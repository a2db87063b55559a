----------------------------- MODULE ClotureProofs -----------------------------
(* Theorems of Cloture, for any number of sales, processes, thresholds and      *)
(* periods: the types and the five properties of the closures.                  *)
(*                                                                              *)
(* The inductive invariant IInv says, besides the types: the settled sales have *)
(* their date and the one being settled is apart (VentesBonnes); the dates      *)
(* follow the numbers, but for the transfers entered late (DansLOrdre); the end *)
(* of every closure is past, no sale to come is before it, and its report holds *)
(* every sale of its range (CloturesBonnes); the range and the report of a      *)
(* closure in progress are as right as its step requires (AppelsBons); the      *)
(* perpetual totals are the sums they claim (TotauxBons).  The lemma Evolution  *)
(* says once what any step may do to the sales, and each action is then a short *)
(* case: it is because the sale's lock dates it after every closure written     *)
(* that a report read before is still complete.  Connus adds what the catch-up  *)
(* of the transfers had read when it dated each of them: only a closure         *)
(* recorded since may lack one of its sales.                                    *)
EXTENDS Cloture, FiniteSetTheorems, WellFoundedInduction, TLAPS

-----------------------------------------------------------------------------
(* Least and greatest numbers of a set.                                         *)

\* A set of numbers that is not empty has its Min.
LEMMA PlusPetit ==
  ASSUME NEW S \in SUBSET Nat, S # {}
  PROVE  Min(S) \in S /\ \A x \in S : Min(S) <= x
<1>1. IsWellFoundedOn(OpToRel(<, Nat), Nat)
  BY NatLessThanWellFounded
<1>2. PICK m \in S : \A y \in S : ~(<<y, m>> \in OpToRel(<, Nat))
  BY <1>1, WFMin
<1>3. \A y \in S : ~(y < m)
  BY <1>2 DEF OpToRel
<1>4. m \in S /\ \A y \in S : m <= y
  BY <1>3
<1>. QED BY <1>4 DEF Min

\* One that has a bound has its Max: the mirror image of the least one.
LEMMA PlusGrand ==
  ASSUME NEW S \in SUBSET Nat, S # {}, NEW b \in Nat, \A x \in S : x <= b
  PROVE  Max(S) \in S /\ \A x \in S : x <= Max(S)
<1>. DEFINE T == {b - x : x \in S}
<1>0. ASSUME NEW x \in S PROVE b - x \in Nat
  <2>1. x \in Nat /\ x <= b
    OBVIOUS
  <2>. QED BY <2>1
<1>1. T \in SUBSET Nat /\ T # {}
  BY <1>0
<1>2. PICK m \in T : \A y \in T : m <= y
  BY <1>1, PlusPetit
<1>3. PICK x \in S : m = b - x
  BY <1>2
<1>4. \A y \in S : b - y \in T
  OBVIOUS
<1>5. \A y \in S : b - x <= b - y
  BY <1>2, <1>3, <1>4
<1>6. x \in S /\ \A y \in S : x >= y
  BY <1>5
<1>7. Max(S) \in S /\ \A y \in S : Max(S) >= y
  BY <1>6 DEF Max
<1>. QED BY <1>7

-----------------------------------------------------------------------------
(* The invariant.                                                               *)

Journees == [debut : Nat, fin : Nat, ventes : SUBSET Ventes, perpetuel : Nat]
Calendaires == [periode : Periodes, ventes : SUBSET Ventes, perpetuel : Nat, apres : Nat]
Appels ==
  [etape : Etapes, genre : Niveaux \cup {"J", Aucun}, seuil : Nat, debut : Nat,
   fin : Nat, lue : Nat, rapport : SUBSET Ventes, aFaire : SUBSET Periodes, crees : Nat]

TypesVentes ==
  /\ heure \in Nat
  /\ registre \in Seq(Ventes) /\ IsInjective(registre)
  /\ date \in [Ventes -> Nat \cup {Aucun}]
  /\ verrou \in Ventes \cup {Aucun}
  /\ antidatees \in SUBSET Virements
TypesClotures ==
  /\ journees \in Seq(Journees) /\ calendaires \in Seq(Calendaires)
  /\ rattrapage \in Nat \cup {Aucun}
TypesAppels == appel \in [Processus -> Appels]

\* The sales that have an hour: the settled ones, and the one being settled.
Datee(v) == date[v] \in Nat /\ date[v] <= heure
VentesBonnes ==
  /\ verrou \notin Reglees
  /\ \A v \in Reglees : Datee(v)
  /\ verrou # Aucun => Datee(verrou)
  /\ antidatees \subseteq Reglees \cup {verrou}

\* The late transfers apart, the hours follow the numbers.
APlace(v) == v # Aucun /\ v \notin antidatees
DansLOrdre ==
  /\ \A i, k \in DOMAIN registre :
       i < k /\ APlace(registre[k]) => date[registre[i]] <= date[registre[k]]
  /\ APlace(verrou) => \A v \in Reglees : date[v] <= date[verrou]

\* No sale to come, late transfers apart, is of an hour before f.
Passee(f) == f <= heure /\ (APlace(verrou) => f <= date[verrou])

\* S is what the register says of [d, f[, late transfers apart.
Complet(S, d, f) ==
  /\ S \subseteq VentesEntre(d, f)
  /\ VentesEntre(d, f) \ antidatees \subseteq S
AvantTout(d) == \A v \in Reglees \ antidatees : d <= date[v]

JourneeBonne(j) ==
  /\ j.debut < j.fin /\ j.ventes # {}
  /\ Passee(j.fin) /\ Complet(j.ventes, j.debut, j.fin)
PeriodeBonne(c) ==
  Passee(c.periode.fin) /\ Complet(c.ventes, c.periode.debut, c.periode.fin)

\* The J follow one another from before the first sale.
Suivies ==
  /\ journees # <<>> => AvantTout(journees[1].debut)
  /\ \A i \in 1..(Len(journees) - 1) : journees[i + 1].debut = journees[i].fin
  /\ \A i, k \in DOMAIN journees : i < k => journees[i].fin <= journees[k].debut

\* The range of a J being made starts where the J it has read ends.
PlageBonne(a) ==
  /\ a.lue <= Len(journees)
  /\ a.lue = 0 => AvantTout(a.debut)
  /\ a.lue > 0 => a.debut = journees[a.lue].fin
  /\ VentesEntre(a.debut, a.fin) # {}

EnPeriode(a) == [niveau |-> a.genre, debut |-> a.debut, fin |-> a.fin] \in Periodes
AppelBon(a) ==
  /\ a.etape = "filet" => a.seuil <= heure
  /\ a.etape \in {"niveau", "periodes", "barriere"} => a.genre \in Niveaux
  /\ a.etape = "barriere" => a.fin <= heure
  /\ a.etape \in {"barriere", "rapport", "enregistrer"} /\ a.genre \in Niveaux => EnPeriode(a)
  /\ a.etape \in {"rapport", "enregistrer"} => Passee(a.fin)
  /\ a.etape \in {"rapport", "enregistrer"} /\ a.genre = "J" => PlageBonne(a)
  /\ a.etape = "enregistrer" => Complet(a.rapport, a.debut, a.fin)
  /\ a.etape = "enregistrer" /\ a.genre = "J" => a.rapport # {}

CloturesBonnes ==
  /\ \A j \in Range(journees) : JourneeBonne(j)
  /\ \A c \in Range(calendaires) : PeriodeBonne(c)
  /\ Suivies
AppelsBons == \A a \in Range(appel) : AppelBon(a)
TotauxBons ==
  /\ PerpetuelJuste
  /\ \A i \in DOMAIN calendaires : calendaires[i].apres <= Len(journees)

Types == TypesVentes /\ TypesClotures /\ TypesAppels
IInv ==
  /\ Types
  /\ VentesBonnes /\ DansLOrdre
  /\ CloturesBonnes /\ AppelsBons
  /\ TotauxBons /\ PeriodeClotureeUneFois

-----------------------------------------------------------------------------
(* Sequences and functions.                                                     *)

\* What Append changes in a list, and what it keeps.
LEMMA AuBout ==
  ASSUME NEW S, NEW s \in Seq(S), NEW x
  PROVE  /\ Len(Append(s, x)) = Len(s) + 1
         /\ DOMAIN Append(s, x) = 1..(Len(s) + 1) /\ DOMAIN s = 1..Len(s)
         /\ \A i \in 1..Len(s) : Append(s, x)[i] = s[i]
         /\ Append(s, x)[Len(s) + 1] = x
         /\ Range(Append(s, x)) = Range(s) \cup {x}
         /\ Range(s) \subseteq S
<1>1. /\ Len(Append(s, x)) = Len(s) + 1
      /\ DOMAIN Append(s, x) = 1..(Len(s) + 1) /\ DOMAIN s = 1..Len(s)
      /\ \A i \in 1..Len(s) : Append(s, x)[i] = s[i]
      /\ Append(s, x)[Len(s) + 1] = x
      /\ Len(s) \in Nat
  OBVIOUS
<1>2. \A i : i \in 1..(Len(s) + 1) <=> i \in 1..Len(s) \/ i = Len(s) + 1
  BY <1>1
<1>3. Range(Append(s, x)) = Range(s) \cup {x}
  BY <1>1, <1>2 DEF Range
<1>4. Range(s) \subseteq S
  BY <1>1 DEF Range
<1>. QED BY <1>1, <1>3, <1>4

\* Changing one value of a function adds at most that value to its image.
LEMMA ImageApres ==
  ASSUME NEW f, NEW p \in DOMAIN f, NEW x
  PROVE  Range([f EXCEPT ![p] = x]) \subseteq Range(f) \cup {x}
BY DEF Range

\* The settled sales are finitely many.
LEMMA RegleesFinies ==
  ASSUME TypesVentes
  PROVE  Reglees \subseteq Ventes /\ IsFiniteSet(Reglees)
<1>1. registre \in [1..Len(registre) -> Ventes] /\ Len(registre) \in Nat
  BY DEF TypesVentes
<1>2. Reglees \subseteq Ventes
  BY <1>1 DEF Reglees, Range
<1>3. registre \in Surjection(1..Len(registre), Reglees)
  BY <1>1 DEF Surjection, Reglees, Range
<1>4. IsFiniteSet(1..Len(registre))
  BY <1>1, FS_Interval
<1>. QED BY <1>2, <1>3, <1>4, FS_Surjection

-----------------------------------------------------------------------------
(* What a step does to the sales.                                               *)

\* A sale keeps its hour and its kind.
Garde(v) == date'[v] = date[v] /\ (v \in antidatees' <=> v \in antidatees)
Evolution ==
  /\ heure <= heure'
  /\ Reglees \subseteq Reglees'
  /\ \A v \in Reglees : Garde(v)
  /\ \A v \in Reglees' \ Reglees : v = verrou /\ v # Aucun /\ Garde(v)
  /\ \A f \in Nat : Passee(f) => Passee(f)'

VentesApres == TypesVentes' /\ VentesBonnes' /\ DansLOrdre' /\ Evolution

\* A step that leaves the sales alone.
LEMMA SansVente ==
  ASSUME Types, VentesBonnes, DansLOrdre,
         heure' = heure, registre' = registre, date' = date, verrou' = verrou,
         antidatees' = antidatees
  PROVE  VentesApres
<1>1. Reglees' = Reglees
  BY DEF Reglees
<1>2. TypesVentes'
  BY DEF Types, TypesVentes
<1>3. VentesBonnes' /\ DansLOrdre'
  BY <1>1 DEF VentesBonnes, DansLOrdre, Datee, APlace
<1>4. Evolution
  BY <1>1 DEF Evolution, Garde, Passee, APlace, Types, TypesVentes
<1>. QED BY <1>2, <1>3, <1>4 DEF VentesApres

\* The clock moves: what was over stays over.
LEMMA TicVentes ==
  ASSUME Types, VentesBonnes, DansLOrdre, Tic
  PROVE  VentesApres
<1>1. /\ heure' = heure + 1 /\ registre' = registre /\ date' = date
      /\ verrou' = verrou /\ antidatees' = antidatees /\ Reglees' = Reglees
  BY DEF Tic, Reglees
<1>2. TypesVentes' /\ heure \in Nat
  BY <1>1 DEF Types, TypesVentes
<1>3. VentesBonnes' /\ DansLOrdre'
  BY <1>1, <1>2 DEF VentesBonnes, DansLOrdre, Datee, APlace
<1>4. Evolution
  BY <1>1, <1>2 DEF Evolution, Garde, Passee, APlace
<1>. QED BY <1>2, <1>3, <1>4 DEF VentesApres

\* A sale takes the lock and its hour, now or, late, at that of its transfer.
LEMMA VerrouVentes ==
  ASSUME Types, VentesBonnes, DansLOrdre, verrou = Aucun,
         NEW v \in Ventes, v \notin Reglees, NEW h \in Nat, h <= heure,
         heure' = heure, registre' = registre, verrou' = v,
         date' = [date EXCEPT ![v] = h],
         antidatees' \in SUBSET Virements,
         \/ h = heure /\ antidatees' = antidatees
         \/ antidatees' = antidatees \cup {v}
  PROVE  VentesApres
<1>1. Reglees' = Reglees /\ Reglees \subseteq Ventes
  BY RegleesFinies DEF Reglees, Types
<1>2. v # Aucun /\ v \notin antidatees /\ Aucun \notin antidatees
  BY ClotureHypothese DEF VentesBonnes, Types, TypesVentes
<1>3. date'[v] = h /\ \A x \in Reglees : date'[x] = date[x]
  BY <1>1 DEF Types, TypesVentes
<1>4. TypesVentes'
  BY DEF Types, TypesVentes
<1>5. VentesBonnes'
  BY <1>1, <1>2, <1>3 DEF VentesBonnes, Datee
<1>6. \A i \in DOMAIN registre : registre[i] \in Reglees
  BY DEF Reglees, Range
<1>7. DansLOrdre'
  <2>1. \A i, k \in DOMAIN registre :
          i < k /\ APlace(registre[k])' => date'[registre[i]] <= date'[registre[k]]
    BY <1>2, <1>3, <1>6 DEF DansLOrdre, APlace
  <2>2. APlace(verrou)' => h = heure
    BY DEF APlace
  <2>3. \A x \in Reglees : date[x] <= heure
    BY DEF VentesBonnes, Datee
  <2>. QED BY <1>1, <1>3, <2>1, <2>2, <2>3 DEF DansLOrdre, APlace
<1>8. Evolution
  <2>1. \A f \in Nat : Passee(f) => Passee(f)'
    <3>1. APlace(verrou)' => h = heure
      BY DEF APlace
    <3>. QED BY <3>1, <1>3 DEF Passee
  <2>2. \A x \in Reglees : Garde(x)
    BY <1>3 DEF Garde
  <2>. QED BY <1>1, <2>1, <2>2 DEF Evolution, Types, TypesVentes
<1>. QED BY <1>4, <1>5, <1>7, <1>8 DEF VentesApres

\* A sale is settled now.
LEMMA EncaisserVentes ==
  ASSUME Types, VentesBonnes, DansLOrdre, NEW v \in Ventes, Encaisser(v)
  PROVE  VentesApres
<1>1. /\ v \notin Reglees /\ verrou = Aucun /\ verrou' = v /\ heure' = heure
      /\ registre' = registre /\ date' = [date EXCEPT ![v] = heure]
      /\ antidatees' = antidatees
  BY DEF Encaisser, Encaissable
<1>2. heure \in Nat /\ heure <= heure /\ antidatees' \in SUBSET Virements
  BY <1>1 DEF Types, TypesVentes
<1>. QED BY <1>1, <1>2, VerrouVentes

\* A transfer is dated by its day when no catch-up has gone past it, else by now.
LEMMA VirementVentes ==
  ASSUME Types, VentesBonnes, DansLOrdre, NEW v \in Virements, EncaisserVirement(v)
  PROVE  VentesApres
<1>. DEFINE ouverte == DateVirement[v] > rattrapage
            h == IF ouverte THEN DateVirement[v] ELSE heure
<1>1. v \in Ventes /\ DateVirement[v] \in Nat /\ heure \in Nat
  BY ClotureHypothese DEF Types, TypesVentes
<1>2. /\ v \notin Reglees /\ DateVirement[v] <= heure /\ verrou = Aucun /\ verrou' = v
      /\ heure' = heure /\ registre' = registre
      /\ date' = [date EXCEPT ![v] = h]
      /\ antidatees' = IF ouverte THEN antidatees \cup {v} ELSE antidatees
  BY DEF EncaisserVirement
<1>3. h \in Nat /\ h <= heure
  BY <1>1, <1>2
<1>4. antidatees' \in SUBSET Virements
  BY <1>2 DEF Types, TypesVentes
<1>5. \/ h = heure /\ antidatees' = antidatees
      \/ antidatees' = antidatees \cup {v}
  BY <1>2
<1>. HIDE DEF h
<1>. QED BY <1>1, <1>2, <1>3, <1>4, <1>5, VerrouVentes

\* A sale rolls back: its hour and its place among the late ones go with it.
LEMMA AnnulerVentes ==
  ASSUME Types, VentesBonnes, DansLOrdre, Annuler
  PROVE  VentesApres
<1>1. /\ verrou # Aucun /\ date' = [date EXCEPT ![verrou] = Aucun] /\ verrou' = Aucun
      /\ antidatees' = antidatees \ {verrou} /\ heure' = heure /\ registre' = registre
  BY DEF Annuler
<1>2. Reglees' = Reglees /\ Reglees \subseteq Ventes
  BY <1>1, RegleesFinies DEF Reglees, Types
<1>3. \A x \in Reglees : date'[x] = date[x] /\ (x \in antidatees' <=> x \in antidatees)
  BY <1>1, <1>2 DEF Types, TypesVentes, VentesBonnes
<1>4. TypesVentes'
  BY <1>1 DEF Types, TypesVentes
<1>5. VentesBonnes'
  BY <1>1, <1>2, <1>3, ClotureHypothese DEF VentesBonnes, Datee
<1>6. \A i \in DOMAIN registre : registre[i] \in Reglees
  BY DEF Reglees, Range
<1>7. DansLOrdre'
  BY <1>1, <1>2, <1>3, <1>6 DEF DansLOrdre, APlace
<1>8. Evolution
  BY <1>1, <1>2, <1>3 DEF Evolution, Garde, Passee, APlace, Types, TypesVentes
<1>. QED BY <1>4, <1>5, <1>7, <1>8 DEF VentesApres

\* A sale commits with the next number and joins the settled ones.
LEMMA ValiderVentes ==
  ASSUME Types, VentesBonnes, DansLOrdre, Valider
  PROVE  VentesApres
<1>1. /\ verrou # Aucun /\ verrou' = Aucun /\ registre' = Append(registre, verrou)
      /\ heure' = heure /\ date' = date /\ antidatees' = antidatees
  BY DEF Valider
<1>2. /\ registre \in Seq(Ventes) /\ verrou \in Ventes /\ IsInjective(registre)
      /\ Len(registre) \in Nat /\ heure \in Nat
  BY <1>1 DEF Types, TypesVentes
<1>3. /\ Reglees' = Reglees \cup {verrou} /\ Reglees \subseteq Ventes
      /\ DOMAIN registre' = 1..(Len(registre) + 1) /\ DOMAIN registre = 1..Len(registre)
      /\ \A i \in 1..Len(registre) : registre'[i] = registre[i]
      /\ registre'[Len(registre) + 1] = verrou
  BY <1>1, <1>2, AuBout DEF Reglees
<1>4. \A i \in DOMAIN registre' :
        \/ i \in DOMAIN registre /\ registre'[i] = registre[i]
        \/ i = Len(registre) + 1 /\ registre'[i] = verrou
  BY <1>2, <1>3
<1>5. \A i \in DOMAIN registre : registre[i] \in Reglees
  BY DEF Reglees, Range
<1>6. TypesVentes'
  <2>1. IsInjective(registre')
    BY <1>2, <1>4, <1>5 DEF IsInjective, VentesBonnes
  <2>2. registre' \in Seq(Ventes)
    BY <1>1, <1>2
  <2>. QED BY <1>1, <2>1, <2>2, ClotureHypothese DEF Types, TypesVentes
<1>7. VentesBonnes'
  BY <1>1, <1>2, <1>3, ClotureHypothese DEF VentesBonnes, Datee
<1>8. DansLOrdre'
  <2>1. ASSUME NEW i \in DOMAIN registre', NEW k \in DOMAIN registre',
               i < k, APlace(registre[k])'
        PROVE  date'[registre'[i]] <= date'[registre'[k]]
    <3>1. i \in DOMAIN registre /\ registre'[i] = registre[i]
      BY <2>1, <1>2, <1>3
    <3>2. CASE k \in DOMAIN registre
      BY <1>1, <1>3, <2>1, <3>1, <3>2 DEF DansLOrdre, APlace
    <3>3. CASE k = Len(registre) + 1
      BY <1>1, <1>3, <1>5, <2>1, <3>1, <3>3 DEF DansLOrdre, APlace
    <3>. QED BY <1>4, <3>2, <3>3
  <2>. QED BY <1>1, <2>1 DEF DansLOrdre, APlace
<1>9. Evolution
  BY <1>1, <1>2, <1>3 DEF Evolution, Garde, Passee, APlace
<1>. QED BY <1>6, <1>7, <1>8, <1>9 DEF VentesApres

-----------------------------------------------------------------------------
(* What stays true of the closures when the sales go on.                        *)

\* A report stays complete: no sale enters a range that is over.
LEMMA CompletReste ==
  ASSUME Types, VentesBonnes, VentesApres, NEW S, NEW d \in Nat, NEW f \in Nat,
         Passee(f), Complet(S, d, f)
  PROVE  Complet(S, d, f)'
<1>1. VentesEntre(d, f) \subseteq VentesEntre(d, f)'
  BY DEF VentesEntre, VentesApres, Evolution, Garde
<1>2. ASSUME NEW v \in VentesEntre(d, f)', v \notin antidatees'
      PROVE  v \in VentesEntre(d, f) \ antidatees
  <2>1. v \in Reglees' /\ d <= date'[v] /\ date'[v] < f
    BY DEF VentesEntre
  <2>2. CASE v \in Reglees
    BY <1>2, <2>1, <2>2 DEF VentesEntre, VentesApres, Evolution, Garde
  <2>3. CASE v \notin Reglees
    <3>1. v = verrou /\ v # Aucun /\ date[v] = date'[v] /\ v \notin antidatees
      BY <1>2, <2>1, <2>3 DEF VentesApres, Evolution, Garde
    <3>2. f <= date[v] /\ date[v] \in Nat
      BY <3>1 DEF Passee, APlace, VentesBonnes, Datee
    <3>. QED BY <2>1, <3>1, <3>2
  <2>. QED BY <2>2, <2>3
<1>. QED BY <1>1, <1>2 DEF Complet

\* No new sale gets an hour before the first closure.
LEMMA AvantToutReste ==
  ASSUME Types, VentesBonnes, VentesApres, NEW d \in Nat, NEW f \in Nat, d < f,
         Passee(f), AvantTout(d)
  PROVE  AvantTout(d)'
<1>1. ASSUME NEW v \in Reglees' \ antidatees'
      PROVE  d <= date'[v]
  <2>1. CASE v \in Reglees
    BY <2>1 DEF VentesApres, Evolution, Garde, AvantTout
  <2>2. CASE v \notin Reglees
    <3>1. v = verrou /\ v # Aucun /\ date[v] = date'[v] /\ v \notin antidatees
      BY <1>1, <2>2 DEF VentesApres, Evolution, Garde
    <3>2. f <= date[v] /\ date[v] \in Nat
      BY <3>1 DEF Passee, APlace, VentesBonnes, Datee
    <3>. QED BY <3>1, <3>2
  <2>. QED BY <2>1, <2>2
<1>. QED BY <1>1 DEF AvantTout

\* A recorded J stays good whatever the sales do.
LEMMA JourneeReste ==
  ASSUME Types, VentesBonnes, VentesApres, NEW j \in Journees, JourneeBonne(j)
  PROVE  JourneeBonne(j)'
<1>1. j.debut \in Nat /\ j.fin \in Nat
  BY DEF Journees
<1>2. j.debut < j.fin /\ j.ventes # {} /\ Passee(j.fin) /\ Complet(j.ventes, j.debut, j.fin)
  BY DEF JourneeBonne
<1>3. Complet(j.ventes, j.debut, j.fin)'
  BY <1>1, <1>2, CompletReste
<1>4. Passee(j.fin)'
  BY <1>1, <1>2 DEF VentesApres, Evolution
<1>. QED BY <1>2, <1>3, <1>4 DEF JourneeBonne

\* So does the closure of a period.
LEMMA PeriodeReste ==
  ASSUME Types, VentesBonnes, VentesApres, NEW c \in Calendaires, PeriodeBonne(c)
  PROVE  PeriodeBonne(c)'
<1>1. c.periode.debut \in Nat /\ c.periode.fin \in Nat
  BY ClotureHypothese DEF Calendaires
<1>2. Passee(c.periode.fin) /\ Complet(c.ventes, c.periode.debut, c.periode.fin)
  BY DEF PeriodeBonne
<1>3. Complet(c.ventes, c.periode.debut, c.periode.fin)'
  BY <1>1, <1>2, CompletReste
<1>4. Passee(c.periode.fin)'
  BY <1>1, <1>2 DEF VentesApres, Evolution
<1>. QED BY <1>3, <1>4 DEF PeriodeBonne

\* The J recorded stay, a new one comes after them.
Prolonge ==
  /\ Len(journees) <= Len(journees')
  /\ \A i \in 1..Len(journees) : journees'[i] = journees[i]

\* And the range a process has fixed.
LEMMA AppelReste ==
  ASSUME Types, VentesBonnes, VentesApres, TypesClotures', Prolonge,
         NEW a \in Appels, AppelBon(a)
  PROVE  AppelBon(a)'
<1>1. /\ a.seuil \in Nat /\ a.debut \in Nat /\ a.fin \in Nat /\ a.lue \in Nat
      /\ heure \in Nat /\ heure' \in Nat /\ heure <= heure'
      /\ Len(journees) \in Nat /\ Len(journees') \in Nat
  BY DEF Appels, Types, TypesVentes, TypesClotures, VentesApres, Evolution
<1>2. \A f \in Nat : Passee(f) => Passee(f)'
  BY DEF VentesApres, Evolution
<1>3. /\ a.etape = "filet" => a.seuil <= heure'
      /\ a.etape = "barriere" => a.fin <= heure'
      /\ a.etape \in {"rapport", "enregistrer"} => Passee(a.fin)'
  BY <1>1, <1>2 DEF AppelBon
<1>4. ASSUME a.etape = "enregistrer" PROVE Complet(a.rapport, a.debut, a.fin)'
  <2>1. Passee(a.fin) /\ Complet(a.rapport, a.debut, a.fin)
    BY <1>4 DEF AppelBon
  <2>. QED BY <1>1, <2>1, CompletReste
<1>5. ASSUME a.etape \in {"rapport", "enregistrer"}, a.genre = "J" PROVE PlageBonne(a)'
  <2>1. Passee(a.fin) /\ PlageBonne(a)
    BY <1>5 DEF AppelBon
  <2>2. PICK v \in VentesEntre(a.debut, a.fin) : TRUE
    BY <2>1 DEF PlageBonne
  <2>3. v \in Reglees /\ date[v] \in Nat /\ a.debut <= date[v] /\ date[v] < a.fin
    BY <2>2 DEF VentesEntre, VentesBonnes, Datee
  <2>4. a.lue = 0 => AvantTout(a.debut)'
    BY <1>1, <2>1, <2>3, AvantToutReste DEF PlageBonne
  <2>5. v \in VentesEntre(a.debut, a.fin)'
    BY <2>3 DEF VentesEntre, VentesApres, Evolution, Garde
  <2>6. a.lue <= Len(journees') /\ (a.lue > 0 => a.debut = journees'[a.lue].fin)
    BY <1>1, <2>1 DEF PlageBonne, Prolonge
  <2>. QED BY <2>4, <2>5, <2>6 DEF PlageBonne
<1>. QED BY <1>3, <1>4, <1>5 DEF AppelBon, EnPeriode

\* A step that records no closure keeps all that is known of them.
LEMMA CloturesRestent ==
  ASSUME IInv, VentesApres, journees' = journees, calendaires' = calendaires
  PROVE  CloturesBonnes' /\ TotauxBons' /\ PeriodeClotureeUneFois'
<1>1. Types /\ VentesBonnes /\ CloturesBonnes /\ TotauxBons /\ PeriodeClotureeUneFois
  BY DEF IInv
<1>2. Range(journees) \subseteq Journees /\ Range(calendaires) \subseteq Calendaires
  BY <1>1, AuBout DEF Types, TypesClotures
<1>3. \A j \in Range(journees) : JourneeBonne(j)'
  BY <1>1, <1>2, JourneeReste DEF CloturesBonnes
<1>4. \A c \in Range(calendaires) : PeriodeBonne(c)'
  BY <1>1, <1>2, PeriodeReste DEF CloturesBonnes
<1>5. ASSUME journees # <<>> PROVE AvantTout(journees[1].debut)'
  <2>1. journees \in Seq(Journees) /\ 1 \in DOMAIN journees
    BY <1>1, <1>5 DEF Types, TypesClotures
  <2>2. PICK j \in Journees : j = journees[1] /\ j \in Range(journees)
    BY <2>1 DEF Range
  <2>3. JourneeBonne(j) /\ AvantTout(j.debut)
    BY <1>1, <1>5, <2>2 DEF CloturesBonnes, Suivies
  <2>4. j.debut \in Nat /\ j.fin \in Nat /\ j.debut < j.fin /\ Passee(j.fin)
    BY <2>3 DEF JourneeBonne, Journees
  <2>5. AvantTout(j.debut)'
    BY <1>1, <2>3, <2>4, AvantToutReste
  <2>6. j.debut = journees'[1].debut
    BY <2>2
  <2>. QED BY <2>5, <2>6 DEF AvantTout
<1>6. Suivies'
  BY <1>1, <1>5 DEF CloturesBonnes, Suivies, AvantTout
<1>7. TotauxBons' /\ PeriodeClotureeUneFois'
  BY <1>1 DEF TotauxBons, PerpetuelJuste, PeriodeClotureeUneFois
<1>. QED BY <1>3, <1>4, <1>6, <1>7 DEF CloturesBonnes

\* It keeps the calls in progress good too, when none of them moves.
LEMMA AppelsRestent ==
  ASSUME IInv, VentesApres, TypesClotures', Prolonge, appel' = appel
  PROVE  TypesAppels' /\ AppelsBons'
<1>1. TypesAppels' /\ Range(appel) \subseteq Appels
  BY DEF IInv, Types, TypesAppels, Range
<1>2. \A a \in Range(appel) : AppelBon(a)'
  BY <1>1, AppelReste DEF IInv, AppelsBons
<1>. QED BY <1>1, <1>2 DEF AppelsBons

\* When one call moves, only its new state has to be shown good.
LEMMA AppelDevient ==
  ASSUME IInv, VentesApres, TypesClotures', Prolonge,
         NEW p \in Processus, NEW x \in Appels, Devient(p, x), AppelBon(x)'
  PROVE  TypesAppels' /\ AppelsBons'
<1>1. TypesAppels' /\ Range(appel) \subseteq Appels
  BY DEF IInv, Types, TypesAppels, Range, Devient
<1>2. \A a \in Range(appel) : AppelBon(a)'
  BY <1>1, AppelReste DEF IInv, AppelsBons
<1>3. Range(appel)' \subseteq Range(appel) \cup {x}
  BY ImageApres DEF Devient, IInv, Types, TypesAppels
<1>. QED BY <1>1, <1>2, <1>3 DEF AppelsBons

-----------------------------------------------------------------------------
(* Time and sales.                                                              *)

\* A step of the sales or of the clock.
LEMMA SansCloture ==
  ASSUME IInv, VentesApres, journees' = journees, calendaires' = calendaires,
         appel' = appel, rattrapage' \in Nat \cup {Aucun}
  PROVE  IInv'
<1>1. TypesClotures' /\ Prolonge
  BY DEF IInv, Types, TypesClotures, Prolonge
<1>2. TypesAppels' /\ AppelsBons'
  BY <1>1, AppelsRestent
<1>3. CloturesBonnes' /\ TotauxBons' /\ PeriodeClotureeUneFois'
  BY CloturesRestent
<1>. QED BY <1>1, <1>2, <1>3 DEF IInv, Types, VentesApres

\* The end of the last closure is an hour that is over.
LEMMA FinsPassees ==
  ASSUME IInv
  PROVE  Max({0} \cup FinsDesClotures) \in Nat
<1>1. /\ journees \in Seq(Journees) /\ calendaires \in Seq(Calendaires) /\ heure \in Nat
      /\ Range(journees) \subseteq Journees /\ Range(calendaires) \subseteq Calendaires
  BY AuBout DEF IInv, Types, TypesClotures, TypesVentes
<1>2. ASSUME NEW i \in DOMAIN journees
      PROVE  journees[i].fin \in Nat /\ journees[i].fin <= heure
  <2>1. journees[i] \in Range(journees)
    BY DEF Range
  <2>. QED BY <1>1, <2>1 DEF IInv, CloturesBonnes, JourneeBonne, Passee, Journees
<1>3. ASSUME NEW i \in DOMAIN calendaires
      PROVE  calendaires[i].periode.fin \in Nat /\ calendaires[i].periode.fin <= heure
  <2>1. calendaires[i] \in Range(calendaires)
    BY DEF Range
  <2>2. calendaires[i].periode.fin \in Nat
    BY <1>1, <2>1, ClotureHypothese DEF Calendaires
  <2>. QED BY <2>1, <2>2 DEF IInv, CloturesBonnes, PeriodeBonne, Passee
<1>4. \A x \in {0} \cup FinsDesClotures : x \in Nat /\ x <= heure
  BY <1>1, <1>2, <1>3 DEF FinsDesClotures
<1>. HIDE DEF FinsDesClotures
<1>. QED BY <1>1, <1>4, PlusGrand

\* Tic and every step of a sale preserve the invariant.
LEMMA VentesPas ==
  ASSUME IInv, Tic \/ VenteSuivante
  PROVE  IInv'
<1>0. Types /\ VentesBonnes /\ DansLOrdre
  BY DEF IInv
<1>1. /\ journees' = journees /\ calendaires' = calendaires /\ appel' = appel
  BY DEF Tic, VenteSuivante, Encaisser, Valider, Annuler, LireLesVirements,
         EncaisserVirement, FinDuRattrapage, cloturesVars
<1>2. CASE Tic \/ (\E v \in Ventes : Encaisser(v)) \/ Valider \/ Annuler
           \/ \E v \in Virements : EncaisserVirement(v)
  <2>1. VentesApres
    BY <1>0, <1>2, TicVentes, EncaisserVentes, ValiderVentes, AnnulerVentes, VirementVentes
  <2>2. rattrapage' = rattrapage
    BY <1>2 DEF Tic, Encaisser, Valider, Annuler, EncaisserVirement
  <2>. QED BY <1>0, <1>1, <2>1, <2>2, SansCloture DEF Types, TypesClotures
<1>3. CASE LireLesVirements \/ FinDuRattrapage
  <2>1. VentesApres
    BY <1>0, <1>3, SansVente DEF LireLesVirements, FinDuRattrapage, ventesVars
  <2>2. rattrapage' \in Nat \cup {Aucun}
    BY <1>3, FinsPassees DEF LireLesVirements, FinDuRattrapage
  <2>. QED BY <1>1, <2>1, <2>2, SansCloture
<1>. QED BY <1>2, <1>3 DEF VenteSuivante

-----------------------------------------------------------------------------
(* The steps of a call that record nothing.                                     *)

SeulementAppel ==
  /\ heure' = heure /\ registre' = registre /\ date' = date /\ verrou' = verrou
  /\ antidatees' = antidatees
  /\ journees' = journees /\ calendaires' = calendaires /\ rattrapage' = rattrapage

\* A good call stays good when only the calls move.
LEMMA AppelMeme ==
  ASSUME SeulementAppel, NEW a, AppelBon(a)
  PROVE  AppelBon(a)'
BY DEF SeulementAppel, AppelBon, EnPeriode, Passee, APlace, PlageBonne, AvantTout,
       Complet, VentesEntre, Reglees

\* A step that only moves one call to a good state preserves the invariant.
LEMMA Devenir ==
  ASSUME IInv, SeulementAppel, NEW p \in Processus, NEW x \in Appels,
         Devient(p, x), AppelBon(x)
  PROVE  IInv'
<1>1. TypesClotures' /\ Prolonge
  BY DEF IInv, Types, TypesClotures, Prolonge, SeulementAppel
<1>2. VentesApres
  BY SansVente DEF IInv, SeulementAppel
<1>3. TypesAppels' /\ AppelsBons'
  BY <1>1, <1>2, AppelMeme, AppelDevient
<1>4. CloturesBonnes' /\ TotauxBons' /\ PeriodeClotureeUneFois'
  BY <1>2, CloturesRestent DEF SeulementAppel
<1>. QED BY <1>1, <1>2, <1>3, <1>4 DEF IInv, Types, VentesApres

\* A call at rest.
LEMMA ReposBon ==
  AuRepos \in Appels /\ AppelBon(AuRepos)
BY DEF AuRepos, Appels, Etapes, AppelBon

\* The rest of the hourly run.
LEMMA SuiteBonne ==
  ASSUME NEW p \in Processus, NEW n \in Niveaux \cup {Aucun}, NEW k \in Nat
  PROVE  Suite(p, n, k) \in Appels /\ AppelBon(Suite(p, n, k))
<1>1. CASE p \in Taches /\ n # Aucun
  <2>1. Suite(p, n, k) =
          [etape |-> "niveau", genre |-> n, seuil |-> 0, debut |-> 0, fin |-> 0,
           lue |-> 0, rapport |-> {}, aFaire |-> {}, crees |-> k]
    BY <1>1 DEF Suite, AuRepos
  <2>. QED BY <1>1, <2>1 DEF Appels, Etapes, AppelBon
<1>2. CASE ~(p \in Taches /\ n # Aucun)
  BY <1>2, ReposBon DEF Suite
<1>. QED BY <1>1, <1>2

\* The range fixed under the lock of the sales.
LEMMA FixerBonne ==
  ASSUME IInv, SeulementAppel, NEW p \in Processus, NEW f \in Nat, f <= heure,
         VerrouDesVentes, ~PlageVide(f), FixerLaPlage(p, f)
  PROVE  IInv'
<1>0. journees \in Seq(Journees) /\ heure \in Nat
  BY DEF IInv, Types, TypesClotures, TypesVentes
<1>1. /\ Range(journees) \subseteq Journees /\ DOMAIN journees = 1..Len(journees)
      /\ Len(journees) \in Nat /\ Aucun \notin Nat
  BY <1>0, AuBout, ClotureHypothese
<1>2. Reglees # {} /\ VentesEntre(DebutDeLaJ, f) # {}
  BY DEF PlageVide
<1>3. DebutDeLaJ \in Nat /\ (journees = <<>> => AvantTout(DebutDeLaJ))
  <2>1. CASE journees # <<>>
    <3>1. Len(journees) \in DOMAIN journees
      BY <1>0, <1>1, <2>1
    <3>2. journees[Len(journees)] \in Journees
      BY <1>1, <3>1 DEF Range
    <3>. QED BY <2>1, <3>2 DEF DebutDeLaJ, FinDeLaDerniereJ, Journees
  <2>2. CASE journees = <<>>
    <3>. DEFINE D == {date[v] : v \in Reglees}
    <3>1. D \in SUBSET Nat /\ D # {}
      BY <1>2 DEF IInv, VentesBonnes, Datee
    <3>2. Min(D) \in D /\ \A h \in D : Min(D) <= h
      BY <3>1, PlusPetit
    <3>3. DebutDeLaJ = Min(D)
      BY <2>2 DEF DebutDeLaJ, PremiereHeure
    <3>4. \A v \in Reglees : DebutDeLaJ <= date[v]
      BY <3>2, <3>3
    <3>. QED BY <3>1, <3>2, <3>3, <3>4 DEF AvantTout
  <2>. QED BY <2>1, <2>2
<1>4. PICK x : x = [AuRepos EXCEPT !.etape = "rapport", !.genre = "J", !.debut = DebutDeLaJ,
                                   !.fin = f, !.lue = Len(journees)]
  OBVIOUS
<1>5. x = [etape |-> "rapport", genre |-> "J", seuil |-> 0, debut |-> DebutDeLaJ,
           fin |-> f, lue |-> Len(journees), rapport |-> {}, aFaire |-> {}, crees |-> 0]
  BY <1>4 DEF AuRepos
<1>6. x \in Appels
  BY <1>1, <1>3, <1>5 DEF Appels, Etapes
<1>7. Len(journees) = 0 => journees = <<>>
  BY <1>0
<1>8. PlageBonne(x)
  BY <1>1, <1>2, <1>3, <1>5, <1>7 DEF PlageBonne, DebutDeLaJ, FinDeLaDerniereJ
<1>9. Passee(x.fin)
  BY <1>5 DEF Passee, APlace, VerrouDesVentes
<1>10. AppelBon(x)
  BY <1>5, <1>8, <1>9 DEF AppelBon, Niveaux
<1>. QED BY <1>4, <1>6, <1>10, Devenir DEF FixerLaPlage

\* A J asked for fixes its range at the current hour.
LEMMA FinBonne ==
  ASSUME IInv, NEW p \in Demandes, FixerLaFin(p)
  PROVE  IInv'
<1>1. heure \in Nat /\ heure <= heure /\ p \in Processus
  BY DEF IInv, Types, TypesVentes, Processus
<1>. QED BY <1>1, FixerBonne DEF FixerLaFin, SeulementAppel, ventesVars, cloturesVars

\* The current threshold is over.
LEMMA SeuilBon ==
  ASSUME IInv, NEW p \in Taches, LireLeSeuil(p)
  PROVE  IInv'
<1>. DEFINE S == {s \in Seuils : s <= heure}
<1>0. heure \in Nat
  BY DEF IInv, Types, TypesVentes
<1>1. S \in SUBSET Nat /\ 0 \in S /\ \A s \in S : s <= heure
  <2>1. Seuils \subseteq Nat /\ 0 \in Seuils
    BY ClotureHypothese
  <2>2. 0 <= heure
    BY <1>0
  <2>. QED BY <2>1, <2>2
<1>2. Max(S) \in S
  BY <1>0, <1>1, PlusGrand
<1>3. SeuilCourant \in Nat /\ SeuilCourant <= heure
  BY <1>1, <1>2 DEF SeuilCourant
<1>4. PICK x : x = [AuRepos EXCEPT !.etape = "filet", !.seuil = SeuilCourant]
  OBVIOUS
<1>5. x = [etape |-> "filet", genre |-> Aucun, seuil |-> SeuilCourant, debut |-> 0,
           fin |-> 0, lue |-> 0, rapport |-> {}, aFaire |-> {}, crees |-> 0]
  BY <1>4 DEF AuRepos
<1>6. x \in Appels /\ AppelBon(x)
  BY <1>3, <1>5 DEF Appels, Etapes, AppelBon
<1>. QED BY <1>4, <1>6, Devenir DEF LireLeSeuil, SeulementAppel, ventesVars, cloturesVars,
         Processus

\* The call of a process is a good one.
LEMMA AppelTypes ==
  ASSUME IInv, NEW p \in Processus
  PROVE  appel[p] \in Appels /\ AppelBon(appel[p])
BY DEF IInv, Types, TypesAppels, AppelsBons, Range

\* The hourly net fixes its range, or goes to the weeks when it has nothing to do.
LEMMA FiletBon ==
  ASSUME IInv, NEW p \in Taches, FixerLeFilet(p)
  PROVE  IInv'
<1>. DEFINE s == appel[p].seuil
<1>1. p \in Processus /\ SeulementAppel /\ VerrouDesVentes
  BY DEF FixerLeFilet, SeulementAppel, ventesVars, cloturesVars, Processus
<1>2. s \in Nat /\ s <= heure
  BY <1>1, AppelTypes DEF Appels, AppelBon, FixerLeFilet, A
<1>3. CASE FiletDejaFait(s) \/ PlageVide(s)
  <2>1. PICK x : x = Suite(p, "H", 0)
    OBVIOUS
  <2>2. x \in Appels /\ AppelBon(x)
    BY <1>1, <2>1, SuiteBonne DEF Niveaux
  <2>. QED BY <1>1, <1>3, <2>1, <2>2, Devenir DEF FixerLeFilet
<1>4. CASE ~(FiletDejaFait(s) \/ PlageVide(s))
  BY <1>1, <1>2, <1>4, FixerBonne DEF FixerLeFilet
<1>. QED BY <1>3, <1>4

\* The report is read.
LEMMA RapportBon ==
  ASSUME IInv, NEW p \in Processus, LireRapport(p)
  PROVE  IInv'
<1>. DEFINE a == appel[p]
<1>1. a \in Appels /\ AppelBon(a) /\ a.etape = "rapport"
  BY AppelTypes DEF LireRapport, A
<1>2. VentesEntre(a.debut, a.fin) \subseteq Ventes
  BY RegleesFinies DEF VentesEntre, IInv, Types
<1>3. PICK x : x = [a EXCEPT !.etape = "enregistrer", !.rapport = VentesEntre(a.debut, a.fin)]
  OBVIOUS
<1>4. /\ x.etape = "enregistrer" /\ x.rapport = VentesEntre(a.debut, a.fin)
      /\ x.genre = a.genre /\ x.debut = a.debut /\ x.fin = a.fin /\ x.lue = a.lue
      /\ x \in Appels
  BY <1>1, <1>2, <1>3 DEF Appels, Etapes
<1>5. Complet(x.rapport, x.debut, x.fin)
  BY <1>4 DEF Complet
<1>6. Passee(x.fin) /\ (x.genre \in Niveaux => EnPeriode(x))
  BY <1>1, <1>4 DEF AppelBon, EnPeriode
<1>7. x.genre = "J" => PlageBonne(x) /\ x.rapport # {}
  BY <1>1, <1>4 DEF AppelBon, PlageBonne
<1>8. AppelBon(x)
  BY <1>4, <1>5, <1>6, <1>7 DEF AppelBon
<1>. QED BY <1>3, <1>4, <1>8, Devenir DEF LireRapport, SeulementAppel, ventesVars, cloturesVars

\* A call that dies leaves a call at rest.
LEMMA InterrompreBon ==
  ASSUME IInv, NEW p \in Processus, Interrompre(p)
  PROVE  IInv'
<1>1. PICK x : x = AuRepos
  OBVIOUS
<1>. QED BY <1>1, ReposBon, Devenir DEF Interrompre, SeulementAppel, ventesVars, cloturesVars

-----------------------------------------------------------------------------
(* Weeks, months and years.                                                     *)

\* A period is a record of its level and its two ends.
LEMMA PeriodeTypes ==
  ASSUME NEW q \in Periodes
  PROVE  /\ q.niveau \in Niveaux /\ q.debut \in Nat /\ q.fin \in Nat
         /\ [niveau |-> q.niveau, debut |-> q.debut, fin |-> q.fin] = q
BY ClotureHypothese

\* A period can be taken up once it is over.
LEMMA AvecPeriodeBonne ==
  ASSUME IInv, SeulementAppel, NEW p \in Processus, NEW q \in Periodes, Cloturable(q),
         NEW reste \in SUBSET Periodes, Devient(p, AvecPeriode(p, q, reste))
  PROVE  IInv'
<1>. DEFINE a == appel[p]
<1>1. a \in Appels /\ heure \in Nat
  BY AppelTypes DEF IInv, Types, TypesVentes
<1>2. PICK x : x = AvecPeriode(p, q, reste)
  OBVIOUS
<1>3. /\ x.etape = "barriere" /\ x.genre = q.niveau /\ x.debut = q.debut /\ x.fin = q.fin
      /\ x \in Appels
  BY <1>1, <1>2, PeriodeTypes DEF AvecPeriode, Appels, Etapes
<1>4. q.fin <= heure
  BY <1>1, PeriodeTypes, ClotureHypothese DEF Cloturable, FiletPasse
<1>5. EnPeriode(x) /\ x.genre \in Niveaux
  BY <1>3, PeriodeTypes DEF EnPeriode
<1>6. AppelBon(x)
  BY <1>3, <1>4, <1>5 DEF AppelBon
<1>. QED BY <1>2, <1>3, <1>6, Devenir

\* The closure of a period is asked for.
LEMMA DemanderBonne ==
  ASSUME IInv, NEW p \in Demandes, NEW q \in Periodes, DemanderPeriode(p, q)
  PROVE  IInv'
<1>1. p \in Processus /\ SeulementAppel /\ {} \in SUBSET Periodes
  BY DEF Processus, DemanderPeriode, SeulementAppel, ventesVars, cloturesVars
<1>. QED BY <1>1, AvecPeriodeBonne DEF DemanderPeriode

\* The hourly run reads the periods of its level.
LEMMA LireBonne ==
  ASSUME IInv, NEW p \in Taches, LireLesPeriodes(p)
  PROVE  IInv'
<1>. DEFINE a == appel[p]
<1>1. p \in Processus /\ SeulementAppel /\ a \in Appels /\ AppelBon(a) /\ a.etape = "niveau"
  BY AppelTypes DEF Processus, LireLesPeriodes, A, SeulementAppel, ventesVars, cloturesVars
<1>2. PeriodesFinies(a.genre) \in SUBSET Periodes
  BY DEF PeriodesFinies
<1>3. PICK x : x = [a EXCEPT !.etape = "periodes", !.aFaire = PeriodesFinies(a.genre)]
  OBVIOUS
<1>4. x.etape = "periodes" /\ x.genre = a.genre /\ x \in Appels
  BY <1>1, <1>2, <1>3 DEF Appels, Etapes
<1>5. AppelBon(x)
  BY <1>1, <1>4 DEF AppelBon
<1>. QED BY <1>1, <1>3, <1>4, <1>5, Devenir DEF LireLesPeriodes

\* It takes the next one up.
LEMMA SuivanteBonne ==
  ASSUME IInv, NEW p \in Taches, PeriodeSuivante(p)
  PROVE  IInv'
<1>. DEFINE a == appel[p]
<1>1. p \in Processus /\ SeulementAppel /\ a \in Appels /\ AppelBon(a) /\ a.etape = "periodes"
  BY AppelTypes DEF Processus, PeriodeSuivante, A, SeulementAppel, ventesVars, cloturesVars
<1>2. PICK q \in a.aFaire :
        IF Cloturable(q) THEN Devient(p, AvecPeriode(p, q, a.aFaire \ {q}))
        ELSE Devient(p, [a EXCEPT !.aFaire = a.aFaire \ {q}])
  BY DEF PeriodeSuivante
<1>3. q \in Periodes /\ a.aFaire \ {q} \in SUBSET Periodes
  BY <1>1 DEF Appels
<1>4. CASE Cloturable(q)
  BY <1>1, <1>2, <1>3, <1>4, AvecPeriodeBonne
<1>5. CASE ~Cloturable(q)
  <2>1. PICK x : x = [a EXCEPT !.aFaire = a.aFaire \ {q}]
    OBVIOUS
  <2>2. x.etape = "periodes" /\ x.genre = a.genre /\ x \in Appels
    BY <1>1, <1>3, <2>1 DEF Appels
  <2>3. AppelBon(x)
    BY <1>1, <2>2 DEF AppelBon
  <2>. QED BY <1>1, <1>2, <1>5, <2>1, <2>2, <2>3, Devenir
<1>. QED BY <1>4, <1>5

\* It goes to the next level.
LEMMA NiveauBon ==
  ASSUME IInv, NEW p \in Taches, FinDuNiveau(p)
  PROVE  IInv'
<1>. DEFINE a == appel[p]
<1>1. p \in Processus /\ SeulementAppel /\ a \in Appels /\ AppelBon(a) /\ a.etape = "periodes"
  BY AppelTypes DEF Processus, FinDuNiveau, A, SeulementAppel, ventesVars, cloturesVars
<1>2. a.genre \in Niveaux /\ a.crees \in Nat
  BY <1>1 DEF AppelBon, Appels
<1>3. NiveauSuivant[a.genre] \in Niveaux \cup {Aucun}
  BY <1>2 DEF NiveauSuivant, Niveaux
<1>4. PICK x : x = IF a.crees >= Plafond THEN AuRepos
                   ELSE Suite(p, NiveauSuivant[a.genre], a.crees)
  OBVIOUS
<1>5. x \in Appels /\ AppelBon(x)
  BY <1>1, <1>2, <1>3, <1>4, ReposBon, SuiteBonne
<1>. QED BY <1>1, <1>4, <1>5, Devenir DEF FinDuNiveau

\* Past the barrier no sale of the period is still to be written.
LEMMA BarriereBonne ==
  ASSUME IInv, NEW p \in Processus, PasserLaBarriere(p)
  PROVE  IInv'
<1>. DEFINE a == appel[p]
<1>1. SeulementAppel /\ a \in Appels /\ AppelBon(a) /\ a.etape = "barriere" /\ verrou = Aucun
  BY AppelTypes DEF PasserLaBarriere, Barriere, A, SeulementAppel, ventesVars, cloturesVars
<1>2. PICK x : x = [a EXCEPT !.etape = "rapport"]
  OBVIOUS
<1>3. /\ x.etape = "rapport" /\ x.genre = a.genre /\ x.debut = a.debut /\ x.fin = a.fin
      /\ x \in Appels
  BY <1>1, <1>2 DEF Appels, Etapes
<1>4. Passee(x.fin) /\ EnPeriode(x) /\ x.genre \in Niveaux
  BY <1>1, <1>3 DEF AppelBon, Passee, APlace, EnPeriode
<1>5. AppelBon(x)
  BY <1>3, <1>4 DEF AppelBon, Niveaux
<1>. QED BY <1>1, <1>2, <1>3, <1>5, Devenir DEF PasserLaBarriere

-----------------------------------------------------------------------------
(* Recording a period.                                                          *)

\* The closure of a period is written, or found to exist already.
LEMMA PeriodePas ==
  ASSUME IInv, NEW p \in Processus, EnregistrerPeriode(p)
  PROVE  IInv'
<1>. DEFINE a == appel[p]
            k == a.crees + (IF PeriodeCreee(p) THEN 0 ELSE 1)
<1>1. /\ a \in Appels /\ AppelBon(a) /\ a.etape = "enregistrer" /\ a.genre \in Niveaux
      /\ heure' = heure /\ registre' = registre /\ date' = date /\ verrou' = verrou
      /\ antidatees' = antidatees /\ journees' = journees /\ rattrapage' = rattrapage
      /\ Devient(p, ApresPeriode(p, k))
  BY AppelTypes DEF EnregistrerPeriode, A, ventesVars
<1>2. k \in Nat
  BY <1>1 DEF Appels
<1>3. PICK x : x = ApresPeriode(p, k)
  OBVIOUS
<1>4. x \in Appels /\ AppelBon(x)
  <2>1. CASE p \in Taches
    <3>1. x = [etape |-> "periodes", genre |-> a.genre, seuil |-> 0, debut |-> 0, fin |-> 0,
               lue |-> 0, rapport |-> {}, aFaire |-> a.aFaire, crees |-> k]
      BY <1>3, <2>1 DEF ApresPeriode, AuRepos
    <3>. HIDE DEF k
    <3>. QED BY <1>1, <1>2, <3>1 DEF Appels, Etapes, AppelBon
  <2>2. CASE p \notin Taches
    BY <1>3, <2>2, ReposBon DEF ApresPeriode
  <2>. QED BY <2>1, <2>2
<1>5. CASE PeriodeCreee(p)
  <2>1. calendaires' = calendaires
    BY <1>5 DEF EnregistrerPeriode
  <2>. QED BY <1>1, <1>3, <1>4, <2>1, Devenir DEF SeulementAppel
<1>6. CASE ~PeriodeCreee(p)
  <2>1. PICK c : c = [periode |-> PeriodeDe(p), ventes |-> a.rapport,
                      perpetuel |-> Perpetuel, apres |-> Len(journees)]
    OBVIOUS
  <2>2. calendaires' = Append(calendaires, c)
    BY <1>6, <2>1 DEF EnregistrerPeriode
  <2>3. PeriodeDe(p) \in Periodes /\ Passee(a.fin) /\ Complet(a.rapport, a.debut, a.fin)
    BY <1>1 DEF AppelBon, EnPeriode, PeriodeDe
  <2>4. /\ journees \in Seq(Journees) /\ calendaires \in Seq(Calendaires)
        /\ Len(journees) \in Nat /\ Len(calendaires) \in Nat
    BY DEF IInv, Types, TypesClotures
  <2>5. Perpetuel \in Nat
    <3>1. CASE journees = <<>>
      BY <3>1 DEF Perpetuel
    <3>2. CASE journees # <<>>
      <4>1. Len(journees) \in DOMAIN journees
        BY <2>4, <3>2
      <4>2. journees[Len(journees)] \in Journees
        BY <2>4, <4>1, AuBout DEF Range
      <4>. QED BY <3>2, <4>2 DEF Perpetuel, Journees
    <3>. QED BY <3>1, <3>2
  <2>6. c \in Calendaires /\ c.periode = PeriodeDe(p) /\ c.ventes = a.rapport
    BY <1>1, <2>1, <2>3, <2>4, <2>5 DEF Calendaires, Appels
  <2>7. PeriodeBonne(c)
    BY <2>3, <2>6 DEF PeriodeBonne, PeriodeDe
  <2>8. /\ Range(calendaires') = Range(calendaires) \cup {c}
        /\ DOMAIN calendaires' = 1..(Len(calendaires) + 1)
        /\ DOMAIN calendaires = 1..Len(calendaires)
        /\ \A i \in 1..Len(calendaires) : calendaires'[i] = calendaires[i]
        /\ calendaires'[Len(calendaires) + 1] = c
        /\ Range(calendaires) \subseteq Calendaires
    BY <2>2, <2>4, AuBout
  <2>9. \A i \in DOMAIN calendaires' :
          \/ i \in DOMAIN calendaires /\ calendaires'[i] = calendaires[i]
          \/ i = Len(calendaires) + 1 /\ calendaires'[i] = c
    BY <2>4, <2>8
  <2>10. VentesApres
    BY <1>1, SansVente DEF IInv
  <2>11. TypesClotures'
    BY <1>1, <2>2, <2>4, <2>6 DEF IInv, Types, TypesClotures
  <2>12. Prolonge
    BY <1>1, <2>4 DEF Prolonge
  <2>13. TypesAppels' /\ AppelsBons'
    <3>1. AppelBon(x)'
      BY <1>4, <2>10, <2>11, <2>12, AppelReste DEF IInv
    <3>. QED BY <1>1, <1>3, <1>4, <2>10, <2>11, <2>12, <3>1, AppelDevient
  <2>14. CloturesBonnes'
    <3>1. PeriodeBonne(c)'
      BY <2>6, <2>7, <2>10, PeriodeReste DEF IInv
    <3>2. \A d \in Range(calendaires) : PeriodeBonne(d)'
      BY <2>8, <2>10, PeriodeReste DEF IInv, CloturesBonnes
    <3>3. (\A j \in Range(journees) : JourneeBonne(j))' /\ Suivies'
      BY <1>1 DEF IInv, CloturesBonnes, Suivies, AvantTout, Reglees, JourneeBonne, Passee,
             APlace, Complet, VentesEntre
    <3>. QED BY <2>8, <3>1, <3>2, <3>3 DEF CloturesBonnes
  <2>15. TotauxBons'
    <3>1. c.apres = Len(journees) /\ c.perpetuel = Perpetuel
      BY <2>1
    <3>2. Perpetuel = IF Len(journees) = 0 THEN 0 ELSE journees[Len(journees)].perpetuel
      BY <2>4 DEF Perpetuel
    <3>. QED BY <1>1, <2>4, <2>9, <3>1, <3>2 DEF IInv, TotauxBons, PerpetuelJuste
  <2>16. PeriodeClotureeUneFois'
    <3>1. \A i \in DOMAIN calendaires : calendaires[i].periode # c.periode
      BY <1>6, <2>6 DEF PeriodeCreee, DejaCloturee, Range
    <3>. QED BY <2>9, <3>1 DEF IInv, PeriodeClotureeUneFois
  <2>. QED BY <2>10, <2>11, <2>13, <2>14, <2>15, <2>16 DEF IInv, Types, VentesApres
<1>. QED BY <1>5, <1>6

-----------------------------------------------------------------------------
(* Recording a J.                                                               *)

Cumul(i) == UNION {journees[k].ventes : k \in 1..i}

\* A J not recorded yet starts where the last one ends, after all the sales recorded.
LEMMA JSuivante ==
  ASSUME IInv, NEW a \in Appels, a.lue = Len(journees), PlageBonne(a),
         Complet(a.rapport, a.debut, a.fin)
  PROVE  /\ a.debut < a.fin
         /\ journees = <<>> => AvantTout(a.debut)
         /\ \A i \in DOMAIN journees : journees[i].fin <= a.debut
         /\ journees # <<>> => a.debut = FinDeLaDerniereJ
         /\ a.rapport \cap Cumul(Len(journees)) = {}
<1>1. /\ journees \in Seq(Journees) /\ Len(journees) \in Nat
      /\ a.debut \in Nat /\ a.fin \in Nat /\ DOMAIN journees = 1..Len(journees)
  BY DEF IInv, Types, TypesClotures, Appels
<1>2. a.debut < a.fin
  <2>1. PICK v \in VentesEntre(a.debut, a.fin) : TRUE
    BY DEF PlageBonne
  <2>. QED BY <1>1, <2>1 DEF VentesEntre, IInv, VentesBonnes, Datee
<1>3. journees = <<>> => AvantTout(a.debut)
  BY <1>1 DEF PlageBonne
<1>4. journees # <<>> => a.debut = FinDeLaDerniereJ
  BY <1>1 DEF PlageBonne, FinDeLaDerniereJ
<1>5. ASSUME NEW i \in DOMAIN journees
      PROVE  /\ journees[i].fin <= a.debut
             /\ \A v \in journees[i].ventes : v \in Reglees /\ date[v] < journees[i].fin
  <2>1. /\ journees[i] \in Journees /\ JourneeBonne(journees[i])
        /\ journees[Len(journees)] \in Journees /\ JourneeBonne(journees[Len(journees)])
    <3>1. i \in DOMAIN journees /\ Len(journees) \in DOMAIN journees
      BY <1>1
    <3>. QED BY <1>1, <3>1, AuBout DEF Range, IInv, CloturesBonnes
  <2>2. a.debut = journees[Len(journees)].fin
    BY <1>1, <1>4 DEF FinDeLaDerniereJ
  <2>3. journees[Len(journees)].debut < journees[Len(journees)].fin
    BY <2>1 DEF JourneeBonne
  <2>4. i < Len(journees) => journees[i].fin <= journees[Len(journees)].debut
    BY <1>1 DEF IInv, CloturesBonnes, Suivies
  <2>5. journees[i].fin <= a.debut
    BY <1>1, <2>1, <2>2, <2>3, <2>4 DEF Journees
  <2>6. journees[i].ventes \subseteq VentesEntre(journees[i].debut, journees[i].fin)
    BY <2>1 DEF JourneeBonne, Complet
  <2>. QED BY <2>5, <2>6 DEF VentesEntre
<1>6. a.rapport \cap Cumul(Len(journees)) = {}
  <2>1. ASSUME NEW v \in a.rapport, NEW i \in DOMAIN journees, v \in journees[i].ventes
        PROVE  FALSE
    <3>1. a.debut <= date[v]
      BY DEF Complet, VentesEntre
    <3>2. date[v] < journees[i].fin /\ journees[i].fin <= a.debut /\ date[v] \in Nat
      BY <1>5, <2>1 DEF IInv, VentesBonnes, Datee
    <3>3. journees[i] \in Journees
      BY <1>1, AuBout DEF Range
    <3>. QED BY <1>1, <3>1, <3>2, <3>3 DEF Journees
  <2>. QED BY <1>1, <2>1 DEF Cumul
<1>. QED BY <1>2, <1>3, <1>4, <1>5, <1>6

\* The sales of the J, one J more.
LEMMA CumulApres ==
  ASSUME NEW s \in Seq(Journees), NEW j \in Journees, NEW n \in Nat, n = Len(s),
         journees = s, journees' = Append(s, j)
  PROVE  /\ \A i \in 0..n : Cumul(i)' = Cumul(i)
         /\ Cumul(n + 1)' = Cumul(n) \cup j.ventes
<1>1. /\ \A k \in 1..n : journees'[k] = journees[k]
      /\ journees'[n + 1] = j
  BY AuBout
<1>2. ASSUME NEW i \in 0..n
      PROVE  Cumul(i)' = Cumul(i)
  <2>1. \A k \in 1..i : journees'[k] = journees[k]
    BY <1>1
  <2>. QED BY <2>1 DEF Cumul
<1>3. \A v : v \in Cumul(n + 1)' <=> \E k \in 1..(n + 1) : v \in journees'[k].ventes
  BY DEF Cumul
<1>4. \A v : v \in Cumul(n) <=> \E k \in 1..n : v \in journees[k].ventes
  BY DEF Cumul
<1>5. \A k : k \in 1..(n + 1) <=> k \in 1..n \/ k = n + 1
  OBVIOUS
<1>6. \A v : v \in Cumul(n + 1)' <=> v \in Cumul(n) \/ v \in j.ventes
  BY <1>1, <1>3, <1>4, <1>5
<1>. QED BY <1>2, <1>6

\* The sales of the recorded J are finitely many.
LEMMA CumulFini ==
  ASSUME IInv
  PROVE  IsFiniteSet(Cumul(Len(journees)))
<1>1. IsFiniteSet(Reglees)
  BY RegleesFinies DEF IInv, Types
<1>2. journees \in Seq(Journees) /\ DOMAIN journees = 1..Len(journees)
  BY DEF IInv, Types, TypesClotures
<1>3. ASSUME NEW i \in DOMAIN journees PROVE journees[i].ventes \subseteq Reglees
  <2>1. journees[i] \in Range(journees)
    BY DEF Range
  <2>. QED BY <2>1 DEF IInv, CloturesBonnes, JourneeBonne, Complet, VentesEntre
<1>4. Cumul(Len(journees)) \in SUBSET Reglees
  BY <1>2, <1>3 DEF Cumul
<1>. QED BY <1>1, <1>4, FS_Subset

\* The perpetual total is the number of sales of all the J.
LEMMA PerpetuelType ==
  ASSUME IInv
  PROVE  Perpetuel \in Nat /\ Perpetuel = Cardinality(Cumul(Len(journees)))
<1>1. journees \in Seq(Journees) /\ Len(journees) \in Nat
  BY DEF IInv, Types, TypesClotures
<1>2. CASE journees = <<>>
  <2>1. Cumul(Len(journees)) = {}
    BY <1>2 DEF Cumul
  <2>. QED BY <1>2, <2>1, FS_EmptySet DEF Perpetuel
<1>3. CASE journees # <<>>
  <2>1. Len(journees) \in DOMAIN journees
    BY <1>1, <1>3
  <2>2. journees[Len(journees)] \in Journees
    BY <1>1, <2>1, AuBout DEF Range
  <2>. QED BY <1>3, <2>1, <2>2 DEF Perpetuel, Journees, IInv, TotauxBons, PerpetuelJuste,
           Cumul
<1>. QED BY <1>2, <1>3

\* A J is written, unless another one has moved the end it read.
LEMMA JournalierePas ==
  ASSUME IInv, NEW p \in Processus, EnregistrerJ(p)
  PROVE  IInv'
<1>. DEFINE a == appel[p]
<1>0. PICK n : n = Len(journees)
  OBVIOUS
<1>. USE <1>0
<1>1. /\ a \in Appels /\ AppelBon(a) /\ a.etape = "enregistrer" /\ a.genre = "J"
      /\ heure' = heure /\ registre' = registre /\ date' = date /\ verrou' = verrou
      /\ antidatees' = antidatees /\ calendaires' = calendaires
      /\ rattrapage' = rattrapage /\ Devient(p, Suite(p, "H", 0))
  BY AppelTypes DEF EnregistrerJ, A, ventesVars
<1>2. PICK x : x = Suite(p, "H", 0)
  OBVIOUS
<1>3. x \in Appels /\ AppelBon(x)
  BY <1>2, SuiteBonne DEF Niveaux
<1>4. CASE AutreJCreee(p)
  <2>1. journees' = journees
    BY <1>4 DEF EnregistrerJ
  <2>. QED BY <1>1, <1>2, <1>3, <2>1, Devenir DEF SeulementAppel
<1>5. CASE ~AutreJCreee(p)
  <2>1. PICK j : j = [debut |-> a.debut, fin |-> a.fin, ventes |-> a.rapport,
                      perpetuel |-> PerpetuelDeLaJ(a.rapport)]
    OBVIOUS
  <2>2. journees' = Append(journees, j)
    BY <1>5, <2>1 DEF EnregistrerJ
  <2>3. /\ Passee(a.fin) /\ Complet(a.rapport, a.debut, a.fin) /\ PlageBonne(a)
        /\ a.rapport # {} /\ a.lue = n
    BY <1>1, <1>5 DEF AppelBon, AutreJCreee
  <2>4. /\ a.debut < a.fin /\ (journees = <<>> => AvantTout(a.debut))
        /\ \A i \in DOMAIN journees : journees[i].fin <= a.debut
        /\ journees # <<>> => a.debut = FinDeLaDerniereJ
        /\ a.rapport \cap Cumul(n) = {}
    BY <1>1, <2>3, JSuivante
  <2>5. journees \in Seq(Journees) /\ n \in Nat
    BY DEF IInv, Types, TypesClotures
  <2>6. IsFiniteSet(a.rapport) /\ Cardinality(a.rapport) \in Nat
    <3>1. a.rapport \in SUBSET Reglees
      BY <2>3 DEF Complet, VentesEntre
    <3>. QED BY <3>1, RegleesFinies, FS_Subset, FS_CardinalityType DEF IInv, Types
  <2>7. /\ j \in Journees /\ j.debut = a.debut /\ j.fin = a.fin /\ j.ventes = a.rapport
        /\ j.perpetuel = Cardinality(Cumul(n)) + Cardinality(a.rapport)
    BY <1>1, <2>1, <2>6, PerpetuelType DEF Journees, Appels, PerpetuelDeLaJ
  <2>8. /\ Range(journees') = Range(journees) \cup {j}
        /\ DOMAIN journees' = 1..(n + 1) /\ Len(journees') = n + 1
        /\ DOMAIN journees = 1..n
        /\ \A i \in 1..n : journees'[i] = journees[i]
        /\ journees'[n + 1] = j
        /\ Range(journees) \subseteq Journees
    BY <2>2, <2>5, AuBout
  <2>9. \A i \in DOMAIN journees' :
          \/ i \in DOMAIN journees /\ journees'[i] = journees[i]
          \/ i = n + 1 /\ journees'[i] = j
    BY <2>5, <2>8
  <2>10. VentesApres
    BY <1>1, SansVente DEF IInv
  <2>11. TypesClotures' /\ Prolonge
    BY <1>1, <2>2, <2>5, <2>7, <2>8 DEF IInv, Types, TypesClotures, Prolonge
  <2>12. TypesAppels' /\ AppelsBons'
    <3>1. AppelBon(x)'
      BY <1>3, <2>10, <2>11, AppelReste DEF IInv
    <3>. QED BY <1>1, <1>2, <1>3, <2>10, <2>11, <3>1, AppelDevient
  <2>13. \A y \in Range(journees') : JourneeBonne(y)'
    <3>1. JourneeBonne(j)
      BY <2>3, <2>4, <2>7 DEF JourneeBonne
    <3>2. \A y \in Range(journees) : JourneeBonne(y)'
      BY <2>8, <2>10, JourneeReste DEF IInv, CloturesBonnes
    <3>3. JourneeBonne(j)'
      BY <2>7, <2>10, <3>1, JourneeReste DEF IInv
    <3>. QED BY <2>8, <3>2, <3>3
  <2>14. (\A c \in Range(calendaires) : PeriodeBonne(c))'
    BY <1>1 DEF IInv, CloturesBonnes, Reglees, PeriodeBonne, Passee, APlace, Complet,
           VentesEntre
  <2>15. Suivies'
    <3>1. AvantTout(journees[1].debut)'
      <4>1. \A d : AvantTout(d) => \A v \in Reglees' \ antidatees' : d <= date'[v]
        BY <1>1 DEF AvantTout, Reglees
      <4>2. CASE journees = <<>>
        <5>1. journees'[1] = j
          BY <2>2, <4>2, <2>5, <2>8
        <5>. QED BY <2>4, <2>7, <4>1, <4>2, <5>1 DEF AvantTout
      <4>3. CASE journees # <<>>
        <5>1. journees'[1] = journees[1]
          BY <2>5, <2>8, <4>3
        <5>2. AvantTout(journees[1].debut)
          BY <4>3 DEF IInv, CloturesBonnes, Suivies
        <5>. QED BY <4>1, <5>1, <5>2 DEF AvantTout
      <4>. QED BY <4>2, <4>3
    <3>2. ASSUME NEW i \in 1..(Len(journees') - 1)
          PROVE  journees'[i + 1].debut = journees'[i].fin
      <4>1. CASE i = n
        BY <2>4, <2>5, <2>7, <2>8, <4>1 DEF FinDeLaDerniereJ
      <4>2. CASE i # n
        <5>1. i \in 1..n
          BY <2>5, <2>8
        <5>2. i \in 1..(n - 1) /\ i + 1 \in 1..n
          BY <2>5, <4>2, <5>1
        <5>. QED BY <2>8, <5>1, <5>2 DEF IInv, CloturesBonnes, Suivies
      <4>. QED BY <4>1, <4>2
    <3>3. ASSUME NEW i \in DOMAIN journees', NEW k \in DOMAIN journees', i < k
          PROVE  journees'[i].fin <= journees'[k].debut
      <4>1. i \in DOMAIN journees /\ journees'[i] = journees[i]
        BY <2>5, <2>8, <3>3
      <4>2. CASE k = n + 1
        BY <2>4, <2>7, <2>8, <4>1, <4>2
      <4>3. CASE k # n + 1
        BY <2>9, <3>3, <4>1, <4>3 DEF IInv, CloturesBonnes, Suivies
      <4>. QED BY <4>2, <4>3
    <3>. QED BY <3>1, <3>2, <3>3 DEF Suivies
  <2>16. TotauxBons'
    <3>1. /\ \A i \in 0..n : Cumul(i)' = Cumul(i)
          /\ Cumul(n + 1)' = Cumul(n) \cup a.rapport
      BY <2>2, <2>5, <2>7, CumulApres
    <3>2. Cardinality(Cumul(n) \cup a.rapport) = Cardinality(Cumul(n)) + Cardinality(a.rapport)
      <4>1. IsFiniteSet(Cumul(n)) /\ Cumul(n) \cap a.rapport = {}
        BY <2>4, CumulFini
      <4>2. Cardinality(Cumul(n)) \in Nat
        BY <4>1, FS_CardinalityType
      <4>4. Cardinality(Cumul(n) \cap a.rapport) = 0
        BY <4>1, FS_EmptySet
      <4>3. Cardinality(Cumul(n) \cup a.rapport) =
              Cardinality(Cumul(n)) + Cardinality(a.rapport) - Cardinality(Cumul(n) \cap a.rapport)
        BY <2>6, <4>1, FS_Union
      <4>. QED BY <2>6, <4>2, <4>3, <4>4
    <3>3. ASSUME NEW i \in DOMAIN journees'
          PROVE  journees'[i].perpetuel = Cardinality(Cumul(i)')
      <4>1. CASE i = n + 1
        BY <2>7, <2>8, <3>1, <3>2, <4>1
      <4>2. CASE i # n + 1
        <5>1. i \in DOMAIN journees /\ journees'[i] = journees[i] /\ i \in 0..n
          BY <2>5, <2>8, <2>9, <4>2
        <5>2. journees[i].perpetuel = Cardinality(Cumul(i))
          BY <5>1 DEF IInv, TotauxBons, PerpetuelJuste, Cumul
        <5>. QED BY <3>1, <5>1, <5>2
      <4>. QED BY <4>1, <4>2
    <3>4. ASSUME NEW i \in DOMAIN calendaires
          PROVE  /\ calendaires[i].apres <= Len(journees')
                 /\ calendaires[i].perpetuel =
                      IF calendaires[i].apres = 0 THEN 0
                      ELSE journees'[calendaires[i].apres].perpetuel
      <4>1. calendaires[i].apres \in Nat /\ calendaires[i].apres <= n
        <5>1. calendaires[i] \in Calendaires
          BY AuBout DEF IInv, Types, TypesClotures, Range
        <5>. QED BY <5>1 DEF Calendaires, IInv, TotauxBons
      <4>2. calendaires[i].apres # 0 => calendaires[i].apres \in 1..n
        BY <2>5, <4>1
      <4>3. calendaires[i].perpetuel =
                      IF calendaires[i].apres = 0 THEN 0
                      ELSE journees[calendaires[i].apres].perpetuel
        BY DEF IInv, TotauxBons, PerpetuelJuste
      <4>. QED BY <2>5, <2>8, <4>1, <4>2, <4>3
    <3>. QED BY <1>1, <3>3, <3>4 DEF TotauxBons, PerpetuelJuste, Cumul
  <2>17. PeriodeClotureeUneFois'
    BY <1>1 DEF IInv, PeriodeClotureeUneFois
  <2>. QED BY <2>10, <2>11, <2>12, <2>13, <2>14, <2>15, <2>16, <2>17
           DEF IInv, Types, VentesApres, CloturesBonnes
<1>. QED BY <1>4, <1>5

-----------------------------------------------------------------------------
(* The invariant holds.                                                         *)

\* The invariant holds at the start.
LEMMA AuDebut == Init => IInv
<1>. SUFFICES ASSUME Init PROVE IInv
  OBVIOUS
<1>1. /\ heure = 1 /\ registre = <<>> /\ date = [v \in Ventes |-> Aucun] /\ verrou = Aucun
      /\ journees = <<>> /\ calendaires = <<>> /\ rattrapage = Aucun /\ antidatees = {}
      /\ appel = [p \in Processus |-> AuRepos]
  BY DEF Init
<1>2. Reglees = {} /\ Range(journees) = {} /\ Range(calendaires) = {}
  BY <1>1 DEF Reglees, Range
<1>3. TypesVentes
  BY <1>1 DEF TypesVentes, IsInjective
<1>4. TypesClotures
  BY <1>1 DEF TypesClotures
<1>5. TypesAppels /\ AppelsBons
  BY <1>1, ReposBon DEF TypesAppels, AppelsBons, Range
<1>6. VentesBonnes /\ DansLOrdre
  BY <1>1, <1>2 DEF VentesBonnes, DansLOrdre, APlace
<1>7. CloturesBonnes /\ TotauxBons /\ PeriodeClotureeUneFois
  BY <1>1, <1>2 DEF CloturesBonnes, Suivies, TotauxBons, PerpetuelJuste,
                    PeriodeClotureeUneFois
<1>. QED BY <1>3, <1>4, <1>5, <1>6, <1>7 DEF IInv, Types

\* It does not depend on stuttering.
LEMMA SansPas == IInv /\ UNCHANGED vars => IInv'
<1>. SUFFICES ASSUME IInv, UNCHANGED vars PROVE IInv'
  OBVIOUS
<1>1. /\ SeulementAppel /\ appel' = appel
  BY DEF vars, SeulementAppel
<1>2. VentesApres
  BY <1>1, SansVente DEF IInv, SeulementAppel
<1>. QED BY <1>1, <1>2, SansCloture DEF SeulementAppel, IInv, Types, TypesClotures

\* Every step preserves it: one case per action.
LEMMA ApresChaquePas == IInv /\ [Next]_vars => IInv'
<1>. SUFFICES ASSUME IInv, [Next]_vars PROVE IInv'
  OBVIOUS
<1>1. CASE Tic \/ VenteSuivante
  BY <1>1, VentesPas
<1>2. CASE \E p \in Demandes : FixerLaFin(p) \/ \E q \in Periodes : DemanderPeriode(p, q)
  BY <1>2, FinBonne, DemanderBonne
<1>3. CASE \E p \in Taches : Filet(p)
  BY <1>3, SeuilBon, FiletBon, LireBonne, SuivanteBonne, NiveauBon DEF Filet
<1>4. CASE \E p \in Processus : Etape(p) \/ Interrompre(p)
  BY <1>4, RapportBon, JournalierePas, PeriodePas, BarriereBonne, InterrompreBon DEF Etape
<1>5. CASE UNCHANGED vars
  BY <1>5, SansPas
<1>. QED BY <1>1, <1>2, <1>3, <1>4, <1>5 DEF Next

\* The inductive invariant holds in every state.
LEMMA Invariante == Spec => []IInv
BY AuDebut, ApresChaquePas, PTL DEF Spec

-----------------------------------------------------------------------------
(* What the catch-up had read: a transfer it dates at its own hour comes after  *)
(* every closure it knew, so only one recorded since may lack it.               *)

\* The closures known when v was taken up end at h at the latest.
Anciennes(v, h) ==
  /\ \A i \in 1..connues[v].j : journees[i].fin <= h
  /\ \A i \in 1..connues[v].c : calendaires[i].periode.fin <= h

Connus ==
  /\ connues \in [Virements -> [j : Nat, c : Nat]]
  /\ rattrapage = Aucun => verrou \notin Virements
  /\ \A v \in Virements : connues[v].j <= Len(journees) /\ connues[v].c <= Len(calendaires)
  /\ rattrapage # Aucun => \A v \in Virements \ Reglees : Anciennes(v, rattrapage)
  /\ \A v \in antidatees : Anciennes(v, date[v])

\* Closures are only added, after the others.
ClotureesRestent ==
  /\ Len(journees) <= Len(journees') /\ Len(calendaires) <= Len(calendaires')
  /\ \A i \in 1..Len(journees) : journees'[i] = journees[i]
  /\ \A i \in 1..Len(calendaires) : calendaires'[i] = calendaires[i]

\* So what was known of them still is.
LEMMA AnciennesRestent ==
  ASSUME IInv, IInv', Connus, ClotureesRestent, connues' = connues
  PROVE  /\ \A v \in Virements : connues[v].j <= Len(journees') /\ connues[v].c <= Len(calendaires')
         /\ \A v \in Virements, h \in Nat : Anciennes(v, h) => Anciennes(v, h)'
<1>1. /\ Len(journees) \in Nat /\ Len(calendaires) \in Nat
      /\ Len(journees') \in Nat /\ Len(calendaires') \in Nat
  BY DEF IInv, Types, TypesClotures
<1>2. \A v \in Virements : connues[v].j \in Nat /\ connues[v].c \in Nat
  BY DEF Connus
<1>3. \A v \in Virements : connues[v].j <= Len(journees') /\ connues[v].c <= Len(calendaires')
  BY <1>1, <1>2 DEF Connus, ClotureesRestent
<1>4. ASSUME NEW v \in Virements, NEW h \in Nat, Anciennes(v, h)
      PROVE  /\ \A i \in 1..connues[v].j : journees'[i].fin <= h
             /\ \A i \in 1..connues[v].c : calendaires'[i].periode.fin <= h
  <2>1. connues[v].j <= Len(journees) /\ connues[v].c <= Len(calendaires)
    BY DEF Connus
  <2>2. ASSUME NEW i \in 1..connues[v].j PROVE journees'[i].fin <= h
    <3>1. i \in 1..Len(journees)
      BY <1>1, <1>2, <2>1, <2>2
    <3>. QED BY <1>4, <3>1 DEF Anciennes, ClotureesRestent
  <2>3. ASSUME NEW i \in 1..connues[v].c PROVE calendaires'[i].periode.fin <= h
    <3>1. i \in 1..Len(calendaires)
      BY <1>1, <1>2, <2>1, <2>3
    <3>. QED BY <1>4, <3>1 DEF Anciennes, ClotureesRestent
  <2>. QED BY <2>2, <2>3
<1>5. \A v \in Virements, h \in Nat : Anciennes(v, h) => Anciennes(v, h)'
  BY <1>4 DEF Anciennes
<1>. QED BY <1>3, <1>5

\* A late transfer has an hour.
LEMMA AntidateesDatees ==
  ASSUME IInv
  PROVE  \A v \in antidatees : v \in Virements /\ v \in Ventes /\ date[v] \in Nat
BY ClotureHypothese DEF IInv, Types, TypesVentes, VentesBonnes, Datee

\* The ends of the closures, as the catch-up reads them.
LEMMA FinsLues ==
  ASSUME IInv
  PROVE  /\ \A i \in DOMAIN journees : journees[i].fin <= Max({0} \cup FinsDesClotures)
         /\ \A i \in DOMAIN calendaires :
              calendaires[i].periode.fin <= Max({0} \cup FinsDesClotures)
<1>1. /\ journees \in Seq(Journees) /\ calendaires \in Seq(Calendaires) /\ heure \in Nat
      /\ Range(journees) \subseteq Journees /\ Range(calendaires) \subseteq Calendaires
  BY AuBout DEF IInv, Types, TypesClotures, TypesVentes
<1>2. ASSUME NEW i \in DOMAIN journees
      PROVE  journees[i].fin \in Nat /\ journees[i].fin <= heure
  <2>1. journees[i] \in Range(journees)
    BY DEF Range
  <2>. QED BY <1>1, <2>1 DEF IInv, CloturesBonnes, JourneeBonne, Passee, Journees
<1>3. ASSUME NEW i \in DOMAIN calendaires
      PROVE  calendaires[i].periode.fin \in Nat /\ calendaires[i].periode.fin <= heure
  <2>1. calendaires[i] \in Range(calendaires)
    BY DEF Range
  <2>2. calendaires[i].periode.fin \in Nat
    BY <1>1, <2>1, ClotureHypothese DEF Calendaires
  <2>. QED BY <2>1, <2>2 DEF IInv, CloturesBonnes, PeriodeBonne, Passee
<1>4. \A x \in {0} \cup FinsDesClotures : x \in Nat /\ x <= heure
  BY <1>1, <1>2, <1>3 DEF FinsDesClotures
<1>5. /\ \A i \in DOMAIN journees : journees[i].fin \in {0} \cup FinsDesClotures
      /\ \A i \in DOMAIN calendaires : calendaires[i].periode.fin \in {0} \cup FinsDesClotures
  BY DEF FinsDesClotures
<1>. HIDE DEF FinsDesClotures
<1>6. \A x \in {0} \cup FinsDesClotures : x <= Max({0} \cup FinsDesClotures)
  BY <1>1, <1>4, PlusGrand
<1>. QED BY <1>5, <1>6

\* The ends of the closures known are hours.
LEMMA FinsConnues ==
  ASSUME IInv, Connus, NEW v \in Virements
  PROVE  /\ \A i \in 1..connues[v].j : journees[i].fin \in Nat
         /\ \A i \in 1..connues[v].c : calendaires[i].periode.fin \in Nat
<1>1. /\ journees \in Seq(Journees) /\ calendaires \in Seq(Calendaires)
      /\ Len(journees) \in Nat /\ Len(calendaires) \in Nat
  BY DEF IInv, Types, TypesClotures
<1>2. /\ connues[v].j \in Nat /\ connues[v].c \in Nat
      /\ connues[v].j <= Len(journees) /\ connues[v].c <= Len(calendaires)
  BY DEF Connus
<1>3. ASSUME NEW i \in 1..connues[v].j PROVE journees[i].fin \in Nat
  <2>1. i \in 1..Len(journees)
    BY <1>1, <1>2
  <2>2. journees[i] \in Journees
    BY <1>1, <2>1
  <2>. QED BY <2>2 DEF Journees
<1>4. ASSUME NEW i \in 1..connues[v].c PROVE calendaires[i].periode.fin \in Nat
  <2>1. i \in 1..Len(calendaires)
    BY <1>1, <1>2
  <2>2. calendaires[i] \in Calendaires
    BY <1>1, <2>1
  <2>3. calendaires[i].periode \in Periodes
    BY <2>2 DEF Calendaires
  <2>. QED BY <2>3, ClotureHypothese
<1>. QED BY <1>3, <1>4

\* A step that leaves the sales and the catch-up alone.
LEMMA ConnusHorsVentes ==
  ASSUME IInv, IInv', Connus, ClotureesRestent, UNCHANGED <<ventesVars, rattrapage>>
  PROVE  Connus'
<1>1. /\ connues' = connues /\ date' = date /\ antidatees' = antidatees /\ verrou' = verrou
      /\ rattrapage' = rattrapage /\ Reglees' = Reglees
  BY DEF ventesVars, Reglees
<1>2. /\ \A v \in Virements : connues'[v].j <= Len(journees') /\ connues'[v].c <= Len(calendaires')
      /\ \A v \in Virements, h \in Nat : Anciennes(v, h) => Anciennes(v, h)'
  BY <1>1, AnciennesRestent
<1>3. \A v \in antidatees' : Anciennes(v, date[v])'
  <2>1. \A v \in antidatees : Anciennes(v, date[v])
    BY DEF Connus
  <2>2. \A v \in antidatees : \A h \in Nat : Anciennes(v, h) => Anciennes(v, h)'
    BY <1>2, AntidateesDatees
  <2>3. ASSUME NEW v \in antidatees PROVE Anciennes(v, date[v])'
    <3>1. PICK h \in Nat : h = date[v]
      BY AntidateesDatees
    <3>2. Anciennes(v, h)'
      BY <2>1, <2>2, <3>1
    <3>. QED BY <1>1, <3>1, <3>2 DEF Anciennes
  <2>. QED BY <1>1, <2>3
<1>4. rattrapage' # Aucun => \A v \in Virements \ Reglees' : Anciennes(v, rattrapage)'
  <2>. SUFFICES ASSUME rattrapage # Aucun, NEW v \in Virements \ Reglees
                PROVE  Anciennes(v, rattrapage)'
    BY <1>1
  <2>1. PICK h \in Nat : h = rattrapage
    BY DEF IInv, Types, TypesClotures
  <2>2. Anciennes(v, h)'
    BY <1>2, <2>1 DEF Connus
  <2>. QED BY <1>1, <2>1, <2>2 DEF Anciennes
<1>. QED BY <1>1, <1>2, <1>3, <1>4 DEF Connus

\* The steps of the sales.
LEMMA ConnusVentes ==
  ASSUME IInv, IInv', Connus, VenteSuivante
  PROVE  Connus'
<1>0. journees' = journees /\ calendaires' = calendaires
  BY DEF VenteSuivante, Encaisser, Valider, Annuler, LireLesVirements,
         EncaisserVirement, FinDuRattrapage, cloturesVars
<1>1. CASE (\E v \in Ventes : Encaisser(v)) \/ Valider \/ Annuler
           \/ \E v \in Virements : EncaisserVirement(v)
  <2>1. connues' = connues /\ rattrapage' = rattrapage
    BY <1>1 DEF Encaisser, Valider, Annuler, EncaisserVirement
  <2>2. Reglees \subseteq Reglees' /\ (rattrapage = Aucun => verrou' \notin Virements)
    <3>1. CASE \E v \in Ventes : Encaisser(v)
      BY <3>1 DEF Encaisser, Encaissable, Reglees
    <3>2. CASE Valider
      <4>1. registre \in Seq(Ventes) /\ registre' = Append(registre, verrou) /\ verrou' = Aucun
        BY <3>2 DEF Valider, IInv, Types, TypesVentes
      <4>. QED BY <4>1, AuBout, ClotureHypothese DEF Reglees
    <3>3. CASE Annuler
      BY <3>3, ClotureHypothese DEF Annuler, Reglees
    <3>4. CASE \E v \in Virements : EncaisserVirement(v)
      BY <3>4 DEF EncaisserVirement, Reglees
    <3>. QED BY <1>1, <3>1, <3>2, <3>3, <3>4
  <2>3. ASSUME NEW v \in antidatees' PROVE Anciennes(v, date'[v])
    <3>1. CASE v \in antidatees /\ date'[v] = date[v]
      BY <3>1 DEF Connus
    <3>2. CASE v \notin antidatees \/ date'[v] # date[v]
      <4>1. CASE \E x \in Virements : EncaisserVirement(x)
        <5>1. PICK x \in Virements : EncaisserVirement(x)
          BY <4>1
        <5>2. /\ date \in [Ventes -> Nat \cup {Aucun}] /\ rattrapage \in Nat /\ x \in Ventes
              /\ DateVirement[x] \in Nat /\ antidatees \subseteq Reglees \cup {verrou}
          BY <5>1, ClotureHypothese DEF EncaisserVirement, IInv, Types, TypesVentes,
             TypesClotures, VentesBonnes
        <5>3. v = x /\ DateVirement[x] > rattrapage /\ date'[x] = DateVirement[x]
              /\ v \in Virements \ Reglees
          <6>1. x \notin antidatees
            BY <5>1, <5>2, ClotureHypothese DEF EncaisserVirement
          <6>2. \A y \in antidatees : date'[y] = date[y]
            BY <5>1, <5>2, <6>1, AntidateesDatees DEF EncaisserVirement
          <6>. QED BY <3>2, <5>1, <5>2, <6>1, <6>2 DEF EncaisserVirement
        <5>4. Anciennes(v, rattrapage)
          BY <5>1, <5>3 DEF Connus, EncaisserVirement
        <5>. QED
          <6>1. /\ \A i \in 1..connues[v].j : journees[i].fin \in Nat
                /\ \A i \in 1..connues[v].c : calendaires[i].periode.fin \in Nat
            BY <5>3, FinsConnues
          <6>. QED BY <5>2, <5>3, <5>4, <6>1 DEF Anciennes
      <4>2. CASE \E x \in Ventes : Encaisser(x)
        <5>1. PICK x \in Ventes : Encaisser(x)
          BY <4>2
        <5>2. /\ date \in [Ventes -> Nat \cup {Aucun}] /\ antidatees \in SUBSET Virements
              /\ antidatees' = antidatees /\ x \notin Virements
              /\ date' = [date EXCEPT ![x] = heure]
          BY <5>1 DEF Encaisser, Encaissable, IInv, Types, TypesVentes
        <5>3. v # x /\ v \in Ventes /\ v \in antidatees
          BY <5>2, ClotureHypothese
        <5>. QED BY <3>2, <5>2, <5>3
      <4>3. CASE Valider
        BY <3>2, <4>3 DEF Valider
      <4>4. CASE Annuler
        <5>1. /\ date \in [Ventes -> Nat \cup {Aucun}] /\ v \in antidatees /\ v # verrou
              /\ v \in Ventes
          BY <4>4, AntidateesDatees DEF Annuler, IInv, Types, TypesVentes
        <5>. QED BY <3>2, <4>4, <5>1 DEF Annuler
      <4>. QED BY <1>1, <4>1, <4>2, <4>3, <4>4
    <3>. QED BY <3>1, <3>2
  <2>4. /\ connues' \in [Virements -> [j : Nat, c : Nat]]
        /\ rattrapage' = Aucun => verrou' \notin Virements
        /\ \A v \in Virements :
              connues'[v].j <= Len(journees') /\ connues'[v].c <= Len(calendaires')
    BY <1>0, <2>1, <2>2 DEF Connus
  <2>5. rattrapage' # Aucun => \A v \in Virements \ Reglees' : Anciennes(v, rattrapage)'
    BY <1>0, <2>1, <2>2 DEF Connus, Anciennes
  <2>6. \A v \in antidatees' : Anciennes(v, date[v])'
    BY <1>0, <2>1, <2>3 DEF Anciennes
  <2>. QED BY <2>4, <2>5, <2>6 DEF Connus
<1>2. CASE LireLesVirements
  <2>1. /\ rattrapage = Aucun /\ rattrapage' = Max({0} \cup FinsDesClotures)
        /\ connues' = [v \in Virements |-> IF v \in Reglees THEN connues[v]
                         ELSE [j |-> Len(journees), c |-> Len(calendaires)]]
        /\ Reglees' = Reglees /\ date' = date /\ verrou' = verrou /\ antidatees' = antidatees
    BY <1>2 DEF LireLesVirements, Reglees
  <2>2. /\ journees \in Seq(Journees) /\ calendaires \in Seq(Calendaires)
        /\ Len(journees) \in Nat /\ Len(calendaires) \in Nat
        /\ DOMAIN journees = 1..Len(journees) /\ DOMAIN calendaires = 1..Len(calendaires)
    BY DEF IInv, Types, TypesClotures
  <2>. DEFINE luesMaintenant == [j |-> Len(journees), c |-> Len(calendaires)]
  <2>3. luesMaintenant \in [j : Nat, c : Nat]
    BY <2>2
  <2>4. connues' \in [Virements -> [j : Nat, c : Nat]]
    BY <2>1, <2>3 DEF Connus
  <2>5. \A v \in Virements :
          connues'[v].j <= Len(journees') /\ connues'[v].c <= Len(calendaires')
    BY <1>0, <2>1, <2>2 DEF Connus
  <2>6. verrou \notin Virements
    BY <2>1 DEF Connus
  <2>7. ASSUME NEW v \in Virements \ Reglees PROVE Anciennes(v, rattrapage)'
    <3>1. connues'[v].j = Len(journees) /\ connues'[v].c = Len(calendaires)
      BY <2>1, <2>7
    <3>. QED BY <1>0, <2>1, <2>2, <3>1, FinsLues DEF Anciennes
  <2>8. ASSUME NEW v \in antidatees PROVE Anciennes(v, date[v])'
    <3>1. v \in Reglees /\ v \in Virements
      BY <2>6, AntidateesDatees DEF IInv, VentesBonnes
    <3>2. connues'[v] = connues[v]
      BY <2>1, <3>1
    <3>. QED BY <1>0, <2>1, <3>2 DEF Anciennes, Connus
  <2>. QED BY <2>1, <2>4, <2>5, <2>6, <2>7, <2>8 DEF Connus
<1>3. CASE FinDuRattrapage
  <2>1. /\ rattrapage' = Aucun /\ verrou \notin Virements /\ connues' = connues
        /\ Reglees' = Reglees /\ date' = date /\ verrou' = verrou /\ antidatees' = antidatees
    BY <1>3 DEF FinDuRattrapage, ventesVars, Reglees
  <2>. QED BY <1>0, <2>1 DEF Connus, Anciennes
<1>. QED BY <1>1, <1>2, <1>3 DEF VenteSuivante

\* Every step preserves it.
LEMMA ConnusPas == IInv /\ IInv' /\ Connus /\ [Next]_vars => Connus'
<1>. SUFFICES ASSUME IInv, IInv', Connus, [Next]_vars PROVE Connus'
  OBVIOUS
<1>1. CASE VenteSuivante
  BY <1>1, ConnusVentes
<1>2. CASE Tic \/ UNCHANGED vars
           \/ (\E p \in Demandes : FixerLaFin(p) \/ \E q \in Periodes : DemanderPeriode(p, q))
           \/ (\E p \in Taches : Filet(p))
           \/ (\E p \in Processus : LireRapport(p) \/ PasserLaBarriere(p) \/ Interrompre(p))
  <2>1. UNCHANGED <<ventesVars, rattrapage, journees, calendaires>>
    BY <1>2 DEF Tic, vars, FixerLaFin, DemanderPeriode, Filet, LireLeSeuil, FixerLeFilet,
       LireLesPeriodes, PeriodeSuivante, FinDuNiveau, LireRapport, PasserLaBarriere,
       Interrompre, ventesVars, cloturesVars
  <2>2. ClotureesRestent
    BY <2>1 DEF ClotureesRestent, IInv, Types, TypesClotures
  <2>. QED BY <2>1, <2>2, ConnusHorsVentes
<1>3. ASSUME NEW p \in Processus, EnregistrerJ(p) PROVE Connus'
  <2>1. /\ UNCHANGED <<ventesVars, rattrapage>> /\ calendaires' = calendaires
        /\ \/ journees' = journees
           \/ \E x : journees' = Append(journees, x)
    BY <1>3 DEF EnregistrerJ
  <2>2. ClotureesRestent
    BY <2>1, AuBout DEF ClotureesRestent, IInv, Types, TypesClotures
  <2>. QED BY <2>1, <2>2, ConnusHorsVentes
<1>4. ASSUME NEW p \in Processus, EnregistrerPeriode(p) PROVE Connus'
  <2>1. /\ UNCHANGED <<ventesVars, rattrapage>> /\ journees' = journees
        /\ \/ calendaires' = calendaires
           \/ \E x : calendaires' = Append(calendaires, x)
    BY <1>4 DEF EnregistrerPeriode
  <2>2. ClotureesRestent
    BY <2>1, AuBout DEF ClotureesRestent, IInv, Types, TypesClotures
  <2>. QED BY <2>1, <2>2, ConnusHorsVentes
<1>. QED BY <1>1, <1>2, <1>3, <1>4 DEF Next, Etape

\* It holds in every state.
LEMMA ToujoursConnus == Spec => [](IInv /\ Connus)
<1>1. Init => Connus
  BY ClotureHypothese DEF Init, Connus, Anciennes
<1>2. IInv /\ Connus /\ [Next]_vars => (IInv /\ Connus)'
  BY ApresChaquePas, ConnusPas
<1>. QED BY <1>1, <1>2, AuDebut, PTL DEF Spec

-----------------------------------------------------------------------------
(* The theorems.                                                                *)

\* Every variable keeps its type.
THEOREM TypeCorrect == Spec => []TypeOK
<1>1. IInv /\ Connus => TypeOK
  BY DEF IInv, Types, TypesVentes, TypesClotures, TypesAppels, TypeOK, Journees,
         Calendaires, Appels, Connus
<1>. QED BY <1>1, ToujoursConnus, PTL

\* A recorded closure says for ever what the register says of its range, though its
\* report is read with no lock: no sale of the till can enter the range any more, and a
\* transfer enters it only if the catch-up had read the closures before this one.
THEOREM RapportsDefinitifs == Spec => []RapportDefinitif
<1>1. ASSUME IInv, Connus, NEW i \in DOMAIN journees
      PROVE  Definitif(journees[i].ventes, journees[i].debut, journees[i].fin,
                       {v \in antidatees : connues[v].j < i})
  <2>1. /\ journees \in Seq(Journees) /\ i \in 1..Len(journees) /\ i \in Nat
        /\ journees[i] \in Journees /\ journees[i] \in Range(journees)
    BY <1>1, AuBout DEF Range, IInv, Types, TypesClotures
  <2>2. /\ Complet(journees[i].ventes, journees[i].debut, journees[i].fin)
        /\ journees[i].fin \in Nat
    BY <1>1, <2>1 DEF IInv, CloturesBonnes, JourneeBonne, Journees
  <2>3. ASSUME NEW v \in VentesEntre(journees[i].debut, journees[i].fin) \ journees[i].ventes
        PROVE  v \in antidatees /\ connues[v].j < i
    <3>1. v \in antidatees /\ date[v] < journees[i].fin
      BY <2>2, <2>3 DEF Complet, VentesEntre
    <3>2. v \in Virements /\ date[v] \in Nat
      BY <1>1, <3>1, AntidateesDatees
    <3>3. connues[v].j \in Nat /\ Anciennes(v, date[v])
      BY <1>1, <3>1, <3>2 DEF Connus
    <3>4. ~(i <= connues[v].j)
      BY <2>1, <2>2, <3>1, <3>2, <3>3 DEF Anciennes
    <3>. QED BY <2>1, <3>1, <3>3, <3>4
  <2>. QED BY <2>2, <2>3 DEF Complet, Definitif
<1>2. ASSUME IInv, Connus, NEW i \in DOMAIN calendaires
      PROVE  Definitif(calendaires[i].ventes, calendaires[i].periode.debut,
                       calendaires[i].periode.fin, {v \in antidatees : connues[v].c < i})
  <2>. DEFINE q == calendaires[i].periode
  <2>1. /\ calendaires \in Seq(Calendaires) /\ i \in 1..Len(calendaires) /\ i \in Nat
        /\ calendaires[i] \in Calendaires /\ calendaires[i] \in Range(calendaires)
    BY <1>2, AuBout DEF Range, IInv, Types, TypesClotures
  <2>2. q \in Periodes
    BY <2>1 DEF Calendaires
  <2>3. Complet(calendaires[i].ventes, q.debut, q.fin) /\ q.fin \in Nat
    BY <1>2, <2>1, <2>2, ClotureHypothese DEF IInv, CloturesBonnes, PeriodeBonne
  <2>4. ASSUME NEW v \in VentesEntre(q.debut, q.fin) \ calendaires[i].ventes
        PROVE  v \in antidatees /\ connues[v].c < i
    <3>1. v \in antidatees /\ date[v] < q.fin
      BY <2>3, <2>4 DEF Complet, VentesEntre
    <3>2. v \in Virements /\ date[v] \in Nat
      BY <1>2, <3>1, AntidateesDatees
    <3>3. connues[v].c \in Nat /\ Anciennes(v, date[v])
      BY <1>2, <3>1, <3>2 DEF Connus
    <3>4. ~(i <= connues[v].c)
      BY <2>1, <2>3, <3>1, <3>2, <3>3 DEF Anciennes
    <3>. QED BY <2>1, <3>1, <3>3, <3>4
  <2>. QED BY <2>3, <2>4 DEF Complet, Definitif
<1>3. IInv /\ Connus => RapportDefinitif
  BY <1>1, <1>2 DEF RapportDefinitif
<1>. QED BY <1>3, ToujoursConnus, PTL

\* The perpetual totals are sums: no sale is in two J.
THEOREM PerpetuelsJustes == Spec => []PerpetuelJuste
<1>1. IInv => PerpetuelJuste
  BY DEF IInv, TotauxBons
<1>. QED BY <1>1, Invariante, PTL

\* No period is closed twice, whoever asks for it.
THEOREM PeriodesUniques == Spec => []PeriodeClotureeUneFois
<1>1. IInv => PeriodeClotureeUneFois
  BY DEF IInv
<1>. QED BY <1>1, Invariante, PTL

\* The facts about one J that the last two theorems use.
LEMMA JourneeLue ==
  ASSUME IInv, NEW i \in DOMAIN journees
  PROVE  /\ journees[i].debut \in Nat /\ journees[i].fin \in Nat
         /\ journees[i].debut < journees[i].fin /\ journees[i].ventes # {}
         /\ journees[i].ventes \subseteq VentesEntre(journees[i].debut, journees[i].fin)
         /\ VentesEntre(journees[i].debut, journees[i].fin) \ antidatees
              \subseteq journees[i].ventes
<1>1. journees[i] \in Journees /\ journees[i] \in Range(journees)
  BY AuBout DEF Range, IInv, Types, TypesClotures
<1>. QED BY <1>1 DEF Journees, IInv, CloturesBonnes, JourneeBonne, Complet

\* The J partition the sales, the transfers entered late apart: an hour before the end of
\* the last J is in the range of one.
LEMMA VentesDeLaCaisse ==
  ASSUME IInv
  PROVE  \A v \in Reglees \ antidatees :
           IF date[v] < FinDeLaDerniereJ
           THEN \E i \in DOMAIN journees :
                  /\ JDe(v) = {i}
                  /\ journees[i].debut <= date[v] /\ date[v] < journees[i].fin
           ELSE JDe(v) = {}
<1>1. ASSUME IInv, NEW v \in Reglees \ antidatees PROVE
        IF date[v] < FinDeLaDerniereJ
        THEN \E i \in DOMAIN journees :
               /\ JDe(v) = {i}
               /\ journees[i].debut <= date[v] /\ date[v] < journees[i].fin
        ELSE JDe(v) = {}
  <2>1. /\ journees \in Seq(Journees) /\ Len(journees) \in Nat /\ date[v] \in Nat
        /\ DOMAIN journees = 1..Len(journees)
    BY <1>1 DEF IInv, Types, TypesClotures, VentesBonnes, Datee
  <2>2. \A i \in DOMAIN journees :
          v \in journees[i].ventes => journees[i].debut <= date[v] /\ date[v] < journees[i].fin
    BY <1>1, JourneeLue DEF VentesEntre
  <2>3. \A i, k \in DOMAIN journees : i < k => journees[i].fin <= journees[k].debut
    BY <1>1 DEF IInv, CloturesBonnes, Suivies
  <2>4. \A i \in DOMAIN journees :
          /\ journees[i].debut \in Nat /\ journees[i].fin \in Nat
          /\ journees[i].debut < journees[i].fin
    BY <1>1, JourneeLue
  <2>5. CASE date[v] < FinDeLaDerniereJ
    <3>. DEFINE K == {i \in DOMAIN journees : date[v] < journees[i].fin}
    <3>1. journees # <<>> /\ Len(journees) \in DOMAIN journees
      BY <2>1, <2>5 DEF FinDeLaDerniereJ
    <3>2. Len(journees) \in K /\ K \in SUBSET Nat
      BY <2>1, <2>5, <3>1 DEF FinDeLaDerniereJ
    <3>3. PICK i \in K : \A k \in K : i <= k
      BY <3>2, PlusPetit
    <3>4. i \in DOMAIN journees /\ i \in Nat /\ date[v] < journees[i].fin
      BY <2>1, <3>3
    <3>5. journees[i].debut <= date[v]
      <4>1. CASE i = 1
        BY <1>1, <3>1, <4>1 DEF IInv, CloturesBonnes, Suivies, AvantTout
      <4>2. CASE i # 1
        <5>1. i - 1 \in 1..(Len(journees) - 1) /\ i - 1 \in DOMAIN journees /\ (i - 1) + 1 = i
          BY <2>1, <3>4, <4>2
        <5>2. i - 1 \notin K
          BY <3>3, <3>4
        <5>3. journees[i].debut = journees[i - 1].fin
          BY <1>1, <5>1 DEF IInv, CloturesBonnes, Suivies
        <5>. QED BY <2>1, <2>4, <5>1, <5>2, <5>3
      <4>. QED BY <4>1, <4>2
    <3>6. v \in journees[i].ventes
      BY <1>1, <3>4, <3>5, JourneeLue DEF VentesEntre
    <3>7. ASSUME NEW k \in DOMAIN journees, v \in journees[k].ventes
          PROVE  k = i
      <4>1. /\ journees[k].debut <= date[v] /\ date[v] < journees[k].fin
            /\ journees[k].debut \in Nat /\ journees[i].debut \in Nat
            /\ journees[k].fin \in Nat /\ journees[i].fin \in Nat /\ k \in Nat
        BY <2>1, <2>2, <2>4, <3>4, <3>7
      <4>2. ~(k < i)
        BY <2>1, <2>3, <3>4, <3>5, <4>1
      <4>3. ~(i < k)
        BY <2>1, <2>3, <3>4, <4>1
      <4>. QED BY <3>4, <4>1, <4>2, <4>3
    <3>8. JDe(v) = {i}
      BY <3>4, <3>6, <3>7 DEF JDe
    <3>. QED BY <2>5, <3>4, <3>5, <3>8
  <2>6. CASE ~(date[v] < FinDeLaDerniereJ)
    <3>1. ASSUME NEW i \in DOMAIN journees, v \in journees[i].ventes
          PROVE  FALSE
      <4>1. journees # <<>> /\ Len(journees) \in DOMAIN journees
        BY <2>1
      <4>2. /\ journees[Len(journees)].fin <= date[v]
            /\ journees[Len(journees)].fin \in Nat /\ journees[i].fin \in Nat
            /\ journees[Len(journees)].debut \in Nat
            /\ journees[Len(journees)].debut < journees[Len(journees)].fin
        BY <2>1, <2>4, <2>6, <4>1 DEF FinDeLaDerniereJ
      <4>3. date[v] < journees[i].fin
        BY <2>2, <3>1
      <4>4. i < Len(journees) => journees[i].fin <= journees[Len(journees)].debut
        BY <2>3, <4>1
      <4>. QED BY <2>1, <4>2, <4>3, <4>4
    <3>. QED BY <2>6, <3>1 DEF JDe
  <2>. QED BY <2>5, <2>6
<1>. QED BY <1>1

\* A transfer entered late is in one J at most, the one whose range holds its hour; in
\* none, it is after them all or one of them was not known to the catch-up.
LEMMA VirementsTardifs ==
  ASSUME IInv, Connus, NEW v \in antidatees
  PROVE  \/ \E i \in DOMAIN journees :
              /\ JDe(v) = {i}
              /\ journees[i].debut <= date[v] /\ date[v] < journees[i].fin
         \/ /\ JDe(v) = {}
            /\ date[v] >= FinDeLaDerniereJ \/ connues[v].j < Len(journees)
<1>1. /\ journees \in Seq(Journees) /\ Len(journees) \in Nat /\ date[v] \in Nat
      /\ DOMAIN journees = 1..Len(journees) /\ v \in Virements
  BY AntidateesDatees DEF IInv, Types, TypesClotures
<1>2. \A i \in DOMAIN journees :
        /\ v \in journees[i].ventes => journees[i].debut <= date[v] /\ date[v] < journees[i].fin
        /\ journees[i].debut \in Nat /\ journees[i].fin \in Nat
  BY JourneeLue DEF VentesEntre
<1>3. \A i, k \in DOMAIN journees : i < k => journees[i].fin <= journees[k].debut
  BY DEF IInv, CloturesBonnes, Suivies
<1>4. ASSUME NEW i \in DOMAIN journees, v \in journees[i].ventes
      PROVE  JDe(v) = {i}
  <2>1. ASSUME NEW k \in DOMAIN journees, v \in journees[k].ventes PROVE k = i
    <3>1. ~(k < i) /\ ~(i < k)
      BY <1>1, <1>2, <1>3, <1>4, <2>1
    <3>. QED BY <1>1, <3>1
  <2>. QED BY <1>4, <2>1 DEF JDe
<1>5. CASE \E i \in DOMAIN journees : v \in journees[i].ventes
  BY <1>2, <1>4, <1>5
<1>6. CASE \A i \in DOMAIN journees : v \notin journees[i].ventes
  <2>1. JDe(v) = {}
    BY <1>6 DEF JDe
  <2>2. CASE journees = <<>>
    BY <1>1, <2>1, <2>2 DEF FinDeLaDerniereJ
  <2>3. CASE journees # <<>>
    <3>1. /\ Len(journees) \in DOMAIN journees /\ Len(journees) \in 1..Len(journees)
          /\ FinDeLaDerniereJ = journees[Len(journees)].fin
      BY <1>1, <2>3 DEF FinDeLaDerniereJ
    <3>2. connues[v].j \in Nat /\ Anciennes(v, date[v])
      BY <1>1 DEF Connus
    <3>3. Len(journees) <= connues[v].j => FinDeLaDerniereJ <= date[v]
      BY <1>1, <3>1, <3>2 DEF Anciennes
    <3>. QED BY <1>1, <1>2, <2>1, <3>1, <3>2, <3>3
  <2>. QED BY <2>2, <2>3
<1>. QED BY <1>5, <1>6

\* Every settled sale is in one J exactly or after them all; a transfer may be in none
\* only if a J was recorded after the catch-up had read the last one.
THEOREM Partition == Spec => []ChaqueVenteDansUneJ
<1>1. ASSUME IInv, Connus, NEW v \in Reglees
      PROVE  \/ \E i \in DOMAIN journees :
                  /\ JDe(v) = {i}
                  /\ journees[i].debut <= date[v] /\ date[v] < journees[i].fin
             \/ /\ JDe(v) = {}
                /\ \/ date[v] >= FinDeLaDerniereJ
                   \/ v \in antidatees /\ connues[v].j < Len(journees)
  <2>1. CASE v \in antidatees
    BY <1>1, <2>1, VirementsTardifs
  <2>2. CASE v \notin antidatees
    <3>1. date[v] \in Nat /\ FinDeLaDerniereJ \in Nat
      <4>1. journees = <<>> \/ Len(journees) \in DOMAIN journees
        BY <1>1 DEF IInv, Types, TypesClotures
      <4>. QED BY <1>1, <4>1, JourneeLue DEF IInv, VentesBonnes, Datee, FinDeLaDerniereJ
    <3>. QED BY <1>1, <2>2, <3>1, VentesDeLaCaisse
  <2>. QED BY <2>1, <2>2
<1>2. IInv /\ Connus => ChaqueVenteDansUneJ
  BY <1>1 DEF ChaqueVenteDansUneJ
<1>. QED BY <1>2, ToujoursConnus, PTL

\* The number of a settled sale.
LEMMA NumeroJuste ==
  ASSUME IInv
  PROVE  /\ Len(registre) \in Nat /\ DOMAIN registre = 1..Len(registre)
         /\ \A v \in Reglees : Numero(v) \in DOMAIN registre /\ registre[Numero(v)] = v
         /\ \A n \in DOMAIN registre : registre[n] \in Reglees /\ Numero(registre[n]) = n
<1>1. registre \in Seq(Ventes) /\ IsInjective(registre)
  BY DEF IInv, Types, TypesVentes
<1>2. \A v \in Reglees : Numero(v) \in DOMAIN registre /\ registre[Numero(v)] = v
  BY DEF Reglees, Range, Numero
<1>3. \A n \in DOMAIN registre : registre[n] \in Reglees
  BY DEF Reglees, Range
<1>4. \A n \in DOMAIN registre : Numero(registre[n]) = n
  BY <1>1, <1>2, <1>3 DEF IsInjective
<1>. QED BY <1>1, <1>2, <1>3, <1>4

\* Without a late transfer, a J starts at the number after the last of the one before.
LEMMA NumerosContinus ==
  ASSUME IInv, antidatees = {}, NEW i \in 1..(Len(journees) - 1)
  PROVE  Min({Numero(v) : v \in journees[i + 1].ventes})
           = Max({Numero(v) : v \in journees[i].ventes}) + 1
<1>. DEFINE N(S) == {Numero(v) : v \in S}
<1>1. /\ journees \in Seq(Journees) /\ Len(journees) \in Nat
      /\ i \in DOMAIN journees /\ i + 1 \in DOMAIN journees /\ i < i + 1
  BY DEF IInv, Types, TypesClotures
<1>2. PICK d \in Nat, f \in Nat, g \in Nat :
        /\ d < f /\ f < g /\ journees[i].ventes # {} /\ journees[i + 1].ventes # {}
        /\ journees[i].ventes = VentesEntre(d, f)
        /\ journees[i + 1].ventes = VentesEntre(f, g)
  <2>1. journees[i + 1].debut = journees[i].fin
    BY DEF IInv, CloturesBonnes, Suivies
  <2>2. \A k \in DOMAIN journees :
          /\ journees[k].debut \in Nat /\ journees[k].fin \in Nat
          /\ journees[k].debut < journees[k].fin /\ journees[k].ventes # {}
          /\ journees[k].ventes = VentesEntre(journees[k].debut, journees[k].fin)
    BY JourneeLue
  <2>3. /\ journees[i].debut \in Nat /\ journees[i].fin \in Nat /\ journees[i + 1].fin \in Nat
        /\ journees[i].debut < journees[i].fin /\ journees[i].fin < journees[i + 1].fin
        /\ journees[i].ventes # {} /\ journees[i + 1].ventes # {}
        /\ journees[i].ventes = VentesEntre(journees[i].debut, journees[i].fin)
        /\ journees[i + 1].ventes = VentesEntre(journees[i].fin, journees[i + 1].fin)
    BY <1>1, <2>1, <2>2
  <2>. HIDE DEF N
  <2>. QED BY <2>3
<1>3. PICK Avant, Apres : Avant = VentesEntre(d, f) /\ Apres = VentesEntre(f, g)
  OBVIOUS
<1>4. /\ \A v : v \in Avant <=> v \in Reglees /\ d <= date[v] /\ date[v] < f
      /\ \A v : v \in Apres <=> v \in Reglees /\ f <= date[v] /\ date[v] < g
      /\ \A v \in Reglees : date[v] \in Nat
  BY <1>3 DEF VentesEntre, IInv, VentesBonnes, Datee
<1>5. /\ Len(registre) \in Nat /\ DOMAIN registre = 1..Len(registre)
      /\ \A v \in Reglees : Numero(v) \in DOMAIN registre /\ registre[Numero(v)] = v
      /\ \A n \in DOMAIN registre : registre[n] \in Reglees /\ Numero(registre[n]) = n
  BY NumeroJuste
<1>6. \A m, n \in DOMAIN registre : m < n => date[registre[m]] <= date[registre[n]]
  <2>1. \A n \in DOMAIN registre : APlace(registre[n])
    BY <1>5, RegleesFinies, ClotureHypothese DEF APlace, IInv, Types
  <2>. QED BY <2>1 DEF IInv, DansLOrdre
<1>7. PICK a \in N(Avant) : a = Max(N(Avant)) /\ \A x \in N(Avant) : x <= a
  <2>1. N(Avant) \in SUBSET Nat /\ N(Avant) # {} /\ \A x \in N(Avant) : x <= Len(registre)
    BY <1>2, <1>3, <1>4, <1>5
  <2>. HIDE DEF N
  <2>. QED BY <1>5, <2>1, PlusGrand
<1>8. PICK b \in N(Apres) : b = Min(N(Apres)) /\ \A x \in N(Apres) : b <= x
  <2>1. N(Apres) \in SUBSET Nat /\ N(Apres) # {}
    BY <1>2, <1>3, <1>4, <1>5
  <2>. HIDE DEF N
  <2>. QED BY <2>1, PlusPetit
<1>9. /\ a \in DOMAIN registre /\ registre[a] \in Avant
      /\ b \in DOMAIN registre /\ registre[b] \in Apres
  BY <1>4, <1>5, <1>7, <1>8
<1>10. PICK x, y : x = date[registre[a]] /\ y = date[registre[b]]
  OBVIOUS
<1>11. x \in Nat /\ y \in Nat /\ d <= x /\ x < f /\ f <= y /\ y < g
  BY <1>4, <1>9, <1>10
<1>12. a < b
  <2>1. a # b
    BY <1>10, <1>11
  <2>2. ~(b < a)
    BY <1>6, <1>9, <1>10, <1>11
  <2>. QED BY <1>5, <1>9, <2>1, <2>2
<1>13. a + 1 \in DOMAIN registre /\ a < a + 1 /\ a + 1 <= b /\ a \in Nat /\ b \in Nat
  BY <1>5, <1>9, <1>12
<1>14. PICK w : w = registre[a + 1]
  OBVIOUS
<1>15. w \in Reglees /\ Numero(w) = a + 1 /\ date[w] \in Nat
  BY <1>4, <1>5, <1>13, <1>14
<1>16. x <= date[w]
  BY <1>6, <1>9, <1>10, <1>13, <1>14
<1>17. date[w] <= y
  <2>1. CASE a + 1 = b
    BY <1>10, <1>11, <1>14, <2>1
  <2>2. CASE a + 1 < b
    BY <1>6, <1>9, <1>10, <1>13, <1>14, <2>2
  <2>. QED BY <1>13, <2>1, <2>2
<1>18. w \notin Avant
  <2>1. w \in Avant => a + 1 \in N(Avant)
    BY <1>15
  <2>2. a + 1 \in N(Avant) => a + 1 <= a
    BY <1>7
  <2>. QED BY <1>13, <2>1, <2>2
<1>19. w \in Apres
  <2>1. d \in Nat /\ f \in Nat /\ g \in Nat
    BY <1>2
  <2>2. d <= date[w] /\ date[w] < g
    BY <1>11, <1>15, <1>16, <1>17, <2>1
  <2>3. ~(date[w] < f)
    BY <1>4, <1>15, <1>18, <2>2
  <2>. QED BY <1>4, <1>15, <2>1, <2>2, <2>3
<1>20. b <= a + 1
  <2>1. a + 1 \in N(Apres)
    BY <1>15, <1>19
  <2>. QED BY <1>8, <2>1
<1>21. b = a + 1
  BY <1>13, <1>20
<1>. QED BY <1>2, <1>3, <1>7, <1>8, <1>21

\* The continuity that verify_clotures reports is always there: a J starts where the one
\* before ends, and, as long as no late transfer takes an earlier hour, its first number
\* follows the last of the one before.
THEOREM Continuite == Spec => []JourneesContinues
<1>1. IInv => JourneesContinues
  <2>1. IInv => \A i \in 1..(Len(journees) - 1) : journees[i + 1].debut = journees[i].fin
    BY DEF IInv, CloturesBonnes, Suivies
  <2>. QED BY <2>1, NumerosContinus DEF JourneesContinues
<1>. QED BY <1>1, Invariante, PTL
=============================================================================
