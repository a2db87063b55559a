------------------------------- MODULE Tireuse -------------------------------
(* A connected tap: the Raspberry Pi that reads the cards and opens the valve   *)
(* (controlvanne/Pi), and the server that authorises, follows and bills the     *)
(* pours (controlvanne/viewsets.py, billing.py).  The Pi waits one to three     *)
(* seconds for an answer and never asks again: a request whose answer came too  *)
(* late stays on its way, is handled when the server can, or is lost.  An event *)
(* names a card, not a session: the server looks for the last open one.         *)
(*                                                                              *)
(* Left out: the screens, pour_start (writes the volume 0; its timeout ends the *)
(* pour like the removal of the card), the balance and the price, of which an   *)
(* authorisation keeps the volume allowed.  A pour and its bill are in units of *)
(* volume; that the sale of a bill is settled once is Vente's matter.  Left out *)
(* too are the writes of the administration on the row of the tap: a new keg    *)
(* (tireusebec_pre_save starts the volume again from the stock), and any form,  *)
(* which saves the row whole, reservoir_ml as it was read included.             *)
EXTENDS Integers, Sequences, FiniteSetsExt, Functions

CONSTANTS
  Cartes,            \* cards shown to the tap
  CartesDeRincage,   \* those that rinse it: nothing is billed
  Requetes,          \* requests that may be on their way at once (bound)
  Autorises,         \* volumes that a balance may allow
  Fut,               \* volume of the keg
  MaxVolume,         \* volume of a pour (bound)
  MaxBadges,         \* cards shown (bound)
  Aucun

ASSUME VolumesHypothese ==
  Autorises \subseteq Nat \ {0} /\ Fut \in Nat /\ MaxVolume \in Nat /\ MaxBadges \in Nat
ASSUME CartesHypothese == CartesDeRincage \subseteq Cartes
ASSUME AucunHypothese == Aucun \notin Cartes \cup Requetes

VARIABLES
  pi,         \* the loop of the Pi: its step, its card, the answer it waits for
  tirages,    \* the pours: their session, what was poured, whether their end was answered
  sessions,   \* RfidSession
  requetes,   \* the requests on their way and on the server
  reservoir,  \* TireuseBec.reservoir_ml
  clotures,   \* the sessions closed, in order, and what was billed
  badges      \* cards shown so far

serveur == <<sessions, reservoir, clotures>>
vars == <<pi, tirages, requetes, badges, serveur>>

Genres == {"authorize", "pour_update", "pour_end", "card_removed"}
AuRepos == [etape |-> "repos", carte |-> Aucun, appel |-> Aucun, suivante |-> Aucun]
Rien == [s \in {} |-> 0]
Libre == [etape |-> "libre", genre |-> "card_removed", carte |-> Aucun, volume |-> 0,
          lues |-> Rien]

Init ==
  /\ pi = AuRepos /\ tirages = <<>> /\ sessions = <<>>
  /\ requetes = [r \in Requetes |-> Libre]
  /\ reservoir = Fut /\ clotures = <<>> /\ badges = 0

-----------------------------------------------------------------------------
(* The Pi *)

\* A call to the server: the Pi then waits for its answer.
Envoyer(etape, genre, c, v, suivante) ==
  \E r \in Requetes :
    /\ requetes[r].etape = "libre"
    /\ requetes' = [requetes EXCEPT ![r] =
         [etape |-> "envoyee", genre |-> genre, carte |-> c, volume |-> v, lues |-> Rien]]
    /\ pi' = [etape |-> etape, carte |-> c, appel |-> r, suivante |-> suivante]

Verse == tirages[Len(tirages)].verse
Decide(etapes) == pi.appel = Aucun /\ pi.etape \in etapes

\* A card is shown, alone or in the place of one that is not served.
Badger(c) ==
  /\ Decide({"repos", "presente"}) /\ c # pi.carte
  /\ badges < MaxBadges /\ badges' = badges + 1
  /\ Envoyer("badge", "authorize", c, 0, Aucun)
  /\ UNCHANGED <<tirages, serveur>>

\* The beer flows while the valve is open, the answer of a pour_update pending or not.
Verser ==
  /\ pi.etape \in {"sert", "maj"} /\ Verse < MaxVolume
  /\ tirages' = [tirages EXCEPT ![Len(tirages)].verse = @ + 1]
  /\ UNCHANGED <<pi, requetes, badges, serveur>>

\* Each second: the end of the pour when the volume allowed is reached, or an update.
Suivre ==
  /\ Decide({"sert"})
  /\ IF Verse >= sessions[tirages[Len(tirages)].session].autorise
     THEN Envoyer("plein", "pour_end", pi.carte, Verse, Aucun)
     ELSE Envoyer("maj", "pour_update", pi.carte, Verse, Aucun)
  /\ UNCHANGED <<tirages, badges, serveur>>

\* The card is gone, or the program stops ("arret"): the pour ends, then the card.
RetirerCarte ==
  /\ \/ Decide({"sert", "arret"}) /\ Envoyer("fin", "pour_end", pi.carte, Verse, Aucun)
     \/ /\ Decide({"presente", "fini"}) /\ pi.suivante = Aucun
        /\ Envoyer("retrait", "card_removed", pi.carte, 0, Aucun)
  /\ UNCHANGED <<tirages, badges, serveur>>

\* Another card takes its place during the pour, which ends before the new one asks.
ChangerDeCarte(c) ==
  /\ Decide({"sert"}) /\ c # pi.carte
  /\ badges < MaxBadges /\ badges' = badges + 1
  /\ Envoyer("fin", "pour_end", pi.carte, Verse, c)
  /\ UNCHANGED <<tirages, serveur>>

BadgerLaSuivante ==
  /\ Decide({"fini"}) /\ pi.suivante # Aucun
  /\ Envoyer("badge", "authorize", pi.suivante, 0, Aucun)
  /\ UNCHANGED <<tirages, badges, serveur>>

\* What the Pi does next once it has the answer, or has waited too long for it: the
\* exception of the pour_end of a full glass is not caught, and stops the program.
Apres(repondu) ==
  CASE pi.etape = "badge" -> "presente"
    [] pi.etape = "maj" -> "sert"
    [] pi.etape = "plein" -> IF repondu THEN "presente" ELSE "arret"
    [] pi.etape = "fin" -> "fini"
    [] OTHER -> "repos"

Reprendre(etape) ==
  pi' = IF etape = "repos" THEN AuRepos ELSE [pi EXCEPT !.etape = etape, !.appel = Aucun]

Expirer ==
  /\ pi.appel # Aucun
  /\ Reprendre(Apres(FALSE))
  /\ UNCHANGED <<tirages, requetes, badges, serveur>>

\* A power cut, at any moment: the valve closes by itself.
Coupure ==
  /\ pi.etape # "repos" /\ pi' = AuRepos
  /\ UNCHANGED <<tirages, requetes, badges, serveur>>

-----------------------------------------------------------------------------
(* The server *)

Ouvertes == {s \in DOMAIN sessions : sessions[s].ouverte}
Rincage(s) == sessions[s].carte \in CartesDeRincage

\* The answer: it resumes a Pi that still waits for it.  An error (500) is an answer
\* too, after which the end of the pour may not be done.
Repondre(r, fait) ==
  /\ requetes' = [requetes EXCEPT ![r] = Libre]
  /\ IF pi.appel = r
     THEN /\ Reprendre(Apres(TRUE))
          /\ tirages' = IF fait /\ requetes[r].genre = "pour_end"
                        THEN [tirages EXCEPT ![Len(tirages)].rendu = TRUE] ELSE tirages
     ELSE UNCHANGED <<pi, tirages>>

\* What a request reads before any lock: the open sessions of the tap and their last
\* known volume (_cloturer_sessions_orphelines), or the last one of the card (event).

\* Mutant: only the sessions with something to bill are closed.
OrphelinesServies == [s \in {s \in Ouvertes : sessions[s].dernier > 0} |-> sessions[s].dernier]
Orphelines == [s \in Ouvertes |-> sessions[s].dernier]

\* Mutant: the session of the tap, whatever the card.
DeLaTireuse(c) == Ouvertes
DeLaCarte(c) == {s \in Ouvertes : sessions[s].carte = c}

\* Mutant: the volume of the last update stands for that of the end.
SessionAuDernierVolume(c, v) == [s \in DeLaCarte(c) |-> sessions[s].dernier]
SessionDe(c, v) == [s \in {s \in DeLaCarte(c) : \A u \in DeLaCarte(c) : u <= s} |-> v]

Lues(q) ==
  IF q.genre = "authorize" THEN Orphelines ELSE SessionDe(q.carte, q.volume)

Lire(r) ==
  /\ requetes[r].etape = "envoyee"
  /\ IF requetes[r].genre # "authorize" /\ DOMAIN Lues(requetes[r]) = {}
     THEN Repondre(r, TRUE)
     ELSE /\ requetes' = [requetes EXCEPT ![r].etape = "lue", ![r].lues = Lues(requetes[r])]
          /\ UNCHANGED <<pi, tirages>>
  /\ UNCHANGED <<badges, serveur>>

Traite(r, genres) == requetes[r].etape = "lue" /\ requetes[r].genre \in genres

\* pour_update saves the volume on the row read, closed meanwhile or not.
Actualiser(r) ==
  /\ Traite(r, {"pour_update"})
  /\ \E s \in DOMAIN requetes[r].lues :
       sessions' = [sessions EXCEPT ![s].dernier = requetes[r].volume]
  /\ Repondre(r, TRUE)
  /\ UNCHANGED <<reservoir, clotures, badges>>

\* What is billed of a volume: at most what was allowed, nothing if a balance fell or
\* no currency pays (soldee FALSE), nothing for a rinse.
Facture(s, v, soldee) ==
  IF Rincage(s) \/ ~soldee THEN 0
  ELSE IF v <= sessions[s].autorise THEN v ELSE sessions[s].autorise

\* Mutant: GREATEST(..., 0) forgotten.
ResteSansPlancher(v) == reservoir - v
Reste(v) == IF v <= reservoir THEN reservoir - v ELSE 0

\* Mutant: the session locked is not read again.
SansRelecture(s) == TRUE
\* Read again under the lock of its row.
Verrouillable(s) == sessions[s].ouverte

\* One transaction closes a session, lowers the keg and bills; a session that another
\* request has closed is left as it is.
Cloturer(s, v) ==
  IF Verrouillable(s)
  THEN /\ sessions' = [sessions EXCEPT ![s].ouverte = FALSE, ![s].dernier = v]
       /\ reservoir' = IF Rincage(s) THEN reservoir ELSE Reste(v)
       /\ \E soldee \in BOOLEAN :
            clotures' = Append(clotures, [session |-> s, volume |-> v, soldee |-> soldee,
                                          facture |-> Facture(s, v, soldee)])
  ELSE UNCHANGED serveur

\* An authorisation closes the orphans one by one; the end of a pour closes its session
\* and answers.
Fermer(r) ==
  /\ Traite(r, Genres \ {"pour_update"})
  /\ LET lues == requetes[r].lues
     IN  \E s \in DOMAIN lues :
           /\ \A u \in DOMAIN lues : u <= s
           /\ Cloturer(s, lues[s])
           /\ IF requetes[r].genre = "authorize"
              THEN /\ requetes' = [requetes EXCEPT ![r].lues =
                                     [u \in DOMAIN lues \ {s} |-> lues[u]]]
                   /\ UNCHANGED <<pi, tirages>>
              ELSE Repondre(r, TRUE)
  /\ UNCHANGED badges

Decision(r) == Traite(r, {"authorize"}) /\ DOMAIN requetes[r].lues = {}

\* A card unknown, out of money, a tap out of service, an empty keg...
Refuser(r) ==
  /\ Decision(r) /\ Repondre(r, TRUE)
  /\ UNCHANGED <<badges, serveur>>

\* Other requests are on their way that may act on the session about to be created: an
\* event of the same card, another authorisation, or this one, that nobody waits for.
Croisee(r) ==
  \/ pi.appel # r
  \/ \E q \in Requetes \ {r} :
       /\ requetes[q].etape # "libre"
       /\ requetes[q].carte = requetes[r].carte \/ requetes[q].genre = "authorize"

\* The session is created; the Pi opens the valve if it still waits for the answer.
Autoriser(r, a) ==
  /\ Decision(r)
  /\ sessions' = Append(sessions, [carte |-> requetes[r].carte, ouverte |-> TRUE,
                                   autorise |-> a, dernier |-> 0, croisee |-> Croisee(r)])
  /\ requetes' = [requetes EXCEPT ![r] = Libre]
  /\ IF pi.appel = r
     THEN /\ Reprendre("sert")
          /\ tirages' = Append(tirages, [session |-> Len(sessions) + 1, verse |-> 0,
                                         rendu |-> FALSE])
     ELSE UNCHANGED <<pi, tirages>>
  /\ UNCHANGED <<reservoir, clotures, badges>>

\* A request lost on the network, a process that dies, an exception: the transaction in
\* progress is undone, the answer is an error.
Echouer(r) ==
  /\ requetes[r].etape # "libre" /\ Repondre(r, FALSE)
  /\ UNCHANGED <<badges, serveur>>

Serveur(r) ==
  \/ Lire(r) \/ Actualiser(r) \/ Fermer(r) \/ Refuser(r) \/ Echouer(r)
  \/ \E a \in Autorises : Autoriser(r, a)

Next ==
  \/ \E c \in Cartes : Badger(c) \/ ChangerDeCarte(c)
  \/ Verser \/ Suivre \/ RetirerCarte \/ BadgerLaSuivante \/ Expirer \/ Coupure
  \/ \E r \in Requetes : Serveur(r)

Spec == Init /\ [][Next]_vars
-----------------------------------------------------------------------------
(* Properties *)

Etapes == {"repos", "badge", "presente", "sert", "maj", "plein", "arret", "fin", "fini",
           "retrait"}
Volumes == 0..MaxVolume
Lectures == UNION {[S -> Volumes] : S \in SUBSET (DOMAIN sessions)}

TypeOK ==
  /\ pi \in [etape : Etapes, carte : Cartes \cup {Aucun}, appel : Requetes \cup {Aucun},
             suivante : Cartes \cup {Aucun}]
  /\ tirages \in Seq([session : DOMAIN sessions, verse : Volumes, rendu : BOOLEAN])
  /\ sessions \in Seq([carte : Cartes, ouverte : BOOLEAN, autorise : Autorises,
                       dernier : Volumes, croisee : BOOLEAN])
  /\ requetes \in [Requetes -> [etape : {"libre", "envoyee", "lue"}, genre : Genres,
                               carte : Cartes \cup {Aucun}, volume : Volumes,
                               lues : Lectures]]
  /\ reservoir \in 0..Fut
  /\ clotures \in Seq([session : DOMAIN sessions, volume : Volumes, soldee : BOOLEAN,
                       facture : Volumes])
  /\ badges \in 0..MaxBadges

\* Whatever ends are sent twice, late or together, a session is closed and billed once
\* (_cloturer_session_et_facturer).
FermeeUneFois ==
  /\ \A i, j \in DOMAIN clotures : clotures[i].session = clotures[j].session => i = j
  /\ \A i \in DOMAIN clotures : clotures[i].session \notin Ouvertes

\* A card never pays more than was poured for it, as long as no other request was on
\* its way when its session was created.
FactureFidele ==
  \A i \in DOMAIN clotures :
    LET s == clotures[i].session
    IN  clotures[i].facture > 0 /\ ~sessions[s].croisee =>
          \E t \in DOMAIN tirages : tirages[t].session = s
                                    /\ clotures[i].facture <= tirages[t].verse

\* What each closing takes from the keg: nothing for a rinse.
Sorties == [i \in DOMAIN clotures |->
              IF Rincage(clotures[i].session) THEN 0 ELSE clotures[i].volume]

\* Under the same condition a pour whose end was answered is closed at its volume, and
\* billed up to the volume allowed if the balance has not fallen: neither a late update
\* nor the card_removed(0) that follows takes the place of the end.  The keg loses each
\* closing once, as long as nobody changes it or saves the row of the tap by hand.
ToutEstCompte ==
  /\ \A t \in DOMAIN tirages :
       LET s == tirages[t].session
       IN  tirages[t].rendu /\ ~sessions[s].croisee =>
             \E i \in DOMAIN clotures :
               /\ clotures[i].session = s /\ clotures[i].volume = tirages[t].verse
               /\ clotures[i].soldee /\ ~Rincage(s) =>
                    clotures[i].facture = Min({tirages[t].verse, sessions[s].autorise})
  /\ reservoir = Max({Fut - SumFunction(Sorties), 0})

\* A tap has one open session, or the second came from crossed requests: what the screen
\* shows and what an event finds is the card on the reader.
UneSeuleOuverte ==
  \A s, u \in Ouvertes : s = u \/ sessions[s].croisee \/ sessions[u].croisee
=============================================================================
