---------------------------- MODULE TireuseProofs ----------------------------
(* Theorems of Tireuse, for any number of cards, requests, volumes and badges:   *)
(* the types, a session is closed once, a card never pays more than its pour,    *)
(* two open sessions are never both free of crossed requests, the keg loses each *)
(* closing once, and a pour whose end was answered is billed at its volume.      *)
(*                                                                               *)
(* The inductive invariant IInv follows a volume from the flow meter to the      *)
(* bill: a volume on its way, read, saved or billed for a session that is not    *)
(* crossed is at most what its pour has poured (Justes), which only grows.  What *)
(* makes it hold is that the Pi, while it pours, finds no other open session     *)
(* that is not crossed (Courant): the authorisation it got had read every open   *)
(* session, or was on its way when the missing one was created (Vues).           *)
(*                                                                               *)
(* The last two rest on it and on three more: Jauge and FacturesExactes, kept by *)
(* each closing, and FinInv, which says that while a pour of a session that is   *)
(* not crossed goes on, the only requests that could close it are its own ends,  *)
(* that all carry its whole volume (Suivi).                                      *)
EXTENDS Tireuse, Sommes, SequenceTheorems, TLAPS

-----------------------------------------------------------------------------
(* The invariant *)

LesTirages == [session : Nat, verse : Volumes, rendu : BOOLEAN]
LesSessions == [carte : Cartes, ouverte : BOOLEAN, autorise : Autorises, dernier : Volumes,
                croisee : BOOLEAN]
LesClotures == [session : Nat, volume : Volumes, soldee : BOOLEAN, facture : Volumes]
LesPi == {p \in [etape : Etapes, carte : Cartes \cup {Aucun}, appel : Requetes \cup {Aucun},
                  suivante : Cartes \cup {Aucun}] : p.etape # "repos" => p.carte \in Cartes}
LesLectures == UNION {[S -> Volumes] : S \in SUBSET Nat}
LesRequetes == {x \in [etape : {"libre", "envoyee", "lue"}, genre : Genres,
                      carte : Cartes \cup {Aucun}, volume : Volumes, lues : LesLectures] :
                  x.etape # "libre" => x.carte \in Cartes}

TypesServeur ==
  /\ sessions \in Seq(LesSessions) /\ clotures \in Seq(LesClotures) /\ reservoir \in 0..Fut
  /\ \A i \in DOMAIN clotures : clotures[i].session \in DOMAIN sessions
TypesPi ==
  /\ pi \in LesPi /\ tirages \in Seq(LesTirages) /\ badges \in 0..MaxBadges
  /\ \A t \in DOMAIN tirages : tirages[t].session \in DOMAIN sessions
TypesRequetes ==
  /\ requetes \in [Requetes -> LesRequetes]
  /\ \A r \in Requetes : DOMAIN requetes[r].lues \subseteq DOMAIN sessions

\* The volumes that a session may be asked to pay: of a session not crossed, at most what
\* its pour has poured.
Justes == {p \in Nat \X Volumes :
             \/ p[2] = 0
             \/ sessions[p[1]].croisee
             \/ \E t \in DOMAIN tirages : tirages[t].session = p[1]
                                          /\ p[2] <= tirages[t].verse}

Dernieres == \A s \in DOMAIN sessions : <<s, sessions[s].dernier>> \in Justes
LecturesJustes ==
  \A r \in Requetes : \A s \in DOMAIN requetes[r].lues :
    /\ <<s, requetes[r].lues[s]>> \in Justes
    /\ requetes[r].genre # "authorize" => requetes[r].lues[s] = requetes[r].volume
EnvoisJustes ==
  \A r \in Requetes : requetes[r].etape = "envoyee" /\ requetes[r].genre # "authorize" =>
    \A s \in Ouvertes : sessions[s].carte = requetes[r].carte =>
      <<s, requetes[r].volume>> \in Justes
Vues ==
  \A r \in Requetes : requetes[r].etape = "lue" /\ requetes[r].genre = "authorize" =>
    \A s \in Ouvertes : s \in DOMAIN requetes[r].lues \/ sessions[s].croisee

EnCours == {"sert", "maj", "plein", "arret", "fin"}
Courant ==
  pi.etape \in EnCours =>
    /\ tirages # <<>>
    /\ \A s \in Ouvertes : s = tirages[Len(tirages)].session \/ sessions[s].croisee
Appel ==
  pi.appel # Aucun =>
    /\ requetes[pi.appel].etape # "libre"
    /\ (pi.etape = "badge") <=> (requetes[pi.appel].genre = "authorize")
    /\ requetes[pi.appel].genre = "pour_end" => pi.etape \in EnCours
CloturesJustes ==
  /\ FermeeUneFois
  /\ \A i \in DOMAIN clotures : <<clotures[i].session, clotures[i].facture>> \in Justes

IInv == /\ TypesServeur /\ TypesPi /\ TypesRequetes
        /\ Dernieres /\ LecturesJustes /\ EnvoisJustes /\ Vues
        /\ Courant /\ Appel /\ CloturesJustes /\ UneSeuleOuverte

-----------------------------------------------------------------------------
(* Lemmas *)

\* A sequence is a function of its positions, and its last one exists when it is not empty.
LEMMA Positions ==
  ASSUME NEW S, NEW q \in Seq(S)
  PROVE  /\ Len(q) \in Nat /\ DOMAIN q = 1..Len(q)
         /\ \A i \in DOMAIN q : q[i] \in S /\ i \in Nat
         /\ q # <<>> => Len(q) \in DOMAIN q
<1>1. Len(q) \in Nat /\ DOMAIN q = 1..Len(q) /\ \A i \in 1..Len(q) : q[i] \in S
  BY LenProperties, ElementOfSeq
<1>2. q # <<>> => Len(q) > 0
  BY EmptySeq, <1>1
<1>. QED BY <1>1, <1>2

\* The value of a field changed at one position.
LEMMA Position ==
  ASSUME NEW S, NEW q \in Seq(S), NEW i \in DOMAIN q, NEW e \in S
  PROVE  /\ [q EXCEPT ![i] = e] \in Seq(S)
         /\ DOMAIN [q EXCEPT ![i] = e] = DOMAIN q
         /\ Len([q EXCEPT ![i] = e]) = Len(q)
         /\ \A j \in DOMAIN q : [q EXCEPT ![i] = e][j] = IF j = i THEN e ELSE q[j]
BY Positions, ExceptSeq

\* A sequence with one more element.
LEMMA Ajout ==
  ASSUME NEW S, NEW q \in Seq(S), NEW e \in S
  PROVE  /\ Append(q, e) \in Seq(S) /\ Append(q, e) # <<>>
         /\ Len(Append(q, e)) = Len(q) + 1 /\ Len(q) \in Nat
         /\ DOMAIN Append(q, e) = DOMAIN q \cup {Len(q) + 1} /\ Len(q) + 1 \notin DOMAIN q
         /\ \A j \in DOMAIN q : Append(q, e)[j] = q[j]
         /\ Append(q, e)[Len(q) + 1] = e
<1>1. Append(q, e) \in Seq(S) /\ Append(q, e) # <<>> /\ Len(Append(q, e)) = Len(q) + 1
      /\ (\A i \in 1..Len(q) : Append(q, e)[i] = q[i]) /\ Append(q, e)[Len(q) + 1] = e
  BY AppendProperties
<1>2. Len(q) \in Nat /\ DOMAIN q = 1..Len(q)
  BY LenProperties
<1>3. DOMAIN Append(q, e) = 1..(Len(q) + 1)
  BY <1>1, LenProperties
<1>. QED BY <1>1, <1>2, <1>3

\* A map of sessions to volumes is a reading.
LEMMA Lecture ==
  ASSUME NEW D \in SUBSET Nat, NEW f, f = [s \in D |-> f[s]], \A s \in D : f[s] \in Volumes
  PROVE  f \in LesLectures /\ DOMAIN f = D
<1>1. f \in [D -> Volumes]
  OBVIOUS
<1>. QED BY <1>1 DEF LesLectures

\* Sessions keep what they are and pours only grow, so a volume stays payable.
Grandit ==
  /\ \A s \in DOMAIN sessions :
       s \in DOMAIN sessions' /\ sessions'[s].croisee = sessions[s].croisee
  /\ \A t \in DOMAIN tirages :
       /\ t \in DOMAIN tirages' /\ tirages'[t].session = tirages[t].session
       /\ tirages[t].verse \in Nat /\ tirages'[t].verse \in Nat
       /\ tirages[t].verse <= tirages'[t].verse

LEMMA ResteJuste ==
  ASSUME Grandit, NEW s \in DOMAIN sessions, NEW v, <<s, v>> \in Justes
  PROVE  <<s, v>> \in Justes'
<1>1. s \in Nat /\ v \in Volumes
  BY DEF Justes
<1>2. \/ v = 0
      \/ sessions[s].croisee
      \/ \E t \in DOMAIN tirages : tirages[t].session = s /\ v <= tirages[t].verse
  BY DEF Justes
<1>3. CASE v = 0
  BY <1>1, <1>3 DEF Justes, Volumes
<1>4. CASE sessions[s].croisee
  <2>1. sessions'[s].croisee
    BY <1>4 DEF Grandit
  <2>. QED BY <1>1, <2>1 DEF Justes, Volumes
<1>5. CASE \E t \in DOMAIN tirages : tirages[t].session = s /\ v <= tirages[t].verse
  <2>1. PICK t \in DOMAIN tirages : tirages[t].session = s /\ v <= tirages[t].verse
    BY <1>5
  <2>2. t \in DOMAIN tirages' /\ tirages'[t].session = s /\ v <= tirages'[t].verse
    BY <1>1, <2>1 DEF Grandit, Volumes
  <2>. QED BY <1>1, <2>2 DEF Justes, Volumes
<1>. QED BY <1>2, <1>3, <1>4, <1>5

\* Nothing is payable but what is.
LEMMA ZeroJuste ==
  ASSUME NEW s \in Nat
  PROVE  <<s, 0>> \in Justes /\ <<s, 0>> \in Justes'
BY VolumesHypothese DEF Justes, Volumes

\* Reading nothing.
LEMMA RienLu == Rien \in LesLectures /\ DOMAIN Rien = {}
<1>1. Rien \in [{} -> Volumes]
  BY DEF Rien
<1>2. {} \in SUBSET Nat
  OBVIOUS
<1>. QED BY <1>1, <1>2 DEF LesLectures

\* What a pour has poured, and what the last one has.
LEMMA Pours ==
  ASSUME TypesPi
  PROVE  /\ \A t \in DOMAIN tirages : tirages[t] \in LesTirages /\ tirages[t].verse \in Volumes
         /\ \A t \in DOMAIN tirages : t \in Nat /\ tirages[t].verse \in Nat
         /\ tirages # <<>> => Len(tirages) \in DOMAIN tirages
<1>1. tirages \in Seq(LesTirages)
  BY DEF TypesPi
<1>2. /\ \A t \in DOMAIN tirages : tirages[t] \in LesTirages /\ t \in Nat
      /\ tirages # <<>> => Len(tirages) \in DOMAIN tirages
  BY <1>1, Positions
<1>3. \A x \in LesTirages : x.verse \in Volumes /\ x.verse \in Nat
  BY VolumesHypothese DEF LesTirages, Volumes
<1>. QED BY <1>2, <1>3

-----------------------------------------------------------------------------
(* The initial state and the steps of the Pi *)

\* The invariant holds at the start.
LEMMA InitInv == Init => IInv
<1> SUFFICES ASSUME Init PROVE IInv
  OBVIOUS
<1>1. Rien \in LesLectures /\ DOMAIN Rien = {}
  BY RienLu
<1>2. DOMAIN tirages = {} /\ DOMAIN sessions = {} /\ DOMAIN clotures = {}
  BY DEF Init
<1>3. Libre \in LesRequetes
  BY <1>1, VolumesHypothese DEF Libre, LesRequetes, Genres, Volumes
<1>4. TypesServeur /\ TypesPi
  BY <1>2, EmptySeq, VolumesHypothese DEF Init, TypesServeur, TypesPi, LesPi, AuRepos, Etapes
<1>5. TypesRequetes
  <2>1. \A r \in Requetes : requetes[r] = Libre /\ DOMAIN requetes[r].lues = {}
    BY <1>1 DEF Init, Libre
  <2>2. requetes \in [Requetes -> LesRequetes]
    BY <1>3 DEF Init
  <2>. QED BY <2>1, <2>2 DEF TypesRequetes
<1>6. \A r \in Requetes : requetes[r].etape = "libre" /\ DOMAIN requetes[r].lues = {}
  BY <1>1 DEF Init, Libre
<1>7. Dernieres /\ LecturesJustes /\ EnvoisJustes /\ Vues
  BY <1>2, <1>6 DEF Dernieres, LecturesJustes, EnvoisJustes, Vues
<1>8. Courant /\ Appel
  BY DEF Init, AuRepos, Courant, Appel, EnCours
<1>9. CloturesJustes /\ UneSeuleOuverte
  BY <1>2 DEF CloturesJustes, FermeeUneFois, UneSeuleOuverte, Ouvertes
<1>. QED BY <1>4, <1>5, <1>7, <1>8, <1>9 DEF IInv

\* What the server knows is untouched: what is left is what the Pi does.
LEMMA SansServeur ==
  ASSUME IInv, Grandit, sessions' = sessions, reservoir' = reservoir, clotures' = clotures,
         TypesPi', TypesRequetes', LecturesJustes', EnvoisJustes', Vues', Courant', Appel'
  PROVE  IInv'
<1>1. TypesServeur'
  BY DEF IInv, TypesServeur
<1>2. Dernieres'
  <2>1. \A s \in DOMAIN sessions : <<s, sessions[s].dernier>> \in Justes'
    BY ResteJuste DEF IInv, Dernieres
  <2>. QED BY <2>1 DEF Dernieres
<1>3. CloturesJustes'
  <2>1. \A i \in DOMAIN clotures : <<clotures[i].session, clotures[i].facture>> \in Justes'
    BY ResteJuste DEF IInv, CloturesJustes, TypesServeur
  <2>2. FermeeUneFois'
    BY DEF IInv, CloturesJustes, FermeeUneFois, Ouvertes
  <2>. QED BY <2>1, <2>2 DEF CloturesJustes
<1>4. UneSeuleOuverte'
  BY DEF IInv, UneSeuleOuverte, Ouvertes
<1>. QED BY <1>1, <1>2, <1>3, <1>4 DEF IInv

\* Pours unchanged grow.
LEMMA Immobile ==
  ASSUME TypesPi, sessions' = sessions, tirages' = tirages
  PROVE  Grandit
<1>1. \A t \in DOMAIN tirages : tirages[t].verse \in Nat
  BY Pours
<1>. QED BY <1>1 DEF Grandit

\* The requests on their way stay justified when the sessions do not change.
LEMMA RequetesImmobiles ==
  ASSUME IInv, Grandit, sessions' = sessions, requetes' = requetes
  PROVE  TypesRequetes' /\ LecturesJustes' /\ EnvoisJustes' /\ Vues'
<1>1. TypesRequetes' /\ Vues'
  BY DEF IInv, TypesRequetes, Vues, Ouvertes
<1>2. LecturesJustes'
  <2>1. \A r \in Requetes : \A s \in DOMAIN requetes[r].lues :
          <<s, requetes[r].lues[s]>> \in Justes'
    BY ResteJuste DEF IInv, LecturesJustes, TypesRequetes
  <2>. QED BY <2>1 DEF IInv, LecturesJustes
<1>3. EnvoisJustes'
  <2>1. \A r \in Requetes : requetes[r].etape = "envoyee" /\ requetes[r].genre # "authorize" =>
          \A s \in Ouvertes : sessions[s].carte = requetes[r].carte =>
            <<s, requetes[r].volume>> \in Justes'
    BY ResteJuste DEF IInv, EnvoisJustes, Ouvertes
  <2>. QED BY <2>1 DEF EnvoisJustes, Ouvertes
<1>. QED BY <1>1, <1>2, <1>3

\* A call carries the volume of the pour, which the only session that it may find pays.
LEMMA Appelle ==
  ASSUME IInv, NEW e \in Etapes, NEW g \in Genres, NEW c \in Cartes,
         NEW v \in Volumes, NEW d \in Cartes \cup {Aucun}, Envoyer(e, g, c, v, d),
         tirages' = tirages, sessions' = sessions, reservoir' = reservoir,
         clotures' = clotures, badges' \in 0..MaxBadges, pi.appel = Aucun,
         (e = "badge") <=> (g = "authorize"), g = "pour_end" => e \in EnCours,
         e \in EnCours => pi.etape \in EnCours,
         v # 0 => pi.etape \in EnCours /\ v = Verse
  PROVE  IInv'
<1>1. PICK r \in Requetes :
        /\ requetes[r].etape = "libre"
        /\ requetes' = [requetes EXCEPT ![r] =
             [etape |-> "envoyee", genre |-> g, carte |-> c, volume |-> v, lues |-> Rien]]
        /\ pi' = [etape |-> e, carte |-> c, appel |-> r, suivante |-> d]
  BY DEF Envoyer
<1> DEFINE x == [etape |-> "envoyee", genre |-> g, carte |-> c, volume |-> v, lues |-> Rien]
<1>2. Rien \in LesLectures /\ DOMAIN Rien = {}
  BY RienLu
<1>3. x \in LesRequetes
  BY <1>2 DEF LesRequetes
<1>4. /\ requetes' \in [Requetes -> LesRequetes] /\ requetes'[r] = x
      /\ \A q \in Requetes : q # r => requetes'[q] = requetes[q]
  BY <1>1, <1>3 DEF IInv, TypesRequetes
<1>5. x.etape = "envoyee" /\ x.genre = g /\ x.carte = c /\ x.volume = v /\ x.lues = Rien
  OBVIOUS
<1> HIDE DEF x
<1>6. Grandit
  BY Immobile DEF IInv
<1>7. TypesPi'
  BY <1>1 DEF IInv, TypesPi, LesPi
<1>8. TypesRequetes'
  BY <1>2, <1>4, <1>5 DEF IInv, TypesRequetes
<1>9. LecturesJustes'
  <2>1. \A q \in Requetes : \A s \in DOMAIN requetes[q].lues :
          <<s, requetes[q].lues[s]>> \in Justes'
    BY <1>6, ResteJuste DEF IInv, LecturesJustes, TypesRequetes
  <2>. QED BY <1>2, <1>4, <1>5, <2>1 DEF IInv, LecturesJustes
<1>10. EnvoisJustes'
  <2>1. \A q \in Requetes : requetes[q].etape = "envoyee" /\ requetes[q].genre # "authorize" =>
          \A s \in Ouvertes : sessions[s].carte = requetes[q].carte =>
            <<s, requetes[q].volume>> \in Justes'
    BY <1>6, ResteJuste DEF IInv, EnvoisJustes, Ouvertes
  <2>2. \A s \in Ouvertes : <<s, v>> \in Justes'
    <3> SUFFICES ASSUME NEW s \in Ouvertes PROVE <<s, v>> \in Justes'
      OBVIOUS
    <3>1. s \in DOMAIN sessions /\ s \in Nat
      BY Positions DEF IInv, TypesServeur, Ouvertes
    <3>2. CASE v = 0
      BY <3>1, <3>2, ZeroJuste
    <3>3. CASE v # 0
      <4>1. tirages # <<>> /\ v = tirages[Len(tirages)].verse
            /\ (s = tirages[Len(tirages)].session \/ sessions[s].croisee)
        BY <3>3 DEF IInv, Courant, Verse
      <4>2. Len(tirages) \in DOMAIN tirages
        BY <4>1, Positions DEF IInv, TypesPi
      <4>3. v \in Nat /\ v <= v
        BY VolumesHypothese DEF Volumes
      <4>4. CASE sessions[s].croisee
        BY <3>1, <4>4 DEF Justes
      <4>5. CASE s = tirages[Len(tirages)].session
        BY <3>1, <4>1, <4>2, <4>3, <4>5 DEF Justes
      <4>. QED BY <4>1, <4>4, <4>5
    <3>. QED BY <3>2, <3>3
  <2>. QED BY <1>4, <1>5, <2>1, <2>2 DEF EnvoisJustes, Ouvertes
<1>11. Vues'
  BY <1>4, <1>5 DEF IInv, Vues, Ouvertes
<1>12. Courant'
  BY <1>1 DEF IInv, Courant, Ouvertes
<1>13. Appel'
  BY <1>1, <1>4, <1>5 DEF Appel
<1>. QED BY <1>6, <1>7, <1>8, <1>9, <1>10, <1>11, <1>12, <1>13, SansServeur

\* Each step of the Pi: what it sends, and with which volume.
LEMMA DuPi ==
  ASSUME IInv,
         \/ \E c \in Cartes : Badger(c) \/ ChangerDeCarte(c)
         \/ Suivre \/ RetirerCarte \/ BadgerLaSuivante
  PROVE  IInv'
<1>1. /\ pi \in LesPi /\ badges \in 0..MaxBadges /\ MaxBadges \in Nat
      /\ 0 \in Volumes
  BY VolumesHypothese DEF IInv, TypesPi, Volumes
<1>2. /\ pi.etape # "repos" => pi.carte \in Cartes
      /\ pi.suivante \in Cartes \cup {Aucun}
  BY <1>1 DEF LesPi
<1>3. pi.etape \in EnCours => Verse \in Volumes
  <2>1. ASSUME tirages # <<>> PROVE tirages[Len(tirages)].verse \in Volumes
    BY <2>1, Pours DEF IInv
  <2>. QED BY <2>1 DEF IInv, Courant, Verse
<1>4. ASSUME NEW c \in Cartes, Badger(c) PROVE IInv'
  <2>1. /\ Envoyer("badge", "authorize", c, 0, Aucun) /\ pi.appel = Aucun
        /\ badges' \in 0..MaxBadges
        /\ tirages' = tirages /\ sessions' = sessions /\ reservoir' = reservoir
        /\ clotures' = clotures
    BY <1>1, <1>4 DEF Badger, Decide, serveur
  <2>. QED BY <1>1, <2>1, Appelle DEF Etapes, Genres, EnCours
<1>5. ASSUME NEW c \in Cartes, ChangerDeCarte(c) PROVE IInv'
  <2>1. /\ Envoyer("fin", "pour_end", pi.carte, Verse, c) /\ pi.appel = Aucun
        /\ badges' \in 0..MaxBadges /\ pi.etape \in EnCours
        /\ tirages' = tirages /\ sessions' = sessions /\ reservoir' = reservoir
        /\ clotures' = clotures
    BY <1>1, <1>5 DEF ChangerDeCarte, Decide, serveur, EnCours
  <2>. QED BY <1>2, <1>3, <2>1, Appelle DEF Etapes, Genres, EnCours
<1>6. ASSUME Suivre PROVE IInv'
  <2>1. /\ \/ Envoyer("plein", "pour_end", pi.carte, Verse, Aucun)
           \/ Envoyer("maj", "pour_update", pi.carte, Verse, Aucun)
        /\ pi.appel = Aucun /\ badges' \in 0..MaxBadges /\ pi.etape \in EnCours
        /\ tirages' = tirages /\ sessions' = sessions /\ reservoir' = reservoir
        /\ clotures' = clotures
    BY <1>1, <1>6 DEF Suivre, Decide, serveur, EnCours
  <2>2. CASE Envoyer("plein", "pour_end", pi.carte, Verse, Aucun)
    BY <1>2, <1>3, <2>1, <2>2, Appelle DEF Etapes, Genres, EnCours
  <2>3. CASE Envoyer("maj", "pour_update", pi.carte, Verse, Aucun)
    BY <1>2, <1>3, <2>1, <2>3, Appelle DEF Etapes, Genres, EnCours
  <2>. QED BY <2>1, <2>2, <2>3
<1>7. ASSUME RetirerCarte PROVE IInv'
  <2>1. /\ pi.appel = Aucun /\ badges' \in 0..MaxBadges
        /\ tirages' = tirages /\ sessions' = sessions /\ reservoir' = reservoir
        /\ clotures' = clotures
        /\ \/ pi.etape \in EnCours /\ Envoyer("fin", "pour_end", pi.carte, Verse, Aucun)
           \/ pi.etape # "repos" /\ Envoyer("retrait", "card_removed", pi.carte, 0, Aucun)
    BY <1>1, <1>7 DEF RetirerCarte, Decide, serveur, EnCours
  <2>2. CASE pi.etape \in EnCours /\ Envoyer("fin", "pour_end", pi.carte, Verse, Aucun)
    BY <1>2, <1>3, <2>1, <2>2, Appelle DEF Etapes, Genres, EnCours
  <2>3. CASE pi.etape # "repos" /\ Envoyer("retrait", "card_removed", pi.carte, 0, Aucun)
    BY <1>1, <1>2, <2>1, <2>3, Appelle DEF Etapes, Genres, EnCours
  <2>. QED BY <2>1, <2>2, <2>3
<1>8. ASSUME BadgerLaSuivante PROVE IInv'
  <2>1. /\ Envoyer("badge", "authorize", pi.suivante, 0, Aucun) /\ pi.appel = Aucun
        /\ pi.suivante # Aucun
        /\ badges' \in 0..MaxBadges
        /\ tirages' = tirages /\ sessions' = sessions /\ reservoir' = reservoir
        /\ clotures' = clotures
    BY <1>1, <1>8 DEF BadgerLaSuivante, Decide, serveur
  <2>. QED BY <1>1, <1>2, <2>1, Appelle DEF Etapes, Genres, EnCours
<1>. QED BY <1>4, <1>5, <1>6, <1>7, <1>8

\* The beer flows: the pour in progress grows.
LEMMA Coule == ASSUME IInv, Verser PROVE IInv'
<1>1. /\ pi.etape \in EnCours /\ tirages # <<>>
      /\ sessions' = sessions /\ reservoir' = reservoir /\ clotures' = clotures
      /\ pi' = pi /\ requetes' = requetes /\ badges' = badges
  BY DEF Verser, serveur, IInv, Courant, EnCours
<1>2. /\ tirages \in Seq(LesTirages) /\ Len(tirages) \in DOMAIN tirages
      /\ tirages[Len(tirages)] \in LesTirages
  BY <1>1, Pours DEF IInv, TypesPi
<1> DEFINE t == Len(tirages)
           e == [tirages[t] EXCEPT !.verse = @ + 1]
<1>3. /\ tirages[t].verse \in Nat /\ tirages[t].verse + 1 \in Volumes
      /\ tirages[t].session \in Nat
  BY <1>2, VolumesHypothese DEF Verser, Verse, LesTirages, Volumes
<1>4. /\ e \in LesTirages /\ e.session = tirages[t].session
      /\ e.verse = tirages[t].verse + 1
  BY <1>2, <1>3 DEF LesTirages
<1>5. tirages' = [tirages EXCEPT ![t] = e]
  BY DEF Verser
<1> HIDE DEF e
<1>6. /\ tirages' \in Seq(LesTirages) /\ DOMAIN tirages' = DOMAIN tirages
      /\ Len(tirages') = Len(tirages)
      /\ \A j \in DOMAIN tirages : tirages'[j] = IF j = t THEN e ELSE tirages[j]
  BY <1>2, <1>4, <1>5, Position
<1>7. \A j \in DOMAIN tirages : /\ tirages'[j].session = tirages[j].session
                                /\ tirages[j].verse \in Nat /\ tirages'[j].verse \in Nat
                                /\ tirages[j].verse <= tirages'[j].verse
  BY <1>3, <1>4, <1>6, Pours DEF IInv
<1>8. Grandit
  BY <1>1, <1>6, <1>7 DEF Grandit
<1>9. TypesPi'
  BY <1>1, <1>6, <1>7 DEF IInv, TypesPi
<1>10. Courant'
  <2>1. tirages' # <<>>
    BY <1>2, <1>6, EmptySeq
  <2>. QED BY <1>1, <1>2, <1>6, <1>7, <2>1 DEF IInv, Courant, Ouvertes
<1>11. Appel'
  BY <1>1 DEF IInv, Appel
<1>. QED BY <1>1, <1>8, <1>9, <1>10, <1>11, RequetesImmobiles, SansServeur

\* Where the Pi goes on, and what it is then.
LEMMA Reprise ==
  ASSUME pi \in LesPi
  PROVE  /\ \A b \in BOOLEAN : Apres(b) \in Etapes
                             /\ (Apres(b) \in EnCours => pi.etape \in EnCours)
                             /\ (pi.etape = "repos" => Apres(b) = "repos")
         /\ \A e \in Etapes : Reprendre(e) /\ (pi.etape = "repos" => e = "repos") =>
              pi' \in LesPi /\ pi'.appel = Aucun /\ pi'.etape = e
<1>1. \A b \in BOOLEAN : Apres(b) \in Etapes
                        /\ (Apres(b) \in EnCours => pi.etape \in EnCours)
                        /\ (pi.etape = "repos" => Apres(b) = "repos")
  BY DEF Apres, Etapes, EnCours
<1>2. ASSUME NEW e \in Etapes, Reprendre(e), pi.etape = "repos" => e = "repos"
      PROVE  pi' \in LesPi /\ pi'.appel = Aucun /\ pi'.etape = e
  <2>1. CASE e = "repos"
    BY <1>2, <2>1 DEF Reprendre, AuRepos, LesPi
  <2>2. CASE e # "repos"
    <3>1. pi' = [pi EXCEPT !.etape = e, !.appel = Aucun]
      BY <1>2, <2>2 DEF Reprendre
    <3>2. pi.etape # "repos" /\ pi.carte \in Cartes
      BY <1>2, <2>2 DEF LesPi
    <3>3. /\ pi'.etape = e /\ pi'.appel = Aucun /\ pi'.carte = pi.carte
          /\ pi' \in [etape : Etapes, carte : Cartes \cup {Aucun},
                     appel : Requetes \cup {Aucun}, suivante : Cartes \cup {Aucun}]
      BY <3>1 DEF LesPi
    <3>. QED BY <3>2, <3>3 DEF LesPi
  <2>. QED BY <2>1, <2>2
<1>. QED BY <1>1, <1>2

\* The Pi waits no longer, or stops: it has no more to answer for.
LEMMA Attend == ASSUME IInv, Expirer \/ Coupure PROVE IInv'
<1>1. /\ sessions' = sessions /\ reservoir' = reservoir /\ clotures' = clotures
      /\ tirages' = tirages /\ requetes' = requetes /\ badges' = badges
  BY DEF Expirer, Coupure, serveur
<1>2. /\ pi' \in LesPi /\ pi'.appel = Aucun
      /\ pi'.etape \in EnCours => pi.etape \in EnCours
  <2>1. pi \in LesPi
    BY DEF IInv, TypesPi
  <2>2. CASE Expirer
    BY <2>1, <2>2, Reprise DEF Expirer
  <2>3. CASE Coupure
    BY <2>3 DEF Coupure, AuRepos, LesPi, Etapes, EnCours
  <2>. QED BY <2>2, <2>3
<1>3. Grandit
  BY <1>1, Immobile DEF IInv
<1>4. TypesPi'
  BY <1>1, <1>2 DEF IInv, TypesPi
<1>5. Courant' /\ Appel'
  BY <1>1, <1>2 DEF IInv, Courant, Appel, Ouvertes
<1>. QED BY <1>1, <1>3, <1>4, <1>5, RequetesImmobiles, SansServeur

-----------------------------------------------------------------------------
(* The steps of the server *)

\* An answer frees the request, keeps the pours, and lets the Pi go on.
LEMMA Reponse ==
  ASSUME IInv, NEW r \in Requetes, NEW fait, Repondre(r, fait)
  PROVE  /\ requetes' = [requetes EXCEPT ![r] = Libre]
         /\ pi' \in LesPi /\ tirages' \in Seq(LesTirages)
         /\ DOMAIN tirages' = DOMAIN tirages /\ Len(tirages') = Len(tirages)
         /\ \A t \in DOMAIN tirages : tirages'[t].session = tirages[t].session
                                      /\ tirages'[t].verse = tirages[t].verse
         /\ pi'.etape \in EnCours => pi.etape \in EnCours
         /\ pi'.appel = Aucun \/ (pi' = pi /\ pi.appel # r)
<1>1. /\ pi \in LesPi /\ tirages \in Seq(LesTirages)
  BY DEF IInv, TypesPi
<1>2. requetes' = [requetes EXCEPT ![r] = Libre]
  BY DEF Repondre
<1>3. CASE pi.appel # r
  BY <1>1, <1>2, <1>3 DEF Repondre
<1>4. CASE pi.appel = r
  <2>1. /\ pi' \in LesPi /\ pi'.appel = Aucun
        /\ pi'.etape \in EnCours => pi.etape \in EnCours
    <3>1. Reprendre(Apres(TRUE))
      BY <1>4 DEF Repondre
    <3>. QED BY <1>1, <3>1, Reprise
  <2>2. CASE tirages' = tirages
    BY <1>1, <1>2, <2>1, <2>2
  <2>3. CASE tirages' # tirages
    <3>1. /\ tirages' = [tirages EXCEPT ![Len(tirages)].rendu = TRUE]
          /\ requetes[r].genre = "pour_end"
      BY <1>4, <2>3 DEF Repondre
    <3>2. tirages # <<>>
      BY <1>4, <3>1, AucunHypothese DEF IInv, Appel, Courant
    <3> DEFINE e == [tirages[Len(tirages)] EXCEPT !.rendu = TRUE]
    <3>3. Len(tirages) \in DOMAIN tirages /\ tirages[Len(tirages)] \in LesTirages
      BY <3>2, Pours DEF IInv
    <3>4. /\ e \in LesTirages /\ e.session = tirages[Len(tirages)].session
          /\ e.verse = tirages[Len(tirages)].verse
      BY <3>3 DEF LesTirages
    <3>5. tirages' = [tirages EXCEPT ![Len(tirages)] = e]
      BY <3>1
    <3> HIDE DEF e
    <3>6. /\ tirages' \in Seq(LesTirages) /\ DOMAIN tirages' = DOMAIN tirages
          /\ Len(tirages') = Len(tirages)
          /\ \A j \in DOMAIN tirages :
               tirages'[j] = IF j = Len(tirages) THEN e ELSE tirages[j]
      BY <1>1, <3>3, <3>4, <3>5, Position
    <3>. QED BY <1>2, <2>1, <3>4, <3>6
  <2>. QED BY <2>2, <2>3
<1>. QED BY <1>3, <1>4

\* A step of the server that creates no session and sends nothing: the request r becomes
\* x, sessions may close, and what they keep is payable.
LEMMA SansNouvelle ==
  ASSUME IInv, NEW r \in Requetes, NEW x \in LesRequetes,
         requetes' = [requetes EXCEPT ![r] = x], x.etape # "envoyee",
         sessions' \in Seq(LesSessions), DOMAIN sessions' = DOMAIN sessions,
         \A s \in DOMAIN sessions :
           /\ sessions'[s].carte = sessions[s].carte
           /\ sessions'[s].croisee = sessions[s].croisee
           /\ sessions'[s].ouverte => sessions[s].ouverte
           /\ <<s, sessions'[s].dernier>> \in Justes,
         tirages' \in Seq(LesTirages), DOMAIN tirages' = DOMAIN tirages,
         Len(tirages') = Len(tirages),
         \A t \in DOMAIN tirages : tirages'[t].session = tirages[t].session
                                   /\ tirages'[t].verse = tirages[t].verse,
         DOMAIN x.lues \subseteq DOMAIN sessions,
         \A s \in DOMAIN x.lues :
           /\ <<s, x.lues[s]>> \in Justes
           /\ x.genre # "authorize" => x.lues[s] = x.volume,
         x.etape = "lue" /\ x.genre = "authorize" =>
           \A s \in Ouvertes' : s \in DOMAIN x.lues \/ sessions[s].croisee,
         pi' \in LesPi, pi'.etape \in EnCours => pi.etape \in EnCours,
         badges' = badges, reservoir' \in 0..Fut, Appel',
         clotures' \in Seq(LesClotures), FermeeUneFois',
         \A i \in DOMAIN clotures' : clotures'[i].session \in DOMAIN sessions
                                     /\ <<clotures'[i].session, clotures'[i].facture>> \in Justes
  PROVE  IInv'
<1>1. /\ requetes' \in [Requetes -> LesRequetes] /\ requetes'[r] = x
      /\ \A q \in Requetes : q # r => requetes'[q] = requetes[q]
  BY DEF IInv, TypesRequetes
<1>2. Grandit
  <2>1. \A t \in DOMAIN tirages : tirages[t].verse \in Nat
    BY Pours DEF IInv
  <2>2. \A n \in Nat : n <= n
    OBVIOUS
  <2>. QED BY <2>1, <2>2 DEF Grandit
<1>3. /\ Ouvertes' \subseteq Ouvertes /\ Ouvertes \subseteq DOMAIN sessions
  BY DEF Ouvertes
<1>4. TypesServeur' /\ TypesPi'
  BY DEF IInv, TypesServeur, TypesPi
<1>5. TypesRequetes'
  BY <1>1 DEF IInv, TypesRequetes
<1>6. Dernieres'
  <2>1. \A s \in DOMAIN sessions : <<s, sessions'[s].dernier>> \in Justes'
    BY <1>2, ResteJuste
  <2>. QED BY <2>1 DEF Dernieres
<1>7. LecturesJustes'
  <2>1. \A q \in Requetes : \A s \in DOMAIN requetes[q].lues :
          <<s, requetes[q].lues[s]>> \in Justes'
    BY <1>2, ResteJuste DEF IInv, LecturesJustes, TypesRequetes
  <2>2. \A s \in DOMAIN x.lues : <<s, x.lues[s]>> \in Justes'
    BY <1>2, ResteJuste
  <2>. QED BY <1>1, <2>1, <2>2 DEF IInv, LecturesJustes
<1>8. EnvoisJustes'
  <2>1. \A q \in Requetes : requetes[q].etape = "envoyee" /\ requetes[q].genre # "authorize" =>
          \A s \in Ouvertes : sessions[s].carte = requetes[q].carte =>
            <<s, requetes[q].volume>> \in Justes'
    BY <1>2, <1>3, ResteJuste DEF IInv, EnvoisJustes
  <2>. QED BY <1>1, <1>3, <2>1 DEF EnvoisJustes
<1>9. Vues'
  BY <1>1, <1>3 DEF IInv, Vues
<1>10. Courant'
  <2>1. tirages # <<>> => tirages' # <<>> /\ Len(tirages) \in DOMAIN tirages
    BY Pours, EmptySeq DEF IInv
  <2>. QED BY <1>3, <2>1 DEF IInv, Courant
<1>11. CloturesJustes'
  <2>1. \A i \in DOMAIN clotures' :
          <<clotures'[i].session, clotures'[i].facture>> \in Justes'
    BY <1>2, ResteJuste
  <2>. QED BY <2>1 DEF CloturesJustes
<1>12. UneSeuleOuverte'
  BY <1>3 DEF IInv, UneSeuleOuverte
<1>. QED BY <1>4, <1>5, <1>6, <1>7, <1>8, <1>9, <1>10, <1>11, <1>12 DEF IInv

\* A step of the server that answers.
LEMMA Termine ==
  ASSUME IInv, NEW r \in Requetes, NEW fait, Repondre(r, fait),
         sessions' \in Seq(LesSessions), DOMAIN sessions' = DOMAIN sessions,
         \A s \in DOMAIN sessions :
           /\ sessions'[s].carte = sessions[s].carte
           /\ sessions'[s].croisee = sessions[s].croisee
           /\ sessions'[s].ouverte => sessions[s].ouverte
           /\ <<s, sessions'[s].dernier>> \in Justes,
         badges' = badges, reservoir' \in 0..Fut,
         clotures' \in Seq(LesClotures), FermeeUneFois',
         \A i \in DOMAIN clotures' : clotures'[i].session \in DOMAIN sessions
                                     /\ <<clotures'[i].session, clotures'[i].facture>> \in Justes
  PROVE  IInv'
<1>1. /\ requetes' = [requetes EXCEPT ![r] = Libre]
      /\ pi' \in LesPi /\ tirages' \in Seq(LesTirages)
      /\ DOMAIN tirages' = DOMAIN tirages /\ Len(tirages') = Len(tirages)
      /\ \A t \in DOMAIN tirages : tirages'[t].session = tirages[t].session
                                   /\ tirages'[t].verse = tirages[t].verse
      /\ pi'.etape \in EnCours => pi.etape \in EnCours
      /\ pi'.appel = Aucun \/ (pi' = pi /\ pi.appel # r)
  BY Reponse
<1>2. /\ Libre \in LesRequetes /\ Libre.etape = "libre" /\ DOMAIN Libre.lues = {}
  <2>1. Libre.lues = Rien /\ Libre.etape = "libre"
    BY DEF Libre
  <2>. QED BY <2>1, RienLu, VolumesHypothese DEF Libre, LesRequetes, Genres, Volumes
<1>3. Appel'
  <2>1. CASE pi'.appel = Aucun
    BY <2>1 DEF Appel
  <2>2. CASE pi' = pi /\ pi.appel # r
    <3>1. pi.appel # Aucun => requetes'[pi.appel] = requetes[pi.appel]
      BY <1>1, <2>2 DEF IInv, TypesRequetes, TypesPi, LesPi
    <3>. QED BY <2>2, <3>1 DEF IInv, Appel
  <2>. QED BY <1>1, <2>1, <2>2
<1>. QED BY <1>1, <1>2, <1>3, SansNouvelle

\* What the server has, for a step that leaves it as it is.
LEMMA Acquis ==
  ASSUME IInv
  PROVE  /\ sessions \in Seq(LesSessions) /\ clotures \in Seq(LesClotures)
         /\ reservoir \in 0..Fut
         /\ FermeeUneFois
         /\ \A s \in DOMAIN sessions : <<s, sessions[s].dernier>> \in Justes
         /\ \A i \in DOMAIN clotures : clotures[i].session \in DOMAIN sessions
                                       /\ <<clotures[i].session, clotures[i].facture>> \in Justes
BY DEF IInv, TypesServeur, CloturesJustes, Dernieres

\* An answer that changes nothing else.
LEMMA Renvoie ==
  ASSUME IInv, NEW r \in Requetes, NEW fait, Repondre(r, fait), badges' = badges,
         sessions' = sessions, reservoir' = reservoir, clotures' = clotures
  PROVE  IInv'
<1>1. FermeeUneFois'
  BY Acquis DEF FermeeUneFois, Ouvertes
<1>. QED BY <1>1, Acquis, Termine

\* What a request reads is payable: the last volumes, or the volume it brings.
LEMMA Lit == ASSUME IInv, NEW r \in Requetes, Lire(r) PROVE IInv'
<1>1. /\ sessions' = sessions /\ reservoir' = reservoir /\ clotures' = clotures
      /\ badges' = badges /\ requetes[r].etape = "envoyee"
  BY DEF Lire, serveur
<1>2. CASE requetes[r].genre # "authorize" /\ DOMAIN Lues(requetes[r]) = {}
  BY <1>1, <1>2, Renvoie DEF Lire
<1>3. CASE ~(requetes[r].genre # "authorize" /\ DOMAIN Lues(requetes[r]) = {})
  <2> DEFINE l == Lues(requetes[r])
             x == [requetes[r] EXCEPT !.etape = "lue", !.lues = l]
  <2>1. requetes[r] \in LesRequetes
    BY DEF IInv, TypesRequetes
  <2>2. requetes' = [requetes EXCEPT ![r] = x] /\ pi' = pi /\ tirages' = tirages
    BY <1>3 DEF Lire
  <2>3. /\ Ouvertes \subseteq DOMAIN sessions /\ DOMAIN sessions \subseteq Nat
        /\ \A s \in DOMAIN sessions : sessions[s].dernier \in Volumes
    <3>1. \A s \in DOMAIN sessions : sessions[s] \in LesSessions /\ s \in Nat
      BY Acquis, Positions
    <3>2. \A e \in LesSessions : e.dernier \in Volumes
      BY DEF LesSessions
    <3>. QED BY <3>1, <3>2 DEF Ouvertes
  <2>4. /\ l \in LesLectures /\ DOMAIN l \subseteq DOMAIN sessions
        /\ \A s \in DOMAIN l : /\ <<s, l[s]>> \in Justes
                               /\ requetes[r].genre # "authorize" => l[s] = requetes[r].volume
        /\ requetes[r].genre = "authorize" => DOMAIN l = Ouvertes
    <3>1. CASE requetes[r].genre = "authorize"
      <4>1. l = [s \in Ouvertes |-> sessions[s].dernier]
        BY <3>1 DEF Lues, Orphelines
      <4>2. l \in [Ouvertes -> Volumes]
        BY <2>3, <4>1
      <4>3. l \in LesLectures
        BY <2>3, <4>2 DEF LesLectures
      <4>. QED BY <2>3, <3>1, <4>1, <4>3, Acquis
    <3>2. CASE requetes[r].genre # "authorize"
      <4> DEFINE D == {s \in DeLaCarte(requetes[r].carte) :
                         \A u \in DeLaCarte(requetes[r].carte) : u <= s}
      <4>1. l = [s \in D |-> requetes[r].volume]
        BY <3>2 DEF Lues, SessionDe
      <4>2. D \subseteq Ouvertes /\ \A s \in D : sessions[s].carte = requetes[r].carte
        BY DEF DeLaCarte
      <4>3. requetes[r].volume \in Volumes
        BY <2>1 DEF LesRequetes
      <4>4. l \in [D -> Volumes] /\ D \in SUBSET Nat
        BY <2>3, <4>1, <4>2, <4>3
      <4>5. l \in LesLectures
        BY <4>4 DEF LesLectures
      <4>6. \A s \in D : <<s, requetes[r].volume>> \in Justes
        BY <1>1, <3>2, <4>2 DEF IInv, EnvoisJustes
      <4>. QED BY <2>3, <3>2, <4>1, <4>2, <4>5, <4>6
    <3>. QED BY <3>1, <3>2
  <2> HIDE DEF l
  <2>5. /\ x \in LesRequetes /\ x.etape = "lue" /\ x.lues = l
        /\ x.genre = requetes[r].genre /\ x.volume = requetes[r].volume
    <3>1. requetes[r].carte \in Cartes
      BY <1>1, <2>1 DEF LesRequetes
    <3>2. /\ x.etape = "lue" /\ x.lues = l /\ x.genre = requetes[r].genre
          /\ x.volume = requetes[r].volume /\ x.carte = requetes[r].carte
          /\ x \in [etape : {"libre", "envoyee", "lue"}, genre : Genres,
                    carte : Cartes \cup {Aucun}, volume : Volumes, lues : LesLectures]
      BY <2>1, <2>4 DEF LesRequetes
    <3>. QED BY <3>1, <3>2 DEF LesRequetes
  <2> HIDE DEF x
  <2>6. Appel'
    <3>1. requetes'[r] = x /\ \A q \in Requetes : q # r => requetes'[q] = requetes[q]
      BY <2>2 DEF IInv, TypesRequetes
    <3>2. pi.appel \in Requetes \cup {Aucun}
      BY DEF IInv, TypesPi, LesPi
    <3>. QED BY <2>2, <2>5, <3>1, <3>2 DEF IInv, Appel
  <2>7. FermeeUneFois' /\ Ouvertes' = Ouvertes
    BY <1>1, Acquis DEF FermeeUneFois, Ouvertes
  <2>8. pi \in LesPi /\ tirages \in Seq(LesTirages)
    BY DEF IInv, TypesPi
  <2>. QED BY <1>1, <2>2, <2>4, <2>5, <2>6, <2>7, <2>8, Acquis, SansNouvelle
<1>. QED BY <1>2, <1>3

\* An update saves the volume that it brought for the session that it read.
LEMMA Actualise == ASSUME IInv, NEW r \in Requetes, Actualiser(r) PROVE IInv'
<1>1. /\ reservoir' = reservoir /\ clotures' = clotures /\ badges' = badges
      /\ requetes[r].genre = "pour_update" /\ Repondre(r, TRUE)
  BY DEF Actualiser, Traite
<1>2. PICK s \in DOMAIN requetes[r].lues :
        sessions' = [sessions EXCEPT ![s].dernier = requetes[r].volume]
  BY DEF Actualiser
<1>3. /\ s \in DOMAIN sessions /\ <<s, requetes[r].volume>> \in Justes
      /\ requetes[r].volume \in Volumes
  BY <1>1 DEF IInv, TypesRequetes, LesRequetes, LecturesJustes
<1> DEFINE e == [sessions[s] EXCEPT !.dernier = requetes[r].volume]
<1>4. sessions[s] \in LesSessions
  BY <1>3, Positions DEF IInv, TypesServeur
<1>5. /\ e \in LesSessions /\ e.carte = sessions[s].carte /\ e.croisee = sessions[s].croisee
      /\ e.ouverte = sessions[s].ouverte /\ e.dernier = requetes[r].volume
  BY <1>3, <1>4 DEF LesSessions
<1>6. sessions' = [sessions EXCEPT ![s] = e]
  BY <1>2
<1> HIDE DEF e
<1>7. /\ sessions' \in Seq(LesSessions) /\ DOMAIN sessions' = DOMAIN sessions
      /\ \A u \in DOMAIN sessions : sessions'[u] = IF u = s THEN e ELSE sessions[u]
  BY <1>3, <1>5, <1>6, Acquis, Position
<1>8. \A u \in DOMAIN sessions :
        /\ sessions'[u].carte = sessions[u].carte
        /\ sessions'[u].croisee = sessions[u].croisee
        /\ sessions'[u].ouverte = sessions[u].ouverte
        /\ <<u, sessions'[u].dernier>> \in Justes
  BY <1>3, <1>5, <1>7, Acquis
<1>9. Ouvertes' = Ouvertes
  BY <1>7, <1>8 DEF Ouvertes
<1>10. FermeeUneFois'
  BY <1>1, <1>9, Acquis DEF FermeeUneFois
<1>. QED BY <1>1, <1>7, <1>8, <1>10, Acquis, Termine

\* A transaction closes a session once, at a volume that it may pay.
LEMMA Cloture ==
  ASSUME IInv, NEW s \in DOMAIN sessions, NEW v, <<s, v>> \in Justes, Cloturer(s, v)
  PROVE  /\ sessions' \in Seq(LesSessions) /\ DOMAIN sessions' = DOMAIN sessions
         /\ \A u \in DOMAIN sessions :
              /\ sessions'[u].carte = sessions[u].carte
              /\ sessions'[u].croisee = sessions[u].croisee
              /\ sessions'[u].ouverte => sessions[u].ouverte
              /\ <<u, sessions'[u].dernier>> \in Justes
         /\ reservoir' \in 0..Fut
         /\ clotures' \in Seq(LesClotures) /\ FermeeUneFois'
         /\ \A i \in DOMAIN clotures' : clotures'[i].session \in DOMAIN sessions
                                     /\ <<clotures'[i].session, clotures'[i].facture>> \in Justes
         /\ s \notin Ouvertes'
<1>1. CASE ~Verrouillable(s)
  <2>1. /\ sessions' = sessions /\ reservoir' = reservoir /\ clotures' = clotures
        /\ ~sessions[s].ouverte
    BY <1>1 DEF Cloturer, Verrouillable, serveur
  <2>2. Ouvertes' = Ouvertes /\ s \notin Ouvertes
    BY <2>1 DEF Ouvertes
  <2>3. FermeeUneFois'
    BY <2>1, <2>2, Acquis DEF FermeeUneFois
  <2>. QED BY <2>1, <2>2, <2>3, Acquis
<1>2. CASE Verrouillable(s)
  <2> DEFINE e == [sessions[s] EXCEPT !.ouverte = FALSE, !.dernier = v]
  <2>1. v \in Volumes /\ v \in Nat /\ s \in Nat
    BY VolumesHypothese DEF Justes, Volumes
  <2>2. sessions[s] \in LesSessions
    BY Acquis, Positions
  <2>3. /\ e \in LesSessions /\ e.carte = sessions[s].carte
        /\ e.croisee = sessions[s].croisee /\ e.ouverte = FALSE /\ e.dernier = v
    BY <2>1, <2>2 DEF LesSessions
  <2>4. sessions' = [sessions EXCEPT ![s] = e]
    BY <1>2 DEF Cloturer
  <2>5. PICK soldee \in BOOLEAN :
          clotures' = Append(clotures, [session |-> s, volume |-> v, soldee |-> soldee,
                                        facture |-> Facture(s, v, soldee)])
    BY <1>2 DEF Cloturer
  <2> HIDE DEF e
  <2>6. /\ sessions' \in Seq(LesSessions) /\ DOMAIN sessions' = DOMAIN sessions
        /\ \A u \in DOMAIN sessions : sessions'[u] = IF u = s THEN e ELSE sessions[u]
    BY <2>3, <2>4, Acquis, Position
  <2>7. \A u \in DOMAIN sessions :
          /\ sessions'[u].carte = sessions[u].carte
          /\ sessions'[u].croisee = sessions[u].croisee
          /\ sessions'[u].ouverte => sessions[u].ouverte
          /\ <<u, sessions'[u].dernier>> \in Justes
    BY <2>3, <2>6, Acquis
  <2>8. Ouvertes' = Ouvertes \ {s} /\ s \in Ouvertes
    BY <1>2, <2>3, <2>6 DEF Ouvertes, Verrouillable
  <2>9. reservoir' \in 0..Fut
    <3>1. reservoir \in 0..Fut /\ Fut \in Nat
      BY Acquis, VolumesHypothese
    <3>2. reservoir' = reservoir \/ reservoir' = Reste(v)
      BY <1>2 DEF Cloturer
    <3>. QED BY <2>1, <3>1, <3>2 DEF Reste
  <2> DEFINE f == Facture(s, v, soldee)
             c == [session |-> s, volume |-> v, soldee |-> soldee, facture |-> f]
  <2>10. f \in Nat /\ f <= v /\ f \in Volumes
    <3>1. sessions[s].autorise \in Nat
      BY <2>2, VolumesHypothese DEF LesSessions
    <3>2. f = 0 \/ f = v \/ (f = sessions[s].autorise /\ ~(v <= sessions[s].autorise))
      BY DEF Facture
    <3>. QED BY <2>1, <3>1, <3>2, VolumesHypothese DEF Volumes
  <2> HIDE DEF f
  <2>11. <<s, f>> \in Justes
    <3>1. \/ v = 0
          \/ sessions[s].croisee
          \/ \E t \in DOMAIN tirages : tirages[t].session = s /\ v <= tirages[t].verse
      BY DEF Justes
    <3>2. \A t \in DOMAIN tirages : tirages[t].verse \in Nat
      BY Pours DEF IInv
    <3>3. (v = 0 => f = 0) /\ \A n \in Nat : v <= n => f <= n
      BY <2>1, <2>10
    <3>. QED BY <2>1, <2>10, <3>1, <3>2, <3>3 DEF Justes
  <2>12. c \in LesClotures /\ c.session = s /\ c.facture = f
    BY <2>1, <2>10 DEF LesClotures
  <2>13. clotures' = Append(clotures, c)
    BY <2>5 DEF f
  <2> HIDE DEF c
  <2>14. /\ clotures' \in Seq(LesClotures)
         /\ DOMAIN clotures' = DOMAIN clotures \cup {Len(clotures) + 1}
         /\ Len(clotures) + 1 \notin DOMAIN clotures
         /\ \A i \in DOMAIN clotures : clotures'[i] = clotures[i]
         /\ clotures'[Len(clotures) + 1] = c
    BY <2>12, <2>13, Acquis, Ajout
  <2>15. \A i \in DOMAIN clotures' : clotures'[i].session \in DOMAIN sessions
                                  /\ <<clotures'[i].session, clotures'[i].facture>> \in Justes
    BY <2>11, <2>12, <2>14, Acquis
  <2>16. \A i \in DOMAIN clotures : clotures[i].session # s
    BY <2>8, Acquis DEF FermeeUneFois
  <2>17. FermeeUneFois'
    BY <2>8, <2>12, <2>14, <2>16, Acquis DEF FermeeUneFois
  <2>. QED BY <2>6, <2>7, <2>8, <2>9, <2>14, <2>15, <2>17
<1>. QED BY <1>1, <1>2

\* The end of a pour closes its session; an authorisation closes one of those it read.
LEMMA Ferme == ASSUME IInv, NEW r \in Requetes, Fermer(r) PROVE IInv'
<1>1. PICK s \in DOMAIN requetes[r].lues :
        /\ Cloturer(s, requetes[r].lues[s])
        /\ IF requetes[r].genre = "authorize"
           THEN /\ requetes' = [requetes EXCEPT ![r].lues =
                     [u \in DOMAIN requetes[r].lues \ {s} |-> requetes[r].lues[u]]]
                /\ pi' = pi /\ tirages' = tirages
           ELSE Repondre(r, TRUE)
  BY DEF Fermer
<1>2. badges' = badges /\ requetes[r].etape = "lue"
  BY DEF Fermer, Traite
<1> DEFINE v == requetes[r].lues[s]
<1>3. s \in DOMAIN sessions /\ <<s, v>> \in Justes
  BY DEF IInv, TypesRequetes, LecturesJustes
<1>4. /\ sessions' \in Seq(LesSessions) /\ DOMAIN sessions' = DOMAIN sessions
      /\ \A u \in DOMAIN sessions :
           /\ sessions'[u].carte = sessions[u].carte
           /\ sessions'[u].croisee = sessions[u].croisee
           /\ sessions'[u].ouverte => sessions[u].ouverte
           /\ <<u, sessions'[u].dernier>> \in Justes
      /\ reservoir' \in 0..Fut
      /\ clotures' \in Seq(LesClotures) /\ FermeeUneFois'
      /\ \A i \in DOMAIN clotures' : clotures'[i].session \in DOMAIN sessions
                                     /\ <<clotures'[i].session, clotures'[i].facture>> \in Justes
      /\ s \notin Ouvertes'
  BY <1>1, <1>3, Cloture
<1>5. CASE requetes[r].genre # "authorize"
  <2>1. Repondre(r, TRUE)
    BY <1>1, <1>5
  <2>. QED BY <1>2, <1>4, <2>1, Termine
<1>6. CASE requetes[r].genre = "authorize"
  <2> DEFINE l == [u \in DOMAIN requetes[r].lues \ {s} |-> requetes[r].lues[u]]
             x == [requetes[r] EXCEPT !.lues = l]
  <2>1. requetes' = [requetes EXCEPT ![r] = x] /\ pi' = pi /\ tirages' = tirages
    BY <1>1, <1>6
  <2>2. /\ requetes[r] \in LesRequetes /\ DOMAIN requetes[r].lues \subseteq DOMAIN sessions
        /\ DOMAIN sessions \subseteq Nat
    BY Acquis, Positions DEF IInv, TypesRequetes
  <2>3. \A u \in DOMAIN requetes[r].lues : <<u, requetes[r].lues[u]>> \in Justes
    BY DEF IInv, LecturesJustes
  <2>4. \A u \in DOMAIN requetes[r].lues : requetes[r].lues[u] \in Volumes
    BY <2>3 DEF Justes
  <2>5. l \in LesLectures /\ DOMAIN l = DOMAIN requetes[r].lues \ {s}
    <3>1. l \in [DOMAIN requetes[r].lues \ {s} -> Volumes]
      BY <2>4
    <3>2. DOMAIN requetes[r].lues \ {s} \in SUBSET Nat
      BY <2>2
    <3>. QED BY <3>1, <3>2 DEF LesLectures
  <2>6. \A u \in DOMAIN l : <<u, l[u]>> \in Justes
    BY <2>3, <2>5
  <2> HIDE DEF l
  <2>7. /\ x \in LesRequetes /\ x.etape = "lue" /\ x.lues = l /\ x.genre = "authorize"
    BY <1>2, <1>6, <2>2, <2>5 DEF LesRequetes
  <2> HIDE DEF x
  <2>8. Ouvertes' \subseteq Ouvertes
    BY <1>4 DEF Ouvertes
  <2>9. \A u \in Ouvertes' : u \in DOMAIN l \/ sessions[u].croisee
    BY <1>2, <1>4, <1>6, <2>5, <2>8 DEF IInv, Vues
  <2>10. Appel'
    <3>1. requetes'[r] = x /\ \A q \in Requetes : q # r => requetes'[q] = requetes[q]
      BY <2>1 DEF IInv, TypesRequetes
    <3>2. pi.appel \in Requetes \cup {Aucun}
      BY DEF IInv, TypesPi, LesPi
    <3>. QED BY <1>6, <2>1, <2>7, <3>1, <3>2 DEF IInv, Appel
  <2>11. pi \in LesPi /\ tirages \in Seq(LesTirages)
    BY DEF IInv, TypesPi
  <2>. QED BY <1>2, <1>4, <2>1, <2>2, <2>5, <2>6, <2>7, <2>9, <2>10, <2>11, SansNouvelle
<1>. QED BY <1>5, <1>6

\* A session is created when every other open one is crossed: the request had read them
\* all, or was on its way when they were created.
LEMMA Autorise ==
  ASSUME IInv, NEW r \in Requetes, NEW a \in Autorises, Autoriser(r, a)
  PROVE  IInv'
<1> DEFINE n == Len(sessions) + 1
           e == [carte |-> requetes[r].carte, ouverte |-> TRUE, autorise |-> a,
                 dernier |-> 0, croisee |-> Croisee(r)]
           d == [session |-> n, verse |-> 0, rendu |-> FALSE]
<1>1. /\ requetes[r].etape = "lue" /\ requetes[r].genre = "authorize"
      /\ DOMAIN requetes[r].lues = {}
      /\ sessions' = Append(sessions, e) /\ requetes' = [requetes EXCEPT ![r] = Libre]
      /\ reservoir' = reservoir /\ clotures' = clotures /\ badges' = badges
      /\ IF pi.appel = r THEN Reprendre("sert") /\ tirages' = Append(tirages, d)
         ELSE pi' = pi /\ tirages' = tirages
  BY DEF Autoriser, Decision, Traite
<1>2. requetes[r].carte \in Cartes
  BY <1>1 DEF IInv, TypesRequetes, LesRequetes
<1>3. 0 \in Volumes
  BY VolumesHypothese DEF Volumes
<1>4. e \in LesSessions /\ e.ouverte = TRUE /\ e.dernier = 0 /\ e.croisee = Croisee(r)
      /\ e.carte = requetes[r].carte
  BY <1>2, <1>3 DEF LesSessions, Croisee
<1> HIDE DEF e
<1>5. /\ sessions' \in Seq(LesSessions) /\ n \in Nat
      /\ DOMAIN sessions' = DOMAIN sessions \cup {n} /\ n \notin DOMAIN sessions
      /\ \A s \in DOMAIN sessions : sessions'[s] = sessions[s]
      /\ sessions'[n] = e
  <2>1. Len(sessions) \in Nat
    BY Acquis, Positions
  <2>. QED BY <1>1, <1>4, <2>1, Acquis, Ajout
<1>6. d \in LesTirages /\ d.session = n
  BY <1>3, <1>5 DEF LesTirages
<1> HIDE DEF n, d
<1>7. tirages \in Seq(LesTirages) /\ pi \in LesPi
  BY DEF IInv, TypesPi
<1>8. /\ Libre \in LesRequetes /\ Libre.etape = "libre" /\ DOMAIN Libre.lues = {}
  <2>1. Libre.lues = Rien /\ Libre.etape = "libre"
    BY DEF Libre
  <2>. QED BY <2>1, RienLu, <1>3 DEF Libre, LesRequetes, Genres
<1>9. /\ requetes' \in [Requetes -> LesRequetes] /\ requetes'[r] = Libre
      /\ \A q \in Requetes : q # r => requetes'[q] = requetes[q]
  BY <1>1, <1>8 DEF IInv, TypesRequetes
<1>10. /\ pi' \in LesPi /\ tirages' \in Seq(LesTirages)
       /\ \A t \in DOMAIN tirages : t \in DOMAIN tirages' /\ tirages'[t] = tirages[t]
       /\ \A t \in DOMAIN tirages' : t \in DOMAIN tirages \/ tirages'[t].session = n
  <2>1. CASE pi.appel = r
    <3>1. pi.etape = "badge"
      BY <1>1, <2>1, AucunHypothese DEF IInv, Appel
    <3>2. pi' \in LesPi
      BY <1>1, <1>7, <2>1, <3>1, Reprise DEF Etapes
    <3>3. /\ tirages' \in Seq(LesTirages) /\ DOMAIN tirages' = DOMAIN tirages \cup {Len(tirages) + 1}
          /\ \A t \in DOMAIN tirages : tirages'[t] = tirages[t]
          /\ tirages'[Len(tirages) + 1] = d
      <4>1. tirages' = Append(tirages, d)
        BY <1>1, <2>1
      <4>. QED BY <1>6, <1>7, <4>1, Ajout
    <3>. QED BY <1>6, <3>2, <3>3
  <2>2. CASE pi.appel # r
    BY <1>1, <1>7, <2>2
  <2>. QED BY <2>1, <2>2
<1>11. Grandit
  <2>1. \A t \in DOMAIN tirages : tirages[t].verse \in Nat
    BY Pours DEF IInv
  <2>2. \A m \in Nat : m <= m
    OBVIOUS
  <2>. QED BY <1>5, <1>10, <2>1, <2>2 DEF Grandit
<1>12. /\ Ouvertes \subseteq DOMAIN sessions
       /\ Ouvertes' = Ouvertes \cup {n}
       /\ \A s \in Ouvertes : sessions[s].croisee
       /\ \A s \in DOMAIN sessions : s # n
  <2>1. Ouvertes \subseteq DOMAIN sessions /\ Ouvertes' = Ouvertes \cup {n}
    BY <1>4, <1>5 DEF Ouvertes
  <2>2. \A s \in Ouvertes : sessions[s].croisee
    BY <1>1 DEF IInv, Vues
  <2>. QED BY <1>5, <2>1, <2>2
<1>13. /\ pi.appel # r => sessions'[n].croisee
       /\ \A q \in Requetes : q # r /\ requetes[q].etape # "libre"
            /\ (requetes[q].carte = requetes[r].carte \/ requetes[q].genre = "authorize")
            => sessions'[n].croisee
  BY <1>4, <1>5 DEF Croisee
<1>14. TypesServeur'
  BY <1>1, <1>5 DEF IInv, TypesServeur
<1>15. TypesPi'
  BY <1>1, <1>5, <1>10 DEF IInv, TypesPi
<1>16. TypesRequetes'
  BY <1>5, <1>8, <1>9 DEF IInv, TypesRequetes
<1>17. Dernieres'
  <2>1. \A s \in DOMAIN sessions : <<s, sessions[s].dernier>> \in Justes'
    BY <1>11, ResteJuste, Acquis
  <2>2. <<n, 0>> \in Justes'
    BY <1>5, ZeroJuste
  <2>. QED BY <1>4, <1>5, <2>1, <2>2 DEF Dernieres
<1>18. LecturesJustes'
  <2>1. \A q \in Requetes : \A s \in DOMAIN requetes[q].lues :
          <<s, requetes[q].lues[s]>> \in Justes'
    BY <1>11, ResteJuste DEF IInv, LecturesJustes, TypesRequetes
  <2>. QED BY <1>8, <1>9, <2>1 DEF IInv, LecturesJustes
<1>19. EnvoisJustes'
  <2> SUFFICES ASSUME NEW q \in Requetes, requetes'[q].etape = "envoyee",
                      requetes'[q].genre # "authorize", NEW s \in Ouvertes',
                      sessions'[s].carte = requetes'[q].carte
               PROVE  <<s, requetes'[q].volume>> \in Justes'
    BY DEF EnvoisJustes
  <2>1. q # r /\ requetes'[q] = requetes[q]
    BY <1>8, <1>9
  <2>2. CASE s \in Ouvertes
    BY <1>5, <1>11, <1>12, <2>1, <2>2, ResteJuste DEF IInv, EnvoisJustes
  <2>3. CASE s = n
    <3>1. sessions'[n].croisee
      BY <1>4, <1>5, <1>13, <2>1, <2>3
    <3>2. requetes'[q].volume \in Volumes
      BY <1>9 DEF LesRequetes
    <3>. QED BY <1>5, <2>3, <3>1, <3>2 DEF Justes, Volumes
  <2>. QED BY <1>12, <2>2, <2>3
<1>20. Vues'
  <2> SUFFICES ASSUME NEW q \in Requetes, requetes'[q].etape = "lue",
                      requetes'[q].genre = "authorize", NEW s \in Ouvertes'
               PROVE  s \in DOMAIN requetes'[q].lues \/ sessions'[s].croisee
    BY DEF Vues
  <2>1. q # r /\ requetes'[q] = requetes[q]
    BY <1>8, <1>9
  <2>2. CASE s \in Ouvertes
    BY <1>5, <1>12, <2>2
  <2>3. CASE s = n
    BY <1>13, <2>1, <2>3
  <2>. QED BY <1>12, <2>2, <2>3
<1>21. \A s \in Ouvertes : sessions'[s].croisee
  BY <1>5, <1>12
<1>22. Courant'
  <2>1. CASE pi.appel = r
    <3>1. tirages' # <<>> /\ tirages'[Len(tirages')] = d
      BY <1>1, <1>6, <1>7, <2>1, Ajout
    <3>. QED BY <1>6, <1>12, <1>21, <3>1 DEF Courant
  <2>2. CASE pi.appel # r
    BY <1>1, <1>12, <1>13, <1>21, <2>2 DEF IInv, Courant
  <2>. QED BY <2>1, <2>2
<1>23. Appel'
  <2>1. CASE pi.appel = r
    <3>1. pi.etape = "badge"
      BY <1>1, <2>1, AucunHypothese DEF IInv, Appel
    <3>2. pi'.appel = Aucun
      BY <1>1, <1>7, <2>1, <3>1, Reprise DEF Etapes
    <3>. QED BY <3>2 DEF Appel
  <2>2. CASE pi.appel # r
    <3>1. pi' = pi /\ pi.appel \in Requetes \cup {Aucun}
      BY <1>1, <1>7, <2>2 DEF LesPi
    <3>. QED BY <1>9, <2>2, <3>1 DEF IInv, Appel
  <2>. QED BY <2>1, <2>2
<1>24. CloturesJustes'
  <2>1. \A i \in DOMAIN clotures : <<clotures[i].session, clotures[i].facture>> \in Justes'
    BY <1>11, ResteJuste, Acquis
  <2>2. FermeeUneFois'
    BY <1>1, <1>12, Acquis DEF FermeeUneFois
  <2>. QED BY <1>1, <2>1, <2>2 DEF CloturesJustes
<1>25. UneSeuleOuverte'
  BY <1>12, <1>21 DEF UneSeuleOuverte
<1>. QED BY <1>14, <1>15, <1>16, <1>17, <1>18, <1>19, <1>20, <1>22, <1>23, <1>24, <1>25
         DEF IInv

-----------------------------------------------------------------------------
(* What leaves the keg *)

\* The closing of a session at a volume.
FermeeA(s, v) ==
  \E i \in DOMAIN clotures : clotures[i].session = s /\ clotures[i].volume = v

\* The bill of a closing, and what the keg still holds.
Plafonne(v, s) == IF v <= sessions[s].autorise THEN v ELSE sessions[s].autorise
FacturesExactes ==
  \A i \in DOMAIN clotures :
    clotures[i].soldee /\ ~Rincage(clotures[i].session) =>
      clotures[i].facture = Plafonne(clotures[i].volume, clotures[i].session)
Jauge ==
  reservoir = IF SumFunction(Sorties) <= Fut THEN Fut - SumFunction(Sorties) ELSE 0

\* What a closing takes out of the keg is a volume, and there are finitely many of them.
LEMMA SortiesNaturelles ==
  ASSUME IInv
  PROVE  /\ IsFiniteSet(DOMAIN clotures) /\ DOMAIN Sorties = DOMAIN clotures
         /\ \A i \in DOMAIN clotures : Sorties[i] \in Nat /\ Sorties[i] \in Int
         /\ SumFunction(Sorties) \in Nat
<1>1. clotures \in Seq(LesClotures)
  BY Acquis
<1>2. DOMAIN clotures = 1..Len(clotures) /\ Len(clotures) \in Nat
      /\ \A i \in DOMAIN clotures : clotures[i] \in LesClotures
  BY <1>1, Positions
<1>3. \A c \in LesClotures : c.volume \in Nat
  BY VolumesHypothese DEF LesClotures, Volumes
<1>4. IsFiniteSet(DOMAIN clotures)
  BY <1>2, FS_Interval
<1>5. DOMAIN Sorties = DOMAIN clotures
      /\ \A i \in DOMAIN clotures : Sorties[i] \in Nat /\ Sorties[i] \in Int
  BY <1>2, <1>3 DEF Sorties
<1>6. SumFunctionOnSet(Sorties, DOMAIN clotures) \in Nat
  BY <1>4, <1>5, SommeNaturelle
<1>. QED BY <1>4, <1>5, <1>6 DEF SumFunction

\* The accounts do not move while nothing is closed.
LEMMA ComptesImmobiles ==
  ASSUME IInv, FacturesExactes, Jauge, clotures' = clotures, reservoir' = reservoir,
         \A s \in DOMAIN sessions : /\ sessions'[s].carte = sessions[s].carte
                                    /\ sessions'[s].autorise = sessions[s].autorise
  PROVE  FacturesExactes' /\ Jauge'
<1>1. \A i \in DOMAIN clotures : clotures[i].session \in DOMAIN sessions
  BY Acquis
<1>2. FacturesExactes'
  BY <1>1 DEF FacturesExactes, Rincage, Plafonne
<1>3. DOMAIN Sorties' = DOMAIN clotures /\ DOMAIN Sorties = DOMAIN clotures
      /\ \A i \in DOMAIN clotures : Sorties'[i] = Sorties[i]
  BY <1>1 DEF Sorties, Rincage
<1>4. SumFunctionOnSet(Sorties', DOMAIN clotures) = SumFunctionOnSet(Sorties, DOMAIN clotures)
  BY <1>3, SortiesNaturelles, SommeEgale
<1>5. SumFunction(Sorties)' = SumFunction(Sorties)
  BY <1>3, <1>4 DEF SumFunction
<1>. QED BY <1>2, <1>5 DEF Jauge

\* A closing keeps the accounts: the keg loses its volume, and what was billed is exact.
LEMMA ComptesCloture ==
  ASSUME IInv, FacturesExactes, Jauge, NEW s \in DOMAIN sessions, NEW v,
         <<s, v>> \in Justes, Cloturer(s, v)
  PROVE  /\ FacturesExactes' /\ Jauge'
         /\ \A u, w : FermeeA(u, w) => FermeeA(u, w)'
         /\ s \in Ouvertes => FermeeA(s, v)'
         /\ \A u \in Ouvertes : u = s \/ u \in Ouvertes'
<1>1. CASE ~Verrouillable(s)
  <2>1. /\ sessions' = sessions /\ reservoir' = reservoir /\ clotures' = clotures
        /\ ~sessions[s].ouverte
    BY <1>1 DEF Cloturer, Verrouillable, serveur
  <2>2. FacturesExactes' /\ Jauge'
    BY <2>1, ComptesImmobiles
  <2>. QED BY <2>1, <2>2 DEF FermeeA, Ouvertes
<1>2. CASE Verrouillable(s)
  <2> DEFINE e == [sessions[s] EXCEPT !.ouverte = FALSE, !.dernier = v]
             n == Len(clotures) + 1
  <2>1. v \in Volumes /\ v \in Nat
    BY VolumesHypothese DEF Justes, Volumes
  <2>2. \A u \in DOMAIN sessions : sessions[u] \in LesSessions /\ sessions[u].autorise \in Nat
    <3>1. \A u \in DOMAIN sessions : sessions[u] \in LesSessions
      BY Acquis, Positions
    <3>2. \A x \in LesSessions : x.autorise \in Nat
      BY VolumesHypothese DEF LesSessions
    <3>. QED BY <3>1, <3>2
  <2>3. e \in LesSessions /\ e.carte = sessions[s].carte /\ e.autorise = sessions[s].autorise
    BY <2>1, <2>2 DEF LesSessions
  <2>4. sessions' = [sessions EXCEPT ![s] = e]
    BY <1>2 DEF Cloturer
  <2> HIDE DEF e
  <2>5. /\ DOMAIN sessions' = DOMAIN sessions
        /\ \A u \in DOMAIN sessions : sessions'[u] = IF u = s THEN e ELSE sessions[u]
    BY <2>3, <2>4, Acquis, Position
  <2>6. \A u \in DOMAIN sessions : /\ sessions'[u].carte = sessions[u].carte
                                   /\ sessions'[u].autorise = sessions[u].autorise
    BY <2>3, <2>5
  <2>7. PICK soldee \in BOOLEAN :
          clotures' = Append(clotures, [session |-> s, volume |-> v, soldee |-> soldee,
                                        facture |-> Facture(s, v, soldee)])
    BY <1>2 DEF Cloturer
  <2> DEFINE f == Facture(s, v, soldee)
             c == [session |-> s, volume |-> v, soldee |-> soldee, facture |-> f]
  <2>8. clotures' = Append(clotures, c)
    BY <2>7
  <2>9. /\ s \in Nat /\ f \in Volumes
        /\ soldee /\ ~Rincage(s) => f = Plafonne(v, s)
    <3>1. s \in Nat /\ 0 \in Volumes
      BY VolumesHypothese DEF Justes, Volumes
    <3>2. v <= sessions[s].autorise \/ sessions[s].autorise \in Volumes
      BY <2>1, <2>2, VolumesHypothese DEF Volumes
    <3>. QED BY <2>1, <3>1, <3>2 DEF Facture, Plafonne
  <2> HIDE DEF f
  <2>10. /\ c \in LesClotures /\ c.session = s /\ c.volume = v /\ c.soldee = soldee
         /\ c.facture = f
    BY <2>1, <2>9 DEF LesClotures
  <2> HIDE DEF c
  <2>11. /\ DOMAIN clotures' = DOMAIN clotures \cup {n} /\ n \notin DOMAIN clotures
         /\ \A i \in DOMAIN clotures : clotures'[i] = clotures[i]
         /\ clotures'[n] = c
    BY <2>8, <2>10, Acquis, Ajout
  <2> HIDE DEF n
  <2>12. \A i \in DOMAIN clotures : clotures[i].session \in DOMAIN sessions
    BY Acquis
  <2>13. FacturesExactes'
    <3>1. \A u \in DOMAIN sessions : /\ Rincage(u)' = Rincage(u)
                                     /\ \A w : Plafonne(w, u)' = Plafonne(w, u)
      BY <2>6 DEF Rincage, Plafonne
    <3>2. ASSUME NEW i \in DOMAIN clotures', clotures'[i].soldee,
                 ~Rincage(clotures[i].session)'
          PROVE  clotures'[i].facture = Plafonne(clotures[i].volume, clotures[i].session)'
      <4>1. CASE i = n
        BY <2>9, <2>10, <2>11, <3>1, <3>2, <4>1
      <4>2. CASE i \in DOMAIN clotures
        BY <2>11, <2>12, <3>1, <3>2, <4>2 DEF FacturesExactes
      <4>. QED BY <2>11, <4>1, <4>2
    <3>. QED BY <3>2 DEF FacturesExactes
  <2>14. Jauge'
    <3> DEFINE D == DOMAIN clotures
               S == SumFunction(Sorties)
               w == IF Rincage(s) THEN 0 ELSE v
    <3>1. /\ IsFiniteSet(D) /\ DOMAIN Sorties = D /\ S \in Nat
          /\ \A i \in D : Sorties[i] \in Int
      BY SortiesNaturelles
    <3>2. /\ DOMAIN Sorties' = D \cup {n} /\ Sorties'[n] = w
          /\ \A i \in D : Sorties'[i] = Sorties[i]
      BY <2>6, <2>10, <2>11, <2>12 DEF Sorties, Rincage
    <3>3. w \in Nat
      BY <2>1
    <3>4. \A i \in D \cup {n} : Sorties'[i] \in Int
      BY <3>1, <3>2, <3>3
    <3>5. SumFunctionOnSet(Sorties', D \cup {n}) = SumFunctionOnSet(Sorties', D) + Sorties'[n]
      BY <2>11, <3>1, <3>4, SommeAjout
    <3>6. SumFunctionOnSet(Sorties', D) = SumFunctionOnSet(Sorties, D)
      BY <3>1, <3>2, SommeEgale
    <3>7. SumFunction(Sorties)' = S + w
      BY <3>1, <3>2, <3>5, <3>6 DEF SumFunction
    <3>8. reservoir' = IF Rincage(s) THEN reservoir ELSE Reste(v)
      BY <1>2 DEF Cloturer
    <3>9. Fut \in Nat /\ reservoir = IF S <= Fut THEN Fut - S ELSE 0
      BY VolumesHypothese DEF Jauge
    <3> HIDE DEF S
    <3>10. reservoir' = IF S + w <= Fut THEN Fut - (S + w) ELSE 0
      BY <2>1, <3>1, <3>3, <3>8, <3>9 DEF Reste
    <3>. QED BY <3>7, <3>10 DEF Jauge
  <2>15. /\ \A u, w : FermeeA(u, w) => FermeeA(u, w)'
         /\ FermeeA(s, v)'
    BY <2>10, <2>11 DEF FermeeA
  <2>16. \A u \in Ouvertes : u = s \/ u \in Ouvertes'
    BY <2>5 DEF Ouvertes
  <2>. QED BY <2>13, <2>14, <2>15, <2>16
<1>. QED BY <1>1, <1>2

-----------------------------------------------------------------------------
(* The end of a pour *)

\* The call that the Pi waits for is of its card, and what a request read is of its own.
AppelDuPi ==
  pi.appel # Aucun =>
    /\ requetes[pi.appel].carte = pi.carte
    /\ pi.etape = "maj" => requetes[pi.appel].genre # "pour_end"
CarteDesLectures ==
  \A r \in Requetes : requetes[r].etape = "lue" /\ requetes[r].genre # "authorize" =>
    \A s \in DOMAIN requetes[r].lues : sessions[s].carte = requetes[r].carte

\* A pour whose end was answered is closed at its volume.
RendusFermes ==
  \A t \in DOMAIN tirages :
    tirages[t].rendu /\ ~sessions[tirages[t].session].croisee =>
      FermeeA(tirages[t].session, tirages[t].verse)

\* The pour in progress, of a session not crossed: the session is the last one, nothing on
\* its way may create another or be of another pour, and an end carries the whole volume.
Actuelle == tirages[Len(tirages)].session
Finissent == {"plein", "arret", "fin"}
DuTirage(q) ==
  /\ requetes[q].genre \in {"pour_update", "pour_end"}
  /\ requetes[q].genre = "pour_end" =>
       /\ pi.etape \in Finissent /\ requetes[q].volume = Verse
       /\ requetes[q].etape = "lue" /\ Actuelle \in Ouvertes =>
            Actuelle \in DOMAIN requetes[q].lues
EnvoisDuTirage ==
  \A q \in Requetes : requetes[q].etape # "libre" =>
    /\ requetes[q].genre # "authorize"
    /\ requetes[q].carte = pi.carte => DuTirage(q)
Suivi ==
  pi.etape \in EnCours =>
    /\ tirages[Len(tirages)].rendu = FALSE
    /\ sessions[Actuelle].croisee = FALSE =>
         /\ \A u \in DOMAIN sessions : u <= Actuelle
         /\ sessions[Actuelle].carte = pi.carte
         /\ EnvoisDuTirage
         /\ Actuelle \in Ouvertes \/ (FermeeA(Actuelle, Verse) /\ pi.etape \in Finissent)

FinInv == AppelDuPi /\ CarteDesLectures /\ RendusFermes /\ Suivi

\* What the pour in progress is.
LEMMA PourEnCours ==
  ASSUME IInv, pi.etape \in EnCours
  PROVE  /\ Len(tirages) \in DOMAIN tirages /\ tirages # <<>>
         /\ tirages[Len(tirages)] \in LesTirages
         /\ Actuelle \in DOMAIN sessions /\ sessions[Actuelle].croisee \in BOOLEAN
         /\ Actuelle \in Nat /\ Verse \in Nat
<1>1. tirages # <<>>
  BY DEF IInv, Courant
<1>2. /\ Len(tirages) \in DOMAIN tirages /\ tirages[Len(tirages)] \in LesTirages
      /\ tirages[Len(tirages)].verse \in Nat
  BY <1>1, Pours DEF IInv
<1>3. Actuelle \in DOMAIN sessions
  BY <1>2 DEF IInv, TypesPi, Actuelle
<1>4. sessions[Actuelle] \in LesSessions /\ Actuelle \in Nat
  BY <1>3, Acquis, Positions
<1>5. sessions[Actuelle].croisee \in BOOLEAN
  BY <1>4 DEF LesSessions
<1>. QED BY <1>1, <1>2, <1>3, <1>4, <1>5 DEF Verse

\* A call of the Pi is the update or the end of the pour in progress, with its volume, or
\* there is no pour in progress any more.
LEMMA FinAppelle ==
  ASSUME IInv, FinInv, NEW e \in Etapes, NEW g \in Genres, NEW c, NEW v, NEW d,
         Envoyer(e, g, c, v, d), tirages' = tirages, sessions' = sessions,
         clotures' = clotures,
         e \in EnCours => /\ pi.etape \in {"sert", "arret"} /\ c = pi.carte /\ v = Verse
                          /\ \/ e = "maj" /\ g = "pour_update" /\ pi.etape = "sert"
                             \/ e \in Finissent /\ g = "pour_end"
  PROVE  FinInv'
<1>1. PICK r \in Requetes :
        /\ requetes[r].etape = "libre"
        /\ requetes' = [requetes EXCEPT ![r] =
             [etape |-> "envoyee", genre |-> g, carte |-> c, volume |-> v, lues |-> Rien]]
        /\ pi' = [etape |-> e, carte |-> c, appel |-> r, suivante |-> d]
  BY DEF Envoyer
<1>2. /\ \A q \in Requetes : q # r => requetes'[q] = requetes[q]
      /\ requetes'[r].etape = "envoyee" /\ requetes'[r].genre = g
      /\ requetes'[r].carte = c /\ requetes'[r].volume = v
      /\ pi'.etape = e /\ pi'.carte = c /\ pi'.appel = r
  BY <1>1 DEF IInv, TypesRequetes
<1>3. AppelDuPi'
  BY <1>2 DEF AppelDuPi, EnCours, Finissent
<1>4. CarteDesLectures'
  BY <1>2 DEF FinInv, CarteDesLectures
<1>5. RendusFermes'
  BY DEF FinInv, RendusFermes, FermeeA
<1>6. Suivi'
  <2> SUFFICES ASSUME e \in EnCours
               PROVE  /\ tirages[Len(tirages)].rendu = FALSE
                      /\ sessions[Actuelle].croisee = FALSE =>
                           /\ \A u \in DOMAIN sessions : u <= Actuelle
                           /\ sessions[Actuelle].carte = c
                           /\ EnvoisDuTirage'
                           /\ Actuelle \in Ouvertes \/ (FermeeA(Actuelle, Verse)
                                                        /\ e \in Finissent)
    BY <1>2 DEF Suivi, Actuelle, Ouvertes, FermeeA, Verse
  <2>1. pi.etape \in EnCours /\ c = pi.carte /\ v = Verse
    BY DEF EnCours
  <2>2. tirages[Len(tirages)].rendu = FALSE
    BY <2>1 DEF FinInv, Suivi
  <2>3. ASSUME sessions[Actuelle].croisee = FALSE
        PROVE  /\ \A u \in DOMAIN sessions : u <= Actuelle
               /\ sessions[Actuelle].carte = c
               /\ EnvoisDuTirage'
               /\ Actuelle \in Ouvertes \/ (FermeeA(Actuelle, Verse) /\ e \in Finissent)
    <3>1. /\ \A u \in DOMAIN sessions : u <= Actuelle
          /\ sessions[Actuelle].carte = pi.carte
          /\ EnvoisDuTirage
          /\ Actuelle \in Ouvertes \/ (FermeeA(Actuelle, Verse) /\ pi.etape \in Finissent)
      BY <2>1, <2>3 DEF FinInv, Suivi
    <3>2. pi.etape \in Finissent => e \in Finissent
      BY DEF Finissent
    <3>3. ASSUME NEW q \in Requetes, requetes'[q].etape # "libre"
          PROVE  /\ requetes'[q].genre # "authorize"
                 /\ requetes'[q].carte = c => DuTirage(q)'
      <4>1. CASE q = r
        BY <1>2, <2>1, <4>1 DEF DuTirage, Verse, EnCours
      <4>2. CASE q # r
        <5>1. /\ requetes'[q] = requetes[q] /\ requetes[q].genre # "authorize"
              /\ requetes[q].carte = c => DuTirage(q)
          BY <1>2, <2>1, <3>1, <3>3, <4>2 DEF EnvoisDuTirage
        <5>2. DuTirage(q) => DuTirage(q)'
          BY <1>2, <3>2, <5>1 DEF DuTirage, Verse, Actuelle, Ouvertes
        <5>. QED BY <5>1, <5>2
      <4>. QED BY <4>1, <4>2
    <3>4. EnvoisDuTirage'
      BY <1>2, <3>3 DEF EnvoisDuTirage
    <3>. QED BY <2>1, <3>1, <3>2, <3>4
  <2>. QED BY <2>2, <2>3
<1>. QED BY <1>3, <1>4, <1>5, <1>6 DEF FinInv

\* Each step of the Pi that calls the server.
LEMMA FinDuPi ==
  ASSUME IInv, FinInv,
         \/ \E c \in Cartes : Badger(c) \/ ChangerDeCarte(c)
         \/ Suivre \/ RetirerCarte \/ BadgerLaSuivante
  PROVE  FinInv'
<1>1. ASSUME NEW c \in Cartes, Badger(c) PROVE FinInv'
  <2>1. /\ Envoyer("badge", "authorize", c, 0, Aucun)
        /\ tirages' = tirages /\ sessions' = sessions /\ clotures' = clotures
    BY <1>1 DEF Badger, serveur
  <2>. QED BY <2>1, FinAppelle DEF Etapes, Genres, EnCours
<1>2. ASSUME NEW c \in Cartes, ChangerDeCarte(c) PROVE FinInv'
  <2>1. /\ Envoyer("fin", "pour_end", pi.carte, Verse, c) /\ pi.etape = "sert"
        /\ tirages' = tirages /\ sessions' = sessions /\ clotures' = clotures
    BY <1>2 DEF ChangerDeCarte, Decide, serveur
  <2>. QED BY <2>1, FinAppelle DEF Etapes, Genres, Finissent
<1>3. ASSUME Suivre PROVE FinInv'
  <2>1. /\ \/ Envoyer("plein", "pour_end", pi.carte, Verse, Aucun)
           \/ Envoyer("maj", "pour_update", pi.carte, Verse, Aucun)
        /\ pi.etape = "sert"
        /\ tirages' = tirages /\ sessions' = sessions /\ clotures' = clotures
    BY <1>3 DEF Suivre, Decide, serveur
  <2>2. CASE Envoyer("plein", "pour_end", pi.carte, Verse, Aucun)
    BY <2>1, <2>2, FinAppelle DEF Etapes, Genres, Finissent
  <2>3. CASE Envoyer("maj", "pour_update", pi.carte, Verse, Aucun)
    BY <2>1, <2>3, FinAppelle DEF Etapes, Genres, Finissent
  <2>. QED BY <2>1, <2>2, <2>3
<1>4. ASSUME RetirerCarte PROVE FinInv'
  <2>1. /\ tirages' = tirages /\ sessions' = sessions /\ clotures' = clotures
        /\ \/ pi.etape \in {"sert", "arret"}
              /\ Envoyer("fin", "pour_end", pi.carte, Verse, Aucun)
           \/ Envoyer("retrait", "card_removed", pi.carte, 0, Aucun)
    BY <1>4 DEF RetirerCarte, Decide, serveur
  <2>2. CASE pi.etape \in {"sert", "arret"}
             /\ Envoyer("fin", "pour_end", pi.carte, Verse, Aucun)
    BY <2>1, <2>2, FinAppelle DEF Etapes, Genres, Finissent
  <2>3. CASE Envoyer("retrait", "card_removed", pi.carte, 0, Aucun)
    BY <2>1, <2>3, FinAppelle DEF Etapes, Genres, EnCours
  <2>. QED BY <2>1, <2>2, <2>3
<1>5. ASSUME BadgerLaSuivante PROVE FinInv'
  <2>1. /\ Envoyer("badge", "authorize", pi.suivante, 0, Aucun)
        /\ tirages' = tirages /\ sessions' = sessions /\ clotures' = clotures
    BY <1>5 DEF BadgerLaSuivante, serveur
  <2>. QED BY <2>1, FinAppelle DEF Etapes, Genres, EnCours
<1>. QED BY <1>1, <1>2, <1>3, <1>4, <1>5

\* The beer flows: the pour is not ended, nor its session closed.
LEMMA FinCoule == ASSUME IInv, FinInv, Verser PROVE FinInv'
<1> DEFINE t == Len(tirages)
<1>1. /\ pi.etape \in {"sert", "maj"} /\ pi.etape \in EnCours /\ pi.etape \notin Finissent
      /\ tirages' = [tirages EXCEPT ![t].verse = @ + 1]
      /\ sessions' = sessions /\ clotures' = clotures /\ pi' = pi /\ requetes' = requetes
  BY DEF Verser, serveur, EnCours, Finissent
<1>2. /\ t \in DOMAIN tirages /\ tirages[t] \in LesTirages /\ tirages[t].rendu = FALSE
      /\ tirages \in Seq(LesTirages)
  BY <1>1, PourEnCours DEF FinInv, Suivi, IInv, TypesPi
<1>3. /\ DOMAIN tirages' = DOMAIN tirages /\ Len(tirages') = Len(tirages)
      /\ \A j \in DOMAIN tirages : /\ tirages'[j].session = tirages[j].session
                                   /\ tirages'[j].rendu = tirages[j].rendu
                                   /\ j # t => tirages'[j] = tirages[j]
  <2>1. /\ DOMAIN tirages' = DOMAIN tirages
        /\ \A j \in DOMAIN tirages : j # t => tirages'[j] = tirages[j]
        /\ tirages'[t] = [tirages[t] EXCEPT !.verse = @ + 1]
    BY <1>1, <1>2
  <2>2. tirages'[t].session = tirages[t].session /\ tirages'[t].rendu = tirages[t].rendu
    BY <1>2, <2>1 DEF LesTirages
  <2>3. Len(tirages') = Len(tirages)
    BY <1>1, <1>2, ExceptSeq, <2>1, LenProperties
  <2>. QED BY <2>1, <2>2, <2>3
<1>4. AppelDuPi' /\ CarteDesLectures'
  BY <1>1 DEF FinInv, AppelDuPi, CarteDesLectures
<1>5. RendusFermes'
  BY <1>1, <1>2, <1>3 DEF FinInv, RendusFermes, FermeeA
<1>6. Suivi'
  <2>1. Actuelle' = Actuelle /\ Ouvertes' = Ouvertes /\ tirages'[t].rendu = FALSE
    BY <1>1, <1>2, <1>3 DEF Actuelle, Ouvertes
  <2>2. ASSUME sessions[Actuelle].croisee = FALSE
        PROVE  /\ \A u \in DOMAIN sessions : u <= Actuelle
               /\ sessions[Actuelle].carte = pi.carte
               /\ EnvoisDuTirage' /\ Actuelle \in Ouvertes
    <3>1. /\ \A u \in DOMAIN sessions : u <= Actuelle
          /\ sessions[Actuelle].carte = pi.carte
          /\ EnvoisDuTirage /\ Actuelle \in Ouvertes
      BY <1>1, <2>2 DEF FinInv, Suivi
    <3>2. \A q : DuTirage(q) => DuTirage(q)'
      BY <1>1, <2>1 DEF DuTirage
    <3>3. EnvoisDuTirage'
      BY <1>1, <3>1, <3>2 DEF EnvoisDuTirage
    <3>. QED BY <3>1, <3>3
  <2>. QED BY <1>1, <1>3, <2>1, <2>2 DEF Suivi
<1>. QED BY <1>4, <1>5, <1>6 DEF FinInv

\* Waiting no longer, or stopping, changes nothing of what is on its way.
LEMMA FinAttend == ASSUME IInv, FinInv, Expirer \/ Coupure PROVE FinInv'
<1>1. /\ sessions' = sessions /\ clotures' = clotures /\ tirages' = tirages
      /\ requetes' = requetes
  BY DEF Expirer, Coupure, serveur
<1>2. /\ pi'.appel = Aucun
      /\ pi'.etape \in EnCours => /\ pi.etape \in EnCours /\ pi'.carte = pi.carte
                                  /\ pi.etape \in Finissent => pi'.etape \in Finissent
  <2>1. pi \in LesPi
    BY DEF IInv, TypesPi
  <2>2. CASE Expirer
    <3>1. Reprendre(Apres(FALSE))
      BY <2>2 DEF Expirer
    <3>2. /\ Apres(FALSE) \in EnCours => pi.etape \in {"maj", "plein"}
          /\ pi.etape = "maj" => Apres(FALSE) = "sert"
          /\ pi.etape = "plein" => Apres(FALSE) = "arret"
      BY DEF Apres, EnCours
    <3>3. pi'.appel = Aucun /\ (pi'.etape = "repos" \/ (/\ pi'.etape = Apres(FALSE)
                                                       /\ pi'.carte = pi.carte))
      BY <2>1, <3>1 DEF Reprendre, AuRepos, LesPi
    <3>. QED BY <3>2, <3>3 DEF EnCours, Finissent
  <2>3. CASE Coupure
    BY <2>3 DEF Coupure, AuRepos, EnCours
  <2>. QED BY <2>2, <2>3
<1>3. AppelDuPi' /\ CarteDesLectures' /\ RendusFermes'
  BY <1>1, <1>2 DEF FinInv, AppelDuPi, CarteDesLectures, RendusFermes, FermeeA
<1>4. Actuelle' = Actuelle /\ Ouvertes' = Ouvertes /\ Verse' = Verse
      /\ \A u, w : FermeeA(u, w)' <=> FermeeA(u, w)
  BY <1>1 DEF Actuelle, Ouvertes, Verse, FermeeA
<1>5. Suivi'
  <2> SUFFICES ASSUME pi'.etape \in EnCours
               PROVE  /\ tirages[Len(tirages)].rendu = FALSE
                      /\ sessions[Actuelle].croisee = FALSE =>
                           /\ \A u \in DOMAIN sessions : u <= Actuelle
                           /\ sessions[Actuelle].carte = pi'.carte
                           /\ EnvoisDuTirage'
                           /\ Actuelle \in Ouvertes \/ (FermeeA(Actuelle, Verse)
                                                        /\ pi'.etape \in Finissent)
    BY <1>1, <1>4 DEF Suivi
  <2>1. \A q : pi.etape \in EnCours /\ DuTirage(q) => DuTirage(q)'
    BY <1>1, <1>2, <1>4 DEF DuTirage
  <2>2. EnvoisDuTirage => EnvoisDuTirage'
    BY <1>1, <1>2, <2>1 DEF EnvoisDuTirage
  <2>. QED BY <1>2, <2>2 DEF FinInv, Suivi
<1>. QED BY <1>3, <1>5 DEF FinInv

\* A step of the server that creates no session: the request r becomes x, it has read the
\* session of the pour if it ends it, and closes this session at the volume of the pour.
LEMMA FinServeur ==
  ASSUME IInv, FinInv, NEW r \in Requetes, NEW x \in LesRequetes,
         requetes' = [requetes EXCEPT ![r] = x], x.etape \in {"libre", "lue"},
         DOMAIN sessions' = DOMAIN sessions,
         \A s \in DOMAIN sessions :
           /\ sessions'[s].carte = sessions[s].carte
           /\ sessions'[s].croisee = sessions[s].croisee
           /\ sessions'[s].ouverte => sessions[s].ouverte,
         \A u, w : FermeeA(u, w) => FermeeA(u, w)',
         x.etape = "lue" =>
           /\ requetes[r].etape # "libre" /\ x.genre = requetes[r].genre
           /\ x.carte = requetes[r].carte /\ x.volume = requetes[r].volume
           /\ x.genre # "authorize" =>
                /\ \A u \in DOMAIN x.lues : u \in DOMAIN sessions
                                              /\ sessions[u].carte = x.carte
                /\ pi.etape \in EnCours /\ sessions[Actuelle].croisee = FALSE
                   /\ x.carte = pi.carte /\ Actuelle \in Ouvertes' =>
                     Actuelle \in DOMAIN x.lues,
         DOMAIN tirages' = DOMAIN tirages, Len(tirages') = Len(tirages),
         \A t \in DOMAIN tirages :
           /\ tirages'[t].session = tirages[t].session
           /\ tirages'[t].verse = tirages[t].verse
           /\ \/ tirages'[t].rendu = tirages[t].rendu
              \/ ~sessions[tirages[t].session].croisee =>
                   FermeeA(tirages[t].session, tirages[t].verse)',
         pi'.etape \in EnCours =>
           /\ pi.etape \in EnCours /\ pi'.carte = pi.carte /\ tirages' = tirages
           /\ pi.etape \in Finissent => pi'.etape \in Finissent,
         pi'.appel = Aucun \/ (pi' = pi /\ (pi.appel = r => x.etape = "lue")),
         pi.etape \in EnCours /\ sessions[Actuelle].croisee = FALSE /\ Actuelle \in Ouvertes =>
           Actuelle \in Ouvertes' \/ (FermeeA(Actuelle, Verse)' /\ pi.etape \in Finissent)
  PROVE  FinInv'
<1>1. /\ requetes'[r] = x /\ \A q \in Requetes : q # r => requetes'[q] = requetes[q]
      /\ pi.appel \in Requetes \cup {Aucun}
      /\ \A q \in Requetes : DOMAIN requetes[q].lues \subseteq DOMAIN sessions
  BY DEF IInv, TypesRequetes, TypesPi, LesPi
<1>2. Ouvertes' \subseteq Ouvertes
  BY DEF Ouvertes
<1>3. AppelDuPi'
  <2>1. CASE pi'.appel = Aucun
    BY <2>1 DEF AppelDuPi
  <2>2. CASE pi' = pi /\ (pi.appel = r => x.etape = "lue")
    BY <1>1, <2>2 DEF FinInv, AppelDuPi
  <2>. QED BY <2>1, <2>2
<1>4. CarteDesLectures'
  <2> SUFFICES ASSUME NEW q \in Requetes, requetes'[q].etape = "lue",
                      requetes'[q].genre # "authorize", NEW s \in DOMAIN requetes'[q].lues
               PROVE  sessions'[s].carte = requetes'[q].carte
    BY DEF CarteDesLectures
  <2>1. CASE q = r
    <3>1. s \in DOMAIN x.lues /\ sessions[s].carte = x.carte
      BY <1>1, <2>1
    <3>2. sessions'[s].carte = sessions[s].carte
      BY <1>1, <2>1, <3>1
    <3>. QED BY <1>1, <2>1, <3>1, <3>2
  <2>2. CASE q # r
    BY <1>1, <2>2 DEF FinInv, CarteDesLectures
  <2>. QED BY <2>1, <2>2
<1>5. RendusFermes'
  <2> SUFFICES ASSUME NEW t \in DOMAIN tirages, tirages'[t].rendu,
                      ~sessions'[tirages[t].session].croisee
               PROVE  FermeeA(tirages[t].session, tirages[t].verse)'
    BY DEF RendusFermes, FermeeA
  <2>1. ~sessions[tirages[t].session].croisee
    BY DEF IInv, TypesPi
  <2>2. CASE tirages'[t].rendu = tirages[t].rendu
    BY <2>1, <2>2 DEF FinInv, RendusFermes
  <2>. QED BY <2>1, <2>2
<1>6. Suivi'
  <2> SUFFICES ASSUME pi'.etape \in EnCours PROVE Suivi'
    BY DEF Suivi
  <2>1. /\ pi.etape \in EnCours /\ pi'.carte = pi.carte /\ tirages' = tirages
        /\ pi.etape \in Finissent => pi'.etape \in Finissent
        /\ Actuelle' = Actuelle /\ Verse' = Verse
        /\ Actuelle \in DOMAIN sessions /\ sessions'[Actuelle].croisee = sessions[Actuelle].croisee
        /\ sessions'[Actuelle].carte = sessions[Actuelle].carte
    BY PourEnCours DEF Actuelle, Verse
  <2>2. tirages[Len(tirages)].rendu = FALSE
    BY <2>1 DEF FinInv, Suivi
  <2>3. ASSUME sessions[Actuelle].croisee = FALSE
        PROVE  /\ \A u \in DOMAIN sessions : u <= Actuelle
               /\ sessions[Actuelle].carte = pi.carte
               /\ EnvoisDuTirage'
               /\ Actuelle \in Ouvertes' \/ (FermeeA(Actuelle, Verse)'
                                             /\ pi'.etape \in Finissent)
    <3>1. /\ \A u \in DOMAIN sessions : u <= Actuelle
          /\ sessions[Actuelle].carte = pi.carte
          /\ EnvoisDuTirage
          /\ Actuelle \in Ouvertes \/ (FermeeA(Actuelle, Verse) /\ pi.etape \in Finissent)
      BY <2>1, <2>3 DEF FinInv, Suivi
    <3>2. ASSUME NEW q \in Requetes, requetes'[q].etape # "libre"
          PROVE  /\ requetes'[q].genre # "authorize"
                 /\ requetes'[q].carte = pi.carte => DuTirage(q)'
      <4>1. CASE q = r
        <5>1. /\ x.etape = "lue" /\ x.genre # "authorize"
              /\ x.carte = pi.carte => DuTirage(r)
          BY <1>1, <3>1, <3>2, <4>1 DEF EnvoisDuTirage
        <5>2. ASSUME x.carte = pi.carte PROVE DuTirage(r)'
          <6>1. /\ x.genre \in {"pour_update", "pour_end"}
                /\ x.genre = "pour_end" => pi.etape \in Finissent /\ x.volume = Verse
            BY <5>1, <5>2 DEF DuTirage
          <6>2. Actuelle \in Ouvertes' => Actuelle \in DOMAIN x.lues
            BY <2>1, <2>3, <5>1, <5>2
          <6>. QED BY <1>1, <2>1, <6>1, <6>2 DEF DuTirage
        <5>. QED BY <1>1, <4>1, <5>1, <5>2
      <4>2. CASE q # r
        <5>1. /\ requetes'[q] = requetes[q] /\ requetes[q].genre # "authorize"
              /\ requetes[q].carte = pi.carte => DuTirage(q)
          BY <1>1, <3>1, <3>2, <4>2 DEF EnvoisDuTirage
        <5>2. DuTirage(q) => DuTirage(q)'
          BY <1>2, <2>1, <5>1 DEF DuTirage
        <5>. QED BY <5>1, <5>2
      <4>. QED BY <4>1, <4>2
    <3>3. EnvoisDuTirage'
      BY <2>1, <3>2 DEF EnvoisDuTirage
    <3>4. Actuelle \in Ouvertes' \/ (FermeeA(Actuelle, Verse)' /\ pi'.etape \in Finissent)
      <4>1. CASE Actuelle \in Ouvertes
        BY <2>1, <2>3, <4>1
      <4>2. CASE FermeeA(Actuelle, Verse) /\ pi.etape \in Finissent
        BY <2>1, <4>2 DEF FermeeA
      <4>. QED BY <3>1, <4>1, <4>2
    <3>. QED BY <3>1, <3>3, <3>4
  <2>. QED BY <2>1, <2>2, <2>3 DEF Suivi
<1>. QED BY <1>3, <1>4, <1>5, <1>6 DEF FinInv

\* An answer: the end of the pour is answered once its session is closed at its volume.
LEMMA FinReponse ==
  ASSUME IInv, FinInv, NEW r \in Requetes, NEW fait \in BOOLEAN, Repondre(r, fait),
         DOMAIN sessions' = DOMAIN sessions,
         \A s \in DOMAIN sessions :
           /\ sessions'[s].carte = sessions[s].carte
           /\ sessions'[s].croisee = sessions[s].croisee
           /\ sessions'[s].ouverte => sessions[s].ouverte,
         \A u, w : FermeeA(u, w) => FermeeA(u, w)',
         pi.etape \in EnCours /\ sessions[Actuelle].croisee = FALSE /\ Actuelle \in Ouvertes =>
           Actuelle \in Ouvertes' \/ (FermeeA(Actuelle, Verse)' /\ pi.etape \in Finissent),
         fait /\ pi.appel = r /\ requetes[r].genre = "pour_end"
           /\ sessions[Actuelle].croisee = FALSE => FermeeA(Actuelle, Verse)'
  PROVE  FinInv'
<1>1. /\ requetes' = [requetes EXCEPT ![r] = Libre]
      /\ DOMAIN tirages' = DOMAIN tirages /\ Len(tirages') = Len(tirages)
      /\ \A t \in DOMAIN tirages : tirages'[t].session = tirages[t].session
                                   /\ tirages'[t].verse = tirages[t].verse
      /\ pi'.appel = Aucun \/ (pi' = pi /\ pi.appel # r)
  BY Reponse
<1>2. Libre \in LesRequetes /\ Libre.etape = "libre"
  BY RienLu, VolumesHypothese DEF Libre, LesRequetes, Genres, Volumes
<1>3. pi \in LesPi
  BY DEF IInv, TypesPi
<1>4. CASE pi.appel # r
  <2>1. pi' = pi /\ tirages' = tirages
    BY <1>4 DEF Repondre
  <2>. QED BY <1>1, <1>2, <1>4, <2>1, FinServeur
<1>5. CASE pi.appel = r
  <2>1. Reprendre(Apres(TRUE))
    BY <1>5 DEF Repondre
  <2>2. pi'.etape \in EnCours => /\ pi.etape = "maj" /\ pi'.carte = pi.carte
                                 /\ pi.etape \in EnCours /\ pi.etape \notin Finissent
    BY <1>3, <2>1 DEF Apres, Reprendre, AuRepos, LesPi, EnCours, Finissent
  <2>3. CASE fait /\ requetes[r].genre = "pour_end"
    <3>1. pi.etape \in EnCours /\ pi.etape # "maj"
      BY <1>5, <2>3, AucunHypothese DEF IInv, Appel, FinInv, AppelDuPi
    <3>2. \A t \in DOMAIN tirages : t = Len(tirages) \/ tirages'[t].rendu = tirages[t].rendu
      <4>1. tirages' = [tirages EXCEPT ![Len(tirages)].rendu = TRUE]
        BY <1>5, <2>3 DEF Repondre
      <4>. QED BY <4>1
    <3>3. /\ tirages[Len(tirages)].session = Actuelle /\ tirages[Len(tirages)].verse = Verse
          /\ sessions[Actuelle].croisee \in BOOLEAN
      BY <3>1, PourEnCours DEF Actuelle, Verse
    <3>4. \A t \in DOMAIN tirages :
            \/ tirages'[t].rendu = tirages[t].rendu
            \/ ~sessions[tirages[t].session].croisee =>
                 FermeeA(tirages[t].session, tirages[t].verse)'
      <4> SUFFICES ASSUME NEW t \in DOMAIN tirages, t = Len(tirages),
                          ~sessions[tirages[t].session].croisee
                   PROVE  FermeeA(tirages[t].session, tirages[t].verse)'
        BY <3>2
      <4>1. FermeeA(Actuelle, Verse)'
        BY <1>5, <2>3, <3>3
      <4>2. /\ Actuelle' = tirages'[t].session /\ Verse' = tirages'[t].verse
        BY <1>1 DEF Actuelle, Verse
      <4>. QED BY <4>1, <4>2 DEF FermeeA
    <3>. QED BY <1>1, <1>2, <1>5, <2>2, <3>1, <3>4, FinServeur
  <2>4. CASE ~(fait /\ requetes[r].genre = "pour_end")
    <3>1. tirages' = tirages
      BY <1>5, <2>4 DEF Repondre
    <3>. QED BY <1>1, <1>2, <1>5, <2>2, <3>1, FinServeur
  <2>. QED BY <2>3, <2>4
<1>. QED BY <1>4, <1>5

\* What a request reads is of its card; the end of the pour reads the session of the pour,
\* if it is open, and is answered at once only if it is closed.
LEMMA FinLit == ASSUME IInv, FinInv, NEW r \in Requetes, Lire(r) PROVE FinInv'
<1>1. /\ sessions' = sessions /\ clotures' = clotures /\ requetes[r].etape = "envoyee"
      /\ Ouvertes' = Ouvertes
  BY DEF Lire, serveur, Ouvertes
<1>2. \A u, w : FermeeA(u, w)' <=> FermeeA(u, w)
  BY <1>1 DEF FermeeA
<1>3. /\ Ouvertes \subseteq DOMAIN sessions /\ DOMAIN sessions \subseteq Nat
  BY Acquis, Positions DEF Ouvertes
<1> DEFINE l == Lues(requetes[r])
           D == {s \in DeLaCarte(requetes[r].carte) :
                   \A u \in DeLaCarte(requetes[r].carte) : u <= s}
<1>4. requetes[r].genre # "authorize" => l = [s \in D |-> requetes[r].volume]
  BY DEF Lues, SessionDe
<1>5. ASSUME pi.etape \in EnCours, sessions[Actuelle].croisee = FALSE,
             requetes[r].carte = pi.carte, Actuelle \in Ouvertes,
             requetes[r].genre # "authorize"
      PROVE  Actuelle \in DOMAIN l
  <2>1. sessions[Actuelle].carte = pi.carte /\ \A u \in DOMAIN sessions : u <= Actuelle
    BY <1>5 DEF FinInv, Suivi
  <2>2. Actuelle \in D
    BY <1>3, <1>5, <2>1 DEF DeLaCarte
  <2>. QED BY <1>4, <1>5, <2>2
<1>6. CASE requetes[r].genre # "authorize" /\ DOMAIN Lues(requetes[r]) = {}
  <2>1. Repondre(r, TRUE)
    BY <1>6 DEF Lire
  <2>2. ASSUME pi.appel = r, requetes[r].genre = "pour_end", sessions[Actuelle].croisee = FALSE
        PROVE  FermeeA(Actuelle, Verse)'
    <3>1. pi.etape \in EnCours /\ requetes[r].carte = pi.carte
      BY <2>2, AucunHypothese DEF IInv, Appel, FinInv, AppelDuPi
    <3>2. Actuelle \notin Ouvertes
      BY <1>5, <1>6, <2>2, <3>1
    <3>3. FermeeA(Actuelle, Verse)
      BY <2>2, <3>1, <3>2 DEF FinInv, Suivi
    <3>4. Actuelle' = Actuelle /\ Verse' = Verse
      <4>1. /\ DOMAIN tirages' = DOMAIN tirages /\ Len(tirages') = Len(tirages)
            /\ \A t \in DOMAIN tirages : tirages'[t].session = tirages[t].session
                                         /\ tirages'[t].verse = tirages[t].verse
        BY <2>1, Reponse
      <4>. QED BY <3>1, <4>1, PourEnCours DEF Actuelle, Verse
    <3>. QED BY <1>1, <3>3, <3>4 DEF FermeeA
  <2>. QED BY <1>1, <1>2, <2>1, <2>2, FinReponse
<1>7. CASE ~(requetes[r].genre # "authorize" /\ DOMAIN Lues(requetes[r]) = {})
  <2> DEFINE x == [requetes[r] EXCEPT !.etape = "lue", !.lues = l]
  <2>1. requetes[r] \in LesRequetes
    BY DEF IInv, TypesRequetes
  <2>2. requetes' = [requetes EXCEPT ![r] = x] /\ pi' = pi /\ tirages' = tirages
    BY <1>7 DEF Lire
  <2>3. /\ x.etape = "lue" /\ x.lues = l /\ x.genre = requetes[r].genre
        /\ x.volume = requetes[r].volume /\ x.carte = requetes[r].carte
    BY <2>1 DEF LesRequetes
  <2>4. x \in LesRequetes
    <3>1. requetes' \in [Requetes -> LesRequetes]
      BY Lit DEF IInv, TypesRequetes
    <3>2. requetes'[r] = x
      BY <2>2 DEF IInv, TypesRequetes
    <3>. QED BY <3>1, <3>2
  <2>5. requetes[r].genre # "authorize" =>
          \A u \in DOMAIN l : u \in DOMAIN sessions /\ sessions[u].carte = requetes[r].carte
    BY <1>3, <1>4 DEF DeLaCarte
  <2> HIDE DEF l, x
  <2>6. pi'.appel = Aucun \/ (pi' = pi /\ (pi.appel = r => x.etape = "lue"))
    BY <2>2, <2>3
  <2>. QED BY <1>1, <1>2, <1>5, <2>2, <2>3, <2>4, <2>5, <2>6, FinServeur
<1>. QED BY <1>6, <1>7

\* An update ends no pour and closes no session.
LEMMA FinActualise ==
  ASSUME IInv, FinInv, NEW r \in Requetes, Actualiser(r) PROVE FinInv'
<1>1. /\ clotures' = clotures /\ requetes[r].genre = "pour_update" /\ Repondre(r, TRUE)
  BY DEF Actualiser, Traite
<1>2. PICK s \in DOMAIN requetes[r].lues :
        sessions' = [sessions EXCEPT ![s].dernier = requetes[r].volume]
  BY DEF Actualiser
<1>3. s \in DOMAIN sessions /\ requetes[r].volume \in Volumes
  BY DEF IInv, TypesRequetes, LesRequetes
<1>4. sessions[s] \in LesSessions
  BY <1>3, Acquis, Positions
<1>5. /\ DOMAIN sessions' = DOMAIN sessions
      /\ \A u \in DOMAIN sessions : /\ sessions'[u].carte = sessions[u].carte
                                    /\ sessions'[u].croisee = sessions[u].croisee
                                    /\ sessions'[u].ouverte = sessions[u].ouverte
  BY <1>2, <1>4 DEF LesSessions
<1>6. Ouvertes' = Ouvertes
  BY <1>5 DEF Ouvertes
<1>7. \A u, w : FermeeA(u, w)' <=> FermeeA(u, w)
  BY <1>1 DEF FermeeA
<1>. QED BY <1>1, <1>5, <1>6, <1>7, FinReponse

\* The session of the pour is closed by its end only, at its volume, before the end is
\* answered.
LEMMA FinFerme ==
  ASSUME IInv, FinInv, FacturesExactes, Jauge, NEW r \in Requetes, Fermer(r)
  PROVE  FinInv' /\ FacturesExactes' /\ Jauge'
<1> DEFINE lues == requetes[r].lues
<1>1. PICK s \in DOMAIN lues :
        /\ \A u \in DOMAIN lues : u <= s
        /\ Cloturer(s, lues[s])
        /\ IF requetes[r].genre = "authorize"
           THEN /\ requetes' = [requetes EXCEPT ![r].lues =
                                  [u \in DOMAIN lues \ {s} |-> lues[u]]]
                /\ pi' = pi /\ tirages' = tirages
           ELSE Repondre(r, TRUE)
  BY DEF Fermer
<1>2. /\ requetes[r].etape = "lue" /\ requetes[r].genre \in Genres \ {"pour_update"}
  BY DEF Fermer, Traite
<1>3. PICK v : v = lues[s]
  OBVIOUS
<1>4. /\ s \in DOMAIN sessions /\ <<s, v>> \in Justes /\ Cloturer(s, v)
      /\ requetes[r].genre # "authorize" => v = requetes[r].volume
  BY <1>1, <1>3 DEF IInv, TypesRequetes, LecturesJustes
<1>5. /\ FacturesExactes' /\ Jauge'
      /\ \A u, w : FermeeA(u, w) => FermeeA(u, w)'
      /\ s \in Ouvertes => FermeeA(s, v)'
      /\ \A u \in Ouvertes : u = s \/ u \in Ouvertes'
  BY <1>4, ComptesCloture
<1>6. /\ DOMAIN sessions' = DOMAIN sessions
      /\ \A u \in DOMAIN sessions : /\ sessions'[u].carte = sessions[u].carte
                                    /\ sessions'[u].croisee = sessions[u].croisee
                                    /\ sessions'[u].ouverte => sessions[u].ouverte
  BY <1>4, Cloture
<1>7. /\ requetes[r] \in LesRequetes /\ DOMAIN lues \subseteq DOMAIN sessions
      /\ DOMAIN sessions \subseteq Nat
  BY Acquis, Positions DEF IInv, TypesRequetes
<1>8. /\ DOMAIN tirages' = DOMAIN tirages /\ Len(tirages') = Len(tirages)
      /\ \A t \in DOMAIN tirages : tirages'[t].session = tirages[t].session
                                   /\ tirages'[t].verse = tirages[t].verse
  BY <1>1, Reponse
<1>9. ASSUME pi.etape \in EnCours
      PROVE  Actuelle' = Actuelle /\ Verse' = Verse
  BY <1>8, <1>9, PourEnCours DEF Actuelle, Verse
\* The session of the pour is closed: by the end of this pour.
<1>10. ASSUME pi.etape \in EnCours, sessions[Actuelle].croisee = FALSE, Actuelle \in Ouvertes,
              Actuelle \notin Ouvertes'
       PROVE  FermeeA(Actuelle, Verse)' /\ pi.etape \in Finissent
  <2>1. s = Actuelle
    BY <1>5, <1>10
  <2>2. /\ EnvoisDuTirage /\ sessions[Actuelle].carte = pi.carte
    BY <1>10 DEF FinInv, Suivi
  <2>3. requetes[r].genre # "authorize" /\ requetes[r].carte = pi.carte
    BY <1>1, <1>2, <2>1, <2>2 DEF FinInv, CarteDesLectures, EnvoisDuTirage
  <2>4. DuTirage(r) /\ requetes[r].genre = "pour_end"
    BY <1>2, <2>2, <2>3 DEF EnvoisDuTirage, DuTirage
  <2>5. v = Verse /\ pi.etape \in Finissent
    BY <1>4, <2>4 DEF DuTirage
  <2>6. FermeeA(s, v)'
    BY <1>5, <1>10, <2>1
  <2>. QED BY <1>9, <1>10, <2>1, <2>5, <2>6 DEF FermeeA
<1>11. CASE requetes[r].genre # "authorize"
  <2>1. Repondre(r, TRUE)
    BY <1>1, <1>11
  <2>2. ASSUME pi.appel = r, requetes[r].genre = "pour_end", sessions[Actuelle].croisee = FALSE
        PROVE  FermeeA(Actuelle, Verse)'
    <3>1. pi.etape \in EnCours /\ requetes[r].carte = pi.carte
      BY <2>2, AucunHypothese DEF IInv, Appel, FinInv, AppelDuPi
    <3>2. /\ EnvoisDuTirage /\ \A u \in DOMAIN sessions : u <= Actuelle
          /\ Actuelle \in Ouvertes \/ FermeeA(Actuelle, Verse)
      BY <2>2, <3>1 DEF FinInv, Suivi
    <3>3. CASE FermeeA(Actuelle, Verse)
      <4>1. PICK a, b : a = Actuelle /\ b = Verse
        OBVIOUS
      <4>2. FermeeA(a, b)'
        BY <1>5, <3>3, <4>1
      <4>. QED BY <1>9, <3>1, <4>1, <4>2 DEF FermeeA
    <3>4. CASE Actuelle \in Ouvertes
      <4>1. DuTirage(r)
        BY <1>2, <3>1, <3>2 DEF EnvoisDuTirage
      <4>2. Actuelle \in DOMAIN lues /\ v = Verse
        BY <1>2, <1>4, <2>2, <3>4, <4>1 DEF DuTirage
      <4>3. s <= Actuelle /\ Actuelle <= s /\ Actuelle \in Nat /\ s \in Nat
        BY <1>1, <1>4, <1>7, <3>1, <3>2, <4>2, PourEnCours
      <4>4. s = Actuelle
        BY <4>3
      <4>5. FermeeA(s, v)'
        BY <1>5, <3>4, <4>4
      <4>. QED BY <1>9, <3>1, <4>2, <4>4, <4>5 DEF FermeeA
    <3>. QED BY <3>2, <3>3, <3>4
  <2>3. FinInv'
    BY <1>5, <1>6, <1>10, <2>1, <2>2, FinReponse
  <2>. QED BY <1>5, <2>3
<1>12. CASE requetes[r].genre = "authorize"
  <2> DEFINE l == [u \in DOMAIN lues \ {s} |-> lues[u]]
             x == [requetes[r] EXCEPT !.lues = l]
  <2>1. requetes' = [requetes EXCEPT ![r] = x] /\ pi' = pi /\ tirages' = tirages
    BY <1>1, <1>12
  <2>2. /\ x.etape = "lue" /\ x.genre = "authorize" /\ x.carte = requetes[r].carte
        /\ x.volume = requetes[r].volume
    BY <1>2, <1>7, <1>12 DEF LesRequetes
  <2>3. x \in LesRequetes
    <3>1. requetes' \in [Requetes -> LesRequetes]
      BY Ferme DEF IInv, TypesRequetes
    <3>2. requetes'[r] = x
      BY <2>1 DEF IInv, TypesRequetes
    <3>. QED BY <3>1, <3>2
  <2> HIDE DEF l, x
  <2>4. pi'.appel = Aucun \/ (pi' = pi /\ (pi.appel = r => x.etape = "lue"))
    BY <2>1, <2>2
  <2>5. FinInv'
    BY <1>2, <1>5, <1>6, <1>10, <1>12, <2>1, <2>2, <2>3, <2>4, FinServeur
  <2>. QED BY <1>5, <2>5
<1>. QED BY <1>11, <1>12

\* A session is created: for the Pi, it is the last one, and no request that may touch it
\* is on its way unless it is crossed; for nobody, the pour in progress is crossed.
LEMMA FinAutorise ==
  ASSUME IInv, FinInv, FacturesExactes, Jauge, NEW r \in Requetes, NEW a \in Autorises,
         Autoriser(r, a)
  PROVE  FinInv' /\ FacturesExactes' /\ Jauge'
<1> DEFINE n == Len(sessions) + 1
           e == [carte |-> requetes[r].carte, ouverte |-> TRUE, autorise |-> a,
                 dernier |-> 0, croisee |-> Croisee(r)]
           d == [session |-> n, verse |-> 0, rendu |-> FALSE]
<1>1. /\ requetes[r].etape = "lue" /\ requetes[r].genre = "authorize"
      /\ sessions' = Append(sessions, e) /\ requetes' = [requetes EXCEPT ![r] = Libre]
      /\ reservoir' = reservoir /\ clotures' = clotures
      /\ IF pi.appel = r THEN Reprendre("sert") /\ tirages' = Append(tirages, d)
         ELSE pi' = pi /\ tirages' = tirages
  BY DEF Autoriser, Decision, Traite
<1>2. requetes[r].carte \in Cartes /\ 0 \in Volumes
  BY <1>1, VolumesHypothese DEF IInv, TypesRequetes, LesRequetes, Volumes
<1>3. /\ e \in LesSessions /\ e.ouverte = TRUE /\ e.croisee = Croisee(r)
      /\ e.carte = requetes[r].carte
  BY <1>2 DEF LesSessions, Croisee
<1> HIDE DEF e
<1>4. /\ n \in Nat /\ DOMAIN sessions' = DOMAIN sessions \cup {n} /\ n \notin DOMAIN sessions
      /\ \A s \in DOMAIN sessions : sessions'[s] = sessions[s] /\ s \in Nat /\ s <= n
      /\ sessions'[n] = e
  <2>1. /\ Len(sessions) \in Nat /\ DOMAIN sessions = 1..Len(sessions)
    BY Acquis, Positions
  <2>. QED BY <1>1, <1>3, <2>1, Acquis, Ajout
<1>5. d \in LesTirages /\ d.session = n /\ d.rendu = FALSE /\ d.verse = 0
  BY <1>2, <1>4 DEF LesTirages
<1> HIDE DEF n, d
<1>6. FacturesExactes' /\ Jauge'
  BY <1>1, <1>4, ComptesImmobiles
<1>7. /\ requetes'[r] = Libre /\ Libre.etape = "libre"
      /\ \A q \in Requetes : q # r => requetes'[q] = requetes[q]
  BY <1>1 DEF IInv, TypesRequetes, Libre
<1>8. /\ pi \in LesPi /\ tirages \in Seq(LesTirages)
      /\ \A t \in DOMAIN tirages : tirages[t].session \in DOMAIN sessions
      /\ pi.appel \in Requetes \cup {Aucun}
      /\ \A q \in Requetes : DOMAIN requetes[q].lues \subseteq DOMAIN sessions
  BY DEF IInv, TypesPi, TypesRequetes, LesPi
<1>9. CarteDesLectures'
  BY <1>4, <1>7, <1>8 DEF FinInv, CarteDesLectures
<1>10. CASE pi.appel = r
  <2>1. pi.etape = "badge" /\ requetes[r].carte = pi.carte
    BY <1>1, <1>10, AucunHypothese DEF IInv, Appel, FinInv, AppelDuPi
  <2>2. /\ pi'.etape = "sert" /\ pi'.appel = Aucun /\ pi'.carte = pi.carte
    BY <1>1, <1>8, <1>10 DEF Reprendre, LesPi
  <2>3. /\ DOMAIN tirages' = DOMAIN tirages \cup {Len(tirages) + 1}
        /\ \A t \in DOMAIN tirages : tirages'[t] = tirages[t]
        /\ tirages'[Len(tirages) + 1] = d /\ Len(tirages') = Len(tirages) + 1
    <3>1. tirages' = Append(tirages, d)
      BY <1>1, <1>10
    <3>. QED BY <1>5, <1>8, <3>1, Ajout
  <2>4. AppelDuPi'
    BY <2>2 DEF AppelDuPi
  <2>5. RendusFermes'
    BY <1>1, <1>4, <1>5, <1>8, <2>3 DEF FinInv, RendusFermes, FermeeA
  <2>6. Actuelle' = n
    BY <1>5, <2>3 DEF Actuelle
  <2>7. ASSUME sessions'[n].croisee = FALSE
        PROVE  EnvoisDuTirage'
    <3>1. ~Croisee(r)
      BY <1>3, <1>4, <2>7
    <3>2. \A q \in Requetes : q # r /\ requetes[q].etape # "libre" =>
            requetes[q].genre # "authorize" /\ requetes[q].carte # requetes[r].carte
      BY <3>1 DEF Croisee
    <3>. QED BY <1>7, <2>1, <2>2, <3>2 DEF EnvoisDuTirage
  <2>8. n \in Ouvertes' /\ sessions'[n].carte = pi.carte
    BY <1>3, <1>4, <2>1 DEF Ouvertes
  <2>9. \A u \in DOMAIN sessions' : u <= n
    BY <1>4
  <2>10. Suivi'
    BY <1>5, <2>2, <2>3, <2>6, <2>7, <2>8, <2>9 DEF Suivi
  <2>. QED BY <1>6, <1>9, <2>4, <2>5, <2>10 DEF FinInv
<1>11. CASE pi.appel # r
  <2>1. pi' = pi /\ tirages' = tirages
    BY <1>1, <1>11
  <2>2. AppelDuPi'
    BY <1>7, <1>8, <1>11, <2>1 DEF FinInv, AppelDuPi
  <2>3. RendusFermes'
    BY <1>1, <1>4, <1>8, <2>1 DEF FinInv, RendusFermes, FermeeA
  <2>4. ASSUME pi.etape \in EnCours
        PROVE  /\ tirages[Len(tirages)].rendu = FALSE
               /\ sessions'[Actuelle].croisee # FALSE
    <3>1. tirages[Len(tirages)].rendu = FALSE
      BY <2>4 DEF FinInv, Suivi
    <3>2. Actuelle \in DOMAIN sessions /\ sessions'[Actuelle] = sessions[Actuelle]
      BY <1>4, <2>4, PourEnCours
    <3>3. sessions[Actuelle].croisee # FALSE
      BY <1>1, <2>4 DEF FinInv, Suivi, EnvoisDuTirage
    <3>. QED BY <3>1, <3>2, <3>3
  <2>5. Suivi'
    BY <2>1, <2>4 DEF Suivi, Actuelle
  <2>. QED BY <1>6, <1>9, <2>2, <2>3, <2>5 DEF FinInv
<1>. QED BY <1>10, <1>11

\* The greatest of an integer and 0, the least of two integers.
LEMMA Bornes ==
  ASSUME NEW a \in Int, NEW b \in Int
  PROVE  /\ Max({a, 0}) = IF a >= 0 THEN a ELSE 0
         /\ Min({a, b}) = IF a <= b THEN a ELSE b
<1>1. Max({a, 0}) = IF a >= 0 THEN a ELSE 0
  <2>1. \E x \in {a, 0} : \A y \in {a, 0} : x >= y
    OBVIOUS
  <2>2. Max({a, 0}) \in {a, 0} /\ \A y \in {a, 0} : Max({a, 0}) >= y
    BY <2>1 DEF Max
  <2>. QED BY <2>2
<1>2. Min({a, b}) = IF a <= b THEN a ELSE b
  <2>1. \E x \in {a, b} : \A y \in {a, b} : x =< y
    OBVIOUS
  <2>2. Min({a, b}) \in {a, b} /\ \A y \in {a, b} : Min({a, b}) =< y
    BY <2>1 DEF Min
  <2>. QED BY <2>2
<1>. QED BY <1>1, <1>2

-----------------------------------------------------------------------------
(* The theorems *)

\* A sequence whose elements are all in a set is a sequence of this set.
LEMMA Restreinte ==
  ASSUME NEW S, NEW T, NEW q \in Seq(S), \A i \in DOMAIN q : q[i] \in T
  PROVE  q \in Seq(T)
<1>1. Len(q) \in Nat /\ DOMAIN q = 1..Len(q) /\ q \in [1..Len(q) -> S]
  BY LenProperties
<1>2. q \in [1..Len(q) -> T]
  BY <1>1
<1>. QED BY <1>1, <1>2

\* Each step keeps the invariant.
LEMMA NextInv == IInv /\ [Next]_vars => IInv'
<1> SUFFICES ASSUME IInv, [Next]_vars PROVE IInv'
  OBVIOUS
<1>1. CASE \/ \E c \in Cartes : Badger(c) \/ ChangerDeCarte(c)
           \/ Suivre \/ RetirerCarte \/ BadgerLaSuivante
  BY <1>1, DuPi
<1>2. CASE Verser
  BY <1>2, Coule
<1>3. CASE Expirer \/ Coupure
  BY <1>3, Attend
<1>4. ASSUME NEW r \in Requetes, Serveur(r) PROVE IInv'
  <2>1. CASE Lire(r)
    BY <2>1, Lit
  <2>2. CASE Actualiser(r)
    BY <2>2, Actualise
  <2>3. CASE Fermer(r)
    BY <2>3, Ferme
  <2>4. CASE Refuser(r) \/ Echouer(r)
    BY <2>4, Renvoie DEF Refuser, Echouer, serveur
  <2>5. CASE \E a \in Autorises : Autoriser(r, a)
    BY <2>5, Autorise
  <2>. QED BY <1>4, <2>1, <2>2, <2>3, <2>4, <2>5 DEF Serveur
<1>5. CASE UNCHANGED vars
  <2>1. /\ sessions' = sessions /\ reservoir' = reservoir /\ clotures' = clotures
        /\ tirages' = tirages /\ requetes' = requetes /\ badges' = badges /\ pi' = pi
    BY <1>5 DEF vars, serveur
  <2>2. Grandit
    BY <2>1, Immobile DEF IInv
  <2>3. TypesPi' /\ Courant' /\ Appel'
    BY <2>1 DEF IInv, TypesPi, Courant, Appel, Ouvertes
  <2>. QED BY <2>1, <2>2, <2>3, RequetesImmobiles, SansServeur
<1>. QED BY <1>1, <1>2, <1>3, <1>4, <1>5 DEF Next

\* The invariant of every reachable state.
LEMMA Invariante == Spec => []IInv
  BY InitInv, NextInv, PTL DEF Spec

\* The accounts and the end of the pours, at the start and at each step.
LEMMA InitComptes == Init => FinInv /\ FacturesExactes /\ Jauge
<1> SUFFICES ASSUME Init PROVE FinInv /\ FacturesExactes /\ Jauge
  OBVIOUS
<1>1. /\ DOMAIN tirages = {} /\ DOMAIN clotures = {} /\ reservoir = Fut
      /\ pi.appel = Aucun /\ pi.etape = "repos"
  BY DEF Init, AuRepos
<1>2. \A r \in Requetes : requetes[r].etape = "libre"
  BY DEF Init, Libre
<1>3. FinInv
  BY <1>1, <1>2 DEF FinInv, AppelDuPi, CarteDesLectures, RendusFermes, Suivi, EnCours
<1>4. FacturesExactes
  BY <1>1 DEF FacturesExactes
<1>5. SumFunction(Sorties) = 0
  <2>1. DOMAIN Sorties = {}
    BY <1>1 DEF Sorties
  <2>. QED BY <2>1, SommeVide DEF SumFunction
<1>6. Jauge
  BY <1>1, <1>5, VolumesHypothese DEF Jauge
<1>. QED BY <1>3, <1>4, <1>6

LEMMA NextComptes ==
  IInv /\ FinInv /\ FacturesExactes /\ Jauge /\ [Next]_vars
    => FinInv' /\ FacturesExactes' /\ Jauge'
<1> SUFFICES ASSUME IInv, FinInv, FacturesExactes, Jauge, [Next]_vars
             PROVE  FinInv' /\ FacturesExactes' /\ Jauge'
  OBVIOUS
<1>1. clotures' = clotures /\ reservoir' = reservoir /\ sessions' = sessions =>
        FacturesExactes' /\ Jauge'
  BY ComptesImmobiles
<1>2. CASE \/ \E c \in Cartes : Badger(c) \/ ChangerDeCarte(c)
           \/ Suivre \/ RetirerCarte \/ BadgerLaSuivante
  <2>1. FinInv'
    BY <1>2, FinDuPi
  <2>2. clotures' = clotures /\ reservoir' = reservoir /\ sessions' = sessions
    BY <1>2 DEF Badger, ChangerDeCarte, Suivre, RetirerCarte, BadgerLaSuivante, serveur
  <2>. QED BY <1>1, <2>1, <2>2
<1>3. CASE Verser
  BY <1>1, <1>3, FinCoule DEF Verser, serveur
<1>4. CASE Expirer \/ Coupure
  BY <1>1, <1>4, FinAttend DEF Expirer, Coupure, serveur
<1>5. ASSUME NEW r \in Requetes, Serveur(r) PROVE FinInv' /\ FacturesExactes' /\ Jauge'
  <2>1. CASE Lire(r)
    BY <1>1, <2>1, FinLit DEF Lire, serveur
  <2>2. CASE Actualiser(r)
    <3>1. FinInv'
      BY <2>2, FinActualise
    <3>2. clotures' = clotures /\ reservoir' = reservoir
      BY <2>2 DEF Actualiser
    <3>3. PICK s \in DOMAIN requetes[r].lues :
            sessions' = [sessions EXCEPT ![s].dernier = requetes[r].volume]
      BY <2>2 DEF Actualiser
    <3>4. s \in DOMAIN sessions
      BY DEF IInv, TypesRequetes
    <3>5. \A u \in DOMAIN sessions : sessions[u] \in LesSessions
      BY Acquis, Positions
    <3>6. \A u \in DOMAIN sessions : /\ sessions'[u].carte = sessions[u].carte
                                     /\ sessions'[u].autorise = sessions[u].autorise
      BY <3>3, <3>4, <3>5 DEF LesSessions
    <3>. QED BY <3>1, <3>2, <3>6, ComptesImmobiles
  <2>3. CASE Fermer(r)
    BY <2>3, FinFerme
  <2>4. CASE Refuser(r)
    <3>1. /\ Repondre(r, TRUE) /\ requetes[r].genre = "authorize"
          /\ clotures' = clotures /\ reservoir' = reservoir /\ sessions' = sessions
      BY <2>4 DEF Refuser, Decision, Traite, serveur
    <3>2. \A u, w : FermeeA(u, w) => FermeeA(u, w)'
      BY <3>1 DEF FermeeA
    <3>3. FinInv'
      BY <3>1, <3>2, FinReponse DEF Ouvertes
    <3>. QED BY <1>1, <3>1, <3>3
  <2>5. CASE Echouer(r)
    <3>1. /\ Repondre(r, FALSE)
          /\ clotures' = clotures /\ reservoir' = reservoir /\ sessions' = sessions
      BY <2>5 DEF Echouer, serveur
    <3>2. \A u, w : FermeeA(u, w) => FermeeA(u, w)'
      BY <3>1 DEF FermeeA
    <3>3. FinInv'
      BY <3>1, <3>2, FinReponse DEF Ouvertes
    <3>. QED BY <1>1, <3>1, <3>3
  <2>6. CASE \E a \in Autorises : Autoriser(r, a)
    BY <2>6, FinAutorise
  <2>. QED BY <1>5, <2>1, <2>2, <2>3, <2>4, <2>5, <2>6 DEF Serveur
<1>6. CASE UNCHANGED vars
  <2>1. /\ sessions' = sessions /\ reservoir' = reservoir /\ clotures' = clotures
        /\ tirages' = tirages /\ requetes' = requetes /\ pi' = pi
    BY <1>6 DEF vars, serveur
  <2>2. AppelDuPi' /\ CarteDesLectures' /\ RendusFermes'
    BY <2>1 DEF FinInv, AppelDuPi, CarteDesLectures, RendusFermes, FermeeA
  <2>3. Suivi'
    BY <2>1 DEF FinInv, Suivi, EnvoisDuTirage, DuTirage, Actuelle, Verse, Ouvertes, FermeeA
  <2>. QED BY <1>1, <2>1, <2>2, <2>3 DEF FinInv
<1>. QED BY <1>2, <1>3, <1>4, <1>5, <1>6 DEF Next

\* Whatever is lost or late, a session is closed and billed once
\* (_cloturer_session_et_facturer).
THEOREM ClotureUnique == Spec => []FermeeUneFois
<1>1. IInv => FermeeUneFois
  BY DEF IInv, CloturesJustes
<1>. QED BY <1>1, Invariante, PTL

\* A card never pays more than was poured for it, when no other request was on its way at
\* the creation of its session.
THEOREM FactureJuste == Spec => []FactureFidele
<1>1. IInv => FactureFidele
  <2> SUFFICES ASSUME IInv, NEW i \in DOMAIN clotures, clotures[i].facture > 0,
                      ~sessions[clotures[i].session].croisee
               PROVE  \E t \in DOMAIN tirages :
                        /\ tirages[t].session = clotures[i].session
                        /\ clotures[i].facture <= tirages[t].verse
    BY DEF FactureFidele
  <2>1. <<clotures[i].session, clotures[i].facture>> \in Justes
    BY DEF IInv, CloturesJustes
  <2>2. clotures[i].facture # 0
    BY <2>1, VolumesHypothese DEF Justes, Volumes
  <2>. QED BY <2>1, <2>2 DEF Justes
<1>. QED BY <1>1, Invariante, PTL

\* Under the same condition, a pour whose end was answered is closed at its volume and billed
\* up to the volume allowed, and the keg has lost each closing once, never below 0.
THEOREM CompteJuste == Spec => []ToutEstCompte
<1>1. IInv /\ FinInv /\ FacturesExactes /\ Jauge => ToutEstCompte
  <2> SUFFICES ASSUME IInv, FinInv, FacturesExactes, Jauge PROVE ToutEstCompte
    OBVIOUS
  <2>1. ASSUME NEW t \in DOMAIN tirages, tirages[t].rendu,
               ~sessions[tirages[t].session].croisee
        PROVE  \E i \in DOMAIN clotures :
                 /\ clotures[i].session = tirages[t].session
                 /\ clotures[i].volume = tirages[t].verse
                 /\ clotures[i].soldee /\ ~Rincage(tirages[t].session) =>
                      clotures[i].facture =
                        Min({tirages[t].verse, sessions[tirages[t].session].autorise})
    <3>1. PICK i \in DOMAIN clotures : /\ clotures[i].session = tirages[t].session
                                       /\ clotures[i].volume = tirages[t].verse
      BY <2>1 DEF FinInv, RendusFermes, FermeeA
    <3>2. tirages[t].verse \in Int
      BY Pours DEF IInv
    <3>3. sessions[tirages[t].session].autorise \in Int
      <4>1. tirages[t].session \in DOMAIN sessions
        BY DEF IInv, TypesPi
      <4>2. sessions[tirages[t].session] \in LesSessions
        BY <4>1, Acquis, Positions
      <4>3. \A e \in LesSessions : e.autorise \in Nat
        BY VolumesHypothese DEF LesSessions
      <4>. QED BY <4>2, <4>3
    <3>4. Min({tirages[t].verse, sessions[tirages[t].session].autorise})
            = Plafonne(tirages[t].verse, tirages[t].session)
      BY <3>2, <3>3, Bornes, Zenon DEF Plafonne
    <3>5. clotures[i].soldee /\ ~Rincage(tirages[t].session) =>
            clotures[i].facture = Plafonne(tirages[t].verse, tirages[t].session)
      BY <3>1 DEF FacturesExactes
    <3>. QED BY <3>1, <3>4, <3>5
  <2>2. reservoir = Max({Fut - SumFunction(Sorties), 0})
    <3> DEFINE S == SumFunction(Sorties)
    <3>1. S \in Nat /\ Fut \in Nat /\ reservoir = IF S <= Fut THEN Fut - S ELSE 0
      BY SortiesNaturelles, VolumesHypothese DEF Jauge
    <3> HIDE DEF S
    <3>2. Fut - S \in Int /\ 0 \in Int
      BY <3>1
    <3>3. Max({Fut - S, 0}) = IF Fut - S >= 0 THEN Fut - S ELSE 0
      BY <3>2, Bornes, Zenon
    <3>4. reservoir = Max({Fut - S, 0})
      BY <3>1, <3>3
    <3>. QED BY <3>4 DEF S
  <2>. QED BY <2>1, <2>2 DEF ToutEstCompte
<1>. QED BY <1>1, InitInv, NextInv, InitComptes, NextComptes, PTL DEF Spec

\* Two sessions of the tap are open only if the requests of one were crossed.
THEOREM SessionSeule == Spec => []UneSeuleOuverte
<1>1. IInv => UneSeuleOuverte
  BY DEF IInv
<1>. QED BY <1>1, Invariante, PTL

\* Every reachable state has the declared shape.
THEOREM TypeCorrect == Spec => []TypeOK
<1>1. IInv => TypeOK
  <2> SUFFICES ASSUME IInv PROVE TypeOK
    OBVIOUS
  <2>1. sessions \in Seq(LesSessions) /\ clotures \in Seq(LesClotures)
        /\ tirages \in Seq(LesTirages)
    BY DEF IInv, TypesServeur, TypesPi
  <2>2. pi \in [etape : Etapes, carte : Cartes \cup {Aucun}, appel : Requetes \cup {Aucun},
               suivante : Cartes \cup {Aucun}]
    BY DEF IInv, TypesPi, LesPi
  <2>3. tirages \in Seq([session : DOMAIN sessions, verse : Volumes, rendu : BOOLEAN])
    <3>1. \A t \in DOMAIN tirages :
            tirages[t] \in [session : DOMAIN sessions, verse : Volumes, rendu : BOOLEAN]
      BY Pours DEF IInv, TypesPi, LesTirages
    <3>. QED BY <2>1, <3>1, Restreinte
  <2>4. clotures \in Seq([session : DOMAIN sessions, volume : Volumes, soldee : BOOLEAN,
                         facture : Volumes])
    <3>1. \A i \in DOMAIN clotures : clotures[i] \in LesClotures
      BY <2>1, Positions
    <3>2. \A i \in DOMAIN clotures :
            clotures[i] \in [session : DOMAIN sessions, volume : Volumes, soldee : BOOLEAN,
                             facture : Volumes]
      BY <3>1, Acquis DEF LesClotures
    <3>. QED BY <2>1, <3>2, Restreinte
  <2>5. requetes \in [Requetes -> [etape : {"libre", "envoyee", "lue"}, genre : Genres,
                                  carte : Cartes \cup {Aucun}, volume : Volumes,
                                  lues : Lectures]]
    <3>1. ASSUME NEW r \in Requetes
          PROVE  requetes[r] \in [etape : {"libre", "envoyee", "lue"}, genre : Genres,
                                  carte : Cartes \cup {Aucun}, volume : Volumes,
                                  lues : Lectures]
      <4>1. requetes[r] \in LesRequetes /\ DOMAIN requetes[r].lues \subseteq DOMAIN sessions
        BY DEF IInv, TypesRequetes
      <4>2. requetes[r].lues \in LesLectures
        BY <4>1 DEF LesRequetes
      <4>3. requetes[r].lues \in [DOMAIN requetes[r].lues -> Volumes]
        BY <4>2 DEF LesLectures
      <4>4. requetes[r].lues \in Lectures
        BY <4>1, <4>3 DEF Lectures
      <4>. QED BY <4>1, <4>4 DEF LesRequetes
    <3>. QED BY <3>1 DEF IInv, TypesRequetes
  <2>6. reservoir \in 0..Fut /\ badges \in 0..MaxBadges
    BY DEF IInv, TypesServeur, TypesPi
  <2>. QED BY <2>1, <2>2, <2>3, <2>4, <2>5, <2>6 DEF TypeOK, LesSessions
<1>. QED BY <1>1, Invariante, PTL
=============================================================================
