----------------------------- MODULE Portefeuille -----------------------------
(* The wallets, the tokens and the cashless cards: fedow_core/services.py       *)
(* (WalletService, TransactionService, CarteService, BankTransferService) and   *)
(* the operations of the register that call it (laboutik/views.py).             *)
(*                                                                              *)
(* A request reads the card and its balances without a lock, then opens one     *)
(* database transaction in which it plays its movements one after the other:    *)
(* the token of the sender is locked, checked and debited, the token of the     *)
(* receiver is locked and credited.  Locks are kept to the commit; PostgreSQL   *)
(* breaks a cycle of waits by aborting one transaction.  What a transaction     *)
(* has written is invisible to the others until it commits.                     *)
EXTENDS Naturals, SequencesExt

CONSTANTS
  Cartes,          \* the cashless cards
  Personnes,       \* the users; the wallet of a user is named by the user
  Lieu,            \* the wallet of the venue, origin of its assets
  Monnaies,        \* the assets the register cascades over
  Cascade,         \* their order in a sale: a sequence of Monnaies
  Federee,         \* the asset the central pot owes to the venues (FED)
  MaxVies,         \* a card gets a new wallet after each reset: bound
  Requetes,        \* the requests of the story
  Prix, Recharges, \* the prices of the sales and the amounts of the top-ups
  SoldeInitial,    \* the tokens when the story begins
  Aucun

\* The wallet of a card without holder: one per life of the card, the one the
\* old Fedow gives for it.
Ephemeres == Cartes \X (1..MaxVies)
Portefeuilles == Personnes \cup Ephemeres \cup {Lieu}
Jetons == Portefeuilles \X Monnaies

ASSUME MontantsEntiers ==
  Prix \subseteq Nat /\ Recharges \subseteq Nat /\ SoldeInitial \in [Jetons -> Nat]
ASSUME MonnaiesConnues ==
  /\ IsFiniteSet(Monnaies) /\ Federee \in Monnaies /\ Cascade \in Seq(Monnaies)
  /\ MaxVies \in Nat \ {0}
ASSUME PortefeuillesDistincts ==
  /\ Personnes \cap Ephemeres = {} /\ Lieu \notin Personnes \cup Ephemeres
  /\ Aucun \notin Cartes \cup Portefeuilles
  /\ Cartes \cap Jetons = {}

VARIABLES
  carte,     \* Cartes -> the row of the card: its user, its ephemeral wallet
  jeton,     \* Jetons -> the committed value of the token
  registre,  \* the committed rows of Transaction
  etat       \* Requetes -> where the request is, what it read and wrote

vars == <<carte, jeton, registre, etat>>

Repos == [etape |-> "neuve", op |-> "aucune", carte |-> Aucun, qui |-> Aucun,
          bourse |-> Aucun, plan |-> <<>>, rang |-> 1, aVerrouiller |-> {},
          tient |-> {}, ecrit |-> <<>>, lignes |-> {}, vider |-> FALSE]

Finie == [Repos EXCEPT !.etape = "finie"]

Mouvement(action, de, vers, m, montant) ==
  [action |-> action, de |-> de, vers |-> vers, monnaie |-> m, montant |-> montant]

SansDebit == {"REFILL", "BANK_TRANSFER"}
SansCredit == {"BANK_TRANSFER"}

Livre == INSTANCE GrandLivre

-----------------------------------------------------------------------------
(* The locks.                                                                   *)

\* Another transaction holds the row.
Verrouillee(q, ligne) == \E autre \in Requetes \ {q} : ligne \in etat[autre].tient

\* The row of a token as the transaction of q sees it: its own writes first.
Valeur(q, ligne) ==
  IF ligne \in DOMAIN etat[q].ecrit THEN etat[q].ecrit[ligne] ELSE jeton[ligne]

Courant(q) == etat[q].plan[etat[q].rang]

\* The rows a request may ask for next.  Every row it writes has a foreign key
\* to the card, checked at the commit: it waits for a link that holds the card.
Demandees(q) ==
  CASE etat[q].etape = "jetons"  -> {<<etat[q].bourse, m>> : m \in etat[q].aVerrouiller}
    [] etat[q].etape = "debit"   -> {<<Courant(q).de, Courant(q).monnaie>>}
    [] etat[q].etape = "credit"  -> {<<Courant(q).vers, Courant(q).monnaie>>}
    [] etat[q].etape = "valider" -> {etat[q].carte}
    [] OTHER -> {}

Attend(q, autre) ==
  /\ Demandees(q) # {}
  /\ \A ligne \in Demandees(q) : Verrouillee(q, ligne)
  /\ \E ligne \in Demandees(q) : ligne \in etat[autre].tient

Interbloquee(q) ==
  \E cycle \in SUBSET Requetes :
    /\ q \in cycle
    /\ \A a \in cycle : /\ \E b \in cycle \ {a} : Attend(a, b)
                        /\ \E b \in cycle \ {a} : Attend(b, a)

-----------------------------------------------------------------------------
(* The movements: TransactionService.creer.                                     *)

\* The step of the movement of a rank, or the commit after the last one.
EtapeDuRang(plan, rang) ==
  IF rang > Len(plan) THEN "valider"
  ELSE IF plan[rang].action \notin SansDebit THEN "debit"
  ELSE IF plan[rang].action \notin SansCredit THEN "credit"
  ELSE "ecrire"

\* What a transaction has written, with one row more.
Ecrire(ecrit, ligne, valeur) ==
  [l \in DOMAIN ecrit \cup {ligne} |-> IF l = ligne THEN valeur ELSE ecrit[l]]

\* The row of Transaction, written after the debit and the credit.
LigneEcrite(q) ==
  [action |-> Courant(q).action, de |-> Courant(q).de, vers |-> Courant(q).vers,
   monnaie |-> Courant(q).monnaie, montant |-> Courant(q).montant,
   requete |-> q, rang |-> etat[q].rang]

Suivant(e, ligne) ==
  [e EXCEPT !.lignes = @ \cup {ligne}, !.rang = @ + 1,
            !.etape = EtapeDuRang(e.plan, e.rang + 1)]

\* A token locked, and its value written.
Ecrit(e, ligne, valeur) ==
  [e EXCEPT !.tient = @ \cup {ligne}, !.ecrit = Ecrire(@, ligne, valeur)]

\* After the debit comes the credit.
Debite(e, ligne, valeur) == [Ecrit(e, ligne, valeur) EXCEPT !.etape = "credit"]

\* Mutant: the balance is not checked under the lock.
DebiterSansVerifier(q) ==
  LET m == Courant(q)
      ligne == <<m.de, m.monnaie>>
  IN /\ etat[q].etape = "debit" /\ ~Verrouillee(q, ligne)
     /\ etat' = [etat EXCEPT ![q] =
          Debite(@, ligne, Valeur(q, ligne) - m.montant)]
     /\ UNCHANGED <<carte, jeton, registre>>

\* WalletService.debiter: the row is locked, then read; SoldeInsuffisant rolls
\* the whole request back.
Debiter(q) ==
  LET m == Courant(q)
      ligne == <<m.de, m.monnaie>>
  IN /\ etat[q].etape = "debit" /\ ~Verrouillee(q, ligne)
     /\ etat' = [etat EXCEPT ![q] =
          IF Valeur(q, ligne) < m.montant THEN Finie
          ELSE Debite(@, ligne, Valeur(q, ligne) - m.montant)]
     /\ UNCHANGED <<carte, jeton, registre>>

\* Mutant: the token is read and written without select_for_update.
CrediterSansVerrou(q) ==
  LET m == Courant(q)
      ligne == <<m.vers, m.monnaie>>
  IN /\ etat[q].etape = "credit"
     /\ etat' = [etat EXCEPT ![q] =
          Suivant([@ EXCEPT !.ecrit = Ecrire(@, ligne, Valeur(q, ligne) + m.montant)],
                  LigneEcrite(q))]
     /\ UNCHANGED <<carte, jeton, registre>>

\* WalletService.crediter: the row is created when it is missing, locked, then
\* read and written; the row of the transaction follows.
Crediter(q) ==
  LET m == Courant(q)
      ligne == <<m.vers, m.monnaie>>
  IN /\ etat[q].etape = "credit" /\ ~Verrouillee(q, ligne)
     /\ etat' = [etat EXCEPT ![q] =
          Suivant(Ecrit(@, ligne, Valeur(q, ligne) + m.montant), LigneEcrite(q))]
     /\ UNCHANGED <<carte, jeton, registre>>

\* A bank transfer moves no token: only its row is written.
EcrireSansMouvement(q) ==
  /\ etat[q].etape = "ecrire"
  /\ etat' = [etat EXCEPT ![q] = Suivant(@, LigneEcrite(q))]
  /\ UNCHANGED <<carte, jeton, registre>>

-----------------------------------------------------------------------------
(* What a request reads, without a lock, before its transaction.                *)

\* The wallet behind a card: its holder's, else its own.
Bourse(c) == IF carte[c].user # Aucun THEN carte[c].user ELSE carte[c].ephemere

\* What a request does: its movements, for a card and the wallet found behind it.
Demande(op, c, w, plan) ==
  [Repos EXCEPT !.op = op, !.carte = c, !.bourse = w, !.plan = plan]

Ouvrir(q, e) ==
  /\ etat[q].etape = "neuve"
  /\ etat' = [etat EXCEPT ![q] = [e EXCEPT !.etape = EtapeDuRang(e.plan, 1)]]

\* The cascade: what each asset gives for a price.  No asset gives more than its
\* balance, and none gives before those that precede it have given all; there is no
\* such function when the card does not cover the price.
DebitsDeCascade(w, prix) ==
  LET rangs == 1..Len(Cascade)
      solde(i) == jeton[<<w, Cascade[i]>>]
  IN {debit \in [rangs -> 0..prix] :
        /\ MapThenSumSet(LAMBDA i : debit[i], rangs) = prix
        /\ \A i \in rangs : debit[i] <= solde(i)
        /\ \A i, j \in rangs : (i < j /\ debit[j] > 0) => debit[i] = solde(i)}

\* _payer_par_nfc: a sale the card covers, debited in the order of the cascade.  A
\* price it does not cover shows the complement screen and writes nothing.
Vendre(q, c, prix) ==
  /\ Bourse(c) # Aucun
  /\ \E debit \in DebitsDeCascade(Bourse(c), prix) :
     \E ordre \in SetToSeqs({i \in 1..Len(Cascade) : debit[i] > 0}) :
       /\ \A a, b \in DOMAIN ordre : a < b => ordre[a] < ordre[b]
       /\ Ouvrir(q, Demande("vente", c, Bourse(c),
                      [a \in DOMAIN ordre |->
                         Mouvement("SALE", Bourse(c), Lieu, Cascade[ordre[a]],
                                   debit[ordre[a]])]))
  /\ UNCHANGED <<carte, jeton, registre>>

RechargeDe(c, w, m, montant) ==
  Demande("recharge", c, w, <<Mouvement("REFILL", Lieu, w, m, montant)>>)

\* _executer_recharges: the wallet was found before the transaction.
Recharger(q, c, m, montant) ==
  /\ Bourse(c) # Aucun
  /\ Ouvrir(q, RechargeDe(c, Bourse(c), m, montant))
  /\ UNCHANGED <<carte, jeton, registre>>

\* obtenir_wallet_carte_depuis_fedow: the card has no wallet here, the request
\* asks the old Fedow for it...
Scanner(q, c) ==
  /\ etat[q].etape = "neuve" /\ Bourse(c) = Aucun /\ carte[c].vie <= MaxVies
  /\ etat' = [etat EXCEPT ![q] =
       [Demande("scan", c, <<c, carte[c].vie>>, <<>>) EXCEPT !.etape = "fedow"]]
  /\ UNCHANGED <<carte, jeton, registre>>

\* ... and attaches it: the holder it tests is the one it read before the call.
\* The card is then topped up, or only shown.
Rattacher(q) ==
  LET e == etat[q]
      r(m, montant) == RechargeDe(e.carte, e.bourse, m, montant)
  IN /\ e.etape = "fedow" /\ ~Verrouillee(q, e.carte)
     /\ carte' = [carte EXCEPT ![e.carte].ephemere = e.bourse]
     /\ \/ etat' = [etat EXCEPT ![q] = Finie]
        \/ \E m \in Monnaies, montant \in Recharges :
             etat' = [etat EXCEPT ![q] =
               [r(m, montant) EXCEPT !.etape = EtapeDuRang(r(m, montant).plan, 1)]]
     /\ UNCHANGED <<jeton, registre>>

\* rembourser_en_especes: the tokens are read before the transaction, in the
\* order the database gives them.  Without any token the old Fedow must have
\* emptied the card too, and the card is then only unlinked.
Vider(q, c, vider) ==
  LET w == Bourse(c)
      pleins == IF w = Aucun THEN {} ELSE {m \in Monnaies : jeton[<<w, m>>] > 0}
  IN /\ pleins # {} \/ vider
     /\ \E ordre \in SetToSeqs(pleins) :
          Ouvrir(q, [Demande("vidage", c, w,
                       [i \in DOMAIN ordre |->
                          Mouvement("REFUND", w, Lieu, ordre[i], jeton[<<w, ordre[i]>>])])
                     EXCEPT !.vider = vider])
     /\ UNCHANGED <<carte, jeton, registre>>

\* calculer_dette: the refunds of the asset, less the transfers.
Somme(action) ==
  MapThenSumSet(LAMBDA t : t.montant,
    {t \in registre : t.action = action /\ t.monnaie = Federee})
Dette == IF Somme("REFUND") > Somme("BANK_TRANSFER")
         THEN Somme("REFUND") - Somme("BANK_TRANSFER") ELSE 0

\* enregistrer_virement: the debt is read inside the transaction, under no lock.
Virer(q, montant) ==
  /\ montant > 0 /\ montant <= Dette
  /\ Ouvrir(q, Demande("virement", Aucun, Aucun,
                 <<Mouvement("BANK_TRANSFER", Lieu, Lieu, Federee, montant)>>))
  /\ UNCHANGED <<carte, jeton, registre>>

-----------------------------------------------------------------------------
(* The link of a card to a user: CarteService.lier_a_user.                      *)

UserADejaUneAutreCarte(c, u) == \E autre \in Cartes \ {c} : carte[autre].user = u

\* The tokens of the card's wallet that hold something are to be locked.
Liaison(c, u) ==
  LET w == carte[c].ephemere
  IN [Demande("liaison", c, w, <<>>) EXCEPT !.etape = "jetons", !.qui = u,
        !.aVerrouiller = IF w = Aucun THEN {} ELSE {m \in Monnaies : jeton[<<w, m>>] > 0}]

\* Mutant: the card is read without a lock.
LireLaCarteSansVerrou(q, c, u) ==
  /\ etat[q].etape = "neuve" /\ ~Verrouillee(q, c)
  /\ etat' = [etat EXCEPT ![q] =
       IF carte[c].user # Aucun \/ UserADejaUneAutreCarte(c, u) THEN Finie
       ELSE Liaison(c, u)]
  /\ UNCHANGED <<carte, jeton, registre>>

\* The row of the card is locked, then read.  Nothing is written for a card that
\* has a holder or a user who has another card.
VerrouillerLaCarte(q, c, u) ==
  /\ etat[q].etape = "neuve" /\ ~Verrouillee(q, c)
  /\ etat' = [etat EXCEPT ![q] =
       IF carte[c].user # Aucun \/ UserADejaUneAutreCarte(c, u) THEN Finie
       ELSE [Liaison(c, u) EXCEPT !.tient = {c}]]
  /\ UNCHANGED <<carte, jeton, registre>>

\* fusionner_wallet_ephemere: the tokens with a balance are locked one by one;
\* one that is empty by then is left out of the merge.
AFusionner(e, m, montant) ==
  [e EXCEPT !.aVerrouiller = @ \ {m}, !.tient = @ \cup {<<e.bourse, m>>},
            !.plan = IF montant > 0
                     THEN Append(@, Mouvement("FUSION", e.bourse, e.qui, m, montant))
                     ELSE @]

VerrouillerUnJeton(q) ==
  /\ etat[q].etape = "jetons"
  /\ \E m \in etat[q].aVerrouiller :
       LET ligne == <<etat[q].bourse, m>>
       IN /\ ~Verrouillee(q, ligne)
          /\ etat' = [etat EXCEPT ![q] = AFusionner(@, m, jeton[ligne])]
  /\ UNCHANGED <<carte, jeton, registre>>

Fusionner(q) ==
  /\ etat[q].etape = "jetons" /\ etat[q].aVerrouiller = {}
  /\ etat' = [etat EXCEPT ![q].etape = EtapeDuRang(etat[q].plan, 1)]
  /\ UNCHANGED <<carte, jeton, registre>>

-----------------------------------------------------------------------------
(* The end of a request.                                                        *)

\* The row of a card set back to blank: the next wallet will be a new one.
Vierge(c) == [user |-> Aucun, ephemere |-> Aucun, vie |-> carte[c].vie + 1]

\* What the request writes on the card: a link sets the holder and detaches the
\* wallet, a refund that unlinks sets both to nothing.
CarteEcrite(q) ==
  CASE etat[q].op = "liaison" ->
         [carte EXCEPT ![etat[q].carte].user = etat[q].qui,
                       ![etat[q].carte].ephemere = Aucun]
    [] etat[q].op = "vidage" /\ etat[q].vider ->
         [carte EXCEPT ![etat[q].carte] = Vierge(etat[q].carte)]
    [] OTHER -> carte

\* The commit: the rows, the tokens and the card become visible together.
Valider(q) ==
  /\ etat[q].etape = "valider" /\ ~Verrouillee(q, etat[q].carte)
  /\ jeton' = [ligne \in Jetons |-> Valeur(q, ligne)]
  /\ registre' = registre \cup etat[q].lignes
  /\ carte' = CarteEcrite(q)
  /\ etat' = [etat EXCEPT ![q] = Finie]

\* PostgreSQL breaks a cycle of waits: one transaction is rolled back.
Avorter(q) ==
  /\ Interbloquee(q)
  /\ etat' = [etat EXCEPT ![q] = Finie]
  /\ UNCHANGED <<carte, jeton, registre>>

\* declarer_perdue: the card is looked up by its holder...
DeclarerPerdue(q, c) ==
  /\ etat[q].etape = "neuve" /\ carte[c].user # Aucun
  /\ etat' = [etat EXCEPT ![q] =
       [Demande("perte", c, Aucun, <<>>) EXCEPT !.etape = "perte"]]
  /\ UNCHANGED <<carte, jeton, registre>>

\* ... and written blank, under no lock and with no second look.
Detacher(q) ==
  LET c == etat[q].carte
  IN /\ etat[q].etape = "perte" /\ ~Verrouillee(q, c)
     /\ carte' = [carte EXCEPT ![c] = Vierge(c)]
     /\ etat' = [etat EXCEPT ![q] = Finie]
     /\ UNCHANGED <<jeton, registre>>

Init ==
  /\ carte = [c \in Cartes |-> [user |-> Aucun, ephemere |-> <<c, 1>>, vie |-> 1]]
  /\ jeton = SoldeInitial
  /\ registre = {}
  /\ etat = [q \in Requetes |-> Repos]

Recevoir(q) ==
  \/ \E c \in Cartes, prix \in Prix : Vendre(q, c, prix)
  \/ \E c \in Cartes, m \in Monnaies, montant \in Recharges : Recharger(q, c, m, montant)
  \/ \E c \in Cartes : Scanner(q, c) \/ DeclarerPerdue(q, c)
  \/ \E c \in Cartes, vider \in BOOLEAN : Vider(q, c, vider)
  \/ \E c \in Cartes, u \in Personnes : VerrouillerLaCarte(q, c, u)
  \/ \E montant \in Recharges : Virer(q, montant)

Continuer(q) ==
  \/ Debiter(q) \/ Crediter(q) \/ EcrireSansMouvement(q)
  \/ VerrouillerUnJeton(q) \/ Fusionner(q)
  \/ Rattacher(q) \/ Detacher(q)
  \/ Valider(q) \/ Avorter(q)

Next == \E q \in Requetes : Recevoir(q) \/ Continuer(q)

Spec == Init /\ [][Next]_vars

-----------------------------------------------------------------------------
(* Properties.                                                                  *)

\* The state has the declared shape; a row is held by one transaction at most.
TypeOK ==
  /\ carte \in [Cartes -> [user : Personnes \cup {Aucun},
                           ephemere : Ephemeres \cup {Aucun}, vie : Nat \ {0}]]
  /\ jeton \in [Jetons -> Nat]
  /\ \A q, autre \in Requetes :
       q # autre => etat[q].tient \cap etat[autre].tient = {}

\* The tokens behave as a ledger: whatever sales, top-ups, merges, refunds,
\* rollbacks and broken deadlocks run at the same time, the rows of an operation
\* and the balances they move appear together, no credit or debit is lost, and
\* no balance goes below zero (services.py 272, 458, 721).
LivreTenu == Livre!Spec

\* A card never goes from a holder to another: a holder is set only on a card
\* that has none, even when two links, a loss and a refund run at once (1392).
TitulaireJamaisRemplace ==
  [][\A c \in Cartes : carte[c].user # Aucun =>
        carte'[c].user \in {carte[c].user, Aucun}]_vars

\* A link leaves nothing behind: when it commits, the wallet it detaches from the
\* card is empty, although only the tokens with a balance were locked.  A top-up
\* of the same wallet cannot commit meanwhile: its rows refer to the locked card
\* (fusionner_wallet_ephemere 426-452, lier_a_user 1432).
FusionEntiere ==
  [][\A c \in Cartes :
       (carte[c].user = Aucun /\ carte[c].ephemere # Aucun /\ carte'[c].user # Aucun)
       => \A m \in Monnaies : jeton'[<<carte[c].ephemere, m>>] = 0]_vars
=============================================================================
