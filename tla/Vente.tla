------------------------------- MODULE Vente -------------------------------
(***************************************************************************)
(* The sale engine of one venue: BaseBillet/services_vente.py over the     *)
(* tables Vente, LigneArticle and Reglement, as the concurrent database    *)
(* transactions of its web and Celery workers run it.                      *)
(*                                                                         *)
(* `ventes' holds the committed rows.  A worker runs one transaction on    *)
(* one sale: what it has written and not committed is in vue[w], visible   *)
(* to it alone.  Locks are held until the transaction ends, by Valider     *)
(* (commit) or by Abandonner (an exception or a crash, rolled back).       *)
(* A fingerprint (hmac_hash) is an ideal chained hash: the sequence of all *)
(* the messages digested so far.                                           *)
(***************************************************************************)
EXTENDS Integers, Sequences, FiniteSets

CONSTANTS
  Ventes,           \* the sales the venue may ever open
  Travailleurs,     \* the workers: one database connection each
  ClesDeCaisse,     \* idempotency keys of the register's payment forms
  ClesDeVirement,   \* idempotency keys of the Stripe transfers received
  Aucun,            \* stands for None
  NaturesOuvertes,  \* the natures of the sales opened without a key
  Montants,         \* amounts, in cents, that an item or a payment can have
  MaxLignes,        \* bound: items of a sale
  Plafond           \* bound: absolute value of the sums of a sale

ASSUME AucunHypothese ==
  Aucun \notin Ventes \cup Travailleurs \cup ClesDeCaisse \cup ClesDeVirement
\* A form's key is a uuid, that of a transfer starts with "virement-recu-".
ASSUME ClesHypothese == ClesDeCaisse \cap ClesDeVirement = {}
ASSUME MontantsHypothese ==
  Montants \subseteq Int /\ MaxLignes \in Nat /\ Plafond \in Nat

Cles == ClesDeCaisse \cup ClesDeVirement

VARIABLES
  ventes,        \* the committed rows
  phase,         \* how far the transaction of a worker has got
  cible,         \* the sale of that transaction
  vue,           \* the row of that sale as the transaction sees it
  serialisable,  \* whether that transaction is SERIALIZABLE
  instantane,    \* the committed rows when a SERIALIZABLE transaction began
  cle,           \* the idempotency key a worker has found free
  montant,       \* the amount Stripe has collected
  verrouLieu,    \* holder of pg_advisory_xact_lock('vente-<schema>')
  verrouVente,   \* holders of the row locks (select_for_update)
  verrouCle      \* holders of pg_advisory_lock('laboutik-paiement:...')

verrous == <<verrouLieu, verrouVente, verrouCle>>
vars == <<ventes, phase, cible, vue, serialisable, instantane, cle, montant,
          verrouLieu, verrouVente, verrouCle>>

-----------------------------------------------------------------------------
(* Rows *)

Natures == {"VENTE", "AVOIR", "VIDAGE_CARTE", "CORRECTION"}
NaturesSansArticleAcceptees == {"VIDAGE_CARTE", "CORRECTION"}
ASSUME NaturesHypothese == NaturesOuvertes \subseteq Natures

Statuts == {"ABSENTE", "EN_ATTENTE", "REGLEE", "ANNULEE"}

\* The items and payments of a sale, by the sums the engine compares.
Contenu == [articles : Nat, catalogue : Int, net : Int,
            regle : Int, regleHorsOffert : Int]
SansContenu == [articles |-> 0, catalogue |-> 0, net |-> 0,
                regle |-> 0, regleHorsOffert |-> 0]

Messages == [vente : Ventes, numero : Nat, statut : Statuts,
             totaux : Contenu, contenu : Contenu]
Lignes == [statut : Statuts, nature : Natures, enLigne : BOOLEAN,
           cle : Cles \cup {Aucun}, contenu : Contenu, numero : Nat,
           totaux : Contenu, precedente : Seq(Messages),
           empreinte : Seq(Messages)]

\* A sale not in the database, and a sale just inserted.
Absente == [statut |-> "ABSENTE", nature |-> "VENTE", enLigne |-> FALSE,
            cle |-> Aucun, contenu |-> SansContenu, numero |-> 0,
            totaux |-> SansContenu, precedente |-> <<>>, empreinte |-> <<>>]
Ouverte(nature, enLigne, k) ==
  [Absente EXCEPT !.statut = "EN_ATTENTE", !.nature = nature,
                  !.enLigne = enLigne, !.cle = k]

Reglees(base) == {v \in Ventes : base[v].statut = "REGLEE"}
Numeros(base) == {base[v].numero : v \in Reglees(base)}

\* Aggregate Max("numero"), 0 when the table holds no number.
PlusGrandNumero(base) ==
  IF Numeros(base) = {} THEN 0
  ELSE CHOOSE n \in Numeros(base) : \A m \in Numeros(base) : m =< n

\* The stored fingerprint of sale number n, "" before the first.
EmpreinteDuNumero(base, n) ==
  IF n = 0 THEN <<>>
  ELSE base[CHOOSE v \in Reglees(base) : base[v].numero = n].empreinte

\* What calculer_hmac_vente digests of a sale, besides the previous hash.
Message(v, r) == [vente |-> v, numero |-> r.numero, statut |-> r.statut,
                  totaux |-> r.totaux, contenu |-> r.contenu]
EmpreinteCalculee(v, r) == Append(r.precedente, Message(v, r))

Equilibre(c) == c.regle = c.catalogue /\ c.regleHorsOffert = c.net

-----------------------------------------------------------------------------
(* Transactions *)

Phases == {"repos",           \* no request
           "cleLibre",        \* a keyed request: no sale has its key yet
           "ouverte",         \* the sale is open and being filled
           "encaisse",        \* encaisser_vente holds the venue lock
           "payee",           \* encaisser_vente_stripe is called
           "encaisseStripe",  \* encaisser_vente_stripe holds the venue lock
           "ecrite"}          \* the final row is written, not committed

\* READ COMMITTED reads the latest committed rows, SERIALIZABLE those of its
\* snapshot, taken by its first query.
Lues(w) == IF serialisable[w] THEN instantane[w] ELSE ventes

RienLu == [v \in Ventes |-> Absente]

Init ==
  /\ ventes = RienLu
  /\ phase = [w \in Travailleurs |-> "repos"]
  /\ cible = [w \in Travailleurs |-> Aucun]
  /\ vue = [w \in Travailleurs |-> Absente]
  /\ serialisable = [w \in Travailleurs |-> FALSE]
  /\ instantane = [w \in Travailleurs |-> RienLu]
  /\ cle = [w \in Travailleurs |-> Aucun]
  /\ montant = [w \in Travailleurs |-> 0]
  /\ verrouLieu = Aucun
  /\ verrouVente = [v \in Ventes |-> Aucun]
  /\ verrouCle = [k \in Cles |-> Aucun]

\* Mutant: the venue lock belongs to the session, not to the transaction.
TerminerEnGardantLeLieu(w) ==
  /\ phase' = [phase EXCEPT ![w] = "repos"]
  /\ cible' = [cible EXCEPT ![w] = Aucun]
  /\ vue' = [vue EXCEPT ![w] = Absente]
  /\ serialisable' = [serialisable EXCEPT ![w] = FALSE]
  /\ instantane' = [instantane EXCEPT ![w] = RienLu]
  /\ cle' = [cle EXCEPT ![w] = Aucun]
  /\ montant' = [montant EXCEPT ![w] = 0]
  /\ UNCHANGED verrouLieu
  /\ verrouVente' =
       [v \in Ventes |-> IF verrouVente[v] = w THEN Aucun ELSE verrouVente[v]]
  /\ verrouCle' =
       [k \in Cles |-> IF verrouCle[k] = w THEN Aucun ELSE verrouCle[k]]

\* The transaction of w ends; every lock it holds is released with it.
Terminer(w) ==
  /\ phase' = [phase EXCEPT ![w] = "repos"]
  /\ cible' = [cible EXCEPT ![w] = Aucun]
  /\ vue' = [vue EXCEPT ![w] = Absente]
  /\ serialisable' = [serialisable EXCEPT ![w] = FALSE]
  /\ instantane' = [instantane EXCEPT ![w] = RienLu]
  /\ cle' = [cle EXCEPT ![w] = Aucun]
  /\ montant' = [montant EXCEPT ![w] = 0]
  /\ verrouLieu' = IF verrouLieu = w THEN Aucun ELSE verrouLieu
  /\ verrouVente' =
       [v \in Ventes |-> IF verrouVente[v] = w THEN Aucun ELSE verrouVente[v]]
  /\ verrouCle' =
       [k \in Cles |-> IF verrouCle[k] = w THEN Aucun ELSE verrouCle[k]]

CleEnBase(k) == \E v \in Ventes : ventes[v].cle = k
\* A sale that nobody has inserted, committed or not.
Inedite(v) ==
  /\ ventes[v].statut = "ABSENTE"
  /\ \A w \in Travailleurs : cible[w] # v

-----------------------------------------------------------------------------
(* Opening a sale *)

\* Mutant: the form's key is looked up without its lock.
CliquerSansVerrou(w, k) ==
  /\ phase[w] = "repos"
  /\ ~ CleEnBase(k)
  /\ phase' = [phase EXCEPT ![w] = "cleLibre"]
  /\ cle' = [cle EXCEPT ![w] = k]
  /\ UNCHANGED <<ventes, cible, vue, serialisable, instantane, montant, verrous>>

\* The register receives a payment form: session lock on the form's key, then
\* nothing is replayed when a sale already carries it.
Cliquer(w, k) ==
  /\ phase[w] = "repos"
  /\ verrouCle[k] = Aucun
  /\ ~ CleEnBase(k)
  /\ phase' = [phase EXCEPT ![w] = "cleLibre"]
  /\ cle' = [cle EXCEPT ![w] = k]
  /\ verrouCle' = [verrouCle EXCEPT ![k] = w]
  /\ UNCHANGED <<ventes, cible, vue, serialisable, instantane, montant,
                 verrouLieu, verrouVente>>

\* A Stripe transfer is received (webhook, or catch-up command): the key is
\* looked up, under no lock.
RecevoirUnVirement(w, k) ==
  /\ phase[w] = "repos"
  /\ ~ CleEnBase(k)
  /\ phase' = [phase EXCEPT ![w] = "cleLibre"]
  /\ cle' = [cle EXCEPT ![w] = k]
  /\ UNCHANGED <<ventes, cible, vue, serialisable, instantane, montant, verrous>>

\* ouvrir_vente without a key; the cart and the booking engine do it inside a
\* SERIALIZABLE transaction.
OuvrirVente(w, v, nature, enLigne, serie) ==
  /\ phase[w] = "repos"
  /\ Inedite(v)
  /\ serie => enLigne
  /\ enLigne => nature = "VENTE"
  /\ phase' = [phase EXCEPT ![w] = "ouverte"]
  /\ cible' = [cible EXCEPT ![w] = v]
  /\ vue' = [vue EXCEPT ![w] = Ouverte(nature, enLigne, Aucun)]
  /\ serialisable' = [serialisable EXCEPT ![w] = serie]
  /\ instantane' = [instantane EXCEPT ![w] = IF serie THEN ventes ELSE RienLu]
  /\ UNCHANGED <<ventes, cle, montant, verrous>>

\* Mutant: no unique index on the key.
OuvrirVenteSansUnicite(w, v) ==
  /\ phase[w] = "cleLibre"
  /\ Inedite(v)
  /\ phase' = [phase EXCEPT ![w] = "ouverte"]
  /\ cible' = [cible EXCEPT ![w] = v]
  /\ vue' = [vue EXCEPT ![w] = Ouverte("VENTE", FALSE, cle[w])]
  /\ UNCHANGED <<ventes, serialisable, instantane, cle, montant, verrous>>

\* ouvrir_vente with a key: get_or_create creates.  The unique index makes it
\* wait for an uncommitted sale with the same key.
OuvrirVenteAvecCle(w, v) ==
  /\ phase[w] = "cleLibre"
  /\ Inedite(v)
  /\ ~ CleEnBase(cle[w])
  /\ \A u \in Travailleurs : vue[u].cle # cle[w]
  /\ phase' = [phase EXCEPT ![w] = "ouverte"]
  /\ cible' = [cible EXCEPT ![w] = v]
  /\ vue' = [vue EXCEPT ![w] = Ouverte("VENTE", FALSE, cle[w])]
  /\ UNCHANGED <<ventes, serialisable, instantane, cle, montant, verrous>>

\* get_or_create returns the sale another worker has settled meanwhile:
\* ajouter_article refuses it, and the transaction is rolled back.
CleDejaPrise(w) ==
  /\ phase[w] = "cleLibre"
  /\ CleEnBase(cle[w])
  /\ Terminer(w)
  /\ UNCHANGED ventes

-----------------------------------------------------------------------------
(* Filling a sale: both services refuse a sale that is no longer pending *)

DansLesBornes(c) ==
  /\ c.articles =< MaxLignes
  /\ \A s \in {c.catalogue, c.net, c.regle, c.regleHorsOffert} :
       -Plafond =< s /\ s =< Plafond

AvecContenu(w, c) ==
  /\ phase[w] = "ouverte"
  /\ vue[w].statut = "EN_ATTENTE"
  /\ DansLesBornes(c)
  /\ vue' = [vue EXCEPT ![w].contenu = c]
  /\ UNCHANGED <<ventes, phase, cible, serialisable, instantane, cle, montant,
                 verrous>>

\* An item of catalogue price p.  Wholly offered, its net is 0, and a FREE
\* payment of the same amount is written with it (none of 0).  No online
\* producer offers an item.
AvecArticle(c, p, offert) ==
  [articles        |-> c.articles + 1,
   catalogue       |-> c.catalogue + p,
   net             |-> c.net + (IF offert THEN 0 ELSE p),
   regle           |-> c.regle + (IF offert THEN p ELSE 0),
   regleHorsOffert |-> c.regleHorsOffert]
AjouterArticle(w, p, offert) ==
  /\ offert => ~ vue[w].enLigne
  /\ AvecContenu(w, AvecArticle(vue[w].contenu, p, offert))

\* A payment of m, never 0.  An online sale gets its only one from Stripe.
AvecReglement(c, m, offert) ==
  [c EXCEPT !.regle = c.regle + m,
            !.regleHorsOffert = c.regleHorsOffert + (IF offert THEN 0 ELSE m)]
AjouterReglement(w, m, offert) ==
  /\ m # 0
  /\ ~ vue[w].enLigne
  /\ AvecContenu(w, AvecReglement(vue[w].contenu, m, offert))

-----------------------------------------------------------------------------
(* Settling a sale *)

\* Mutant: no venue lock.
PasserSansVerrou(w) ==
  /\ \/ phase[w] = "ouverte" /\ phase' = [phase EXCEPT ![w] = "encaisse"]
     \/ phase[w] = "payee" /\ phase' = [phase EXCEPT ![w] = "encaisseStripe"]
  /\ UNCHANGED <<ventes, cible, vue, serialisable, instantane, cle, montant,
                 verrous>>

\* pg_advisory_xact_lock: first step of encaisser_vente, and of
\* encaisser_vente_stripe.
VerrouillerLeLieu(w) ==
  /\ \/ phase[w] = "ouverte" /\ phase' = [phase EXCEPT ![w] = "encaisse"]
     \/ phase[w] = "payee" /\ phase' = [phase EXCEPT ![w] = "encaisseStripe"]
  /\ verrouLieu = Aucun
  /\ verrouLieu' = w
  /\ UNCHANGED <<ventes, cible, vue, serialisable, instantane, cle, montant,
                 verrouVente, verrouCle>>

\* Mutants: a cancelled sale is settled; the second equality is forgotten.
EncaisseMemeAnnulee(r) ==
  /\ r.statut # "REGLEE"
  /\ r.contenu.articles = 0 => r.nature \in NaturesSansArticleAcceptees
  /\ Equilibre(r.contenu)
EncaisseSansVoirLOffert(r) ==
  /\ r.statut = "EN_ATTENTE"
  /\ r.contenu.articles = 0 => r.nature \in NaturesSansArticleAcceptees
  /\ r.contenu.regle = r.contenu.catalogue

PeutEtreEncaissee(r) ==
  /\ r.statut = "EN_ATTENTE"
  /\ r.contenu.articles = 0 => r.nature \in NaturesSansArticleAcceptees
  /\ Equilibre(r.contenu)

\* Mutant: the fingerprint is computed before the status is set.
EncaisseeEmpreinteTropTot(v, r, base) ==
  LET dernier == PlusGrandNumero(base)
      numerotee == [r EXCEPT !.numero = dernier + 1,
                             !.totaux = r.contenu,
                             !.precedente = EmpreinteDuNumero(base, dernier)]
  IN  [numerotee EXCEPT !.empreinte = EmpreinteCalculee(v, numerotee),
                        !.statut = "REGLEE"]

\* The row as encaisser_vente saves it, from the rows it reads in `base'.
Encaissee(v, r, base) ==
  LET dernier == PlusGrandNumero(base)
      reglee  == [r EXCEPT !.statut = "REGLEE",
                           !.numero = dernier + 1,
                           !.totaux = r.contenu,
                           !.precedente = EmpreinteDuNumero(base, dernier)]
  IN  [reglee EXCEPT !.empreinte = EmpreinteCalculee(v, reglee)]

Ecrire(w, r) ==
  /\ vue' = [vue EXCEPT ![w] = r]
  /\ phase' = [phase EXCEPT ![w] = "ecrite"]
  /\ UNCHANGED <<ventes, cible, serialisable, instantane, cle, montant>>

\* encaisser_vente, last step of the transaction that opened the sale.  The
\* unique constraint on numero lets save() pass only with an unused number.
Encaisser(w) ==
  /\ phase[w] = "encaisse"
  /\ PeutEtreEncaissee(vue[w])
  /\ PlusGrandNumero(Lues(w)) + 1 \notin Numeros(ventes)
  /\ Ecrire(w, Encaissee(cible[w], vue[w], Lues(w)))
  /\ UNCHANGED verrous

\* The number read in the snapshot has been taken since: IntegrityError, the
\* whole transaction is rolled back.
NumeroDejaPris(w) ==
  /\ phase[w] = "encaisse"
  /\ PeutEtreEncaissee(vue[w])
  /\ PlusGrandNumero(Lues(w)) + 1 \in Numeros(ventes)
  /\ Terminer(w)
  /\ UNCHANGED ventes

\* A webhook, the buyer's browser or an admin's replay finds the payment of an
\* online sale paid: m has been collected.
ConstaterPaye(w, v, m) ==
  /\ phase[w] = "repos"
  /\ ventes[v].enLigne
  /\ phase' = [phase EXCEPT ![w] = "payee"]
  /\ cible' = [cible EXCEPT ![w] = v]
  /\ montant' = [montant EXCEPT ![w] = m]
  /\ UNCHANGED <<ventes, vue, serialisable, instantane, cle, verrous>>

\* The gap between the money and the catalogue becomes an item, then one
\* payment of the amount collected is written, unless it is 0.
AvecPaiementStripe(c, m) ==
  LET ecart == m - c.catalogue
      avecEcart == IF ecart = 0 THEN c ELSE AvecArticle(c, ecart, FALSE)
  IN  IF m = 0 THEN avecEcart ELSE AvecReglement(avecEcart, m, FALSE)

Payee(r, m) == [r EXCEPT !.contenu = AvecPaiementStripe(@, m)]

\* encaisser_vente_stripe after the venue lock: the row is read again under its
\* lock.  A settled sale is returned as it is.
EncaisserStripe(w) ==
  LET v == cible[w]
      payee == Payee(ventes[v], montant[w])
  IN  /\ phase[w] = "encaisseStripe"
      /\ verrouVente[v] = Aucun
      /\ verrouVente' = [verrouVente EXCEPT ![v] = w]
      /\ \/ /\ ventes[v].statut = "REGLEE"
            /\ Ecrire(w, ventes[v])
         \/ /\ PeutEtreEncaissee(payee)
            /\ Ecrire(w, Encaissee(v, payee, ventes))
      /\ UNCHANGED <<verrouLieu, verrouCle>>

\* ValueError or EgaliteDeVenteRompue: nothing of the transaction is kept.
Refuser(w) ==
  /\ \/ phase[w] = "encaisse" /\ ~ PeutEtreEncaissee(vue[w])
     \/ /\ phase[w] = "encaisseStripe"
        /\ verrouVente[cible[w]] = Aucun
        /\ ventes[cible[w]].statut # "REGLEE"
        /\ ~ PeutEtreEncaissee(Payee(ventes[cible[w]], montant[w]))
  /\ Terminer(w)
  /\ UNCHANGED ventes

-----------------------------------------------------------------------------
(* Cancelling a sale, ending a transaction *)

\* Mutant: the status of the Stripe payment is copied into the sale.
AnnulerAvecLeStatutStripe(w, v) ==
  /\ phase[w] = "repos"
  /\ ventes[v].enLigne
  /\ ventes[v].statut \in {"EN_ATTENTE", "ANNULEE"}
  /\ verrouVente[v] = Aucun
  /\ verrouVente' = [verrouVente EXCEPT ![v] = w]
  /\ cible' = [cible EXCEPT ![w] = v]
  /\ vue' = [vue EXCEPT ![w] = [ventes[v] EXCEPT !.statut = "CANCELED"]]
  /\ phase' = [phase EXCEPT ![w] = "ecrite"]
  /\ UNCHANGED <<ventes, serialisable, instantane, cle, montant, verrouLieu,
                 verrouCle>>

\* annuler_vente, when Stripe has cancelled the payment of an online sale.  A
\* sale already cancelled is returned as it is.
AnnulerVente(w, v) ==
  /\ phase[w] = "repos"
  /\ ventes[v].enLigne
  /\ ventes[v].statut \in {"EN_ATTENTE", "ANNULEE"}
  /\ verrouVente[v] = Aucun
  /\ verrouVente' = [verrouVente EXCEPT ![v] = w]
  /\ cible' = [cible EXCEPT ![w] = v]
  /\ vue' = [vue EXCEPT ![w] = [ventes[v] EXCEPT !.statut = "ANNULEE"]]
  /\ phase' = [phase EXCEPT ![w] = "ecrite"]
  /\ UNCHANGED <<ventes, serialisable, instantane, cle, montant, verrouLieu,
                 verrouCle>>

\* annuler_vente at the end of a free order that has no item.
AnnulerCommandeVide(w) ==
  /\ phase[w] = "ouverte"
  /\ vue[w].enLigne
  /\ vue[w].contenu = SansContenu
  /\ Ecrire(w, [vue[w] EXCEPT !.statut = "ANNULEE"])
  /\ UNCHANGED verrous

\* A sale is committed once it is settled or cancelled, or pending with
\* something to pay, when the buyer is sent to Stripe.
Valider(w) ==
  /\ \/ phase[w] = "ecrite"
     \/ phase[w] = "ouverte" /\ vue[w].enLigne /\ vue[w].contenu.catalogue > 0
  /\ ventes' = [ventes EXCEPT ![cible[w]] = vue[w]]
  /\ Terminer(w)

\* Any other exception (Stripe, a serialization failure) or the end of the
\* process: rolled back.
Abandonner(w) ==
  /\ phase[w] # "repos"
  /\ Terminer(w)
  /\ UNCHANGED ventes

-----------------------------------------------------------------------------

Ouvrir(w) ==
  \/ \E k \in ClesDeCaisse : Cliquer(w, k)
  \/ \E k \in ClesDeVirement : RecevoirUnVirement(w, k)
  \/ \E v \in Ventes, nature \in NaturesOuvertes, enLigne, serie \in BOOLEAN :
       OuvrirVente(w, v, nature, enLigne, serie)
  \/ \E v \in Ventes : OuvrirVenteAvecCle(w, v)

Remplir(w) ==
  \E m \in Montants, offert \in BOOLEAN :
    AjouterArticle(w, m, offert) \/ AjouterReglement(w, m, offert)

Constater(w) ==
  \E v \in Ventes :
    AnnulerVente(w, v) \/ \E m \in Montants : ConstaterPaye(w, v, m)

\* The steps that bring an opened transaction to its end.
Avancer(w) ==
  \/ VerrouillerLeLieu(w) \/ Encaisser(w) \/ NumeroDejaPris(w)
  \/ EncaisserStripe(w) \/ Refuser(w) \/ CleDejaPrise(w) \/ Valider(w)

Next == \E w \in Travailleurs :
          \/ Ouvrir(w) \/ Remplir(w) \/ Constater(w) \/ Avancer(w)
          \/ AnnulerCommandeVide(w) \/ Abandonner(w)

Spec == Init /\ [][Next]_vars

\* A worker goes on with the request it handles; PostgreSQL serves the queue of
\* a lock in order.  Nothing obliges a worker to fail, nor an event to come.
Equite == \A w \in Travailleurs : SF_vars(Avancer(w))

SpecEquitable == Spec /\ Equite

-----------------------------------------------------------------------------
(* Properties *)

\* Every variable keeps the shape declared above.
TypeOK ==
  /\ ventes \in [Ventes -> Lignes]
  /\ phase \in [Travailleurs -> Phases]
  /\ cible \in [Travailleurs -> Ventes \cup {Aucun}]
  /\ vue \in [Travailleurs -> Lignes]
  /\ serialisable \in [Travailleurs -> BOOLEAN]
  /\ instantane \in [Travailleurs -> [Ventes -> Lignes]]
  /\ cle \in [Travailleurs -> Cles \cup {Aucun}]
  /\ montant \in [Travailleurs -> Montants \cup {0}]
  /\ verrouLieu \in Travailleurs \cup {Aucun}
  /\ verrouVente \in [Ventes -> Travailleurs \cup {Aucun}]
  /\ verrouCle \in [Cles -> Travailleurs \cup {Aucun}]

\* The numbers of the settled sales are 1, 2, 3... with no gap, and no two sales
\* share one, whatever the transactions that settle at the same time.
NumerosSansTrou ==
  /\ Numeros(ventes) = 1 .. PlusGrandNumero(ventes)
  /\ \A u, v \in Reglees(ventes) :
       ventes[u].numero = ventes[v].numero => u = v

\* The settled sale just before v in the chain, as a set of at most one.
DAvant(v) ==
  {u \in Reglees(ventes) :
     /\ ventes[u].numero < ventes[v].numero
     /\ \A t \in Reglees(ventes) :
          ventes[t].numero < ventes[v].numero
            => ventes[t].numero =< ventes[u].numero}

\* The anomalies verifier_chaine_ventes reports for the settled sale v.
TrouDeNumero(v) ==
  \E u \in DAvant(v) : ventes[v].numero # ventes[u].numero + 1
MaillonCasse(v) ==
  \/ \E u \in DAvant(v) : ventes[v].precedente # ventes[u].empreinte
  \/ DAvant(v) = {} /\ ventes[v].precedente # <<>>
EmpreinteFausse(v) == ventes[v].empreinte # EmpreinteCalculee(v, ventes[v])
EgaliteRompue(v) == ~ Equilibre(ventes[v].contenu)

\* At any moment the audit of the whole chain finds nothing: every settled sale
\* is linked to the one before, still has the content its fingerprint digested,
\* and still balances.
ChaineSaine ==
  \A v \in Reglees(ventes) :
    ~ (TrouDeNumero(v) \/ MaillonCasse(v) \/ EmpreinteFausse(v)
       \/ EgaliteRompue(v))

\* Two sales never carry the same idempotency key.
UneVenteParCle ==
  \A u, v \in Ventes :
    ventes[u].cle = ventes[v].cle /\ ventes[u].cle # Aucun => u = v

\* A double tap on the register's form: once a sale with the form's key is in
\* the database, no request is still inside the payment function with that key.
ClicJamaisRejoue ==
  \A w \in Travailleurs :
    cle[w] \in ClesDeCaisse => ~ CleEnBase(cle[w])

\* Whatever Stripe says afterwards and in whatever order: a settled sale is never
\* modified, a cancelled one never comes back.
VentesDefinitives ==
  [][\A v \in Ventes : ventes[v].statut \in {"REGLEE", "ANNULEE"}
                          => ventes'[v] = ventes[v]]_ventes

\* The committed settled sales, as the register the accounts read.
Registre ==
  [n \in 1 .. PlusGrandNumero(ventes) |->
     LET v == CHOOSE v \in Reglees(ventes) : ventes[v].numero = n
     IN  [vente |-> v, contenu |-> ventes[v].contenu]]
Comptes == INSTANCE RegistreDesVentes WITH registre <- Registre,
                                           Contenus <- Contenu

\* Every step of the engine leaves the register as it is or writes one balanced
\* sale at its end.
RegistreEnAjoutSeul == Comptes!Spec

\* A request that has opened its transaction ends it, with no help from a crash:
\* the locks of the engine never make two requests wait for each other.
RequetesTerminees ==
  \A w \in Travailleurs :
    phase[w] \notin {"repos", "cleLibre"} ~> phase[w] = "repos"
=============================================================================
