------------------------------ MODULE GrandLivre ------------------------------
(* What the engine of the tokens promises: a ledger.  Each operation writes its *)
(* rows in one go, the balances move by exactly these rows, and no balance      *)
(* goes below zero.  Portefeuille shows that fedow_core/services.py keeps this  *)
(* promise with row locks and interleaved transactions.                         *)
EXTENDS Naturals, Functions

CONSTANTS
  Portefeuilles,   \* the wallets: persons, cards, the venue
  Monnaies,        \* the assets
  SoldeInitial,    \* the balance of each token when the story begins
  SansDebit,       \* the actions that do not debit their sender
  SansCredit       \* the actions that do not credit their receiver

VARIABLES jeton, registre
vars == <<jeton, registre>>

\* The amounts of some rows, added up.
Total(lignes) == SumFunction([t \in lignes |-> t.montant])

\* TransactionService.creer: what one row adds to a token, and takes from it.
Credits(lignes, w, m) ==
  Total({t \in lignes : t.vers = w /\ t.monnaie = m /\ t.action \notin SansCredit})

Debits(lignes, w, m) ==
  Total({t \in lignes : t.de = w /\ t.monnaie = m /\ t.action \notin SansDebit})

Init == jeton = SoldeInitial /\ registre = {}

\* One operation passes: new rows, all of one request that had written nothing.
Passer ==
  /\ registre \subseteq registre' /\ registre' # registre
  /\ LET lignes == registre' \ registre IN
     /\ \A t \in lignes, u \in registre' :
          (t.requete = u.requete) <=> (u \in lignes)
     /\ \A w \in Portefeuilles, m \in Monnaies :
          /\ jeton[<<w, m>>] + Credits(lignes, w, m) >= Debits(lignes, w, m)
          /\ jeton'[<<w, m>>] =
               (jeton[<<w, m>>] + Credits(lignes, w, m)) - Debits(lignes, w, m)

Spec == Init /\ [][Passer]_vars
=============================================================================
