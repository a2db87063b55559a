# Formal models of Lespass

Lespass (TiBillet) is a multi-tenant ticketing, membership, point-of-sale and cashless platform:
Django 4.2 on PostgreSQL (one schema per venue), Celery workers over Redis, Stripe for online
payments. This directory holds TLA+ models of the parts where its correctness depends on the order
in which processes, transactions, messages and failures come, the TLC runs that check them on small
instances, and the TLAPS proofs that hold for every instance.

`PROJECT.json` is the index: components, runs, the source lines behind each definition (`map`), the
hazards of the code and the properties aimed at each, the mutants that show that a property can fail,
the findings and the theorems.

To check: `tlc -workers 2 -config Vente.cfg MCVente` (and likewise for the other runs of section 4);
to prove: `tlapm VenteProofs.tla`.

## 1. The system

What matters for all of it: `ATOMIC_REQUESTS` is off, so a view is atomic only where it opens
`transaction.atomic()`; the isolation level is READ COMMITTED, except the cart order and the booking
of a resource, which ask for SERIALIZABLE; Celery acknowledges a task before it runs it, so a
task whose process dies is lost; Stripe delivers an event until it is answered, possibly twice and
in any order; `pre_save` handlers run the status machine *before* the row that triggers it is written.

| Component | State | Operations | What is hard | What makes it correct | Module |
|---|---|---|---|---|---|
| **Sale engine** `BaseBillet/services_vente.py`, `models_vente.py`, `laboutik/integrity.py` | `Vente`, `LigneArticle`, `Reglement` rows; advisory and row locks; number and chained fingerprint of each settled sale | open (with or without an idempotency key), add an item or a payment, settle, settle from Stripe, cancel, audit of the chain | several connections settle at once; a keyed form is tapped twice; a Stripe transfer comes twice; a SERIALIZABLE snapshot is older than the lock | numbers without gap, chain unbroken, one sale per key, a settled sale never modified, both balances hold | `Vente`, `RegistreDesVentes`, `VenteProofs` |
| **Online payment** `BaseBillet/models.py`, `signals.py`, `triggers.py`, `tasks.py`, `ApiBillet/views.py` | Stripe session and events; `Paiement_stripe`, `Commande`, `LigneArticle`, `Reservation`, `Ticket`, `Vente` statuses; mail queue; objects in the memory of each process | webhook, return page, status machine, mailer, SEPA confirmation and refusal, cancellation | the same payment processed by the webhook and the browser; an expired session paid late; a death between two `save()` | nothing served without money, whoever paid is served, a refused debit cancels the sale or says that it could not | `PaiementEnLigne` |
| **Refunds and credit notes** `PaiementStripe/utils.py`, `BaseBillet/models.py`, `services_vente.py`, `views_scan.py` | quantities given back, negative payments, ticket and reservation statuses, Stripe refunds and their idempotency keys, row locks | cancel a ticket, cancel a reservation, credit note of a line or of the sale, scan | two cancellations and a credit note of the same line; a rollback after Stripe has given the money back; deadlock of row locks | never more than sold or collected; money that left is never out of reach | `Remboursement` |
| **Cart and orders** `services_panier.py`, `services_commande.py`, `validators.py` | session cart, `Commande`, reservations, promo codes | add, remove, materialise in one SERIALIZABLE transaction, free order, Stripe checkout | checks made when an item is added, order placed later | an order is whole or absent; a promo code is used at most its number of times | `PaiementEnLigne` (order status) |
| **Events, prices, gauges** `models.py`, `validators.py` | tickets by status, `jauge_max`, stock of a price, limit per person | count valid and pending tickets, validate a request | the count is read without a lock | places sold never exceed the gauge | not modelled |
| **Wallets and tokens** `fedow_core/services.py` | `Token(wallet, asset).value`, `Transaction` rows | credit, debit under lock, merge of an ephemeral wallet, cash refund of a card, bank transfer to a venue | balances read before the transaction, locks taken in any order, deadlocks | a balance is the sum of its transactions, never negative; a merge leaves nothing behind | `Portefeuille`, `GrandLivre`, `PortefeuilleProofs` |
| **Cashless cards** `QrcodeCashless`, `fedow_core/services.py` | user and ephemeral wallet of a card | scan, link to a user, declare lost, empty | a link races with another link, a top-up or a loss | one holder per card, no wallet left behind with money | `Portefeuille` |
| **Point of sale** `laboutik/views.py` | the cart of a register, payment cascade (tokens, card, cash), keyed form | pay, split, correct, empty a card | double tap, partial cashless failure | a form is never charged twice | `Vente` (key of the form) |
| **Closures** `comptabilite/tasks.py`, `integrite.py` | `ClotureCaisse` rows with number, range, report, perpetual totals | daily closure asked or automatic, week, month, year, catch-up of late transfers | sales settled while the report is computed; two closures at once | each settled sale belongs to exactly one daily closure, late transfers apart; reports stay true; perpetual totals are sums | `Cloture`, `ClotureProofs` |
| **Booking** `booking/booking_engine.py`, `models.py`, `views.py` | bookings of a resource's slots, their line, sale and Stripe session | request, open the payment, accept, refuse, withdraw, pay | two requests for the last place; objects read before a call to Stripe are saved after it | occupation never above capacity; a request accepted once; no settled sale for a refused request | `Creneaux`, `CreneauxProofs` |
| **Volunteering** `booking/benevolat.py` | registrations to missions | register, cancel | same counting | as above | not modelled |
| **Stock** `inventaire/services.py` | quantity, movements | decrement by a sale, receive, inventory | an absolute write computed from a stale read | quantity = sum of the movements | not modelled |
| **Connected taps** `controlvanne/viewsets.py`, `billing.py`, `Pi/` | loop of the Raspberry Pi; sessions of a tap, keg, bills | authorise, pour events, close and bill, orphan sessions | answers that come too late, events lost, repeated or overlapping, power cuts | a session is billed once, for at most what was served, and nothing answered is lost | `Tireuse`, `TireuseProofs` |
| **Memberships** `BaseBillet/models.py`, `triggers.py` | membership status, deadline, subscription | order, validate by an administrator, pay, renew, cancel | payment and validation cross | a paid membership is active | `PaiementEnLigne` (genre `adhesions`) |
| **Pairing** `discovery/views.py` | PIN, account and key of a terminal | create a PIN, claim | two claims of a PIN | one key per PIN | not modelled |
| **Accounts, codes** `AuthBillet/otp_session.py` | one-time code, attempts, expiry | send, verify | retry and expiry | an expired or exhausted code is refused | not modelled |
| **Kiosk** `kiosk/` | terminal payments, wallet credit | pay, poll, credit | poll races with the event | credited once | not modelled (its credit is a top-up of `Portefeuille`) |
| Recovery of old sales, remote Fedow client, crowdfunding, onboarding, administration, APIs, content and search, live messages | see `PROJECT.json` | | | | not modelled: one-shot migrations, clients of external systems, screens, pages |

How they interact. Every producer of money (register, cart, booking, kiosk, administration) calls the
sale engine inside its own transaction; the engine serialises settlements with one advisory lock per
venue. An online order opens a pending sale and a Stripe session, and is settled later by the status
machine, in another process. Refunds write a credit-note *sale*, numbered by the same engine. Closures
read the settled sales under the engine's lock. Tickets, memberships and bookings change status only
through the machine or through a cancellation.

## 2. Plan

Done, in order of importance:

1. `RegistreDesVentes` (abstract: an append-only register) and `Vente`, which refines it;
   `VenteProofs`, refinement included.
2. `PaiementEnLigne`: what happens between the checkout and the tickets; `PaiementEnLigneProofs`.
3. `Remboursement`: the way back of the money; `RemboursementProofs`, all its properties.
4. `Cloture`: the three-step closures over the dated register of the sales; `ClotureProofs`, all its
   properties.
5. `GrandLivre` (abstract: a ledger) and `Portefeuille`, which refines it; `PortefeuilleProofs`,
   refinement included.
6. `Creneaux`: the booking of resources; `CreneauxProofs`, all its properties.
7. `Tireuse`: the connected tap, Raspberry Pi and server; `TireuseProofs`, all its properties.
8. `Sommes`: the lemmas on sums that the proofs about money and volumes rest on.

The modules meet through what each assumes of another: `Cloture` takes from `Vente` that a sale gets
its hour and number under the lock of the venue; `Portefeuille`, `Creneaux`, `Remboursement` and
`Tireuse` leave the settlement of their sales to `Vente`; the cancellation of `PaiementEnLigne` is one
step, detailed in `Remboursement`.

Left: gauges and the cart (count, then insert, under two isolation levels), the stock (an absolute
write from a stale read), pairing and codes.

## 3. The modules and the code

French names are the code's own (`encaisser_vente`, `annuler_vente`, `reglement`, ...).

### `RegistreDesVentes` — what the engine promises
The register of a venue is a sequence; a step appends one balanced sale not yet entered, nothing else.

### `Vente` — the sale engine
*State.* `ventes`: the committed rows. Each worker has at most one transaction: `phase`, its sale
`cible`, its uncommitted row `vue`, `serialisable` and the snapshot `instantane`, the key it found free
`cle`, the Stripe amount `montant`. Locks: `verrouLieu` (advisory lock of the venue), `verrouVente`
(`select_for_update`), `verrouCle` (session lock on a form's key, `laboutik/views.py`).

*Actions.* `Cliquer`, `RecevoirUnVirement`: a keyed request looks its key up (with, then without a
lock). `OuvrirVente`, `OuvrirVenteAvecCle`, `CleDejaPrise`: `ouvrir_vente`. `AjouterArticle`,
`AjouterReglement`: the two services that fill a sale. `VerrouillerLeLieu`, `Encaisser`,
`NumeroDejaPris`, `Refuser`: `encaisser_vente`. `ConstaterPaye`, `EncaisserStripe`:
`encaisser_vente_stripe`. `AnnulerVente`, `AnnulerCommandeVide`: `annuler_vente` and its callers.
`Valider`, `Abandonner`: commit and rollback (error, serialization failure or death).

*Abstractions.* A sale's content is reduced to the sums the two equalities compare and its number of
items. A fingerprint is an ideal chained hash: the sequence of all messages digested. VAT, offered
and token parts are inputs. The audit `verifier_chaine_ventes` is `ChaineSaine`, anomaly by anomaly.

*A remark.* In a SERIALIZABLE transaction (the free cart order) the greatest number is read in a
snapshot older than the lock of the venue, so the lock alone does not make it fresh; the unique
constraint on the number, and the rollback that follows, save the numbering. The model includes both
(`NumeroDejaPris`).

### `PaiementEnLigne` — one Stripe payment
*State.* Stripe's side (`session`, `expiree`, `evenements`), the rows (`paiement`, `commande`, `ligne`,
`reservation`, `billets`, `avoir`, `vente`), the mail queue, and `travail`: where each process is and the
Django objects it holds, which are written back whole.

*Actions.* `Recevoir`, `Interroger`, `Declarer`, `EcrirePaiement`: `update_checkout_status` around the
`pre_save` machine; `Declencher`, `EcrireLigne`, `ActiverBillets`, `EcrireReservation`, `Encaisser`:
`set_ligne_article_paid` with what its nested saves trigger; `Annuler`: PENDING → CANCELED;
`RefuserLignes`, `RefuserPaiement`, `RefuserVente`: `async_payment_failed`; `ChargerCourrier`, `Envoyer`:
`ticket_celery_mailer`; `AnnulerReservation`: `cancel_and_refund_resa`; `Interrompre`: death or exception;
`Payer`, `Attacher`, `Confirmer`, `Expirer`: Stripe and the buyer.

*Failures that the code swallows.* A settlement or a cancellation of the sale that fails is caught and
logged, and the event is answered all the same (`signals.py:135-147`, `ApiBillet/views.py:1309-1322`): the
sale stays pending with nothing to try it again. `Encaisser` and `AnnulerLaVente` have this outcome at every
call; `laissee` (history) remembers that a cancellation was left so, and `RefusAnnuleLaVente` says exactly
what remains: the items are FAILED, and the sale is cancelled or its cancellation was tried and logged.
A membership that renews may be paid before Stripe has attached its subscription (`sansAbonnement`,
`Attacher`): the payment then stays PENDING (`StatutImpaye`), and the event is assumed to come after the
attachment, as `update_checkout_status` does.

*Abstractions.* One payment, one reservation at most; the trigger of an item's category ends PAID or
VALID; tickets are activated in one step; the cancellation is one step with a full refund (its detail
is `Remboursement`); UNPAID also stands for CREATED in a cart. Subscription invoices, top-ups,
crowdfunding, manual SEPA marking of the method and scanning are left out.

### `Remboursement` — the way back
*State.* The payment (`encaisse`, `statut`), `rendu` per line, the negative `reglements` linked to it,
`remboursements` on Stripe's side by idempotency key, `billets`, `reservations`; `travail`: request, step,
locks held, refund obtained.

*Actions.* `Demander`, `DemanderAvoir`, `DemanderAvoirTotal`: a request starts. `AnnulerBillet`,
`AnnulerReservation`: the locked re-read of `cancel_and_refund_ticket` / `_resa`. `VerrouillerPaiement`,
`VerrouillerLigne`, `AppelerStripe`, `Rembourser`: `partial_refund_payment` and what its callers write
after it. `VerrouillerLieu`: the number of the credit-note sale. `EcrireAvoir`:
`ecrire_la_vente_d_avoir_d_une_ligne` / `_d_une_vente`. `Interrompre`, `Debloquer`: a transaction is cut, or
chosen by PostgreSQL's deadlock detector. `LireBillet`, `ScannerBillet`: `views_scan`, read then write.

*Sold prices.* A ticket knows its `PriceSold`, not its line, and a cart may hold several lines of the same
one (two tickets at a free price, same amount). `Semblables` are these lines. The cancellation of a ticket
takes the oldest one with something left (`LigneDuBillet`), that of a reservation spreads the active tickets
over them, the newest first, each up to what it has left (`QuantitesARendre`). So `BilletsAnnulesRendus`
compares the tickets cancelled with the units given back per sold price, not per line. One sold price is
of one reservation (`VenteHypothese`): a cart makes one reservation per event.

*Abstractions.* One settled sale paid by one Stripe payment, a unit price per line of one cent at
least; no offered or token part, no weighed item, no line paid outside Stripe, no booking, no refund
deadline; the cap and the key are read in the same step as the call. Refunds cannot write in between
(the payment is locked); a credit note can, but it exists only for a sale collected in full, where the
cap never binds, and one that commits after the key is read is the same as one that commits after the
call. Stripe's 24-hour memory of keys is endless.

*A remark.* `LireBillet` and `ScannerBillet` show that a ticket cancelled and given back is scanned and
becomes SCANNED, that is valid, again: `views_scan.py` refuses a ticket already SCANNED only. No
property of a passing run says the contrary, since the code allows it.

### `Cloture` — the closures of a venue
*State.* The clock `heure`, the settled sales in the order of their numbers (`registre`), the `date` of
each, the lock of the sales (`verrou`), the closures `journees` (J) and `calendaires` (H, M, A), and `appel`:
what each process that closes has fixed or read. `rattrapage`, `antidatees`: the catch-up command; `connues`
(history): how many closures it had read when it took up each transfer.

*Actions.* `Encaisser`, `Valider`, `Annuler`: the settlement (detail in `Vente`). `FixerLaFin` (till, command),
`LireLeSeuil`, `FixerLeFilet` (hourly task): the range, under the lock of the sales. `LireRapport`: without a
lock. `EnregistrerJ`: gives up if a J was made meanwhile (`AutreJCreee`). `LireLesPeriodes`,
`PeriodeSuivante`, `FinDuNiveau`, `PasserLaBarriere`, `EnregistrerPeriode`: the week, month and year
closures of one hourly run; `DemanderPeriode`: the command. `LireLesVirements`, `EncaisserVirement`,
`FinDuRattrapage`: the catch-up. `Interrompre`: a death anywhere.

*Abstractions.* A report is the set of sales it counts, a total is its number of sales; the sale's rank in
`registre` is its number; periods are given intervals; the clock never goes back. The J of the switch
night, the fingerprint of a closure, mails and exports are left out.

*Remarks.* The command reads the end of the last closure once: a J made meanwhile leaves a late sale
dated inside a closed range and outside every J, and a late sale dated earlier breaks the continuity of
the numbers. The properties say exactly how far this goes. A recorded report never counts a sale that is
not, or ceases to be, of its range, and what it lacks are transfers the catch-up dated against the closures
recorded before it (`RapportDefinitif`); a sale out of every J is such a transfer, and a J was recorded after
the command had read the last one (`ChaqueVenteDansUneJ`); `JourneesContinues` excepts `antidatees`.
A period closed by `generer_cloture` between the threshold and
the hourly net carries a perpetual total without the last evening's J, and asking for a later period
makes the hourly task skip the earlier ones. The model produces all of these.

### `GrandLivre` — what the token engine promises
The balances move by exactly the rows that an operation writes, in one go, and never go below zero.

### `Portefeuille` — wallets, tokens and cards
*State.* The rows `carte`, `jeton`, `registre` (of `Transaction`); `etat`: each request's step, its plan of
movements, the rows it holds, what it wrote and nobody sees yet.

*Actions.* `Vendre`, `Recharger`, `Vider`, `Virer`: a request reads without a lock and plans. `Debiter`,
`Crediter`, `EcrireSansMouvement`: `TransactionService.creer`, movement by movement. `Scanner`, `Rattacher`:
`obtenir_wallet_carte_depuis_fedow` before and after its call. `VerrouillerLaCarte`, `VerrouillerUnJeton`,
`Fusionner`: `lier_a_user` and `fusionner_wallet_ephemere`. `DeclarerPerdue`, `Detacher`. `Valider`, `Avorter`:
commit; victim of a deadlock. Foreign keys to a card are deferred: a commit waits for the card that a
link holds, which is why `FusionEntiere` holds.

*Remarks.* Bank transfers may exceed the debt (`Virer` checks it under no lock, although the comment of
`fedow_core/services.py:1114` calls it a race guard; the repository's own audit says so too). Not covered by a
property: a top-up on a wallet resolved before the link, the unlocked check of one card per user, the
stale reset by `declarer_perdue` and by a refund. Not modelled: payments with two cards, the debit on
the remote ledger, the error `WalletUserAbsent`.

### `Creneaux` — the booking of a resource
*State.* `booking`: the row, its line and its sale; `verrou`: who holds the row; `session`: at Stripe and in the
database; `processus`: each request's step and the copy of the booking it works on; `lachees` (history): the
bookings that have ceased to hold their slots.

*Actions.* `LireLesCreneaux`, `CreerLeBooking`, `CreneauPris`: `validate_new_booking`, SERIALIZABLE.
`ConfirmerGratuit`, `EncaisserGratuit`; `Pay`, `OuvrirSession`, `EnregistrerLeBooking`: the payment.
`AccepterVerrouiller`, `Accepter`, `RefuserVerrouiller`: the administrator; `Retirer`: the person.
`FermerLesSessions`, `AnnulerLaDemande`, `AnnulerEtRembourser`. `ConstaterPaye`, `Declencher` (trigger_C),
`ValiderLaLigne`, `ReglerLaVente`: the payment arrives. `Payer`, `RetenueEchue`, `SessionEchue`, `Interrompre`.

*Abstractions.* A request is a set of slots; prices, opening hours, mails, the path through the cart and
the edition of a status by hand are left out; a lock cycle appears only as `Interrompre`.

*Remarks.* A session expires 31 minutes after its own creation, the hold 30 minutes after the booking:
a late payment may overbook (`lachees` excepts such a booking). A line CANCELED that becomes PAID has no
transition, so trigger_C and its alert do not run: only the refusal of `encaisser_vente_stripe` is logged.
Two clicks on "pay" can make two payable sessions.

### `Tireuse` — the connected tap
*State.* `pi`: the step of the Raspberry Pi, its card, the answer it waits for; `tirages`: what each pour has
poured and whether its end was answered; `sessions` (`RfidSession`), `requetes` on their way or read,
`reservoir`, `clotures`: the closings and their bills.

*Actions.* `Badger`, `ChangerDeCarte`, `BadgerLaSuivante`, `Verser`, `Suivre`, `RetirerCarte`: the loop of
`tibeer_controller.py`; `Expirer`: a timeout (2 s, 1 s or 3 s), never retried, except that an unanswered end of
a full glass stops the program, whose cleanup sends it again; `Coupure`. On the server `Lire` (before any
lock), `Actualiser` (pour_update), `Fermer` with `Cloturer` (one transaction: row lock, read again, keg, bill),
`Refuser`, `Autoriser`, `Echouer`.

*Abstractions.* Volumes are units; the refusals and the volume that a balance allows are free choices;
`soldee` FALSE is a bill without an effect (balance fallen, no currency, no keg). pour_start, screens, ping,
calibration and throttling are left out, and so are the writes of the administration on the row of the tap:
a new keg, which starts `reservoir_ml` again from the stock (`signals.py:182-206`), and the forms, which
save the whole row with the `reservoir_ml` they have read, over a closing that came in between. The keg of
`ToutEstCompte` is one that nobody changes or edits meanwhile.

*Remarks.* An event names a card, not the session that the Pi knows. `croisee` marks a session created
while another event of its card or another authorisation was on its way, or whose authorisation nobody
awaited any more; `FactureFidele`, `ToutEstCompte` and `UneSeuleOuverte` except these. For them the model
produces what the comment of `viewsets.py:287-297` means to exclude: after a power cut and a new badge,
two authorisations make two open sessions of one card, and an end sent twice closes and bills both; the
delayed end of an earlier session closes the new one. An end lost, or overtaken by card_removed(0),
closes its session at 0, unbilled although `dernier_volume_ml` is known (`rendu` excepts it); a late
pour_update overwrites the volume of a closed session.

## 4. The runs

| Run | Instance | What it shows |
|---|---|---|
| `Vente` | 2 workers, 2 sales, 1 form key, 1 transfer key, natures VENTE and CORRECTION, amounts {0,1}, fair | numbers, chain, keys, finality, the refinement of `RegistreDesVentes`, and that every opened transaction ends |
| `PaiementConcurrent` | 2 web processes, 1 mailer, 2 items, 1 replay, 1 death | nothing without money; a payment still collectable keeps its sale |
| `PaiementServi` | 1 web process, 1 mailer, 2 items, 1 replay, 1 death, fair | whoever paid is served; a refused debit fails the items and cancels the sale, or logs that it could not |
| `PaiementRejouable` | 1 item, no death | *violation*: finding 1 |
| `PaiementSilence` | 1 item, 1 death, fair | *violation*: finding 2 |
| `RemboursementConcurrent` | 2 processes, 3 requests, 2 reservations, lines of 2, 1, 1 tickets, the first two of one sold price, at 1, 1, 2 cents, 4 or 5 cents collected, 1 cut | quantities, money, keys, tickets, deadlocks |
| `RemboursementNouvelEssai` | same | *violation*: finding 3 |
| `Cloture` | 2 sales and 1 late transfer, 1 hourly task, 1 demand, 2 weeks and their month, 3 hours | partition, final reports, continuity, perpetual totals, one closure per period |
| `Portefeuille` | 3 requests of any kind, 2 cards, 2 persons, 2 assets, prices 1 and 2 | the refinement of `GrandLivre`, the holder of a card, the merge |
| `Creneaux` | 2 requests of one or two slots, capacity 1, 2 Stripe sessions, 2 processes, 1 death | capacity, single acceptance, refused and not settled |
| `CreneauxReactivation` | 1 request, 1 session, 2 processes, no death | *violation*: finding 4 |
| `Tireuse` | a paying and a rinsing card, 3 requests on their way at once, 2 badges, pours of at most 2, 1 allowed, a keg of 2 | closed and billed once, for what was poured, all of what was answered |

*Why these bounds.* Two workers are enough for every pairwise race, since a third would wait on the
same lock; in `Vente` one sale is settled between the read and the write of the other's number, and the
third that would follow is covered by the proofs. Two items make "the last item validates the payment"
different from "an item is paid"; one death and one replay may fall at any step. Three requests on three
lines let a refund fail after Stripe, a credit note slip in, and a retry come; two reservations share one
payment; 4 cents for items worth 5 is a payment with a collection gap. In `Cloture` two periods under a
third make the hourly task go through levels, a plafond of 1 makes it stop, and three hours hold a
sale before, in and after each range. In `Portefeuille` two assets make the cascade split and locks cycle;
a third request is the one that slips in between two. In `Creneaux` two requests already contend for a
capacity of 1, and the second session is the one opened after a refusal read too early. In `Tireuse` two
badges make a session left open and its successor, and three requests two late ones beside the awaited
one; a pour of 2 exceeds the volume allowed, and empties the keg. Bounds are constants named in the
modules (`MaxLignes`, `Plafond`, `MaxCourriels`, `MaxRejeux`, `MaxPannes`, `MaxDemandes`, `MaxHeure`,
`MaxVies`, `MaxVolume`, `MaxBadges`). Symmetry is used for safety runs only. `CHECK_DEADLOCK FALSE` is set
where the story may end (every sale settled, every request used up); `Cloture` and `Creneaux` never stop,
and their runs check it.

*Fairness.* `Vente`: strong fairness of each worker's progress (PostgreSQL serves a lock queue in
order, and a lock may be taken and released many times meanwhile); nothing forces a failure or an
event. `PaiementEnLigne`: a process goes on (strong, because the bounded mail queue can disable a step
now and then), the mailer serves its queue (weak), Stripe redelivers until it is answered (strong: a
process must be free). No fairness on the buyer, on deaths or on the cancellation. The other modules
state safety only: a tap whose network is down, a hold nobody pays or a till that never closes are
behaviours the code accepts.

## 5. Findings

1. `RejouableJusquAuBout` — the payment is saved VALID from within the trigger of its last item, before
   the reservation and the sale; a failure there is never replayed, contrary to the comment in
   `signals.py`. `LePayeEstServi` therefore excepts that window (`perdu`).
2. `RienGardeEnSilence` — a reservation paid whose tickets are not active yet is cancelled with no refund
   and no refusal.
3. `NouvelEssaiSansArgentDePlus` — an administrator's credit note counts in the idempotency key; after a
   refund whose transaction failed, it changes the key of the retry, and Stripe gives the money back twice.
   `ArgentRetrouve` states what remains true.
4. `AnnuleeJamaisReactivee` — a Booking read before a call to Stripe is saved whole after it, over a
   refusal or a withdrawal; trigger_C's save does the same after waiting for the row of a refusal. The
   comment of trigger_C says a cancelled booking is never reactivated. `RefuseeSansVenteReglee` states
   what remains true.

## 6. The proofs

`VenteProofs` proves, for any finite or infinite sets of sales, workers and keys and any amounts:

- `TypeCorrect`: `Spec => []TypeOK`;
- `NumerotationSansTrou`: `Spec => []NumerosSansTrou`;
- `AuditSansAnomalie`: `Spec => []ChaineSaine`;
- `Definitives`: `Spec => VentesDefinitives`;
- `CleUnique`: `Spec => []UneVenteParCle`; `DoubleClicSansEffet`: `Spec => []ClicJamaisRejoue`;
- `Implementation`: `Spec => RegistreEnAjoutSeul`, the refinement of `RegistreDesVentes`.

Assumptions: those of `Vente` (`AucunHypothese`, `MontantsHypothese`, `NaturesHypothese`,
`ClesHypothese`), evaluated by TLC on each run.

The inductive invariant `Inv` is needed because none of these properties is inductive alone:

- `InvRegistre`: the numbers of the settled sales are `1..n`, each number once, and each settled sale
  carries the fingerprint of its predecessor and its own;
- `InvCible`: a transaction that fills or settles its own new sale is alone on it;
- `InvVerrous`: who is settling holds the venue lock until its end;
- `InvSerie`: a snapshot is itself a well-numbered register, and no settled sale of it has changed;
- `InvEcrite`: a row written and not committed is one the register accepts next.

The delicate case is `Encaisser` in a SERIALIZABLE transaction: `InstantaneAJour` shows that if the
number read in the snapshot is unused then the snapshot holds *all* the settled sales, so the previous
fingerprint it reads is the right one. The proof has one lemma per action (`OuvrirInv`, `RemplirInv`,
`EncaisserInv`, ...), gathered in the induction.

The keys have an invariant of their own, `InvCles`: a key about to be written is in no row, was brought by
its own request and is written by no other worker; the key of a form is locked by its request; online
sales have none. For the refinement, a step settles at most one sale, with the next number
(`UneAuPlus`), so the abstract register is kept or extended by one balanced entry.

`RemboursementProofs` proves, for any sale (lines, quantities, prices, reservations), any amount
collected, any number of processes, requests and failures:

- `QuantitesJustes`: `Spec => []JamaisPlusQueVendu`;
- `ReglementsJustes`: `Spec => []ReglementsConformes`;
- `ArgentToujoursRetrouve`: `Spec => []ArgentRetrouve`;
- `ArgentHorsDesInterblocages`: `Spec => []ArgentJamaisInterbloque`;
- `ArgentJuste`: `Spec => []JamaisPlusQuEncaisse`; `ToutEstRendu`: `Spec => []RembourseEstToutRendu`;
- `BilletsRendus`: `Spec => []BilletsAnnulesRendus`; `Types`: `Spec => []TypeOK`.

Assumption: `VenteHypothese`, evaluated by TLC. Its inductive invariant, whose parts each need the others:

- `InvEtapes`: where a process is tells which request it runs and which rows it holds; a key is held
  only under the lock of the payment, the venue's row only at the last step;
- `InvVerrous`: a row is locked by one transaction at most;
- `InvQuantites`: what a process is about to give back of a line it has locked is still there to be
  given back (the quantity checked under the lock stays true as long as the lock is held);
- `InvCles`: a row's key is below its position, a key held is the last one that Stripe knows and no row
  has it yet;
- `InvArgent`: `Balance`, the rows written are worth min(net of what was given back, money collected),
  and a payment shown REFUNDED has given back all its units;
- `InvTravaux`: a refund about to be written is worth its items up to what Stripe still holds, under the
  lock of the payment (`Soldee`), and gives back the tickets that it is about to cancel (`Couverte`);
- `InvBillets`: no more tickets of a sold price are cancelled than units of it given back.

`BilletsDuTarifFinis` and `AssezDeBillets` are the lemmas on sold prices: there are as many tickets of one as
units sold on its lines, and so, by the invariant, enough active ones for a cancelled reservation to give
back all that its lines have left, in whatever order they are served.

The delicate case is the commit (`EcritureInv`, shared by refunds and credit notes): the lines it gives back
are locked, so what the others have secured does not move; and the row it appends either takes the
last key or, from a credit note, leaves a row without a key exactly where `ArgentRetrouve` allows it.
`Balance` is what makes the amounts inductive: `JamaisPlusQuEncaisse` alone does not say that a refund
computed under the lock of the payment is still right at the commit. Every refund and every credit note moves
both sides by the same sum, and a refund is cut at what is left; so a full refund, whatever its order with
partial ones, ends at the price of the items or at the money collected.

`PaiementEnLigneProofs`, for any number of processes, items, mails, replays and deaths (assumption
`AucunHypothese`): `TypeCorrect`, `JamaisSansArgent` (`RienSansArgent`), `TardifEncaissable`
(`PaiementTardifEncaissable`). What makes `IInv` inductive is what a process may *hold*: an object that
Stripe's answer made PAID exists only once the session is paid, one that it made CANCELED only if
nothing was owed, a refusal only if the debit was refused; and a session never leaves one of these ends.

`ClotureProofs`, for any number of sales, processes, thresholds and periods (assumption
`ClotureHypothese`), proves every property of the run: `TypeCorrect`, `Partition`, `RapportsDefinitifs`,
`Continuite`, `PerpetuelsJustes`, `PeriodesUniques`. `IInv` says, besides the types, that dates follow numbers
(`DansLOrdre`, late transfers apart), that the end of each closure is past and its report complete
(`CloturesBonnes`; `Connus`: what the catch-up had read is not more than what is recorded), that a range and a report in progress are as right as their step requires (`AppelsBons`),
and that the totals are the sums they claim (`TotauxBons`). One lemma, `Evolution`, says once what any step
may do to the sales. Least and greatest sales of a range come from the library's well-founded minimum.

`PortefeuilleProofs`, for any number of cards, persons, assets and requests (`MontantsEntiers`,
`MonnaiesConnues`, `PortefeuillesDistincts`): `TypeCorrect` (no balance below zero), `TitulaireGarde`,
`FusionComplete`. The argument: every row written on a card's wallet is for that card, and a link holds
the card to its commit, so the balances it has read do not move under it.

`LivreRespecte` (`Spec => LivreTenu`) is the refinement of `GrandLivre`. Its invariant, `Comptes`, gives each
transaction an account: its value of a token it has written is the committed value, plus and minus its
rows, less what the movement being played has debited and not yet credited (`Suivie`); every token it has
written is one it has locked, so no other commit moves the committed value under it; and the rows of the
register are of requests that are over, so that an operation appears once and whole. A commit is then one
`Passer`, every other step a stutter (`SeulLeCommit`). `SoldesJustes` follows: at any moment each balance is
the initial one plus and minus the rows of the register (`SoldesExpliques`).

`CreneauxProofs`, for any number of bookings, slots, sessions and processes and any capacity
(`CapaciteHypothese`, `DemandesHypothese`: finitely many bookings, `AucunHypothese`), proves every property
of the run: `TypeCorrect`, `CapaciteRespectee`, `AccepteeUneFois`, `RefuseeNonReglee`. For the capacity:
among the bookings a request has read, those holding a slot it wants only become fewer, and
serialisation refuses the request when an unread booking overlaps it.

`TireuseProofs`, for any number of cards, requests, volumes and badges (`VolumesHypothese`,
`CartesHypothese`, `AucunHypothese`): `TypeCorrect` (the keg never below zero), `ClotureUnique`, `FactureJuste`,
`SessionSeule`. `IInv` follows a volume from the flow meter to the bill: on its way, read, saved or billed
for a session not crossed, it is at most what its pour has poured (`Justes`), which only grows. That holds
because the Pi, while it pours, is alone on its session (`Courant`): the authorisation it got had read
every open session, or was on its way when the missing one was created (`Vues`). `CompteJuste`
(`Spec => []ToutEstCompte`) needs more. `Jauge`: the keg is what it held less the sum of the closings, or
empty. `FacturesExactes`: an effective bill is the volume up to what was allowed. `FinInv`: an end on its
way is that of the pour in progress, carries its volume and reads its session, so the answer that
marks a pour `rendu` comes from a closing at that volume.

`Sommes` holds what these proofs need of a sum: its value on a set with one element more, one less, one term
changed, on two disjoint sets, of two functions; that it is natural, monotone, and 0 only for zeros. The
library has no such lemma, and its induction theorems take an operator, which no prover here can instantiate.
The induction is therefore stated on sets: `Naturels` (a set of naturals with 0 and closed by successor is
all of them) comes from the well-founded minimum of the library, `Retraits` (a set of subsets of a finite
set, with the empty one, closed by adding an element) from it; and `Calculable` shows that the recursive
function a sum is the CHOOSE of does exist. The models write their sums with `SumFunction`, on which these
lemmas apply.

## 7. Model-checked only, and not modelled

Every invariant, action property and refinement that the passing runs check is proved. Only model-checked:
all liveness (`RequetesTerminees`, `LePayeEstServi`, `RefusAnnuleLaVente`), because fairness speaks of
ENABLED, for which the prover has no backend here. The violations of section 5 are TLC's counterexamples.

Not modelled: the components marked so in `PROJECT.json`, each with its reason. Gauges, the stock and
the cart have hazards of their own that no module covers yet. The liveness of the hourly net of the
closures is not checked (its instance with fairness is beyond TLC's reach). The amounts of an item
(VAT rounding, offered and token shares) are pure computations over a row; the content of mails,
screens, exports and pages carries no state whose order matters.
