------------------------- MODULE RegistreDesVentes -------------------------
(***************************************************************************)
(* What the sale engine of a venue promises to the accounts: one register  *)
(* in which every settled sale is written once, whole, after the previous  *)
(* one.  An entry is never moved, changed or removed.  The rank of an      *)
(* entry is the number of the sale.                                        *)
(***************************************************************************)
EXTENDS Integers, Sequences

CONSTANTS Ventes,     \* the sales of the venue
          Contenus    \* the items and payments a settled sale can hold

VARIABLE registre     \* the entries, in the order of their numbers

\* Money received equals goods: with the offered part, and without it
\* (the two equalities of services_vente.encaisser_vente).
Equilibre(c) == c.regle = c.catalogue /\ c.regleHorsOffert = c.net

Inscrites == {registre[n].vente : n \in DOMAIN registre}

Init == registre = <<>>

\* One entry is added at the end, of a sale not yet entered, and balanced.
Inscrire(e) ==
  /\ e.vente \in Ventes \ Inscrites
  /\ e.contenu \in Contenus
  /\ Equilibre(e.contenu)

Next ==
  /\ registre' # <<>>
  /\ LET e == registre'[Len(registre')]
     IN  /\ registre' = Append(registre, e)
         /\ Inscrire(e)

Spec == Init /\ [][Next]_registre
=============================================================================
