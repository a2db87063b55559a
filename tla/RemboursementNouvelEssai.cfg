SPECIFICATION Spec
CONSTANTS
  w1 = w1
  w2 = w2
  r1 = r1
  r2 = r2
  Aucun = Aucun
  Travailleurs = {w1, w2}
  Reservations = {r1, r2}
  NbLignes = 3
  Resa <- MCResa
  Tarif <- MCTarif
  Vendu <- MCVendu
  Prix <- MCPrix
  Encaissements <- MCEncaissements
  MaxDemandes = 3
  MaxPannes = 1
INVARIANT NouvelEssaiSansArgentDePlus
CHECK_DEADLOCK FALSE
