SPECIFICATION Spec
CONSTANTS
  c1 = c1
  c2 = c2
  q1 = q1
  q2 = q2
  q3 = q3
  Aucun = Aucun
  Cartes = {c1, c2}
  CartesDeRincage = {c2}
  Requetes = {q1, q2, q3}
  Autorises = {1}
  Fut = 2
  MaxVolume = 2
  MaxBadges = 2
INVARIANTS TypeOK FermeeUneFois FactureFidele ToutEstCompte UneSeuleOuverte
SYMMETRY Permutables
CHECK_DEADLOCK FALSE
