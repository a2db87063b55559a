SPECIFICATION Spec
CONSTANTS
  c1 = c1
  c2 = c2
  p1 = p1
  p2 = p2
  m1 = m1
  m2 = m2
  q1 = q1
  q2 = q2
  q3 = q3
  Cartes = {c1, c2}
  Personnes = {p1, p2}
  Lieu = Lieu
  Monnaies = {m1, m2}
  Cascade <- MCCascade
  Federee = m1
  MaxVies = 4
  Requetes = {q1, q2, q3}
  Prix = {1, 2}
  Recharges = {1}
  SoldeInitial <- MCSoldeInitial
  Aucun = Aucun
SYMMETRY Symetrie
INVARIANTS
  TypeOK
PROPERTIES
  LivreTenu
  TitulaireJamaisRemplace
  FusionEntiere
CHECK_DEADLOCK FALSE
