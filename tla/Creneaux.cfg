SPECIFICATION Spec
CONSTANTS
  b1 = b1
  b2 = b2
  b3 = b3
  s1 = s1
  s2 = s2
  p1 = p1
  p2 = p2
  Demandes = {b1, b2}
  Plages <- MCPlages
  Capacite = 1
  Sessions = {s1, s2}
  Processus = {p1, p2}
  MaxPannes = 1
  Aucun = Aucun
SYMMETRY Symetrie
INVARIANTS
  TypeOK
  PlaceJamaisDonneeDeuxFois
  UneSeuleAcceptation
  RefuseeSansVenteReglee
CHECK_DEADLOCK FALSE
