SPECIFICATION SpecEquitable
CONSTANTS
  v1 = v1
  v2 = v2
  w1 = w1
  w2 = w2
  k1 = k1
  t1 = t1
  Ventes = {v1, v2}
  Travailleurs = {w1, w2}
  ClesDeCaisse = {k1}
  ClesDeVirement = {t1}
  Aucun = Aucun
  NaturesOuvertes <- MCNatures
  Montants <- MCUnMontant
  MaxLignes = 1
  Plafond = 1
INVARIANTS
  TypeOK
  NumerosSansTrou
  ChaineSaine
  UneVenteParCle
  ClicJamaisRejoue
PROPERTIES
  VentesDefinitives
  RegistreEnAjoutSeul
  RequetesTerminees
CHECK_DEADLOCK FALSE
