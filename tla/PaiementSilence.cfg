SPECIFICATION SpecEquitable
CONSTANTS
  w1 = w1
  w2 = w2
  f1 = f1
  l1 = l1
  l2 = l2
  Aucun = Aucun
  Travailleurs = {w1}
  Facteurs = {f1}
  Lignes = {l1}
  MaxCourriels = 1
  MaxRejeux = 1
  MaxPannes = 1
PROPERTY
  RienGardeEnSilence
CHECK_DEADLOCK FALSE
