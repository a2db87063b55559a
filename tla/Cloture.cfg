SPECIFICATION Spec
CONSTANTS
  v1 = v1
  v2 = v2
  x1 = x1
  Ventes = {v1, v2, x1}
  Virements = {x1}
  DateVirement <- MCDateVirement
  Taches = {t1}
  Demandes = {d1}
  Seuils <- MCSeuils
  Periodes <- MCPeriodes
  Plafond = 1
  MaxHeure = 3
  Aucun = Aucun
SYMMETRY Symetrie
INVARIANTS
  TypeOK
  ChaqueVenteDansUneJ
  RapportDefinitif
  JourneesContinues
  PerpetuelJuste
  PeriodeClotureeUneFois
