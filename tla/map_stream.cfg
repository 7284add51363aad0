SPECIFICATION Spec
CONSTANTS
  Uam = {a, b, c}
  Jamsil = {a, b}
  Limit = 2
  MaxAge = 3
  MaxStatus = 4
  MaxLandings = 2
  MaxResets = 1
SYMMETRY UamSymmetry
INVARIANTS
  MostRecent
PROPERTIES
  MapNeverGoesBack
  LandedLeaveMap
