SPECIFICATION Spec
CONSTANTS
  Uam = {a, b}
  Jamsil = {a, b}
  Leftover = {}
  NoUam = none
  Task = {t1, t2, t3}
  MapBufferLimit = 1
  MaxCommands = 2
  MaxRejects = 0
  MaxResets = 0
  MaxRestarts = 1
SYMMETRY TaskSymmetry
INVARIANTS
  OneRegistration
PROPERTIES
  ImplementsLandingLog
