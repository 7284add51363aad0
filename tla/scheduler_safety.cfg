SPECIFICATION Spec
CONSTANTS
  Uam = {a, x, o}
  Jamsil = {a, o}
  Leftover = {o}
  NoUam = none
  Task = {t1, t2}
  MapBufferLimit = 1
  MaxCommands = 1
  MaxRejects = 1
  MaxResets = 1
  MaxRestarts = 1
SYMMETRY TaskSymmetry
INVARIANTS
  LandedIdsListed
  BufferExcludesLanded
  LeftoversGone
PROPERTIES
  LandedStaysOutOfQueue
