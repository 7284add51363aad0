SPECIFICATION Spec
CONSTANTS
  Uam = {a}
  Jamsil = {a}
  Leftover = {}
  NoUam = none
  Task = {t1, t2}
  MapBufferLimit = 1
  MaxCommands = 2
  MaxRejects = 0
  MaxResets = 0
  MaxRestarts = 0
INVARIANTS
  LandedNotQueued
