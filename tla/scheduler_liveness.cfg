SPECIFICATION FairSpec
CONSTANTS
  Uam = {a}
  Jamsil = {a}
  Leftover = {}
  NoUam = none
  Task = {t1, t2}
  MapBufferLimit = 1
  MaxCommands = 1
  MaxRejects = 1
  MaxResets = 1
  MaxRestarts = 1
PROPERTIES
  ResetUnblocks
  ApprovedIsRegistered
  RegisteredIsListed
