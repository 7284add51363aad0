SPECIFICATION SystemSpec
CONSTANTS
  FleetSize = 1
  IdSpace = 2
  MaxResets = 1
  MaxReports = 1
  MaxCommands = 1
  MaxCalls = 3
INVARIANTS
  FleetKept
  GhostsHaveCause
  BlockedDescend
  LandingsAudited
