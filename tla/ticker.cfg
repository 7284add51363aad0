CONSTANTS
  Uam = {u1, u2}
  NoUam = NoUam
  Sizes = {2}
  BadgeTime = 6
  MaxLate = 1
  MaxUpdates = 4
  MaxApprovals = 2
  MaxToggles = 2
SPECIFICATION Spec
CHECK_DEADLOCK FALSE
INVARIANTS
  StreaksBounded
  LitIsTimed
PROPERTIES
  BadgeKept
