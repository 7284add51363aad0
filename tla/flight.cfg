SPECIFICATION FairFlightSpec
CONSTANTS
  CruiseAlt = 500
  ApproachAlt = 175
  LdpAlt = 75
  ApproachRadius = 40000
  LdpRadius = 2000
  EmergencyBattery = 15000
  Speeds <- MCSpeeds
  Courses <- MCCourses
  Distances <- MCDistances
  Batteries <- MCBatteries
CHECK_DEADLOCK FALSE
INVARIANTS
  ReserveKept
  AwayOnlyInEmergency
PROPERTIES
  EveryFlightLands
