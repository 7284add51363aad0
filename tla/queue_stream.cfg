SPECIFICATION Spec
CONSTANTS
  Uam = {a, b}
  NoStatus = none
  Status <- MCStatus
  Poll = {p, q}
  Limit = 2
  MaxStatus = 2
  MaxRemovals = 1
SYMMETRY Symmetry
INVARIANTS
  TypeOK
PROPERTIES
  ListsInOrder
  GoneStaysGone
  EmergenciesLead
