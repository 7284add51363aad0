SPECIFICATION Spec
CONSTANTS
  Uam = {a}
  NoUam = none
  MaxDown = 2
  MaxUp = 2
  MaxResets = 1
  MaxDisconnects = 2
INVARIANTS
  TypeOK
  LandedShownIsCurrent
  StaleApprovalsListNothingTwice
  UnlockedIsCurrent
PROPERTIES
  OverlayEnds
