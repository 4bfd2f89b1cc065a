CONSTANTS
  Newest = 2
  Placements = {TRUE, FALSE}
  MaxFaults = 3
SPECIFICATION FairSpec
INVARIANTS
  TypeOK
  SetupLasts
PROPERTIES
  NoStaleHelper
  RecoversFromHalfASetup
  UninstallIsForGood
CHECK_DEADLOCK FALSE
