CONSTANTS
  Newest = 3
  Placements = {FALSE}
  MaxFaults = 1
  Relaid = {2}
  StaleAfter = 2
  Period = 1
  TickGap = 1
SPECIFICATION FairPathSpec
INVARIANT NoTemperatureFromTheDead
PROPERTIES
  WorkIsSeen
  AbsenceIsOffered
CHECK_DEADLOCK FALSE
