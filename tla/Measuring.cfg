SPECIFICATION FairSpec
CONSTANTS
  WINDOW_SAMPLES = 4
  PAGES_INPUT_SATURATED = 20
  MIN_SAMPLES = 2
  WINDOW = 3
  QUIET_QUEUE = 0
  SATURATION_RATIO = 10
  BASELINE_SAVE_EVERY = 1
  logical = 2
  Collections <- MCCollections
  Failures = {{}, {"depth"}}
  SavesFail = TRUE
  OtherTexts <- MCOtherTexts
INVARIANTS
  OneSampleNeverDecides
  PressureShowsOnTheGraph
  SaturationIsMeasured
PROPERTY
  DiskIsRelearned
CHECK_DEADLOCK FALSE
