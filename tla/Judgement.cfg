SPECIFICATION Spec
CONSTANTS
  Machines <- MCMachines
  Figures <- MCFigures
  MaxFigure = 5000
INVARIANTS
  HeldToItsOwn
  HeldToItsBrand
  AlarmIsExplained
  RedTileIsAFinding
  OrderDoesNotMatter
  NamedIsHalfTheUnseen
PROPERTY WorseNeverLooksBetter
