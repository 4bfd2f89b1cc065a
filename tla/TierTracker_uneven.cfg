CONSTANTS
  escalate_ms = 2
  settle_ms = 3
  Elapsed = {1, 2, 3}
  Resources = {"Cpu"}
SPECIFICATION HSpec
INVARIANTS
  TypeOK
  CoverageSurvivesJitter
  ReasonMatchesTier
PROPERTIES
  MovesAreSustained
  NoFlicker
  KeepsThePromise
