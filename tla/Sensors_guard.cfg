CONSTANTS
  Registers <- MCRegisters
  Cores <- MCCores
  MAX_ZONES = 2
  Processors <- MCProcessors
  COUNTER_MODULUS = 3
  IMPLAUSIBLE_WATTS = 2
  Draws = {0, 1, 2}
  MaxGap = 2
SPECIFICATION Spec
INVARIANT GuardIsGivenBack
