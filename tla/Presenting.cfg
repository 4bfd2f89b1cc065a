CONSTANTS
  escalate_ms = 1
  settle_ms = 2
  Elapsed = {1}
  Resources = {"Cpu", "Memory", "BelowBaseClock"}
  Kinds = {"BelowBaseClock"}
  WINDOW_SAMPLES = 2
  IconsFail = FALSE
SPECIFICATION PresentSpec
INVARIANTS
  IconsAgreeWithTheWindow
PROPERTY
  UnexplainedIsMomentary
