CONSTANTS
  escalate_ms = 1
  settle_ms = 2
  Elapsed = {1, 2}
  Resources = {"Cpu", "Memory"}
SPECIFICATION FairSpec
PROPERTIES
  Converges
