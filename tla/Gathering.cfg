CONSTANTS
  Pids = {p1}
  Paths = {code}
  Resources <- MCResources
  MAX_PROCESSES = 1
  PROCESS_EVERY = 2
  Ids = {db}
  Replies <- MCReplies
  MaxCPU = 2
SPECIFICATION FairSpec
INVARIANTS
  NeverOvercredited
  NobodyIsNamedForLong
PROPERTIES
  WedgedEngineStopsNothing
  StoppedContainersAreForgotten
