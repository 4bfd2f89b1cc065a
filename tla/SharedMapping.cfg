CONSTANTS
  Fields = {"package", "zones"}
  Attempts = 2
  SequenceModulus = 2147483646
  MaxMeasured = 3
SPECIFICATION FairSpec
INVARIANT TornOnlyByAStart
PROPERTIES
  ReadsTheLatest
  ReadReturns
