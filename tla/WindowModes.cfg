CONSTANT
  MaxClicks = 2
SPECIFICATION FairWindowSpec
INVARIANTS
  OneLateRaiseAtMost
PROPERTY
  StripComesBack
