SPECIFICATION FairSpec
CONSTANTS
  MaxStarts = 3
  MaxPauses = 2
  MaxTriggers = 3
INVARIANTS OneChain
PROPERTY KeepsTicking
CHECK_DEADLOCK FALSE
