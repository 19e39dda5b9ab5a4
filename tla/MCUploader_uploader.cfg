SPECIFICATION FairSpec
CONSTANTS
  f1 = f1
  f2 = f2
  File = {f1, f2}
  MaxGen = 2
  MaxBatch = 2
  MaxActs = 2
  MaxFails = 1
INVARIANTS HeldOnce PinnedOnce PinnedAsItself
PROPERTY UploadsEventually
CHECK_DEADLOCK FALSE
