SPECIFICATION Spec
CONSTANTS
  a = "a"
  b = "b"
  s = "s"
  File = {"a", "b"}
  Share = {"s"}
  Size <- Sizes
  Disk = 3
  Room = {2}
  Slots = {1, 2}
  Depth = 1
  MaxRuns = 3
  MaxActs = 1
INVARIANTS Reachable PromisedFits RoomIsUsed UserFirst
CHECK_DEADLOCK FALSE
