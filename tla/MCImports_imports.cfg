SPECIFICATION Spec
CONSTANTS
  File = {a, b}
  Type = {"t1", "t2"}
  Content = {"c", "e"}
  Indexer = {X, Y}
  MaxToken = 2
  MaxActs = 3
  Importing = {b}
  Source <- MCSource
  Dedup = {b}
  Classify <- MCClassify
  Empty = "e"
  MaxTries = 2
SYMMETRY Same
INVARIANTS TypeOK LastCopyKept SentIsWhole StagedKept OnDeviceHasBytes AddedMeansFile
PROPERTY EvictsOnlyBackedUp
CHECK_DEADLOCK FALSE
