CONSTANTS
  Row = {1, 2, 3}
  Spare = {5, 6, 7}
  Dir = {11, 12, 13, 14}
  Name = {1, 2}
  Path <- MCPath
  Fold <- MCFold
  Now = 3
  RemoteAt = {2, 6}
  RemotePath <- MCRemotePath
  MaxWrites = 2
  PageSize = 2
  Scopes <- MCScopes
SPECIFICATION Spec
CHECK_DEADLOCK FALSE
INVARIANT LibraryAgrees
INVARIANT CaughtUp
