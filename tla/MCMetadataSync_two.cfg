CONSTANTS
  a = a
  b = b
  f1 = f1
  o1 = o1
  o2 = o2
  Device = {a, b}
  File = {f1}
  Object = {o1}
  FileOf <- OneObject
  Uploader <- FromA
  Origin <- OriginA
  Packed = {}
  Skew <- BAhead
  Resettable = {}
  Faulty = {}
  PageLimit = 1
  MaxEdits = 2
  MaxClock = 1
  MaxHead = 4
SPECIFICATION FairSpec
CHECK_DEADLOCK FALSE
CONSTRAINT NoRace
INVARIANT Converges
PROPERTY DeleteWins
PROPERTY Settles
