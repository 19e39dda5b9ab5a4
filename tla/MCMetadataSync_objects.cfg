CONSTANTS
  a = a
  b = b
  f1 = f1
  o1 = o1
  o2 = o2
  Device = {a, b}
  File = {f1}
  Object = {o1, o2}
  FileOf <- TwoObjects
  Uploader <- FromA
  Origin <- OriginA
  Packed = {}
  Skew <- InStep
  Resettable = {}
  Faulty = {a}
  PageLimit = 2
  MaxEdits = 1
  MaxClock = 2
  MaxHead = 3
SPECIFICATION Spec
CHECK_DEADLOCK FALSE
CONSTRAINT NoRace
INVARIANT StaysDeleted
INVARIANT ReadIsKept
