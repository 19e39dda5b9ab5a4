CONSTANTS
  a = a
  b = b
  f1 = f1
  o1 = o1
  o2 = o2
  Device = {a}
  File = {f1}
  Object = {o1}
  FileOf <- OneObject
  Uploader <- FromA
  Origin <- OriginA
  Packed = {}
  Skew <- InStep
  Resettable = {a}
  Faulty = {a}
  PageLimit = 1
  MaxEdits = 2
  MaxClock = 2
  MaxHead = 5
SPECIFICATION Spec
CHECK_DEADLOCK FALSE
INVARIANT TypeOK
INVARIANT NoSkippedEvent
INVARIANT CleanMeansPushed
