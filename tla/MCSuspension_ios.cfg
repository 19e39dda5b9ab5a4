CONSTANTS
  w = w
  t = t
  r = r
  q = q
  k = k
  Reset = Reset
  Write = {w}
  Tx = {t}
  Read = {r, q}
  FailFast = {}
  TxSize = 2
  Readers = 1
  Ios = TRUE
  Task = {k}
  MaxEvents = 3
SPECIFICATION Spec
CHECK_DEADLOCK FALSE
CONSTRAINT NoRace
INVARIANT FrozenIsQuiet
INVARIANT RestsRight
INVARIANT WriterIsExclusive
PROPERTY StoreSpec
