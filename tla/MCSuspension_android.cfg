CONSTANTS
  w = w
  t = t
  r = r
  q = q
  k = k
  Reset = Reset
  Write = {w}
  Tx = {t}
  Read = {r}
  FailFast = {w}
  TxSize = 1
  Readers = 1
  Ios = FALSE
  Task = {k}
  MaxEvents = 4
SPECIFICATION FairSpec
CHECK_DEADLOCK FALSE
PROPERTY ForegroundResumes
PROPERTY CallsEnd
