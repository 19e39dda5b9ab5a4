SPECIFICATION FairSpec
CONSTANTS
  v = v
  w = w
  t = t
  u = u
  Retire = Retire
  None = None
  Outer = {v, w}
  Tx = {t, u}
  TxSize = 2
INVARIANTS Exclusive
PROPERTIES StoreSpec CallsEnd
CHECK_DEADLOCK FALSE
