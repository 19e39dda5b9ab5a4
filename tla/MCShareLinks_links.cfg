CONSTANTS
  a = a
  b = b
  Device = {a, b}
  Row = {1, 2}
  Name = {1, 2}
  Maker = a
  Budget <- Budgets
SPECIFICATION Spec
CHECK_DEADLOCK FALSE
CONSTRAINT NoRace
INVARIANT Agrees
INVARIANT StaysOff
PROPERTY NoGap
PROPERTY NeverBack
