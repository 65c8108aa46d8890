SPECIFICATION ControlSpec
CONSTANTS
  NoRow = NoRow
  Factory = Factory
  ControlCalls = {p1, p2}
  Managed = {run1}
  Stamps = {t1}
  MaxConflicts = 1
CHECK_DEADLOCK FALSE
INVARIANT AbortIsAccepted
