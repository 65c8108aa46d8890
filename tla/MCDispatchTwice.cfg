SPECIFICATION Spec
CONSTANTS
  Nil = Nil
  Deliveries = {d1, d2}
  Answers = {}
  MaxRetries = 1
  LastStage = 2
CHECK_DEADLOCK FALSE
INVARIANT OneCallHandles
