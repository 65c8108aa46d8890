SPECIFICATION Spec
CONSTANTS
  Nil = Nil
  Deliveries = {d1, a1}
  Answers = {a1}
  MaxRetries = 1
  LastStage = 2
CHECK_DEADLOCK FALSE
INVARIANT ParkCostsNoRetry
