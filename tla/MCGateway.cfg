SPECIFICATION GatewaySpec
CONSTANTS
  Nil = Nil
  Runs = {run1}
  Issues = {i1}
  Deliveries = {d1}
  EventIds <- GatewayEventIds
  Requests = {g1}
  Refusals = {"not_configured", "budget_exceeded"}
  MaxOutages = 1
  MaxServed = 1
CHECK_DEADLOCK FALSE
INVARIANT SpendIsOnTheRun
