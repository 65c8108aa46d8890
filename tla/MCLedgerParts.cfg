SPECIFICATION LedgerPartsSpec
CONSTANTS
  Nil = Nil
  i1 = i1
  Runs = {run1, run2}
  Issues = {i1}
  Deliveries = {d1, d2, d3}
  EventIds <- MCEventIds
  About <- MCAbout
  Story = i1
  MaxRevisions = 1
  MaxAlive = 2
  MaxFaults = 1
  Writers = {w1, w2}
  Noticed = i1
  MaxRemembered = 1
  MaxAttempts = 2
  MaxPending = 2
  MaxTold = 1
  Requests = {g1, g2}
  Refusals = {"not_configured", "budget_exceeded"}
  MaxOutages = 1
  MaxServed = 1
  Reporters = {a1, a2}
  Messages <- MCMessages
  MaxReports = 3
  MaxLapses = 1
  MaxReported = 1
  Clients = {k1, k2}
  PgEvents <- MCPgEvents
  MaxDelivered = 2
  Reviews = {v1, v2}
  Findings = {fa, fb}
  Grave = {fa}
  MaxRounds = 2
SYMMETRY MCSymmetry
CHECK_DEADLOCK FALSE
INVARIANTS
  LedgerPartsTypeOK
  ClaimIsReleased
  CodedPlanWasReviewed
  RunnerOutcomeIsEarned
  AnnouncedOnce
  RefusalIsOnTheRun
  CommentsTellTheRecord
  DoneIsEarned
PROPERTIES
  PgImplementsLedger
