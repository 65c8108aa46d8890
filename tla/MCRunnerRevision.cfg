SPECIFICATION RunnerSpec
CONSTANTS
  Nil = Nil
  Runs = {run1, run2}
  Issues = {i1}
  Deliveries = {d1, d2}
  EventIds <- RunnerEventIds
  Story = i1
  MaxRevisions = 1
  MaxAlive = 1
  MaxFaults = 0
CHECK_DEADLOCK FALSE
INVARIANT
  RevisionParksAgain
