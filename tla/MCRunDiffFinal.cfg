SPECIFICATION DiffSpec
CONSTANTS
  Nil = Nil
  Runs = {run1, run2}
  Issues = {i1}
  Deliveries = {d1, d2}
  EventIds <- DiffEventIds
  About <- AboutOneIssue
CHECK_DEADLOCK FALSE
PROPERTY TerminalIsFinal
