SPECIFICATION EntrySpec
CONSTANTS
  Nil = Nil
  i1 = i1
  Runs = {run1, run2}
  Issues = {i1}
  Deliveries = {d1, d2, d3}
  EventIds <- EntryEventIds
  Slots = {p1, p2}
  About <- MCAbout
  MaxReceived = 5
  Questions = {"q1"}
SYMMETRY MCSymmetry
CHECK_DEADLOCK FALSE
INVARIANTS
  EntryTypeOK
  OneActiveRun
  TerminalIsExplained
  BindingsAreSound
  TriggerIsHandedOffOnce
  CompletedAbortEndedItsRun
  ResumeAnswersAPark
PROPERTIES
  TerminalIsFinal
  ControlMovesOnlyItsRun
  BindingsAreWriteOnce
  ImplementsClaimLock
