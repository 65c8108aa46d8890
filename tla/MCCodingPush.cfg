SPECIFICATION CodingSpec
CONSTANTS
  Pbis = {p1,p2}
  Pbi = p1
  Minutes = {1,2,4}
  MaxMinutes = 3
  MaxFailed = 2
  MaxTrips = 2
  MaxEntries = 1
  MaxEvents = 3
  MaxSafe = 4
  Files = {f1,f2}
  Targets = {f1}
  Existing = {}
  MaxIterations = 3
  Old = Old
CHECK_DEADLOCK FALSE
INVARIANT
  PushedIsTested
