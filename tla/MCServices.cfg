SPECIFICATION ServicesSpec
CONSTANTS
  Nil = Nil
  call1 = call1
  call2 = call2
  call3 = call3
  proc1 = proc1
  proc2 = proc2
  global = global
  tenant = tenant
  Calls = {call1, call2, call3}
  Procs = {proc1, proc2}
  Budgets = {global, tenant}
  Tenants = {tenant}
  ProcOf <- MCProcOf
  BudgetOf <- MCBudgetOf
  Estimate <- MCEstimate
  Overrun = 1
  EnvCap = 3
  Caps = {2}
  TTL = 1
  Interval = 1
  Pbis = {p1, p2}
  Minutes = {1, 4}
  MaxMinutes = 3
  MaxFailed = 2
  MaxTrips = 2
  MaxEntries = 1
  MaxEvents = 3
  MaxSafe = 4
  Pbi = p1
  Files = {f1, f2, f3}
  Targets = {f1}
  Existing = {f3}
  MaxIterations = 3
  Old = Old
  Tasks = {t1, t2}
  Ttl = 2
  MaxClock = 4
  c1 = c1
  c2 = c2
  c3 = c3
  runA = runA
  runB = runB
  Coders = {c1, c2, c3}
  RunOf <- MCRunOf
  Digests = {x1, x2}
  Contexts = {k1, k2}
  Ports = {port}
  Absent = Absent
  MaxUps = 2
  NoRow = NoRow
  Factory = Factory
  ControlCalls = {o1, o2, o3}
  Managed = {m1}
  Stamps = {s1}
  MaxConflicts = 1
  Seeds = {z1, z2}
  Slugs = {u1, u2}
  Repos = {q1, q2}
  Nobody = Nobody
  MaxTurns = 1
  Cycles = {y1, y2}
  y1 = y1
  y2 = y2
  MaxNow = 2
  TaskHistories <- MCTaskHistories
  MinSamples0 = 1
  TargetRate = 90
  Qualities <- MCQualities
  MaxEffort = 3
  Gain = 0
  Slack = 50
  Skipped = Skipped
  Rows = {1, 2, 3, 4}
  Stamped = {1}
  Owners = {w1, w2}
  Unowned = w2
  Viewers = {v1}
  Limit = 2
  FillPages = 2
  Appenders = {e1, e2}
  MaxMoves = 1
  MaxSerial = 4
  NoCursor = NoCursor
  Authors = {1, 2}
  Drafts = {d1, d2}
  Unset = Unset
  Migrators = {g1, g2}
  Versions = {1, 2}
  Texts = {h1, h2}
  NoTable = NoTable
  MaxPlanRetries = 1
  Contents <- MCContents
  MaxInspect = 2
  MaxFiles = 2
  MaxChars = 3
  MaxTotal = 3
  n1 = n1
  n2 = n2
  n3 = n3
  n4 = n4
  n5 = n5
  ta = ta
  tb = tb
  Uses = {n1, n2, n3, n4, n5}
  Earlier = {n2, n5}
  UseOf <- MCUseOf
  Flushers = {l1, l2}
  Unassigned = Unassigned
  Unmeasured = Unmeasured
  MaxCost = 3
  MaxCopies = 2
  Hooks = {hk1}
  MaxStarts = 2
  OldRuns = {1, 2, 3}
  Openers = {op1, op2}
  MaxOpenings = 2
  MetricRuns = {1, 2}
  MetricDays = {1, 2}
  RangeEnds = {2}
  Spends = {1}
  NoSpend = NoSpend
  PricedModels = {md1, md2}
  Readings <- MCReadings
  Ceilings = {1, 3}
  Pins = {1}
  Unpriced = Unpriced
  Malformed = Malformed
  FloorTtl = 0
  LastDay = 1
  MaxTurnsOfMarket = 3
  ForecastRuns = {fr1, fr2}
  FileCounts = {25}
  TaskCounts = {3}
  PriceBooks <- MCPriceBooks
  CeilingBook <- MCDearest
  MeasuredCosts = {2}
  Cycles0 = {2}
  ClassEdges = {330}
  Unit = 2
  MinSamples = {2}
  MaxReprices = 1
  MaxSpends = 2
  Orders = {od1, od2}
  Consults = {cs1}
  Widenings = {wd1}
  Tunings = {tu1}
  Horizon = 1
  Amounts = {1}
  MaxHour = 1
  NoExpiry = NoExpiry
  Unreadable = Unreadable
  Unarmed = Unarmed
CHECK_DEADLOCK FALSE
INVARIANTS
  ServicesTypeOK
  MoneyIsAccounted
  GreenIsPushed
  NothingOutlivesItsTask
  SetupIsReal
  AuditIsTrue
  AttributionStands
  KeptIsAccepted
  HistoryReadsTrue
  ForecastsAreTrue
  PlanningIsAccounted
  EntranceIsTrue
PROPERTIES
  SqliteShrinksByReleaseOnly
  BreakerStops
  StopIsPermanent
