SPECIFICATION PgSpec
CONSTANTS
  Nil = Nil
  p1 = p1
  p2 = p2
  p3 = p3
  c1 = c1
  c2 = c2
  c3 = c3
  c4 = c4
  global = global
  Calls = {c1, c2, c3, c4}
  Procs = {p1, p2, p3}
  Budgets = {global}
  Tenants = {}
  ProcOf <- MCProcOf
  BudgetOf <- MCBudgetOf
  Estimate <- MCEstimate
  Overrun = 0
  EnvCap = 2
  Caps = {}
  TTL = 1
  Interval = 1
CHECK_DEADLOCK FALSE
INVARIANT SpendWithinCap
