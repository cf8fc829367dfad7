SPECIFICATION MCSpec
CONSTANTS
  Ids = {e1, e2, e3}
  MaxActive = 2
  Requests = {r1, r2, r3, r4, r5}
  MaxBatchSize = 3
  MaxConcurrency = 1
  Payers = {p1, p2}
  Advisors = {a1}
  Limit = 2
  Period = 1
  Retention = 2
  MaxCalls = 5
  MaxTime = 4
  MaxBudgets = 1
CHECK_DEADLOCK FALSE
INVARIANTS
  CancelHolds
  OnlyFullLoses
  BudgetIsTrue
PROPERTIES
  ImplementsAC
  WorkGetsThrough
