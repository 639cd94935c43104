SPECIFICATION Spec
CONSTANTS
  k1 = k1
  k2 = k2
  t1 = t1
  t2 = t2
  None = None
  Keys = {k1, k2}
  Threads = {t1}
  WindowSecs = 2
  MaxRequests = 2
  MaxTrackedKeys = 1
  MaxTime = 6
  ClockMayStepBack = FALSE
INVARIANTS RateBounded MemoryBounded
PROPERTY BudgetExact
