SPECIFICATION MCSpec
CONSTANTS
  Callers = {c1, c2, c3}
  MaxFailures = 2
  HalfOpenMax = 2
  ResetTimeout = 1
  Users = {u1, u2}
  Retriers = {u1}
  Workers = {c1, c2}
  Nobody = nobody
  Burst = 2
  Rate = 1
  MaxConcurrent = 1
  MaxAttempts = 2
  Window = 1
  fetch = fetch
  check = check
  send = send
  Tools = {fetch, check, send}
  Chains <- MCChains
  MaxToolAttempts = 2
  Retried = {fetch}
  MaxRuns = 2
  Healers = {h1, h2}
  Custom = {own}
  MaxRetries = 2
  HistorySize = 1
  MaxProcess = 2
INVARIANTS
  CooledDown
  GuardsHold
  ResultIsWhole
  
PROPERTIES
  BreakerHeals
  HealingEnds
