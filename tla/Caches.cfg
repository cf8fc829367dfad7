SPECIFICATION MCSpec
CONSTANTS
  Keys = {k1, k2, k3}
  MaxSize = 2
  Gets = {p1, p2}
  MaxNodes = 3
  Requesters = {p1, p2}
  Stacks <- MCStacks
  Allowance = 1
  Refill = 1
  Span = 2
  TTL = 1
  MaxRetries = 1
  MaxRequests = 2
  MaxTicks = 3
  Clients = {p1, p2}
  States <- MCStates
  Items = {i1, i2}
  MaxRemoteCalls = 3
  MaxPages = 2
  Apps = {p1, p2}
  Kinds <- MCKinds
  Batches <- MCBatches
  IdLists <- MCIdLists
  Filters <- MCFilters
  MaxAppCalls = 2
  Readers = {p1, p2}
  Capacity = 1
  MaxMemories = 3
  MaxProcesses = 2
  MaxRecalls = 1
SYMMETRY Symmetry
CONSTRAINT UntilRace
CHECK_DEADLOCK FALSE
INVARIANTS
  LayersHold
  RemoteAgrees
  
  
PROPERTIES
  ImplementsLRU
  KeepsFresh
