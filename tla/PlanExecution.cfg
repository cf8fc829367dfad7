SPECIFICATION MCSpec
CONSTANTS
  c1 = c1
  c2 = c2
  Calls = {c1, c2}
  Users = {u1, u2}
  Plans <- MCPlans
  Clients <- MCClients
  Revisions = {0, 1}
  None = none
  CacheSize = 1
  Steps = {1, 2, 3}
  Shapes <- MCShapes
  MaxReplan = 1
  Strange = strange
  Reasoners = {c1, c2}
  MaxIterations = 2
  Interval = 2
  Numbers = {1, 2, 3}
  Unknown = strange
  Drafts <- MCDrafts
  Threshold = 70
  MaxVersion = 2
CHECK_DEADLOCK FALSE
INVARIANTS
  CacheAgrees
  PlansAreFollowed
  AloneIsFaithful
  
PROPERTIES
  Terminates
