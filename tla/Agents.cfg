SPECIFICATION MCSpec
CONSTANTS
  Sessions = {s1, s2}
  Calls = {c1, c2}
  MaxIterations = 2
  MaxTools = 2
  MaxOutside = 1
  a = a
  b = b
  x = x
  h1 = h1
  h2 = h2
  Agents = {a, b}
  Aliases = {x}
  Callers = {h1, h2}
  Chains <- MCChains
  MaxDepth = 3
  MaxAdmin = 2
  MaxNested = 1
  Senders = {u1, u2}
  MaxTokens = 2
  KeepRecent = 1
  WindowSize = 1
  SummarySize = 1
  Strategies = {"oldest", "newest", "importance", "window", "summarize"}
  MaxSends = 2
  MaxMessages = 5
  MaxUndos = 1
  g1 = g1
  g2 = g2
  Askers = {g1, g2}
  PerMinute = 1
  Minute = 1
  NoText = NoText
  MaxAsked = 3
  MaxClock = 2
SYMMETRY Symmetry
CHECK_DEADLOCK FALSE
INVARIANTS
  HistoriesAreTrue
  PromptIsComplete
  HandoffsHold
  
  ProvidersHold
PROPERTIES
  SavedIsKept
