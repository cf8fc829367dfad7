SPECIFICATION ConvSpec
CONSTANTS
  Senders = {u1}
  MaxTokens = 2
  KeepRecent = 1
  WindowSize = 1
  SummarySize = 1
  Strategies = {"oldest", "newest", "importance", "window", "summarize"}
  MaxSends = 2
  MaxMessages = 4
  MaxUndos = 0
CHECK_DEADLOCK FALSE
INVARIANT AllMessagesAreKept
