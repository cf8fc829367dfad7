SPECIFICATION Spec
CONSTANTS
  Loop = loop
  Requesters = {c1, c2, loop}
  Deadline = {c1}
  MaxUpdates = 2
  MaxRequests = 2
  MayStop = TRUE
  MayClose = TRUE
CHECK_DEADLOCK FALSE
INVARIANTS
  AnswerIsOwn
  SubscriptionsAgree

  
