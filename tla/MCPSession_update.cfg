SPECIFICATION Spec
CONSTANTS
  Loop = loop
  Requesters = {c1, c2, loop}
  Deadline = {c1}
  MaxUpdates = 1
  MaxRequests = 2
  MayStop = FALSE
  MayClose = FALSE
CHECK_DEADLOCK FALSE
PROPERTY UpdatesAreHandled
