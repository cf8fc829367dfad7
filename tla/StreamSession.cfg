SPECIFICATION MCSpec
CONSTANTS
  f = f
  g = g
  x = x
  tool = tool
  app = app
  None = none
  Using <- MCUsing
  Turns <- MCTurns
  Registered = {f, g}
  MaxToolIterations = 2
  BatchSize = 2
CHECK_DEADLOCK FALSE
INVARIANTS
  
  PartIsWhole
PROPERTIES
  StreamEnds
