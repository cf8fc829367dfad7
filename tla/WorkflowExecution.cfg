SPECIFICATION MCSpec
CONSTANTS
  Nodes = {1, 2, 3, 4}
CHECK_DEADLOCK FALSE
INVARIANTS
  RunsInTurn
  StuckIsJustified
PROPERTIES
  Terminates
