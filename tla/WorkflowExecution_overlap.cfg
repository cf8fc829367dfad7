SPECIFICATION Spec
CONSTANTS
  Nodes = {n1, n2, n3}
CHECK_DEADLOCK FALSE
INVARIANTS
  NoOverlap
