CONSTANTS
  Conns = {c1, c2}
  MaxExec = 2
  MaxEvents = 2
SPECIFICATION Spec
INVARIANT Aggregates
CHECK_DEADLOCK FALSE
