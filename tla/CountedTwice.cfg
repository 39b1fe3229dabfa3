\* One client, whose process survives a signal and is captured again.
CONSTANTS
  Conns = {c1}
  MaxExec = 2
  MaxEvents = 4
SPECIFICATION Spec
INVARIANT CountedOnce
CHECK_DEADLOCK FALSE
