CONSTANTS
  Conns = {c1}
  Slots = {1, 2}
SPECIFICATION FairSpec
PROPERTY StopTerminates
CHECK_DEADLOCK FALSE
