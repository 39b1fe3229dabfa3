CONSTANTS
  Conns = {c1}
  Slots = {1, 2}
SPECIFICATION FairSpec
PROPERTY SigpipeCloses
CHECK_DEADLOCK FALSE
