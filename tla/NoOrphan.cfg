CONSTANTS
  Conns = {c1}
  Slots = {1, 2}
SPECIFICATION FairSpec
INVARIANT NoOrphan
CHECK_DEADLOCK FALSE
