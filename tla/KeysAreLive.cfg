CONSTANTS
  Conns = {c1}
  Slots = {1, 2}
SPECIFICATION FairSpec
INVARIANT KeysAreLive
CHECK_DEADLOCK FALSE
