\* One client that may lose its connection twice.
SPECIFICATION FairSpec
CONSTANTS
  MaxSessions = 3
  MaxDrops = 2
INVARIANTS LeavesNone
PROPERTIES StopsItsSession
CHECK_DEADLOCK FALSE
