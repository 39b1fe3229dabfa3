\* A session takes longer to start than the client sleeps.
SPECIFICATION Spec
CONSTANTS
  MaxSessions = 1
  MaxDrops = 0
INVARIANTS AlreadyStopped
CHECK_DEADLOCK FALSE
