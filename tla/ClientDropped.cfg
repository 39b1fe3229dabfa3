\* The client loses its connection once.
SPECIFICATION Spec
CONSTANTS
  MaxSessions = 2
  MaxDrops = 1
INVARIANTS ServiceStopped
CHECK_DEADLOCK FALSE
