\* A page leaves a session that is stopped.  The same instance refutes RoomFollowsClicks
\* as INVARIANT and LiveCoverage as PROPERTY.
SPECIFICATION FairSpec
CONSTANTS
  Browsers = {b1}
  s1 = s1
  s2 = s2
  Sids = {s1, s2}
  None = None
  Threads = {}
  Bounds <- CoverageBounds
  MaxClicks = 2
  MaxInbox = 1
INVARIANTS OneRoom
CHECK_DEADLOCK FALSE
