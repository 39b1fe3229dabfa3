\* A page and two sessions: a lost connection, or a session that is stopped.
SPECIFICATION FairSpec
CONSTANTS
  Browsers = {b1}
  s1 = s1
  s2 = s2
  Sids = {s1, s2}
  None = None
  Threads = {t1}
  Bounds <- SomeBounds
  MaxClicks = 2
  MaxInbox = 1
INVARIANTS RoomFollowsPage EventsShown
PROPERTIES CatchesUp
CHECK_DEADLOCK FALSE
