\* A page that goes from one session to another.
SPECIFICATION DisplaySpec
CONSTANTS
  s1 = s1
  s2 = s2
  Sids = {s1, s2}
  None = None
  FilesOf <- TwoServices
  Size <- Sizes
  MaxCount = 1
  MaxClicks = 1
INVARIANTS ShowsSession
CHECK_DEADLOCK FALSE
