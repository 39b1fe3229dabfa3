\* A page on which another file is clicked before the first has come.
SPECIFICATION DisplaySpec
CONSTANTS
  s1 = s1
  s2 = s2
  Sids = {s1}
  None = None
  FilesOf <- OneService
  Size <- Sizes
  MaxCount = 1
  MaxClicks = 2
INVARIANTS CountsBesideTheirSource
CHECK_DEADLOCK FALSE
