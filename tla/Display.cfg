\* A page that shows two sessions of a service: three lines in nested
\* directories.
SPECIFICATION DisplaySpec
CONSTANTS
  s1 = s1
  s2 = s2
  Sids = {s1, s2}
  None = None
  FilesOf <- OneService
  Size <- Sizes
  MaxCount = 2
  MaxClicks = 3
INVARIANTS BarsExact CountsExact
CHECK_DEADLOCK FALSE
