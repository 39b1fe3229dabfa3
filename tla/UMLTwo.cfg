\* Two clients whose threads parse one report at once.
SPECIFICATION Spec
CONSTANTS
  file1 = file1
  file2 = file2
  Conns = {c1, c2}
  Files = {file2}
  Lines = {1}
  Reports <- OneReport
  MaxReports = 2
INVARIANTS CountsOnce
CHECK_DEADLOCK FALSE
