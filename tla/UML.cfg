\* Two clients that share the coverage and the two files.
SPECIFICATION Spec
CONSTANTS
  Conns = {c1, c2}
  file1 = file1
  file2 = file2
  Files = {file1, file2}
  Lines = {1, 2}
  Reports <- TwoReports
  MaxReports = 2
INVARIANTS TypeOK ReportExact LastShown SomeoneWatches
CHECK_DEADLOCK FALSE
