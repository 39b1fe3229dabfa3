\* Two clients, one of whose kernels writes while the other's is done.
SPECIFICATION Spec
CONSTANTS
  file1 = file1
  file2 = file2
  Conns = {c1, c2}
  Files = {file1, file2}
  Lines = {1, 2}
  Reports <- TwoReports
  MaxReports = 2
INVARIANTS ReadsFinished
CHECK_DEADLOCK FALSE
