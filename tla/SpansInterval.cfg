\* The interval that minVal and maxVal imply, one of them zero or not.
SPECIFICATION Spec
CONSTANTS
  Resolution = 1000000
  Sizes <- MCSizes
  MaxCount = 1
  MaxVisits = 0
  Grain = 2
  Values <- MCValues
INVARIANTS SpansInterval
CHECK_DEADLOCK FALSE
