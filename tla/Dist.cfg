\* Histograms of 2 to 4 bins, with a resolution coarse enough to be met.
SPECIFICATION Spec
CONSTANTS
  Resolution = 7
  Sizes <- MCSizes
  MaxCount = 3
  MaxVisits = 12
  Grain = 5
  Values = {1, 2}
INVARIANTS InverseOfSums SamplesAsAsked StaysEven LeavesLoops
CHECK_DEADLOCK FALSE
