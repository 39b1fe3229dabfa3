CONSTANTS
  Conns = {c1, c2}
  MaxExec = 2
  MaxEvents = 4
SPECIFICATION Spec
SYMMETRY Symmetry
INVARIANTS
  NoInvention
  EventsNotOver
  EventsSeen
  AggregatesApart
  EventsExactApart
  CountedAgainIfSurvived
CHECK_DEADLOCK FALSE
