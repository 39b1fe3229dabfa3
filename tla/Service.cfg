\* One client whose instance may replace its process once.
CONSTANTS
  Conns = {c1}
  Slots = {1,2}
SPECIFICATION FairSpec
INVARIANTS NoFrozenProcess StopPostcondition ServedIsRegistered
PROPERTIES ImplementsLife KillNotMidSpawn Respawns StoppedIsResumed AcceptThreadEnds
CHECK_DEADLOCK FALSE
