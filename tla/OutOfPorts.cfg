CONSTANTS
  Handlers = {h1}
  Sids = {s1, s2}
  LowPort = 1
  HighPort = 3
  NoSid = NoSid
SPECIFICATION Spec
INVARIANT OutOfPorts
