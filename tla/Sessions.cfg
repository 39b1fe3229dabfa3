CONSTANTS
  Handlers = {h1, h2}
  Sids = {s1, s2, s3}
  LowPort = 1
  HighPort = 3
  NoSid = NoSid
SPECIFICATION Spec
SYMMETRY Symmetry
INVARIANTS
  PortsExclusive
  FreeNotBound
  UsedAccount
  SessionLive
PROPERTIES
  AnnouncesOwnChange
  ImplementsPool
