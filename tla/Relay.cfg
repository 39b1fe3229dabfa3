\* Every file of up to three bytes, of which three bytes are a length.
SPECIFICATION FairRelaySpec
CONSTANTS
  Radix = 3
  MTU = 4
  Packets <- AllPackets
  Newline = 1
  MaxFrames = 3
INVARIANTS RelaysFrames
PROPERTIES FramesArrive
CHECK_DEADLOCK FALSE
