\* The script is stopped: does the relay end?
SPECIFICATION FairRelaySpec
CONSTANTS
  Radix = 3
  MTU = 4
  Packets <- SomePackets
  Newline = 1
  MaxFrames = 2
PROPERTIES EndsWithInput
CHECK_DEADLOCK FALSE
