SPECIFICATION FairSpec
CONSTANTS
  NodeMask = 7
  N = 2
  CmdLines <- OneLine
  Vel = {0}
  EventChannel = FALSE
  MaxMsgs = 0
  MaxFails = 1
  MaxFrames <- SomeFrames
INVARIANTS
  VelocityNotOlder
  OneReader
PROPERTIES
  SignalEnds
CHECK_DEADLOCK FALSE
