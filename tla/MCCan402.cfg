SPECIFICATION FairSpec
CONSTANTS
  NodeMask = 7
  N = 2
  CmdLines <- AllLines
  Vel = {0, 1}
  EventChannel = TRUE
  MaxMsgs = 2
  MaxFails = 3
  MaxFrames <- NoFrames
INVARIANTS
  TypeOK
  UnhaltedTogether
  HaltedUnlessUnsent
  EndsPoweredOff
PROPERTIES
  VelocityOnlyUnhalted
  SwitchedOnWhenAllReady
  ReferenceLossHalts
CHECK_DEADLOCK FALSE
