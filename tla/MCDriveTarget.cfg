SPECIFICATION Spec
CONSTANTS
  Vel = {0, 1}
  InitDrives <- MCInitDrives
  RpdoUser = 1
  MaxIter = 12
  MaxSessions = 1
  MaxFails = 0
  MaxFaults = 0
INVARIANT SkippedTargetIsSet
CHECK_DEADLOCK FALSE
