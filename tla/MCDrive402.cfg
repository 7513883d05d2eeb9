SPECIFICATION Spec
CONSTANTS
  Vel = {0, 1}
  InitDrives <- MCInitDrives
  RpdoUser = 1
  MaxIter = 12
  MaxSessions = 2
  MaxFails = 2
  MaxFaults = 2
INVARIANTS
  TypeOK
  CtrlCacheExact
  RunMeansReady
  StartMakesProgress
  StopLeavesOff
PROPERTIES
  ModeChangesHalted
  EnabledWhenSwitchedOn
CHECK_DEADLOCK FALSE
