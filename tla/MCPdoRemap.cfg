SPECIFICATION Spec
CONSTANTS
  pos = pos
  vel = vel
  real = real
  Obj = {pos, vel, real}
  BitSize <- MCBitSize
  MaxMap = 2
  Args <- MCArgs
  InitPdo <- MCInitPdo
  MaxCalls = 3
  MaxFaults = 2
INVARIANTS
  TypeOK
  EnabledIsComplete
  OkMeansRemapped
PROPERTIES
  ChangedOnlyWhileDisabled
CHECK_DEADLOCK FALSE
