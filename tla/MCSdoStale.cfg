SPECIFICATION Spec
CONSTANTS
  n1 = n1
  n2 = n2
  o16 = o16
  p16 = p16
  o32 = o32
  Node = {n1}
  Obj = {o16, p16}
  Val = {0, 1}
  Size <- MCSize
  Garbage = Garbage
  NotSdo = NotSdo
  NoCall = NoCall
  InitialOd <- MCInitialOd
  MaxCalls = 2
  MaxFaults = 1
  MaxTraffic = 0
INVARIANTS
  QueryReturnsItsResponse
CHECK_DEADLOCK FALSE
