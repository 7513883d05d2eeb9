SPECIFICATION FairSpec
CONSTANTS
  n1 = n1
  n2 = n2
  o16 = o16
  p16 = p16
  o32 = o32
  Node = {n1, n2}
  Obj = {o16, p16, o32}
  Val = {0, 1}
  Size <- MCSize
  Garbage = Garbage
  NotSdo = NotSdo
  NoCall = NoCall
  InitialOd <- MCInitialOd
  MaxCalls = 2
  MaxFaults = 1
  MaxTraffic = 1
INVARIANTS
  TypeOK
  UploadReturnsObject
  DownloadTookEffect
  BacklogBounded
PROPERTIES
  CallReturns
  ImplementsAccess
CHECK_DEADLOCK FALSE
