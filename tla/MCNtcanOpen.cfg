SPECIFICATION FairSpec
CONSTANTS
  Byte = 4
  Junk = 109
  amc = amc
  robotiq = robotiq
  o8 = o8
  o16 = o16
  o32 = o32
  oi32 = oi32
  Node = {amc, robotiq}
  Amc = {amc}
  Short = {robotiq}
  ObjType <- MCObjType
  Initial <- MCInitial
  Calls <- MCCalls
  MaxCalls = 2
  MaxFails = 1
PROPERTIES
  UploadExact
  DownloadExact
  CallEnds
CHECK_DEADLOCK FALSE
