SPECIFICATION FairSpec
CONSTANTS
  Byte = 4
  Junk = 109
  p1 = p1
  p2 = p2
  Proc = {p1, p2}
  Present <- MCPresent
  ObjType <- MCObjType
  Sized = {"can0"}
  Dictionary <- MCDictionary
  Api = {"socketcan", "ntcan"}
  Commands <- MCCommands
  Initial <- MCInitial
  Fixed <- MCFixed
  NodeMask = 7
  PdoMax = 3
  ComBase = 4
  MapBase = 8
  MaxCmds = 2
  MaxFails = 1
INVARIANTS
  DumpFaithful
PROPERTIES
  DictRoundTrip
  DownloadExit
  DisplayTellsAccess
  ProbeListsPdos
  DumpKeepsUp
CHECK_DEADLOCK FALSE
