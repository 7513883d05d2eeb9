SPECIFICATION Spec
CONSTANTS
  Range <- MCRange
  Margin = 4
  VelMax = 16
  VelFactor = 4
  Pos <- MCPos
  Ref <- MCRef
INVARIANT NotPushedOut
