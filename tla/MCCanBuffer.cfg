SPECIFICATION Spec
CONSTANTS
  Frame = {f1, f2, f3}
  MaxSize = 4
INVARIANTS
  TypeOK
PROPERTIES
  ImplementsFifo
