SPECIFICATION Spec
CONSTANTS
  Files <- SmallFiles
  Universe <- NamesOfClasses
  Schemas <- ChainSchemas
  Again = {}
  MaxLoads = 1
  MaxDerived = 0
  Depth = 3
INVARIANTS
  DerefEnds
CHECK_DEADLOCK FALSE
