SPECIFICATION Spec
CONSTANTS
  Files <- SmallFiles
  Universe <- NamesOfClasses
  Schemas <- AllSchemas
  Again <- Repeated
  MaxLoads = 2
  MaxDerived = 2
  Depth = 3
INVARIANTS
  MeaningKept
  Canonical
  NullableRight
  
PROPERTIES
  NoGarbage
CHECK_DEADLOCK FALSE
