SPECIFICATION Spec
CONSTANTS
  Items <- SmallItems
  KeyOf <- SmallKeyOf
  Hash <- SmallHash
  InitialLen = 1
  MaxTable = 16
INVARIANTS
  RoomLeft
  AllFound
  ValuesKept
PROPERTIES
  IsInternSet
CHECK_DEADLOCK TRUE
