SPECIFICATION Spec
CONSTANTS
  Names = {"a", "b"}
  Uris = {"u", "v"}
  NoUri = "none"
  PrefixNames = {"xmlns", "p"}
  MaxElements = 4
  MaxDepth = 3
  MaxDeclared = 1
INVARIANTS
  PathFinds
CHECK_DEADLOCK FALSE
