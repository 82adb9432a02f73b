SPECIFICATION Spec
CONSTANTS
  Names = {"a", "b"}
  Uris = {"u", "v"}
  NoUri = "none"
  PrefixNames = {"xmlns", "p"}
  MaxElements = 4
  MaxDepth = 3
  MaxDeclared = 2
INVARIANTS
  PathLeads
CHECK_DEADLOCK FALSE
