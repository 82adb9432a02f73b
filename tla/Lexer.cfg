SPECIFICATION Spec
CONSTANTS
  Texts <- Small
  Keywords <- KeywordTable
  BUFSIZE = 2
  U_MAXLEN = 1
CHECK_DEADLOCK FALSE
INVARIANTS
  SymbolsRight
  FaultsReported
  RoomForSymbol
  FaultsShown
PROPERTIES
  GetsymReturns
