SPECIFICATION Spec
CONSTANTS
  Calls <- XsdCalls
  MaxCalls = 3
  NPAT = 3
  Malformed <- RxMalformed
  Matches <- RxMatches
CONSTRAINT FewCalls
INVARIANTS
  AllowsRight
  EqualRight
  TimesOrdered
  CalendarRight
  AgreesWithValidator
PROPERTIES
  FaultsSaid
CHECK_DEADLOCK FALSE
