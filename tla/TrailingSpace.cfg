SPECIFICATION SpecMatcher
CONSTANTS
  Order = TRUE
  Calls <- TrailingCalls
  MaxCalls = 1
  Compiled <- RxCompile
  Derived <- RxDerivative
  IsNullable <- RxNullable
  IsSpace <- Space
  RxNotAllowed <- RxNone
  RxError <- RxFailed
  LIM_M = 3
  Pattern <- TrailingPatterns
  Char <- RegexChars
  NextPart <- RxPart
  NoPartLeft <- RxNoPart
  Combined <- RxCombine
INVARIANTS
  CollapsesSpace
CHECK_DEADLOCK FALSE
