SPECIFICATION FairMatcher
CONSTANTS
  Order = TRUE
  Calls <- RegexCalls
  MaxCalls = 3
  Compiled <- RxCompile
  Derived <- RxDerivative
  IsNullable <- RxNullable
  IsSpace <- Space
  RxNotAllowed <- RxNone
  RxError <- RxFailed
  LIM_M = 3
  Pattern <- RegexPatterns
  Char <- RegexChars
  NextPart <- RxPart
  NoPartLeft <- RxNoPart
  Combined <- RxCombine
CONSTRAINT FewTriples
INVARIANTS
  RingAgrees
  AnswersRight
  AnswersDerived
  SyntaxExact
PROPERTIES
  MemoUnseen
  CallReturns
CHECK_DEADLOCK FALSE
