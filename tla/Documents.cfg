SPECIFICATION SpecValidator
CONSTANTS
  Content <- Contents
  RightToLeft = TRUE
  rn_notAllowed <- NotAllowed
  NoPattern <- NoStart
  xmlc_white_space <- Whitespace
  drv_start_tag_open <- DrvStartTagOpen
  drv_start_tag_open_recover <- DrvStartTagOpenRecover
  drv_attribute_open <- DrvAttributeOpen
  drv_start_tag_close <- DrvStartTagClose
  drv_start_tag_close_recover <- DrvStartTagCloseRecover
  drv_end_tag <- DrvEndTag
  drv_end_tag_recover <- DrvEndTagRecover
  drv_mixed_text <- DrvMixedText
  drv_text <- DrvText
  drv_misses_dtl <- MissesLibrary
  drv_calls_dtl <- CallsLibrary
  Char <- Chars
  LEN_T = 2
  LIM_T = 3
  Starts <- DocumentStarts
  Names <- NamesAB
  AttributeLists <- SomeAttributes
  Chunks <- TextChunks
  Libraries = {"user"}
  Garbage = {0}
  Nexp = 256
  MaxText = 5
  MaxLevel = 4
  MaxElements = 5
  MaxDepth = 4
  MaxBehind = 1
  PatternsMet <- AllReached
  TextsMet <- Collected
  Expects <- Depths
  MaxChars = 5
CONSTRAINT InScope
INVARIANTS
  VerdictCorrect
  VerdictStrict
  InStep
  TextPending
  ExpectedTrue
CHECK_DEADLOCK TRUE
