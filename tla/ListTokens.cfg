SPECIFICATION SpecValidator
CONSTANTS
  Content <- Contents
  RightToLeft = TRUE
  rn_notAllowed <- NotAllowed
  NoPattern <- NoStart
  xmlc_white_space <- Whitespace
  drv_start_tag_open <- DrvStartTagOpen
  drv_start_tag_open_recover <- DrvStartTagOpenRecover
  drv_attribute_open <- DrvAttributeOpen
  drv_start_tag_close <- DrvStartTagClose
  drv_start_tag_close_recover <- DrvStartTagCloseRecover
  drv_end_tag <- DrvEndTag
  drv_end_tag_recover <- DrvEndTagRecover
  drv_mixed_text <- DrvMixedText
  drv_text <- DrvText
  drv_misses_dtl <- MissesLibrary
  drv_calls_dtl <- CallsLibrary
  Char <- Chars
  LEN_T = 2
  LIM_T = 3
  Starts <- ListStarts
  Names <- NamesA
  AttributeLists <- NoAttributes
  Chunks <- TextChunks
  Libraries = {}
  Garbage = {0}
  Nexp = 256
  MaxText = 4
  MaxLevel = 1
  MaxElements = 1
  MaxDepth = 1
  MaxBehind = 0
  PatternsMet <- AllReached
  TextsMet <- Collected
  Expects <- Depths
  MaxChars = 4
INVARIANTS
  TokensJudged
CHECK_DEADLOCK TRUE
