SPECIFICATION Spec
CONSTANTS
  Content <- Contents
  RightToLeft = TRUE
  rn_notAllowed <- NotAllowed
  NoPattern <- NoStart
  xmlc_white_space <- Whitespace
  drv_start_tag_open <- DrvStartTagOpen
  drv_start_tag_open_recover <- DrvStartTagOpenRecover
  drv_attribute_open <- DrvAttributeOpen
  drv_start_tag_close <- DrvStartTagClose
  drv_start_tag_close_recover <- DrvStartTagCloseRecover
  drv_end_tag <- DrvEndTag
  drv_end_tag_recover <- DrvEndTagRecover
  drv_mixed_text <- DrvMixedText
  drv_text <- DrvText
  drv_misses_dtl <- MissesLibrary
  drv_calls_dtl <- CallsLibrary
  Char <- Chars
  LEN_T = 1
  LIM_T = 2
  Starts <- SessionStarts
  Names <- NamesAB
  AttributeLists <- FewAttributes
  Chunks <- LongChunks
  Libraries = {"user"}
  Garbage <- AnyLevel
  MaxText = 3
  MaxLevel = 1
INVARIANTS
  TypeOK
  Explained
  ErrorsAgree
  Skipping
  BufferFits
CHECK_DEADLOCK TRUE
PROPERTIES
  VerdictFinal
  KeepsPromise
