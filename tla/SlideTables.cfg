SPECIFICATION FileSpec
CONSTANTS
  Extensions = {"pptx"}
  ParagraphSizes = {1, 3, 5}
  TableSizes = {0, 3}
  MaxParagraphs = 2
  MaxTables = 1
  MaxSections = 2
  MaxOrphans = 1
  MaxParentTokens = 4
  MaxChildTokens = 3
  MinChildTokens = 2
  CaptionTokens = 1
  HeaderTokens = 1
  RowTokens = 1
  Slides <- MCSlides
  MaxSlides = 4
  SlideWindow = 1
  RowPatterns <- MCRowPatterns
  MaxGridRows = 5
  RowBatchTargetTokens = 7
  MaxRowsPerChunk = 3
  MaxRowsForRowChunking = 4
INVARIANT SlideTablesChunked
CHECK_DEADLOCK FALSE
