SPECIFICATION Spec
CONSTANTS
  FileTypes = {"pdf", "docx", "pptx"}
  ClassifierModes = {"off", "default"}
  Patterns <- MCPatterns
  Levels = {1, 2}
  RawLevels = {0, 2}
  MinHeadings = 2
  MinCoverage = 60
  MaxCandidates = 3
  MinCharsPerPage = 1
  MinChildTokens = 3
  MaxElements = 3
  MaxPages = 2
  MaxConfirmed = 2
INVARIANTS
  TypeOK
  NothingLost
  ReadingOrderKept
  FiledUnderItsHeadings
  PromotedUnlessBlank
  PagesHoldTheirText
CHECK_DEADLOCK FALSE
