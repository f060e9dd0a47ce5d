SPECIFICATION Spec
CONSTANTS
  FileTypes = {"pdf"}
  ClassifierModes = {"off"}
  Patterns <- MCPatterns
  Levels = {1, 2}
  RawLevels = {0, 2}
  MinHeadings = 2
  MinCoverage = 60
  MaxCandidates = 3
  MinCharsPerPage = 1
  MinChildTokens = 3
  MaxElements = 3
  MaxPages = 2
  MaxConfirmed = 2
INVARIANT
  PagesInReadingOrder
CHECK_DEADLOCK FALSE
