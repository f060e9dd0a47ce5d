SPECIFICATION PollLiveSpec
CONSTANTS
  Files = {f1, f2}
  Workers = {w1, w2}
  Outcomes <- MCOutcomes
  MaxFaults <- NoFaults
  FileOrder <- MCFileOrder
  FileChunks <- MCFileChunks
  PageLimit = 2
INVARIANTS
  PollTypeOK
  PageConsistent
  DownloadIsFirstPage
PROPERTIES
  PercentNeverFalls
  AcceptedJobSettles
  UiSettles
CHECK_DEADLOCK FALSE
