SPECIFICATION LiveSpec
CONSTANTS
  Files = {f1, f2}
  Workers = {w1, w2}
  Outcomes <- OneOutcome
  MaxFaults <- OneRedelivery
INVARIANTS
  NoFileLost
PROPERTIES
  AcceptedFilesSettle
CHECK_DEADLOCK FALSE
