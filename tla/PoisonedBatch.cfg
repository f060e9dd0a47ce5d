SPECIFICATION OnceSpec
CONSTANTS
  Files = {f1, f2}
  Workers = {w1, w2}
  Outcomes <- OneOutcome
  MaxFaults <- OneError
INVARIANTS
  NoFilePoisonsBatch
CHECK_DEADLOCK FALSE
