SPECIFICATION OnceSpec
CONSTANTS
  Files = {f1, f2}
  Workers = {w1, w2}
  Outcomes <- OneOutcome
  MaxFaults <- OneKill
INVARIANTS
  CrashRequeuesFile
CHECK_DEADLOCK FALSE
