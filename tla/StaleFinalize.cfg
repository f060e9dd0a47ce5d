SPECIFICATION Spec
CONSTANTS
  Files = {f1, f2}
  Workers = {w1, w2}
  Outcomes <- OneOutcome
  MaxFaults <- OneRedelivery
INVARIANTS
  QuiescentJobIsFinal
CHECK_DEADLOCK FALSE
