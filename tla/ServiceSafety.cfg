SPECIFICATION OnceSpec
CONSTANTS
  Files = {f1, f2, f3}
  Workers = {w1, w2}
  Outcomes <- MCOutcomes
  MaxFaults <- OneErrorOneKill
SYMMETRY FileSymmetry
INVARIANTS
  TypeOK
  IInv
  JobStatusSound
  QuiescentJobIsFinal
  FinalizeSeesAll
  DeliveredTaskHasInputs
  OutputWhole
  ReturnedMeansRecorded
PROPERTIES
  ImplementsLifecycle
CHECK_DEADLOCK FALSE
