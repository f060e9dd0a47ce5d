SPECIFICATION Spec
CONSTANTS
  t1 = t1
  t2 = t2
  t3 = t3
  shared = shared
  other = other
  Threads <- MCThreads
  Chunkers <- MCChunkers
  ChunkerOf <- MCChunkerOf
  Texts = {x1, x2}
  Lists <- MCLists
  MaxCalls = 4
  MaxKills = 1
SYMMETRY TextSymmetry
INVARIANTS
  TypeOK
  PaidByOneCall
PROPERTIES
  CarriedOver
CHECK_DEADLOCK FALSE
