SPECIFICATION Spec
CONSTANTS
  Pipelines = {"local", "online"}
  Config <- MCConfig
  NumEntries = 3
  UriRank <- MCUriRank
  Threads = {t1, t2}
INVARIANTS
  TypeOK
  ChunksCountedRight
PROPERTIES
  DirectoryResults
  CallReturns
