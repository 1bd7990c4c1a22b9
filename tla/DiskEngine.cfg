SPECIFICATION Spec
CONSTANTS
  NSectors = 3
  ChunkSectors = 2
  Byte = {0, 1}
  NULL = NULL
  RawImages <- MCImages
  Writes <- MCWrites
  CacheLimit = 2
  MaxRevision = 3
  MaxFiles = 2
  MaxStates = 1
INVARIANTS
  CacheAccounted
  PreparedSaveFaithful
PROPERTIES
  ImplementsDisk
  CallReturns
