CONSTANTS
  MaxBlocks = 2
  MaxPieces = 2
  MaxPadding = 1
  MaxArchive = 6
  Archives <- WholeStreams
  Faults = {"heap", "header", "write", "end"}
  FreshStart = TRUE
  blockmod = 2
  Modes = {"push", "pull"}
  GzFaults = {"source", "data", "checksum", "memory"}
SPECIFICATION GzFairSpec
INVARIANTS
  GzTypeOK
  NothingOverwritten
  SuccessMeansExpanded
  WholeStreamSucceeds
PROPERTIES
  ImplementsReaderUnlessDamaged
  CallReturns
