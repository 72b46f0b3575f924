CONSTANTS
  MaxBlocks = 2
  MaxPieces = 1
  MaxPadding = 0
  MaxArchive = 5
  Archives <- WholeStreams
  Faults = {"write"}
  FreshStart = TRUE
  blockmod = 3
  Modes = {"pull"}
  GzFaults = {}
SPECIFICATION GzSpec
INVARIANTS
  OkMeansExpanded
