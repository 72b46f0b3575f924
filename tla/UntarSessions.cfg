CONSTANTS
  MaxBlocks = 2
  MaxPieces = 1
  Archives <- MCArchives
  Faults = {"short", "header", "write", "end"}
  FreshStart = FALSE
SPECIFICATION FairSpec
PROPERTIES
  SessionEnds
