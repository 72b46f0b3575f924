CONSTANTS
  MaxBlocks = 2
  MaxPieces = 2
  Archives <- MCArchives
  Faults = {"heap", "short", "header", "write", "end"}
  FreshStart = TRUE
SPECIFICATION Spec
INVARIANTS
  TypeOK
  Aligned
  BufferHeld
  RestAfterSession
PROPERTIES
  ImplementsReader
