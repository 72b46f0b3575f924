CONSTANTS
  Boards = {"ESP32", "ESP8266"}
  BuffBlocks = 2
  MaxChunks = 2
  Operations = {"gzExpander", "gzStreamExpander", "tarGzExpander", "tarGzStreamExpander", "tarGzExpanderNoTempFile", "tarGzStreamUpdater", "gzUpdater", "gzStreamUpdater", "gzStreamExpander to a writer", "writeGzStream"}
  Faults = {"heap", "source", "refuse", "end"}
SPECIFICATION Spec
INVARIANTS
  SsTypeOK
  WritesWhereAsked
  ReturnTells
