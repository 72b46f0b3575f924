CONSTANTS
  Cuts = {0, 1, 3}
  Archives <- MCArchives
  Paths = {"a", "b"}
  LongPaths = {"a"}
  SkippedPaths = {"b"}
  Faults = {"full", "open", "create", "short", "lost", "reopen"}
  HealthChecks = TRUE
  LimitedFs = TRUE
  FreshStart = TRUE
SPECIFICATION Spec
INVARIANTS
  FilesTypeOK
  SuccessMeansOnDisk
  HealthyFilesSucceed
PROPERTIES
  LeavesFilesAlone
  ImplementsReader
