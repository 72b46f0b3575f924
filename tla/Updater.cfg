CONSTANTS
  SPI_FLASH_SEC_SIZE = 2
  MaxSize = 3
  MaxEntries = 2
  Faults = {"source", "memory", "begin", "write", "end"}
SPECIFICATION Spec
INVARIANTS
  UpTypeOK
  CommittedIsImage
  SuccessMeansFlashed
  SoundUpdateSucceeds
