CONSTANTS
  dict_size = 4
  output_buffer_size = 3
  MaxLength = 8
  CopyLengths = {1, 3, 4}
  Distances = {1, 2, 4, 5}
  Faults = {"source", "corrupt", "refuse", "short"}
SPECIFICATION Spec
CHECK_DEADLOCK FALSE
INVARIANTS
  InTypeOK
  OutputExact
  OkMeansWhole
