CONSTANTS
  bufSize = 4
  InputSizes = {1, 2, 4}
  Lengths = {1, 2, 3, 4, 5, 6, 7, 8, 9}
  Growth = 1
  Faults = {}
SPECIFICATION Spec
INVARIANTS
  SizeMeansWhole
