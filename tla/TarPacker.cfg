CONSTANTS
  T_BLOCKSIZE = 4
  FloatBits = 2
  T_NAMELEN = 6
  Unprintable = {"~"}
  Letters = {"a", "b"}
  MaxFiles = 2
  Calls <- MCCalls
  Destinations <- MCDestinations
  Sizes = {0, 4, 5, 6}
  ShortReads = {1}
  ShortWrites = {3}
  Faults = {"change", "read", "refuse", "memory"}
CHECK_DEADLOCK FALSE
SPECIFICATION Spec
INVARIANTS
  PkTypeOK
  FullSizeMeansArchive
  LayoutKept
  TreeComesBack
