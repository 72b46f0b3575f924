CONSTANTS
  hash_bits = 3
  dict_size = 300
  Inputs <- Inputs1
  Foreign <- Foreign1
  ShortMember = 30
  MaxSilences = 1
  ClockSize = 6
  targz_read_timeout = 2
  StackBytes = {0, 24}
CHECK_DEADLOCK FALSE
SPECIFICATION Spec
INVARIANTS GmTypeOK RoundTrip DoneMeansWhole
PROPERTIES GivesUpAfterTimeout MemberReturns
