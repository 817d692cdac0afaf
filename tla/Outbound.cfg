SPECIFICATION FairSpec
CONSTANTS
  Senders = {s1, s2}
  MaxLen = 3
  PrefixLen = 1
  Full = 4
  Long = 7
  Texts <- MCTexts
CHECK_DEADLOCK FALSE
INVARIANTS
  TypeOK
  WellCut
  DeliveredInOrder
  ChunksTogether
  FailureHasCause
PROPERTY
  SendsReturn
