SPECIFICATION FairSpec
CONSTANTS
  Streams = {s1, s2}
  Kinds <- MCKinds
  SubCap = 1
  ChatCap = 1
  ChatEvents <- MCChatEvents
  MaxVersion = 3
  MaxAnswer = 2
  NoSession = ""
INVARIANTS
  TypeOK
  StreamsInOrder
  CacheCatchesUp
  ChatAgrees
PROPERTY
  ReadersGoOn
