SPECIFICATION Spec
CONSTANTS
  Calls = {c1, c2}
  Builder = new
  MaxRetries = 1
  MaxOutages = 1
  MaxConcurrent = 2
INVARIANTS
  TypeOK
  InstalledIsOpen
  FreshIsPrivate
  DisconnectedHasCause
  CalmCallsDoNotInterfere
PROPERTY
  ImplementsAtMostTwice
