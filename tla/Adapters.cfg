SPECIFICATION AdapterSpec
CONSTANTS
  Listeners = {l1, l2}
  Cap = 1
  MaxUIDs = 2
  Wanted = {1, 2}
  PumpCap = 1
  MaxUpdates = 2
  MaxBots = 2
  MaxMessages = 3
  MaxSessions = 2
INVARIANTS
  AdapterTypes
  RepeatsHaveCause
  ConfirmedIsSafe
  PanicHasCause
PROPERTIES
  ImplementsFeed
  ArrivedIsDelivered
  ListenersStop
  MessagesArrive
