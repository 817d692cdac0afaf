SPECIFICATION FairSpec
CONSTANTS
  Ops = {o1, o2, o3, o4}
  None = None
INVARIANTS
  TypeOK
  RegisteredHasHeartbeat
  GracefulOnce
PROPERTY
  CloseReturns
