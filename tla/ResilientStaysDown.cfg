SPECIFICATION Spec
CONSTANTS
  Calls = {c1, c2}
  Builder = new
  MaxRetries = 1
  MaxOutages = 1
  MaxConcurrent = 1
INVARIANT
  GetClientReconnects
