SPECIFICATION Spec
CONSTANTS
  Calls = {c1}
  Builder = new
  MaxRetries = 1
  MaxOutages = 1
  MaxConcurrent = 1
PROPERTY
  NoReconnectionAfterClose
