SPECIFICATION FairSpec
CONSTANTS
  Calls = {c1, c2}
  Builder = new
  MaxRetries = 0
  MaxOutages = 1
  MaxConcurrent = 1
INVARIANT
  NoOrphan
PROPERTIES
  CallsReturn
  HealsWhenUnlimited
  NoRequestAfterClose
