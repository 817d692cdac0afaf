SPECIFICATION FairSpec
CONSTANTS
  Listeners = {l1}
  Cap = 1
  MaxRows = 3
  Wanted = {1, 3}
  MaxConnects = 2
PROPERTIES
  CancelStops
  CloseStopsReaders
