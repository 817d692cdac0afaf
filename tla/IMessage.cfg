SPECIFICATION Spec
CONSTANTS
  Listeners = {l1, l2}
  Cap = 1
  MaxRows = 3
  Wanted = {1, 3}
  MaxConnects = 2
SYMMETRY Symmetric
INVARIANTS
  TypeOK
  ChannelInOrder
  HandedOverOnce
PROPERTY
  ImplementsReopenedFeed
