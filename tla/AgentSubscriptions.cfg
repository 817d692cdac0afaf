SPECIFICATION Spec
CONSTANTS
  Ops = {o1, o2, o3}
  None = None
SYMMETRY Symmetric
INVARIANT
  CloseUnsubscribes
