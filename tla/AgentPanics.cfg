SPECIFICATION Spec
CONSTANTS
  Ops = {o1, o2, o3, o4}
  None = None
SYMMETRY Symmetric
INVARIANT
  NeverPanics
