SPECIFICATION Spec
CONSTANTS
  Commands = {c1, c2}
  NoActor = NoActor
  MaxCalls = 1
  MaxConnection = 2
  MaxToken = 2
  Enabled = {"validate"}
  Faults = {}
SYMMETRY CommandSymmetry
INVARIANT RefreshIsKept
CHECK_DEADLOCK FALSE
