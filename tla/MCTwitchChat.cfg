SPECIFICATION Spec
CONSTANTS
  Commands = {c1, c2}
  NoActor = NoActor
  MaxCalls = 3
  MaxConnection = 6
  MaxToken = 3
  Enabled = {"connect", "stop", "validate"}
  Faults = {"refused", "dropped", "lost"}
SYMMETRY CommandSymmetry
INVARIANT TypeOK
INVARIANT OneLiveTask
INVARIANT StatusWhileLoggedIn
INVARIANT InstalledIsSaved
INVARIANT RefreshTokenSpentOnce
PROPERTY NoChatBehindStatus
CHECK_DEADLOCK FALSE
