SPECIFICATION Spec
CONSTANTS
  Commands = {c1, c2}
  NoActor = NoActor
  MaxCalls = 4
  MaxConnection = 8
  MaxToken = 3
  Enabled = {"start", "poll", "validate", "disconnect", "connect"}
  Faults = {"lost", "keyring", "restart"}
SYMMETRY CommandSymmetry
INVARIANT LoggedOutStaysOut
INVARIANT OnePollPerCode
INVARIANT LogoutEndsChat
PROPERTY CredentialsOnlyAdvance
CHECK_DEADLOCK FALSE
