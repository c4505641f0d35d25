SPECIFICATION FairSpec
CONSTANTS
  Commands = {c1, c2}
  NoActor = NoActor
  MaxCalls = 2
  MaxConnection = 4
  MaxToken = 2
  Enabled = {"connect", "validate", "disconnect", "poll", "start", "stop"}
  Faults = {"keyring", "refused"}
PROPERTY CommandsReturn
CHECK_DEADLOCK FALSE
