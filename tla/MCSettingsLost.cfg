SPECIFICATION Spec
CONSTANTS
  notepad = notepad
  obs = obs
  Targets <- Applications
  HashOf <- SameHash
  MaxItems = 2
  LocalHost = "here"
  RemoteHosts = {"nas"}
  Dests <- Destinations
  Installed <- FreshOrRemote
  Commands = {c1, c2}
  NoActor = NoActor
  MaxCalls = 2
  Enabled = {"update"}
  Faults = {"damage", "crash", "interrupted"}
SYMMETRY CommandSymmetry
PROPERTY RecoveryIsHonest
CHECK_DEADLOCK FALSE
