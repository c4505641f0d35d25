SPECIFICATION Spec
CONSTANTS
  notepad = notepad
  obs = obs
  Targets <- Applications
  HashOf <- SameHash
  MaxItems = 2
  LocalHost = "here"
  RemoteHosts = {"nas"}
  Dests <- Destinations
  Installed <- FreshOrRemote
  Commands = {c1, c2}
  NoActor = NoActor
  MaxCalls = 2
  Enabled = {"update", "edit", "add", "remove", "window", "authorize", "dial"}
  Faults = {"crash", "power", "io", "damage", "version", "dns"}
SYMMETRY CommandSymmetry
INVARIANT ApprovalIsConfigured
INVARIANT OnlyConfirmedAddresses
PROPERTY RegisterSpec
PROPERTY RecoveryIsHonest
PROPERTY ReadOnlyKept
CHECK_DEADLOCK FALSE
