SPECIFICATION FairSpec
CONSTANTS
  QueueLimit = 2
  HistoryLimit = 1
  MaxId = 1
  MaxAsks = 1
  Workers = {w1, w2}
  Controls = {c1}
  Adapters = {a1, a2}
  Probes = {p1}
  NoAdapter = NoAdapter
  Free = Free
  Nobody = Nobody
INVARIANTS
  ControlReachesPlayback
PROPERTIES
  ControlsReturn
  PendingDrains
