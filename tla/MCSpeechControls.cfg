SPECIFICATION Spec
CONSTANTS
  QueueLimit = 2
  HistoryLimit = 1
  MaxId = 2
  MaxAsks = 1
  Workers = {w1, w2}
  Controls = {c1, c2}
  Adapters = {a1}
  Probes = {}
  NoAdapter = NoAdapter
  Free = Free
  Nobody = Nobody
SYMMETRY Symmetry
INVARIANTS
  WireAgrees
PROPERTIES
  PausedSilence
  ControlExcludesTalk
  NothingStartsBehindControl
