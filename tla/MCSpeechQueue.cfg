SPECIFICATION Spec
CONSTANTS
  QueueLimit = 2
  HistoryLimit = 1
  MaxId = 3
  MaxAsks = 1
  Workers = {w1, w2}
  Controls = {c1}
  Adapters = {a1}
  Probes = {}
  NoAdapter = NoAdapter
  Free = Free
  Nobody = Nobody
SYMMETRY Symmetry
INVARIANTS
  TypeOK
  SingleWorker
  NoLostWakeup
  UniqueIds
  WithinLimits
  InFlightIsOwned
PROPERTIES
  StartsInOrder
