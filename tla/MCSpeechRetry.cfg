SPECIFICATION Spec
CONSTANTS
  QueueLimit = 2
  HistoryLimit = 1
  MaxId = 2
  MaxAsks = 2
  Workers = {w1, w2}
  Controls = {c1}
  Adapters = {a1}
  Probes = {}
  NoAdapter = NoAdapter
  Free = Free
  Nobody = Nobody
SYMMETRY Symmetry
INVARIANTS
  SpokenOncePerAsk
  RetryBudget
  PlaybackAccounted
PROPERTIES
  OutcomeIsFinal
