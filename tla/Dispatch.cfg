\* Both caps 1: parking, panics, pause, stop, drain, shutdown and task updates; liveness.
CONSTANTS
  lead = lead
  eng = eng
  k1 = k1
  tree = tree
  w1 = w1
  w2 = w2
  w3 = w3
  Bots = {lead, eng}
  Lead = lead
  Builders = {}
  Coders = {eng}
  Tasks = {k1}
  NoTask = NoTask
  Isolated = {}
  External = {}
  Trees = {}
  Workers = {w1, w2, w3}
  NoWorker = NoWorker
  GlobalCap = 1
  PerBotCap = 1
  Inputs <- LiveInputs
  MaxTurns = 2
  Outcomes = {"ok", "canceled", "panic"}
  Controls = {"pause", "stopTurns", "drain", "shutdown", "prepare", "status"}
  TreeOf <- MCTreeOf
SPECIFICATION FairSpec
CHECK_DEADLOCK FALSE
INVARIANTS TypeOK FlagHasWorker ActiveOwned NoStrandedWork SlotsWithinCaps SingleCopy
PROPERTIES QueuesDrain StopDrains UsesGate QueuedTurnsLast
