\* Uncapped lane: enqueue against a worker that is leaving.
CONSTANTS
  lead = lead
  eng = eng
  k1 = k1
  tree = tree
  w1 = w1
  w2 = w2
  w3 = w3
  Bots = {lead, eng}
  Lead = lead
  Builders = {}
  Coders = {eng}
  Tasks = {k1}
  NoTask = NoTask
  Isolated = {}
  External = {}
  Trees = {}
  Workers = {w1, w2, w3}
  NoWorker = NoWorker
  GlobalCap = 0
  PerBotCap = 0
  Inputs <- ChatInputs
  MaxTurns = 3
  Outcomes = {"ok"}
  Controls = {}
  TreeOf <- MCTreeOf
SPECIFICATION Spec
SYMMETRY WorkerSymmetry
CHECK_DEADLOCK FALSE
INVARIANTS LaneSerialized
