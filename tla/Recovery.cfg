\* One worktree task without caps: every outcome, retries, blocking, preparation.
CONSTANTS
  lead = lead
  eng = eng
  k1 = k1
  tree = tree
  w1 = w1
  w2 = w2
  w3 = w3
  Bots = {lead, eng}
  Lead = lead
  Builders = {}
  Coders = {eng}
  Tasks = {k1}
  NoTask = NoTask
  Isolated = {k1}
  External = {}
  Trees = {tree}
  Workers = {w1, w2}
  NoWorker = NoWorker
  GlobalCap = 0
  PerBotCap = 0
  Inputs <- RecoveryInputs
  MaxTurns = 2
  Outcomes = {"ok", "undurable", "timeout", "canceled", "transient", "failed"}
  Controls = {"prepare", "status"}
  TreeOf <- MCTreeOf
SPECIFICATION Spec
SYMMETRY WorkerSymmetry
CHECK_DEADLOCK FALSE
INVARIANTS UncappedNeverParks
PROPERTIES FailuresAreFollowedUp
