\* Pauses, resumes, checkpoints and budgets; the governor implements the gate.
CONSTANTS
  tokens = tokens
  cost = cost
  Workers = {w1, w2}
  Callers = {c1}
  Gauges = {tokens}
  Limits <- MCLimits
  MaxTurnsPerGate = 1
  Disabled = FALSE
  Bumps = {1}
  EventBuffer = 1
  MaxCalls = 2
  MaxTurns = 2
  MaxUsage = 1
SPECIFICATION FairSpec
CHECK_DEADLOCK FALSE
INVARIANTS TypeOK NoLostWakeup CheckpointOverrun
PROPERTIES BudgetPauseIsEarned ImplementsGate
