\* Bursts, failing sends and a drain; four notifications, both panes.
CONSTANTS
  Panes = {p1, p2}
  Workers = {w1, w2}
  MaxAttempts = 3
  MaxCalls = 2
  MaxNotes = 4
SPECIFICATION FairSpec
CHECK_DEADLOCK FALSE
INVARIANTS TypeOK OneWorker PendingServed SpacedSends InOrderBounded
PROPERTIES QueueSettles
