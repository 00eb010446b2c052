\* Two turns of one bot, every operation on its desktop, one failed command.
SPECIFICATION FairSpec
CONSTANTS
  Turns = {a1, a2}
  NoTurn = NoTurn
  Routes = {"remove", "wake"}
  LeaseTTL = 1
  ReadyWait = 1
  MaxFailures = 1
CHECK_DEADLOCK FALSE
INVARIANTS TypeOK NoLeakedLease
PROPERTIES LeaseIsFenced TurnsGoOn
