SPECIFICATION Spec
CHECK_DEADLOCK FALSE
CONSTANTS
  t1 = t1
  t2 = t2
  NoOne = NoOne
  DependsOn <- MCDependsOn
  Replans <- MCReplans
  Tasks = {t1}
  Structured = {FALSE}
  Checks = {FALSE}
  Actors = {"human", "lead", "bot", "reviewer", "system"}
  Verbs = {"create", "createAgain", "approve", "complete", "submit_for_review", "plain", "halt"}
INVARIANT
  StopOrdersAreRead
