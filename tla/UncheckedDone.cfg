SPECIFICATION Spec
CHECK_DEADLOCK FALSE
CONSTANTS
  t1 = t1
  t2 = t2
  NoOne = NoOne
  DependsOn <- MCDependsOn
  Replans <- MCReplans
  Tasks = {t1}
  Structured = {FALSE}
  Checks = {TRUE, FALSE}
  Actors = {"human", "lead", "bot", "reviewer", "system"}
  Verbs = {"create", "claim", "submit_for_review", "request_changes", "complete",
    "approve", "decide", "define"}
PROPERTY
  ChecksGateDone
