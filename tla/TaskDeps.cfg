SPECIFICATION Spec
CHECK_DEADLOCK FALSE
CONSTANTS
  t1 = t1
  t2 = t2
  NoOne = NoOne
  DependsOn <- MCDependsOn
  Replans <- MCReplans
  Tasks = {t1, t2}
  Structured = {FALSE}
  Checks = {FALSE}
  Actors = {"human"}
  Verbs = {"create", "planAgain", "reject", "cancel", "decide", "BlockTask",
    "ResumeTask", "Restart"}
INVARIANT
  NoOrphans
PROPERTY
  UpstreamFirst
