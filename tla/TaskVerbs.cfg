SPECIFICATION Spec
CHECK_DEADLOCK FALSE
CONSTANTS
  t1 = t1
  t2 = t2
  NoOne = NoOne
  DependsOn <- MCDependsOn
  Replans <- MCReplans
  Tasks = {t1}
  Structured = {TRUE, FALSE}
  Checks = {TRUE, FALSE}
  Actors = {"human", "lead", "bot", "reviewer", "system"}
  Verbs = {"create", "createAgain", "plan", "planAgain", "claim", "reassign", "review",
    "submit_for_review", "block", "resume", "reopen", "release", "cancel", "request_changes",
    "reject", "archive", "define", "comment", "complete", "approve", "decide",
    "BlockTask", "ResumeTask", "RemoveOwner", "Converge", "ApprovePlan",
    "plain", "halt", "Restart"}
INVARIANTS
  TypeOK
  TerminalAgrees
PROPERTY
  HumanNoStands
