\* Two facts about one entity, a second entity that can fill the job channel, one disturbance and two callers that stop waiting.
CONSTANTS
  acme = acme
  bond = bond
  r1 = r1
  r2 = r2
  r3 = r3
  NoOne = NoOne
  Entities = {acme, bond}
  Recorders = {r1, r2}
  EntityOf <- MCEntityOf
  Threshold = 1
  MaxJobs = 1
  MaxRequests = 2
  Inputs = {"ask", "regen", "obsidian", "web", "retry", "llmFails", "gitFails", "readFails", "diskFails"}
  MaxInputs = 1
  MaxGiveUps = 2
SPECIFICATION FairSpec
CHECK_DEADLOCK FALSE
INVARIANTS TypeOK MarksMatchJobs RequestsAreKept ConfirmedFactsStay CountWithinLog BriefsRest
PROPERTIES RequestsAreServed
