\* Three facts and one edit in Obsidian.
CONSTANTS
  acme = acme
  bond = bond
  r1 = r1
  r2 = r2
  r3 = r3
  NoOne = NoOne
  Entities = {acme}
  Recorders = {r1, r2, r3}
  EntityOf <- MCEntityOf
  Threshold = 1
  MaxJobs = 1
  MaxRequests = 2
  Inputs = {"obsidian"}
  MaxInputs = 1
  MaxGiveUps = 0
SPECIFICATION Spec
CHECK_DEADLOCK FALSE
PROPERTIES UserTextKept
