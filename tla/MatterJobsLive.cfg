CONSTANTS
  e1 = e1
  e2 = e2
  u1 = u1
  Exports = {e1, e2}
  Uploads = {u1}
  ActiveLimit = 1
  MaxTries = 2
  Faults = {"redis", "pipeline"}
  OwnerOps = {"reindex"}
SPECIFICATION FairSpec
PROPERTIES JobsSettle
CHECK_DEADLOCK FALSE
