CONSTANTS
  e1 = e1
  e2 = e2
  u1 = u1
  Exports = {e1}
  Uploads = {u1}
  ActiveLimit = 1
  MaxTries = 2
  Faults = {}
  OwnerOps = {"delete_matter"}
SPECIFICATION Spec
INVARIANTS BytesGone
CHECK_DEADLOCK FALSE
