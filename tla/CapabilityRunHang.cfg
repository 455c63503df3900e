CONSTANTS
  r1 = r1
  r2 = r2
  none = none
  settings = settings
  Runs = {r1, r2}
  None = none
  Settings = settings
  Gated = {r1}
  Qualified = {r2}
  WithDocuments = {r2}
  Keyed = TRUE
  ProviderFails = TRUE
SPECIFICATION FairSpec
PROPERTIES RunsAnswered
CHECK_DEADLOCK FALSE
