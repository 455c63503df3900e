CONSTANTS
  m1 = m1
  system = system
  c1 = c1
  c2 = c2
  none = none
  e1 = e1
  e2 = e2
  e3 = e3
  b1 = b1
  Matters = {m1}
  System = system
  Target = m1
  Conns = {c1, c2}
  NoConn = none
  EntryIds = {e1, e2, e3}
  Bodies = {b1}
  RuleObeyed = FALSE
SPECIFICATION RSpec
INVARIANTS OnlyCountsDisturbed PublishedHeadStays OnlyLogBehindChain
PROPERTY ImplementsAuditLog
CHECK_DEADLOCK FALSE
