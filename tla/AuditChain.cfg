CONSTANTS
  m1 = m1
  system = system
  c1 = c1
  c2 = c2
  none = none
  e1 = e1
  e2 = e2
  e3 = e3
  e4 = e4
  b1 = b1
  Matters = {m1}
  System = system
  Conns <- MCConns
  NoConn = none
  EntryIds <- MCEntryIds
  Bodies = {b1}
  RuleObeyed = TRUE
SPECIFICATION FairSpec
INVARIANTS ChainIntact NoSequenceCollision
PROPERTY WritesComplete
CHECK_DEADLOCK FALSE
