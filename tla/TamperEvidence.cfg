CONSTANTS
  m1 = m1
  system = system
  c1 = c1
  none = none
  e1 = e1
  e2 = e2
  e3 = e3
  b1 = b1
  b2 = b2
  Matters = {m1}
  System = system
  Conns = {c1}
  NoConn = none
  EntryIds = {e1, e2, e3}
  Bodies = {b1, b2}
  RuleObeyed = TRUE
SPECIFICATION Spec
INVARIANTS TamperEvident HeadPinsHistory
CHECK_DEADLOCK FALSE
