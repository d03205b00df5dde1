SPECIFICATION Spec
CONSTANTS
  Worker = {w1, w2}
  None = None
  MessageId = {m1}
  Earlier = {}
  Contacts = 0
  MaxFlows = 2
  MaxSecond = 0
  MaxFailures = 0
  MaxRaises = 0
INVARIANTS
  MessageIdIdentifies
CHECK_DEADLOCK FALSE
