SPECIFICATION Spec
CONSTANTS
  w1 = w1
  w2 = w2
  Worker = {w1, w2}
  None = None
  MessageId = {m1}
  Earlier = {m1}
  Contacts = 1
  MaxFlows = 2
  MaxSecond = 1
  MaxFailures = 2
  MaxRaises = 1
SYMMETRY Symmetry
INVARIANTS
  IInv
  FailedIsExplained
  JobFailsFirst
  RefusalIsVisible
  JobsBounded
  StatesEnded
CHECK_DEADLOCK FALSE
