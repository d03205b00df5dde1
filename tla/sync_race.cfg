SPECIFICATION Spec
CONSTANTS
  c1 = c1
  c2 = c2
  Contact = {c1, c2}
  Data = {"a", "b"}
  NoData = NoData
  None = None
  Worker = {w1, w2}
  Message = {1, 2}
  Malformed = {}
  Preexisting = {}
  Timestamp <- MCTimestamp
  AccountOf <- MCAccountOf
  PeopleOf <- MCGrowingPeople
  Ordered = FALSE
  MaxFamilies = 3
  MaxCopies = 2
  MaxFaults = 1
  MaxCrashes = 1
SYMMETRY Symmetry
INVARIANTS
  IInv
  ReportedWritesExist
  AtMostOneAccount
  ActionsKnown
CHECK_DEADLOCK FALSE
