SPECIFICATION Spec
CONSTANTS
  c1 = c1
  c2 = c2
  Contact = {c1, c2}
  Data = {"a", "b"}
  NoData = NoData
  None = None
  Worker = {w1, w2}
  Message = {2, 3}
  Malformed = {}
  Preexisting = {}
  Timestamp <- MCTimestamp
  AccountOf <- MCAccountOf
  PeopleOf <- MCUnchangedPeople
  Ordered = FALSE
  MaxFamilies = 2
  MaxCopies = 1
  MaxFaults = 0
  MaxCrashes = 0
INVARIANTS
  NoopHasAccount
CHECK_DEADLOCK FALSE
