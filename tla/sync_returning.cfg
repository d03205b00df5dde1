SPECIFICATION Spec
CONSTANTS
  c1 = c1
  c2 = c2
  Contact = {c1, c2}
  Data = {"a", "b"}
  NoData = NoData
  None = None
  Worker = {w1}
  Message = {1, 2, 3}
  Malformed = {}
  Preexisting = {}
  Timestamp <- MCTimestamp
  AccountOf <- MCAccountOf
  PeopleOf <- MCReturningPeople
  Ordered = TRUE
  MaxFamilies = 3
  MaxCopies = 1
  MaxFaults = 0
  MaxCrashes = 0
INVARIANTS
  CreateMeansAbsent
CHECK_DEADLOCK FALSE
