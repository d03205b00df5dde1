SPECIFICATION FairSpec
CONSTANTS
  c1 = c1
  c2 = c2
  Contact = {c1, c2}
  Data = {"a", "b"}
  NoData = NoData
  None = None
  Worker = {w1, w2}
  Message = {2, 3}
  Malformed = {}
  Preexisting = {"a"}
  Timestamp <- MCTimestamp
  AccountOf <- MCAccountOf
  PeopleOf <- MCReturningPeople
  Ordered = TRUE
  MaxFamilies = 4
  MaxCopies = 1
  MaxFaults = 1
  MaxCrashes = 2
INVARIANTS
  OrderInv
  RedeliveryIsSilent
  NoOrphanContact
PROPERTIES
  AllAcknowledged
CHECK_DEADLOCK FALSE
