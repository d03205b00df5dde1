SPECIFICATION FairSpec
CONSTANTS
  c1 = c1
  c2 = c2
  Contact = {c1, c2}
  Data = {"a", "b"}
  NoData = NoData
  None = None
  Worker = {w1}
  Message = {1, 2, 3, 4}
  Malformed = {2}
  Preexisting = {"a", "b"}
  Timestamp <- MCTimestamp
  AccountOf <- MCAccountOf
  PeopleOf <- MCLeavingPeople
  Ordered = TRUE
  MaxFamilies = 3
  MaxCopies = 1
  MaxFaults = 0
  MaxCrashes = 0
INVARIANTS
  MirrorInv
  ContactsInv
  MirrorsNewest
PROPERTIES
  MirrorSpec
  EveryMessageRecorded
CHECK_DEADLOCK FALSE
