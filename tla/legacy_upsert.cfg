SPECIFICATION FairSpec
CONSTANTS
  p1 = p1
  p2 = p2
  h1 = h1
  h2 = h2
  Person = {p1, p2}
  Primary = p1
  FamilyUpdate = {"family", "odd", "headless"}
  PrimaryUpdate = {"primary"}
  MembersOf <- MCMembersOf
  Unusable <- MCUnusable
  Handler = {h1, h2}
  None = None
  Readable = {TRUE, FALSE}
  MaxCopies = 1
  MaxCalls = 3
  MaxFaults = 2
INVARIANTS
  IInv
  SuccessMeansLinked
  RecordsBounded
PROPERTIES
  PromiseSpec
  EveryUpsertReturns
CHECK_DEADLOCK FALSE
