SPECIFICATION FairSpec
CONSTANTS
  Change = {c1, c2}
  Mass = {c2}
  Start = "live"
  Touch = FALSE
  MaxEdits = 2
  MaxFaults = 1
INVARIANTS IInv NothingLost ConfigNotLost
PROPERTY ChangeSettles
CHECK_DEADLOCK FALSE
CONSTANTS
  c1 = c1
  c2 = c2
