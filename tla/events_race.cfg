SPECIFICATION FairSpec
CONSTANTS
  Message = {m1}
  Handler = {h1, h2}
  None = None
  Requeue = TRUE
  Failures = {"details"}
  MaxEvents = 4
  MaxFailures = 1
  MaxRaises = 1
  MaxRetries = 1
  MaxCrashes = 1
INVARIANTS
  IInv
  AckedMeansSucceeded
  FailureIsExplained
  OutcomeRecorded
PROPERTIES
  ArchivingSticks
  EveryMessageAcked
CHECK_DEADLOCK FALSE
