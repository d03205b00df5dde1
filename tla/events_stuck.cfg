SPECIFICATION Spec
CONSTANTS
  Message = {m1}
  Handler = {h1}
  None = None
  Requeue = FALSE
  Failures = {"message"}
  MaxEvents = 1
  MaxFailures = 1
  MaxRaises = 0
  MaxRetries = 0
  MaxCrashes = 0
INVARIANTS
  OutcomeRecorded
