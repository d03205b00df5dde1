SPECIFICATION FairSpec
CONSTANTS
  Worker = {w1, w2}
INVARIANTS
  IInv
PROPERTIES
  PromiseSpec
  RetriedBeforeGivingUp
  EveryCallEnds
