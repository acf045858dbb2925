\* Two runs, one after the other or at once; two faults.
CONSTANTS
  Run = {l1, l2}
  None = None
  MaxFaults = 2
SPECIFICATION FairSpec
INVARIANTS
  NoOrphans
  ClosedMeansStopped
  FoundWhenAlone
PROPERTIES
  StopIsCarriedOut
CHECK_DEADLOCK FALSE
