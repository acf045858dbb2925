SPECIFICATION FairSpec
CONSTANTS
  Snapshot <- Snapshots
  Size <- Sizes
  Heavy <- Wide
  Limit = 3
  Batch = 2
  Thread = {t1, t2}
  None = none
  MaxAsks = 3
  MaxFaults = 1
INVARIANTS
  SearchSeesAll
  EvidenceIsOwn
  UnavailableForReason
PROPERTY
  AskEnds
CHECK_DEADLOCK FALSE
