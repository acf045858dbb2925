\* An index that fails between its two batches.
CONSTANTS
  Commit = {c1}
  Indexer = {w1}
  Size = 2
  BatchSize = 1
  MaxChanges = 0
  Request = {r1}
  Key = {k1}
  Attempts = 1
  Vectors = {TRUE}
  MaxJobs = 2
SYMMETRY Symmetry
SPECIFICATION SpecReporting
INVARIANTS
  IndexedIsWhole
CHECK_DEADLOCK FALSE
