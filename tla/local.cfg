\* Two threads ask for two snapshots, or twice for one; three writes fail; the process
\* starts three times.
CONSTANTS
  Snapshot = {s1, s2}
  Request = {r1, r2}
  Rejection = {FALSE}
  Capacity = 2
  MaxJobs = 2
  MaxFaults = 3
  MaxBoots = 3
SPECIFICATION FairSpec
INVARIANTS
  OnlyLatestActive
  CancelIsHonoured
  NothingStranded
PROPERTIES
  EveryAnalysisEnds
CHECK_DEADLOCK FALSE
