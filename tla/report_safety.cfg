\* One request, two workers, two jobs.
CONSTANTS
  Commit = {c1, c2}
  Indexer = {w1, w2}
  Size = 1
  BatchSize = 1
  MaxChanges = 1
  Request = {r1}
  Key = {k1}
  Attempts = 1
  Vectors = {TRUE, FALSE}
  MaxJobs = 2
SYMMETRY Symmetry
SPECIFICATION SpecReporting
INVARIANTS
  AnswersAreOfSnapshot
PROPERTIES
  QueuePromise
CHECK_DEADLOCK FALSE
