\* Two workers, of which one may die for good, and a job of one attempt or of two.
CONSTANTS
  Job = {j1}
  Worker = {w1, w2}
  Steady = {w1}
  AttemptLimits = {1, 2}
  Lease = 2
  RetryDelay = 1
  MaxBackoff = 2
SPECIFICATION FairSpec
INVARIANTS
  OneHolder
PROPERTIES
  KeepsPromise
  EveryJobEnds
  CancelIsCarriedOut
