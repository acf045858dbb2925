\* Three roles on two threads; roles may hang.
CONSTANTS
  Role = {r1, r2, r3}
  MaxConcurrency = 2
SPECIFICATION FairSpec
INVARIANTS
  RolesAreReal
PROPERTIES
  KeepsPromise
  RunEnds
  RevokedIsNotReported
