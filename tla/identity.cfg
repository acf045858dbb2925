CONSTANTS
  Account = {a1, a2}
  Browser = {b1}
  State = {s1, s2}
  Thread = {t1, t2, t3}
  Connection = {c1, t3}
  conn <- Processes
  None = None
  MaxUses = 2
  MaxGrants = 3
  MaxSessions = 2
SYMMETRY Symmetry
SPECIFICATION SpecWithin
INVARIANTS
  ReuseNeedsRollback
  LinkedToStarter
  CredentialKept
\* States, grants and sessions run out.
CHECK_DEADLOCK FALSE
