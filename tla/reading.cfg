\* Two calls, of which the first makes the row; four changes under them.
CONSTANTS
  MaxChanges = 4
  Returns = 2
SPECIFICATION Spec
INVARIANTS
  SnapshotIsConfirmed
  TextIsConfirmed
  RefusedForReason
CHECK_DEADLOCK FALSE
