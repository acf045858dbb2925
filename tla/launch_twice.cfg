\* The application is opened again while it is starting.
CONSTANTS
  Run = {l1, l2}
  None = None
  MaxFaults = 0
SYMMETRY Symmetry
SPECIFICATION Spec
INVARIANT RunIsRecorded
CHECK_DEADLOCK FALSE
