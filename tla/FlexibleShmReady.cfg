SPECIFICATION Spec
CONSTANTS
  Procs = {p1, p2, p3}
  Nobody = none
  MaxFaults = 0
INVARIANT ReadyMeansNotified
CHECK_DEADLOCK FALSE
