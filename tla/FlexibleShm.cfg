SPECIFICATION Spec
CONSTANTS
  Procs = {p1, p2, p3}
  Nobody = none
  MaxFaults = 2
SYMMETRY ProcSymmetry
INVARIANTS TypeOK BlockStaysWhileUsed LastExitCleans HeartbeatsAreOwn
CHECK_DEADLOCK FALSE
