SPECIFICATION FairSpec
CONSTANTS
  Waiters = {w1, w2}
  Notifier = n
  Nobody = none
  MaxFaults = 2
INVARIANTS TypeOK NoLostWakeup HolderNeverSleeps
PROPERTIES NotifierReturns WaitersReturn ImplementsLatch
CHECK_DEADLOCK FALSE
