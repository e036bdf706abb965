CONSTANTS
  Threads = {t1, t2, t3}
  MaxYields = 6
SPECIFICATION FairSpec
PROPERTY WakeupEndsSuspension
CHECK_DEADLOCK FALSE
