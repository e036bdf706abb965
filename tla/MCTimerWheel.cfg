SPECIFICATION Spec
CHECK_DEADLOCK FALSE
SYMMETRY Symmetry
CONSTANTS
  SLOTS = 2
  WORD = 1
  LEVELS = 2
  Limits = {1, 2}
  Timers = {t1, t2}
  Start = 1
  MaxTick = 4
  MaxDeadline = 5
  MaxThreads = 3
INVARIANTS
  NeverEarly
  HeldOnce
  SleepersCoverTimers
