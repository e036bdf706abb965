CONSTANTS
  Threads = {t1, t2, t3}
  Outsiders = {o1}
  Limits = {1, 2}
  MaxItems = 2
  MaxQuits = 2
SPECIFICATION FairSpec
INVARIANT SleepersHaveNothingToDo
PROPERTY QuitReachesEveryThread
