CONSTANTS
  Threads = {t1, t2, t3}
  Ops = {a, b}
  NoOp = NoOp
  Signals = {"READ", "CANCELIO"}
  MaxGeneration = 2
SPECIFICATION FairSpec
PROPERTIES
  ServesInOrder
  EveryNodeDispatched
