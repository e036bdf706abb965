CONSTANTS
  c = c
  l = l
  a = a
  NoOp = NoOp
  Threads = {c, l}
  Clients = {c}
  Ops = {a}
  Profiles <- DeletedComposite
  MaxGeneration = 1
  MaxOpGeneration = 1
SPECIFICATION Spec
INVARIANTS
  DeleteSweepIsComplete
CHECK_DEADLOCK FALSE
