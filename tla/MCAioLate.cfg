CONSTANTS
  c = c
  l = l
  a = a
  b = b
  NoOp = NoOp
  Threads = {c, l}
  Clients = {c}
  Ops = {a, b}
  Profiles <- Late
  MaxGeneration = 2
  MaxOpGeneration = 2
SPECIFICATION Spec
SYMMETRY Symmetry
INVARIANTS
  RetainedForItsChild
  DestroyedWhenUnused
PROPERTIES
  CombinerContract
  TimeoutIsOwn
CHECK_DEADLOCK FALSE
