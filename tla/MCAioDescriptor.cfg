CONSTANTS
  c = c
  l = l
  a = a
  b = b
  NoOp = NoOp
  Threads = {c, l}
  Clients = {c}
  Ops = {a, b}
  Profiles <- Descriptors
  MaxGeneration = 1
  MaxOpGeneration = 1
SPECIFICATION Spec
SYMMETRY Symmetry
INVARIANTS
  OnePlace
  ParkedHasWaker
  CancelIoIsPositional
  DeleteSweepIsComplete
PROPERTIES
  StatusSettlesOnce
  FrozenBehindInitialization
