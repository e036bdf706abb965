CONSTANTS
  c = c
  l = l
  a = a
  NoOp = NoOp
  Threads = {c, l}
  Clients = {c}
  Ops = {a}
  Profiles <- Single
  MaxGeneration = 1
  MaxOpGeneration = 2
SPECIFICATION FairSpec
PROPERTIES
  DeleteCompletes
  SettledIsDelivered
CHECK_DEADLOCK FALSE
