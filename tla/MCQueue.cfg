CONSTANTS
  p1 = p1
  p2 = p2
  c1 = c1
  c2 = c2
  Producers = {p1, p2}
  Consumers = {c1, c2}
  MaxPushes <- Pushes
  InitialSize = 2
  Partitions = 2
  Sealed = 64
  Watched = {c1}
  StaleReaders = {p2, c2}
SPECIFICATION FairSpec
PROPERTIES
  HandsOverOnce
  EmptyOnlyBehindAPush
  EverythingDelivered
