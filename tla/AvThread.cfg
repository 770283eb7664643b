CONSTANTS
  a = a
  b = b
  c = c
  x = x
  y = y
  Threads <- ThreeThreads
  Clients <- OneClient
  Owner <- AllOfX3
  MaxThreads = 3
  NoThread = NoThread
  MaxStarts = 1
SPECIFICATION ThreadSpec
INVARIANTS
  ThreadTypeOK
  HandleOutlivesRun
  JoinedStartsAreSettled
  PoolWholeWhenJoined
PROPERTIES
  ImplementsThreadIds
