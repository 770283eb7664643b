CONSTANTS
  a = a
  b = b
  c = c
  x = x
  y = y
  NoThread = NoThread
  Threads <- ThreeThreads
  Clients <- TwoClients
  Owner <- Shared
  MaxThreads = 3
  MaxStarts = 1
SPECIFICATION ThreadSpec
INVARIANT
  PoolSound
