CONSTANTS
  a = a
  b = b
  c = c
  x = x
  y = y
  NoThread = NoThread
  Threads <- TwoThreads
  Clients <- OneClient
  Owner <- AllOfX2
  MaxThreads = 2
  MaxStarts = 2
SPECIFICATION ThreadLiveSpec
PROPERTY
  NobodyWaitsForEver
