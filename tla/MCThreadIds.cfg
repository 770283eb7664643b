CONSTANTS
  a = a
  b = b
  c = c
  Threads <- MCThreads
  MaxThreads = 3
SPECIFICATION LiveSpec
INVARIANTS
  TypeOK
  Conserved
  InBounds
  NeverMainId
  UniqueUnlessClobbered
  NoneLostUnlessClobbered
PROPERTIES
  ImplementsPool
  LockFree
