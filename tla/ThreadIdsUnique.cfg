CONSTANTS
  a = a
  b = b
  c = c
  Threads <- MCThreads
  MaxThreads = 4
SYMMETRY Symmetry
SPECIFICATION Spec
INVARIANTS
  UniqueIds
