CONSTANTS
  Threads = {t1, t2, t3}
  Waiter = t1
  InitialCount = 1
  MaxPosted = 3
  MaxInterrupts = 1
  Children = {c1, c2}
  Parent = Parent
  Nobody = Nobody
  MaxFd = 3
  Leftovers = {2}
  Capacity = 1
  MaxOutput = 1
  Streams = {s1, s2, s3}
  NoStream = NoStream
  MaxBytes = 2
  SizeRange = 2
  Nodes = {n1, n2, n3, n4}
  Top = n1
  Elsewhere = Elsewhere
  Nowhere = Nowhere
  MaxChanges = 1
SPECIFICATION Spec
INVARIANTS
  StatusesSound
  FilesSound
  DeleteSound
PROPERTIES
  SyncSound
  PipesAndWaits
