CONSTANTS
  Handles = {q1, q2}
  Elements = {e1, e2}
  Zero = zero
  MaxSize = 3
  Tasks = {t1, t2}
  Blocks = {p1, p2}
  Records = {r1, r2, r3}
  NULL = NULL
  MaxAllocations = 3
  Pages = {1, 2, 3}
  Base = 6
  Sizes = {1, 3, 6, 18, 62}
  Alignments = {2, 4}
  Alignment = 2
  Increment = 4
  Width32 = 16
  Width64 = 64
  MaxTotal = 20
  Grids = {g1, g2}
  Cells = {0, 1}
  MaxSide = 2
  Modulus = 16
  Rows = 2
  MaxColumns = 2
  ColumnSizes = {1, 2}
  Bytes = {0, 1}
  ByteSize = 2
  MaxBits = 5
  Keys = {0, 1, 2}
  Data = {0, 1, 2}
  MapSize = 2
  Resources = {x1, x2, x3}
  NoResource = NoResource
  MaxCount = 2
  MaxReleases = 2
  MonthDays <- ShortYear
  HoursPerDay = 2
  MinutesPerHour = 2
  SecondsPerMinute = 2
  Years = 2
SPECIFICATION ContainersSpec
INVARIANTS
  TypeOK
  BlocksSound
  ContainersSound
PROPERTIES
  ImplementsFifo
  ContainersMove
