CONSTANTS
  a1 = a1
  a2 = a2
  e1 = e1
  e2 = e2
  Arrays <- OneArray
  Elements <- TwoElements
  Zero = Zero
  None = None
  DefaultGrowSize = 1
  Sizes <- OneTwo
  Relocation = {TRUE, FALSE}
  Callbacks = {TRUE}
  MaxPages = 3
  MaxCount = 3
  MaxCapacity = 4
  InOrderOnly = TRUE
  Word = 8
SYMMETRY Symmetry
SPECIFICATION Spec
INVARIANTS
  TypeOK
  CallsAreSequenceOperations
  ReserveHasRoom
PROPERTIES
  SoundnessKept
  ElementsStayOrLeave
