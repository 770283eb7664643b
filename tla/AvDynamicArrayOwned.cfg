CONSTANTS
  a1 = a1
  a2 = a2
  e1 = e1
  e2 = e2
  Arrays <- TwoArrays
  Elements <- OneElement
  Zero = Zero
  None = None
  DefaultGrowSize = 1
  Sizes <- One
  Relocation = {}
  Callbacks = {}
  MaxPages = 3
  MaxCount = 3
  MaxCapacity = 4
  InOrderOnly = FALSE
  Word = 8
SYMMETRY Symmetry
SPECIFICATION Spec
INVARIANT
  AppendedPagesAreOwned
