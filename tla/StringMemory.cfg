SPECIFICATION Spec
CONSTANTS
    Strings = {s1, s2}
    HeapMemories = {h1, h2}
    OwnMemories = {o1}
    Contexts = {c1, c2}
    EmptyString = EmptyString
    ConstString = ConstString
    NoMemory = NoMemory
    NoContext = NoContext
    MaxReferences = 2
SYMMETRY HeapSymmetry
INVARIANTS
    TypeOK
    NoDanglingString
    LeaksOnlyOverwritten
    TablesSound
    FoundUnlessReported
