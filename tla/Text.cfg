CONSTANTS
  Chars = {"a", "A", " "}
  White = {" "}
  Upper <- LowerAndUpper
  Zero = "0"
  MaxText = 4
  Names = {"x", "y"}
  MaxSegments = 4
  Letters = {"n"}
  Control <- NewlineEscape
  Alphabet = {"n", "newline", "("}
  MaxRegex = 5
  MaxSubject = 3
  Characters = {"a", "b", "q", "e", "n"}
  Blanks = {"n"}
  Newline = "n"
  Backslash = "e"
  Terminator = "0"
  Languages <- FourLanguages
  Range32 = 8
  Ignore = Ignore
  MaxInput = 4
  MaxBuffer = 2
  Bits <- ScaledBits
  Widths = {4}
  MaxWidth = 4
  MaxFormat = 4
SPECIFICATION TextSpec
INVARIANTS
  TextSound
  
  PrintedSound
PROPERTY
  TokenizingEnds
