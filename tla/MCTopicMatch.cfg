SPECIFICATION Spec
CONSTANTS
  Chars <- TwoChars
  End = End
  MaxLen = 5
INVARIANTS
  DecidesByLevels
