\* Lists and abbreviations with every way to get them wrong, and every other
\* token in shorter lines.  A failed assertion ends the process.
SPECIFICATION Spec
CONSTANTS
  Token = {"datum", "number", "(", ")", "quote", "#(", "#u8(", ".", "error", "eof"}
  MaxTokens = 7
  MaxMixed = 4
  MaxText = 16
INVARIANTS TypeOK ASTIsTheInput ErrorsAreExact OnlyVectorsAbort
PROPERTIES ParseAdvances ParseEnds
CHECK_DEADLOCK FALSE
