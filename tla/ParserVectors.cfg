\* The assertion on source spans, with a vector in the line.
SPECIFICATION Spec
CONSTANTS
  Token = {"datum", "number", "(", "#(", ")", "eof"}
  MaxTokens = 4
  MaxMixed = 4
  MaxText = 10
INVARIANT SpansGoForward
CHECK_DEADLOCK FALSE
