\* Every short source, and longer ones of comments, numbers and literals.
SPECIFICATION Spec
CONSTANTS
  Sources <- MCSources
INVARIANTS TypeOK LinesAreCounted NumbersAreTokens
PROPERTIES CommentsEnd StaysInSource EveryStepAdvances GetsToTheEnd
CHECK_DEADLOCK FALSE
