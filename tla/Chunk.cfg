\* Two lines and bytes of one bit: runs, and indices that need three bytes.
SPECIFICATION Spec
CONSTANTS
  Value = {v}
  Line = {1, 2}
  Base = 2
  MaxCode = 8
  MaxConstants = 2
INVARIANTS TypeOK LinesAreKept IndexIsRead
