\* The index of a constant, as the header promises it.
SPECIFICATION Spec
CONSTANTS
  Value = {v}
  Line = {1, 2}
  Base = 2
  MaxCode = 8
  MaxConstants = 2
INVARIANT ConstantIsAtIndex
