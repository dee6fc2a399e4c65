\* A stack that grows once, closures that share variables, and calls up to the
\* limit of frames.  The process may end, or come to grief over a freed stack.
SPECIFICATION Spec
CONSTANTS
  Constant = {a}
  Name = {"clock", "x"}
  Defined = {"clock"}
  Junk = junk
  Absent = absent
  FRAMES_MAX = 3
  MinCapacity = 2
  MaxCapacity = 4
  MaxClosures = 3
  Arity <- OneWithAParameter
  MaxUpvalues = 2
VIEW View
INVARIANTS TypeOK FramesAreStacked UpvaluesHoldTheirVariables
INVARIANTS OpenUpvaluesAreInOrder OnlyFreedStacksAreFatal
CHECK_DEADLOCK FALSE
