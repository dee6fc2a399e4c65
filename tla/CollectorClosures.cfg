\* A script that makes closures of its one function and calls them.  The model
\* ends where the interpreter uses what was freed.
SPECIFICATION SpecOfRunning
CONSTANTS
  Obj = {o1, o2, o3, o4, o5}
  Nil = Nil
  Absent = Absent
  Types = {"CLOSURE", "UPVALUE"}
  MaxStack = 5
  MaxElements = 1
  MaxFrames = 2
  MaxCompilers = 0
  UpvalueCount = 1
SYMMETRY SymmetryOfRunning
INVARIANTS TypeOK TriColour NoDangling OnlyLeftVariablesDangle
PROPERTIES ManagesTheRest
CHECK_DEADLOCK FALSE
