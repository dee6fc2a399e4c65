SPECIFICATION Spec
CONSTANTS
  Obj = {o1, o2, o3, o4, o5}
  Nil = Nil
  Absent = Absent
  Types = {"SYMBOL", "NATIVE", "SYNTAX", "PAIR", "VECTOR"}
  MaxStack = 1
  MaxElements = 1
  MaxFrames = 0
  MaxCompilers = 0
  UpvalueCount = 0
SYMMETRY Symmetry
INVARIANTS LocalsAreProtected
PROPERTIES NothingFreedWhileOff ImplementsManagedHeap
