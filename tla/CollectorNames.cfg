SPECIFICATION Spec
CONSTANTS
  Obj = {o1, o2, o3}
  Nil = Nil
  Absent = Absent
  Types = {"SYMBOL", "FUNCTION", "CLOSURE"}
  MaxStack = 3
  MaxElements = 1
  MaxFrames = 2
  MaxCompilers = 1
  UpvalueCount = 0
SYMMETRY Symmetry
PROPERTIES ImplementsManagedHeap CollectionAdvances
