\* Vectors that can contain themselves, collected when the counter says so.
SPECIFICATION AccountingSpec
CONSTANTS
  Obj = {o1, o2, o3}
  Nil = Nil
  Absent = Absent
  Types = {"VECTOR", "SYNTAX"}
  MaxStack = 2
  MaxElements = 2
  MaxFrames = 0
  MaxCompilers = 0
  UpvalueCount = 0
  DEBUG_STRESS_GC = FALSE
  Size <- Sizes
  ValueSize = 1
  FirstLimit = 3
  MinCapacity = 1
  MaxBytes = 6
INVARIANTS MarksAreClear BytesAreCounted
PROPERTIES CollectionEnds
