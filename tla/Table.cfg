\* Few keys and small arrays: collisions, tombstones, growth, collections.
SPECIFICATION Spec
CONSTANTS
  Key = {a, b, c, d}
  Val = {nil, true}
  Nil = nil
  True = true
  NoKey = noKey
  Absent = absent
  Hash = {0, 3}
  MinCapacity = 4
  MaxCapacity = 8
INVARIANTS TypeOK CountIsUsed KeysAreFound ProbesEnd DeadKeysLeave
PROPERTIES ImplementsSymbolMap
SYMMETRY Keys
