CONSTANTS
  Node = {n1, n2, n3, n4}
  NoNode = NoNode
  MaxSeq = 5
  Levels = {2}
  Text = {a, b}
  NoText = NoText
  Garbage = Garbage
  WarmCap = 1
  KeyCap = 1
  KeyInterval = 2
SPECIFICATION StoreSpec
SYMMETRY Symmetry
INVARIANTS CacheIsPure CacheIsBounded
PROPERTIES ImplementsTree
