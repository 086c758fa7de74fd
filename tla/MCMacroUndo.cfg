CONSTANTS
  Node = {n1, n2, n3, n4}
  NoNode = NoNode
  MaxSeq = 4
  Levels = {0}
  Text = {a, b}
  NoText = NoText
  Garbage = Garbage
  WarmCap = 1
  KeyCap = 1
  KeyInterval = 2
  MaxDepth = 1
SPECIFICATION EditorSpec
SYMMETRY Symmetry
CONSTRAINT NoInsert
INVARIANT CacheIsPure
