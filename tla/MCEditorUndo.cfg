CONSTANTS
  Node = {n1, n2, n3, n4}
  NoNode = NoNode
  MaxSeq = 7
  Levels = {0, 1, 2, 3}
  Text = {a, b}
  NoText = NoText
  Garbage = Garbage
  WarmCap = 1
  KeyCap = 1
  KeyInterval = 2
  MaxDepth = 2
SPECIFICATION EditorSpec
SYMMETRY Symmetry
CONSTRAINT Followed
PROPERTIES GroupIsOneStep IdleGroupKeepsStates OnlyTipsChange
