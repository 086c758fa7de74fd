CONSTANTS
  Node = {n1, n2, n3, n4, n5}
  NoNode = NoNode
  MaxSeq = 6
  Levels = {0, 1, 2}
SPECIFICATION ArenaSpec
SYMMETRY Symmetry
INVARIANTS IsTree PathExact RedoRetracesPath RedoReachable
PROPERTIES CapSparesUndoLine PushKeepsBranches CapReached
