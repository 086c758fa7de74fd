CONSTANTS
  Tree <- MCTree
  Typed <- MCTyped
  RootName = 5
  MaxTxns = 2
  Faults = {0, 1, 2}
SPECIFICATION Spec
CONSTRAINT Careful
INVARIANT DiskFollowsBuffer
PROPERTIES NothingLost UndoRedoInverse
CHECK_DEADLOCK FALSE
