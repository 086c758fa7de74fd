CONSTANTS
  Tree <- MCTree
  Typed <- MCTyped
  RootName = 5
  MaxTxns = 1
  Faults = {1}
SPECIFICATION Spec
PROPERTY NeverClobbers
CHECK_DEADLOCK FALSE
