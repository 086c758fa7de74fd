CONSTANTS
  Tree <- MCTree
  Typed <- MCTyped
  RootName = 5
  MaxTxns = 1
  Faults = {0}
SPECIFICATION Spec
INVARIANT NoContentDestroyed
CHECK_DEADLOCK FALSE
