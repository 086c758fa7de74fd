CONSTANTS
  Pid = {p0, p1, p2}
  MaxStarts = 2
  File = {f}
  NoName = NoName
  MaxSlots = 2
  MaxText = 3
  MaxClock = 1
SPECIFICATION Spec
INVARIANTS OrphanRecoveredOnce SyncedWorkIsFindable
PROPERTIES RecoverySparesTheLive RecoveryNeverGoesBack
SYMMETRY Symmetry
CONSTRAINT Unshared
CHECK_DEADLOCK FALSE
