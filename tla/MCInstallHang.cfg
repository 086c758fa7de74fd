CONSTANTS
  Tool = {t1, t2}
  NoTool = NoTool
  Worker = {w1}
  Handle = {h1, h2, h3}
  NoHandle = NoHandle
  ChanCap = 2
  JobCap = 1
  MaxProgress = 3
SPECIFICATION PoolSpec
PROPERTY InstallReturns
CHECK_DEADLOCK FALSE
