CONSTANTS
  Tool = {t1, t2}
  NoTool = NoTool
  Worker = {w1, w2}
  Handle = {h1, h2, h3}
  NoHandle = NoHandle
  ChanCap = 3
  JobCap = 1
  MaxProgress = 1
SPECIFICATION PoolSpec
INVARIANTS DedupExact NoHandleOrphaned
PROPERTY HandleResolves
