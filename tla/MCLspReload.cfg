CONSTANTS
  MaxBuffers = 1
  File = {f}
  MaxSpawn = 1
  MaxEdit = 2
  MaxReq = 1
  MaxKeys = 3
SPECIFICATION Spec
INVARIANT EditsFit
CHECK_DEADLOCK FALSE
