CONSTANTS
  MaxBuffers = 2
  File = {f}
  MaxSpawn = 2
  MaxEdit = 1
  MaxReq = 1
  MaxKeys = 4
SPECIFICATION Spec
PROPERTY ExitRemovesTheDead
CHECK_DEADLOCK FALSE
