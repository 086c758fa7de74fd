CONSTANTS
  MaxBuffers = 2
  File = {f, g}
  MaxSpawn = 2
  MaxEdit = 2
  MaxReq = 1
  MaxKeys = 4
SPECIFICATION Spec
ACTION_CONSTRAINT FirstFile
INVARIANTS DocumentsInSync ViewsAgree NoServerLeaks
PROPERTIES DocumentProtocol RequestsResolve
CHECK_DEADLOCK FALSE
