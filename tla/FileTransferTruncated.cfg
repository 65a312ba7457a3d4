CONSTANTS
  MaxLen = 2
  MaxFileSize = 2
  ServerVersion = 1
  ClientVersions = {1, 2}
  BufCap = 1
  WireCap = 2
  MaxChanges = 0
  Circumstances = {"io"}
SPECIFICATION Spec
INVARIANTS
  ReceivesTheFile
