CONSTANTS
  MaxLen = 3
  MaxFileSize = 2
  ServerVersion = 1
  ClientVersions = {1, 2}
  BufCap = 1
  WireCap = 2
  MaxChanges = 1
  Circumstances = {}
SPECIFICATION Spec
INVARIANTS
  MaximumRespected
