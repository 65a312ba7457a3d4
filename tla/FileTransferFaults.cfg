CONSTANTS
  MaxLen = 5
  MaxFileSize = 4
  ServerVersion = 1
  ClientVersions = {0, 1, 2}
  BufCap = 2
  WireCap = 2
  MaxChanges = 1
  Circumstances = {"io", "death", "newer", "debug"}
SPECIFICATION FairSpec
INVARIANTS
  NeverMisdecoded
  OnlyLoggingPanics
  ContentNeedsConsent
  NoGapInTransfer
  SuccessIsComplete
PROPERTIES
  SessionEnds
  WantedFileArrives
