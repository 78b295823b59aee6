CONSTANTS
  ExtraHeaders = {}
  Statuses <- MCStatuses
  DebugStrings <- MCSilent
  MaxLen = 3
  MaxReads = 2
  WriteCap = 2
SPECIFICATION Spec
INVARIANT NoSilentTruncation
