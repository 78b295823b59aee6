CONSTANTS
  ExtraHeaders = {}
  Statuses <- MCStatuses
  DebugStrings <- MCSpeaking
  MaxLen = 3
  MaxReads = 2
  WriteCap = 2
SPECIFICATION Spec
INVARIANT LeakFree
