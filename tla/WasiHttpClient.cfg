CONSTANTS
  ExtraHeaders = {}
  Statuses <- MCStatuses
  DebugStrings <- MCSpeaking
  MaxLen = 3
  MaxReads = 2
  WriteCap = 2
SPECIFICATION FairSpec
INVARIANTS
  NoTrap
  HandlesOwned
  NoSilentTruncation
  UploadWhole
  EarlyFailureUnsent
  WireHeaders
  StatusReported
PROPERTIES
  DeliveredOnConsent
  ImplementsContract
  CallReturns
