SPECIFICATION FairSpec
CONSTANTS
  Paths <- MCPaths
  Keys <- MCKeys
  Contents <- MCContents
  Fingerprint <- MCFingerprint
  Size <- MCSize
  ParseFails <- MCParseFails
  Occurrences <- MCOccurrences
  WorkerCounts <- MCWorkerCounts
  MaxEntries = 1
  MaxSources = 3
  MaxSourceBytes = 4
  MaxRequests = 2
  MaxArguments = 2
  External = External
  Invalid = Invalid
  ParseFailed = ParseFailed
  Miss = Miss
INVARIANTS
  AdmissionBounded
  OutcomesFaithful
  RequestsHandedOver
  ReportDeterministic
PROPERTIES
  RestIsPickedUp
  EveryCallReturns
