SPECIFICATION FairSpec
CONSTANTS
  Files <- MCFiles
  PathOf <- MCPathOf
  Bytes <- MCBytes
  Imports <- MCImports
  Nodes <- MCNodes
  SourceNodes <- MCSourceNodes
  Links <- MCLinks
  ExcludedNames <- MCExcludedNames
  PathsInOrder <- MCPathsInOrder
  ConfigSize <- MCConfigSize
  Selections <- MCSelections
  Growth = 1
  External = External
  Missing = Missing
  MaxFiles = 4
  MaxEntries = 27
  MaxConfigs = 6
  MaxDepth = 3
  MaxConfigBytes = 7
  MaxRequests = 5
  MaxSourceBytes = 3
  MaxProjectBytes = 6
  SessionMaxSources = 3
  WaveSize = 2
  MaxRemovals = 1
INVARIANTS
  BudgetsHold
  CompleteIsClosed
  SelectionIsExact
  DiagnosticsAreEarned
PROPERTIES
  EveryLoadReturns
