SPECIFICATION Spec
CONSTANTS
  MaxChildren = 4
  MaxDepth = 3
  MaxArgumentIndex = 1
  MaxGroups = 1
  MaxPredicates = 2
  MaxSources = 2
  MaxRoots = 3
  EvidenceLimit = 2
  MaxCalls = 5
  GlobalObjects <- MCGlobalObjects
  GlobalMembers <- MCGlobalMembers
  Programs <- MCPrograms
  Selections <- MCSelections
  Openers <- MCOpeners
  Arguments <- MCArguments
  Subjects <- MCSubjects
  Lifecycles <- MCLifecycles
  AggregateSymbol <- Go
  Texts <- MCTexts
INVARIANTS
  ReportIsExact
  RefusalsAreJust
CHECK_DEADLOCK FALSE
