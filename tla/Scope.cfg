SPECIFICATION ReferenceSpec
CONSTANTS
  Programs <- MCPrograms
  AlternativeLimit = 2
  MaxCallDepth = 2
INVARIANTS ResolutionCoversRuns LookupIsFaithful ParameterAliasesAgree
CHECK_DEADLOCK FALSE
