SPECIFICATION ReferenceSpec
CONSTANTS
  Programs <- MCPrograms
  AlternativeLimit = 2
  MaxCallDepth = 2
CHECK_DEADLOCK FALSE
INVARIANT DarkIsUnreached
